---------------------------- MODULE AgentMonitor ----------------------------
(***************************************************************************)
(* The agent's monitor loop and the game it watches.                       *)
(*                                                                         *)
(* One iteration of monitor looks at the game's log, the launcher's log,   *)
(* the game process, the Windows helper, the probe files and the clock, in *)
(* this order, each at a moment of its own: the game, its launcher and the *)
(* player go on in between.  A log is known by its number; pollGameLog     *)
(* stats it (and may start a run, which takes as long as the uploads of    *)
(* the previous run) before it opens it.  A line is a number: lines up to  *)
(* log.lines are recognized ones, the line after them, when log.closed, is *)
(* "log file closed".  How queued events are uploaded is in Uplink.        *)
(***************************************************************************)
EXTENDS Integers, FiniteSets

CONSTANTS
  MaxLogs,     \* bound: game logs
  MaxLines,    \* bound: recognized lines of a log
  MaxLaunches, \* bound: lines of the launcher's log
  MaxStops,    \* bound: exits of the game
  MaxRestarts, \* bound: restarts of the agent
  MaxMisses,   \* bound: looks at /proc that fail while the game runs
  MaxTurns     \* bound: of these four together

ASSUME AgentMonitorAssumption ==
  {MaxLogs, MaxLines, MaxLaunches, MaxStops, MaxRestarts, MaxMisses, MaxTurns} \subseteq Nat

VARIABLES
  game,        \* the game's process exists
  log,         \* the game log: its number (0: none), content, whether it is recent, and its game
  launches,    \* lines of the launcher's log, each with an ACH value
  stops,       \* exits of the game so far
  pc,          \* where monitor is
  run,         \* a.runID; 0 stands for ""
  active,      \* a.active
  runs,        \* runs begun so far
  known,       \* a.knownFile, by number; 0 stands for nil
  offset,      \* a.offset, in lines
  launchRead,  \* a.launcherOffset, in lines; -1 while a.launcherFile is nil
  latestACH,   \* a.latestACH: the line it is from, 0 when there was none
  achFresh,    \* a.latestACHSeen is at most five minutes ago
  processKnown,\* a.processKnown
  gameRunning, \* a.gameRunning
  probeDone,   \* a.platformProbeDone
  queued,      \* the events queued so far that come from the game, its log or its launcher
  ends,        \* ends[r]: session_end events queued for run r
  helped,      \* the helper's successes since the agent last saw the game stop
  raced,       \* a log was replaced between the stat and the read of a poll
  restarts,    \* restarts of the agent so far
  misses,      \* looks at /proc that failed so far
  joined       \* an old log was first seen when the run had ended

worldVars   == <<game, log, launches, stops>>
logVars     == <<known, offset>>
achVars     == <<launchRead, latestACH>>
processVars == <<processKnown, gameRunning>>
runVars     == <<run, active, runs, queued, ends>>
checkVars   == <<helped, raced, restarts, misses, joined>>
vars == <<worldVars, pc, runVars, logVars, achVars, achFresh, processVars, probeDone, checkVars>>

\* An agent begins a run for each log at most, and one for the probes.
Runs == 1 .. (MaxRestarts + 1) * (MaxLogs + 1)

Size == IF log.closed THEN log.lines + 1 ELSE log.lines

\* An event of run r: its kind, and the file and line or the state it is from.
Item(r, kind, file, no) == [run |-> r, kind |-> kind, file |-> file, no |-> no]

Kinds == {"line", "closed", "ach", "process"}

Init ==
  /\ game = FALSE
  /\ log = [no |-> 0, lines |-> 0, closed |-> FALSE, recent |-> FALSE, game |-> 0]
  /\ launches = 0
  /\ stops = 0
  /\ pc = "log"
  /\ run = 0
  /\ active = FALSE
  /\ runs = 0
  /\ queued = {}
  /\ ends = [r \in Runs |-> 0]
  /\ known = 0
  /\ offset = 0
  /\ launchRead = -1
  /\ latestACH = 0
  /\ achFresh = FALSE
  /\ processKnown = FALSE
  /\ gameRunning = FALSE
  /\ probeDone = FALSE
  /\ helped = 0
  /\ raced = FALSE
  /\ restarts = 0
  /\ misses = 0
  /\ joined = FALSE

-----------------------------------------------------------------------------
\* The world: the player, the launcher, the game and the clock.

MayTurn == launches + stops + restarts + misses < MaxTurns

Launches ==
  /\ launches < MaxLaunches /\ MayTurn
  /\ launches' = launches + 1
  /\ UNCHANGED <<game, log, stops, pc, runVars, logVars, achVars, achFresh,
                 processVars, probeDone, checkVars>>

GameStarts ==
  /\ ~game
  /\ game' = TRUE
  /\ UNCHANGED <<log, launches, stops, pc, runVars, logVars, achVars, achFresh,
                 processVars, probeDone, checkVars>>

\* The game exits, or crashes without closing its log.
GameStops ==
  /\ game
  /\ stops < MaxStops /\ MayTurn
  /\ game' = FALSE
  /\ stops' = stops + 1
  /\ UNCHANGED <<log, launches, pc, runVars, logVars, achVars, achFresh,
                 processVars, probeDone, checkVars>>

\* A game sets the previous game's log aside.
LogReplaced ==
  /\ game
  /\ log.no = 0 \/ log.game # stops
  /\ log.no < MaxLogs
  /\ log' = [no |-> log.no + 1, lines |-> 0, closed |-> FALSE, recent |-> TRUE, game |-> stops]
  /\ raced' = (raced \/ pc = "read")
  /\ UNCHANGED <<game, launches, stops, pc, runVars, logVars, achVars, achFresh,
                 processVars, probeDone, helped, restarts, misses, joined>>

LogWritten ==
  /\ game
  /\ log.no # 0
  /\ ~log.closed
  /\ \E isLast \in BOOLEAN :
       /\ isLast \/ log.lines < MaxLines
       /\ log' = [no |-> log.no, lines |-> IF isLast THEN log.lines ELSE log.lines + 1,
                  closed |-> isLast, recent |-> TRUE, game |-> log.game]
  /\ UNCHANGED <<game, launches, stops, pc, runVars, logVars, achVars, achFresh,
                 processVars, probeDone, checkVars>>

\* 30 seconds without a line, five minutes since the last ACH.
TimePasses ==
  /\ log' = [log EXCEPT !.recent = FALSE]
  /\ achFresh' \in {achFresh, FALSE}
  /\ UNCHANGED <<game, launches, stops, pc, runVars, logVars, achVars,
                 processVars, probeDone, checkVars>>

World == Launches \/ GameStarts \/ GameStops \/ LogReplaced \/ LogWritten \/ TimePasses

-----------------------------------------------------------------------------
\* Runs.

\* What startRun queues for a new run.
Opening(r) ==
  (IF gameRunning THEN {Item(r, "process", 0, 1)} ELSE {})
    \cup (IF latestACH # 0 /\ achFresh THEN {Item(r, "ach", 0, latestACH)} ELSE {})

\* Mutant of StartRun: only a run of a game that was seen is active.
StartRunIfSeen(items, isClosing) ==
  /\ runs' = runs + 1
  /\ run' = runs + 1
  /\ active' = (gameRunning /\ ~isClosing)
  /\ ends' = [r \in Runs |->
       IF (r = run /\ active) \/ (r = runs + 1 /\ isClosing) THEN ends[r] + 1 ELSE ends[r]]
  /\ queued' = queued \cup Opening(runs + 1) \cup items

\* startRun, after which items of the new run are queued, a closing line last.
StartRun(items, isClosing) ==
  /\ runs' = runs + 1
  /\ run' = runs + 1
  /\ active' = ~isClosing
  /\ ends' = [r \in Runs |->
       IF (r = run /\ active) \/ (r = runs + 1 /\ isClosing) THEN ends[r] + 1 ELSE ends[r]]
  /\ queued' = queued \cup Opening(runs + 1) \cup items

\* Mutant of Add: a run ends again though it is no longer active.
AddAnyEnd(items, isEnd) ==
  /\ queued' = queued \cup items
  /\ active' = (active /\ ~isEnd)
  /\ ends' = IF isEnd THEN [ends EXCEPT ![run] = @ + 1] ELSE ends
  /\ UNCHANGED <<run, runs>>

\* items are queued for the current run; an active run may end with them.
Add(items, isEnd) ==
  /\ queued' = queued \cup items
  /\ active' = (active /\ ~isEnd)
  /\ ends' = IF isEnd /\ active THEN [ends EXCEPT ![run] = @ + 1] ELSE ends
  /\ UNCHANGED <<run, runs>>

\* Mutant of Target: the event is made out before the run is started.
TargetUnstarted == run

\* The run the next event belongs to, when events start a run if there is none.
Target == IF run = 0 THEN runs + 1 ELSE run

StartOrAdd(items, isEnd) ==
  IF run = 0 THEN StartRun(items, isEnd) ELSE Add(items, isEnd)

-----------------------------------------------------------------------------
\* pollGameLog

\* Mutant of StatLog: a replaced log goes on under the same run.
StatLogSameRun ==
  /\ pc = "log"
  /\ log.no # 0
  /\ LET isRecent   == known = 0 /\ log.recent
         isReplaced == known # 0 /\ known # log.no
     IN  /\ known' = log.no
         /\ offset' = IF isReplaced \/ isRecent THEN 0
                      ELSE IF known = 0 THEN Size ELSE offset
         /\ IF isRecent THEN StartRun({}, FALSE) ELSE UNCHANGED runVars
  /\ joined' = (joined \/ (known = 0 /\ ~log.recent /\ run # 0 /\ ~active))
  /\ pc' = IF Size = offset' THEN "launcher" ELSE "read"
  /\ UNCHANGED <<worldVars, achVars, achFresh, processVars, probeDone, helped, raced, restarts, misses>>

\* The stat.  A first log is followed from its end unless it is recent; that
\* and a replaced log start a run.
StatLog ==
  /\ pc = "log"
  /\ log.no # 0
  /\ LET isRecent   == known = 0 /\ log.recent
         isReplaced == known # 0 /\ known # log.no
     IN  /\ known' = log.no
         /\ offset' = IF isReplaced \/ isRecent THEN 0
                      ELSE IF known = 0 THEN Size ELSE offset
         /\ IF isReplaced \/ isRecent
            THEN StartRun({}, FALSE)
            ELSE UNCHANGED runVars
  /\ joined' = (joined \/ (known = 0 /\ ~log.recent /\ run # 0 /\ ~active))
  /\ pc' = IF Size = offset' THEN "launcher" ELSE "read"
  /\ UNCHANGED <<worldVars, achVars, achFresh, processVars, probeDone, helped, raced, restarts, misses>>

NoLog ==
  /\ pc = "log"
  /\ log.no = 0
  /\ pc' = "launcher"
  /\ UNCHANGED <<worldVars, runVars, logVars, achVars, achFresh, processVars, probeDone, checkVars>>

\* The lines of the file that is there now, from a.offset on.
Unread == {n \in 1 .. MaxLines + 1 : offset < n /\ n <= Size}

LineItems(r) ==
  {Item(r, IF n <= log.lines THEN "line" ELSE "closed", log.no, n) : n \in Unread}

\* The read.
ReadLog ==
  /\ pc = "read"
  /\ IF Unread = {}
     THEN UNCHANGED runVars
     ELSE StartOrAdd(LineItems(Target), log.closed)
  /\ offset' = IF Unread = {} THEN offset ELSE Size
  /\ pc' = "launcher"
  /\ UNCHANGED <<worldVars, known, achVars, achFresh, processVars, probeDone, checkVars>>

-----------------------------------------------------------------------------
\* pollLauncherLog

\* Mutant of ReadLauncher: the line is kept for the next run only.
ReadLauncherLater ==
  /\ pc = "launcher"
  /\ launchRead < launches
  /\ launches # 0
  /\ latestACH' = launches
  /\ launchRead' = launches
  /\ achFresh' = TRUE
  /\ pc' = "process"
  /\ UNCHANGED <<worldVars, runVars, logVars, processVars, probeDone, checkVars>>

ReadLauncher ==
  /\ pc = "launcher"
  /\ launchRead < launches
  /\ launches # 0
  /\ latestACH' = launches
  /\ launchRead' = launches
  /\ achFresh' = TRUE
  /\ IF run # 0 /\ active
     THEN Add({Item(run, "ach", 0, n) : n \in (1 .. launches) \ (1 .. launchRead)}, FALSE)
     ELSE UNCHANGED runVars
  /\ pc' = "process"
  /\ UNCHANGED <<worldVars, logVars, processVars, probeDone, checkVars>>

\* Nothing new, or a log that has just been found and is not recent.
SkipLauncher ==
  /\ pc = "launcher"
  /\ launchRead \in {-1, launches}
  /\ launchRead' = launches
  /\ pc' = "process"
  /\ UNCHANGED <<worldVars, runVars, logVars, latestACH, achFresh, processVars, probeDone, checkVars>>

-----------------------------------------------------------------------------
\* pollGameProcess

\* Mutant of PollProcess: an exit is reported and does not end the run.
PollProcessOnly(isMissed) ==
  /\ pc = "process"
  /\ isMissed => game /\ misses < MaxMisses /\ MayTurn
  /\ misses' = IF isMissed THEN misses + 1 ELSE misses
  /\ LET isRunning == game /\ ~isMissed
         isChange  == processKnown /\ isRunning # gameRunning
     IN  /\ processKnown' = TRUE
         /\ gameRunning' = isRunning
         /\ probeDone' = (probeDone /\ ~(isChange /\ ~isRunning))
         /\ helped' = IF isChange /\ ~isRunning THEN 0 ELSE helped
         /\ IF run # 0 /\ (isChange \/ (~processKnown /\ isRunning))
            THEN Add({Item(run, "process", 0, IF isRunning THEN 1 ELSE 0)}, FALSE)
            ELSE UNCHANGED runVars
  /\ pc' = "helper"
  /\ UNCHANGED <<worldVars, logVars, achVars, achFresh, raced, restarts, joined>>

\* A look that fails, at /proc or at the game's command line, finds no game.
PollProcess(isMissed) ==
  /\ pc = "process"
  /\ isMissed => game /\ misses < MaxMisses /\ MayTurn
  /\ misses' = IF isMissed THEN misses + 1 ELSE misses
  /\ LET isRunning == game /\ ~isMissed
         isChange  == processKnown /\ isRunning # gameRunning
     IN  /\ processKnown' = TRUE
         /\ gameRunning' = isRunning
         /\ probeDone' = (probeDone /\ ~(isChange /\ ~isRunning))
         /\ helped' = IF isChange /\ ~isRunning THEN 0 ELSE helped
         /\ IF run # 0 /\ (isChange \/ (~processKnown /\ isRunning))
            THEN Add({Item(run, "process", 0, IF isRunning THEN 1 ELSE 0)}, ~isRunning)
            ELSE UNCHANGED runVars
  /\ pc' = "helper"
  /\ UNCHANGED <<worldVars, logVars, achVars, achFresh, raced, restarts, joined>>

-----------------------------------------------------------------------------
\* The Windows helper.

Wanted == ~gameRunning /\ ~probeDone

\* runWindowsPlatformProbe starts, five minutes after a failure at the earliest.
StartHelper ==
  /\ pc = "helper"
  /\ Wanted
  /\ pc' = "helping"
  /\ UNCHANGED <<worldVars, runVars, logVars, achVars, achFresh, processVars, probeDone, checkVars>>

SkipHelper ==
  /\ pc = "helper"
  /\ pc' = "probe"
  /\ UNCHANGED <<worldVars, runVars, logVars, achVars, achFresh, processVars, probeDone, checkVars>>

\* Mutant of HelperReports: platformProbeDone is not set.
HelperReportsAgain ==
  /\ pc = "helping"
  /\ helped' = helped + 1
  /\ pc' = "probe"
  /\ UNCHANGED <<worldVars, runVars, logVars, achVars, achFresh, processVars, probeDone, raced, restarts, misses, joined>>

HelperReports ==
  /\ pc = "helping"
  /\ probeDone' = TRUE
  /\ helped' = helped + 1
  /\ pc' = "probe"
  /\ UNCHANGED <<worldVars, runVars, logVars, achVars, achFresh, processVars, raced, restarts, misses, joined>>

HelperFails ==
  /\ pc = "helping"
  /\ pc' = "probe"
  /\ UNCHANGED <<worldVars, runVars, logVars, achVars, achFresh, processVars, probeDone, checkVars>>

-----------------------------------------------------------------------------
\* pollProbe and pollProtonLog, which find an approved event or nothing; then
\* the heartbeat and flush.
PollProbe(isFound) ==
  /\ pc = "probe"
  /\ IF isFound /\ run = 0 THEN StartRun({}, FALSE) ELSE UNCHANGED runVars
  /\ pc' = "log"
  /\ UNCHANGED <<worldVars, logVars, achVars, achFresh, processVars, probeDone, checkVars>>

\* The agent dies, or replaces itself by an update; a new one is started.
Restart ==
  /\ restarts < MaxRestarts /\ MayTurn
  /\ restarts' = restarts + 1
  /\ pc' = "log"
  /\ run' = 0
  /\ active' = FALSE
  /\ known' = 0
  /\ offset' = 0
  /\ launchRead' = -1
  /\ latestACH' = 0
  /\ processKnown' = FALSE
  /\ gameRunning' = FALSE
  /\ probeDone' = FALSE
  /\ helped' = 0
  /\ UNCHANGED <<worldVars, runs, queued, ends, achFresh, raced, misses, joined>>

Loop ==
  \/ StatLog \/ NoLog \/ ReadLog
  \/ ReadLauncher \/ SkipLauncher
  \/ \E isMissed \in BOOLEAN : PollProcess(isMissed)
  \/ StartHelper \/ SkipHelper \/ HelperReports \/ HelperFails
  \/ \E isFound \in BOOLEAN : PollProbe(isFound)

Next == World \/ Loop \/ Restart

Spec == Init /\ [][Next]_vars

\* monitor's loop does not stop: every wait in it has a timeout.
FairSpec == Spec /\ WF_vars(Loop)

-----------------------------------------------------------------------------
(***************************************************************************)
(* Properties.                                                             *)
(***************************************************************************)

\* Every variable has its type.
TypeOK ==
  /\ game \in BOOLEAN
  /\ log \in [no : 0 .. MaxLogs, lines : 0 .. MaxLines, closed : BOOLEAN, recent : BOOLEAN, game : 0 .. MaxStops]
  /\ launches \in 0 .. MaxLaunches
  /\ stops \in 0 .. MaxStops
  /\ pc \in {"log", "read", "launcher", "process", "helper", "helping", "probe"}
  /\ runs \in {0} \cup Runs
  /\ run \in 0 .. runs
  /\ {active, achFresh, processKnown, gameRunning, probeDone, raced, joined} \subseteq BOOLEAN
  /\ queued \subseteq [run : 1 .. runs, kind : Kinds, file : 0 .. log.no, no : Nat]
  /\ ends \in [Runs -> Nat]
  /\ known \in 0 .. log.no
  /\ offset \in 0 .. MaxLines + 1
  /\ launchRead \in -1 .. launches
  /\ latestACH \in 0 .. launches
  /\ helped \in Nat
  /\ restarts \in 0 .. MaxRestarts
  /\ misses \in 0 .. MaxMisses

Lines == {item \in queued : item.kind \in {"line", "closed"}}

\* A run holds the lines of one game log, and the agent files a log under one
\* run, unless a log is replaced between a poll's stat and its read (or the
\* agent is restarted and reads the log again).
OneLogPerRun ==
  ~raced =>
    \A e, f \in Lines :
      /\ e.run = f.run => e.file = f.file
      /\ restarts = 0 /\ e.file = f.file => e.run = f.run

\* Whatever notices the end first - the log's last line, the process, or a new
\* log - a run's session_end is queued once.
EndsOnce ==
  \A r \in Runs : ends[r] <= 1

\* A run in which the agent saw the game running does not outlast it: once the
\* agent knows that the game is gone, no such run is active.
ActiveMeansRunning ==
  active /\ Item(run, "process", 0, 1) \in queued => gameRunning

\* The run that follows the log of the running game goes on until the log's last line: the
\* exit of an earlier game, the helper and the probes do not end it.  A failed look at /proc
\* does, after which nothing makes the run active again; and a log that is old when it is
\* first seen begins no run, so that a run the probes began, and an exit ended, goes on as it is.
GameIsFollowed ==
  game /\ run # 0 /\ known = log.no /\ log.game = stops /\ ~active =>
    \/ misses > 0
    \/ joined
    \/ \E item \in queued : item.run = run /\ item.kind = "closed"

\* An active run has the launcher's latest ACH value while it is fresh, whether
\* the launcher wrote it before the run began or during it.
ActiveRunHasAch ==
  run # 0 /\ active /\ latestACH # 0 /\ achFresh =>
    Item(run, "ach", 0, latestACH) \in queued

\* The helper succeeds at most once between two times the game is seen to stop.
HelperOncePerStop == helped <= 1

\* The invariant of runs and helper: types, one end for each run, no run without its game
\* and no game without its run, and one success of the helper per stop.
MonitorInv ==
  /\ TypeOK
  /\ EndsOnce
  /\ ActiveMeansRunning
  /\ GameIsFollowed
  /\ HelperOncePerStop

\* The exit of a game the agent saw ends its run, unless the game is back first.
ExitEndsRun ==
  (active /\ gameRunning /\ ~game) ~> (~active \/ game)
=============================================================================
