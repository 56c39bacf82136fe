-------------------------- MODULE AgentMonitorProofs --------------------------
(***************************************************************************)
(* Proofs about AgentMonitor, for every value of its constants.            *)
(***************************************************************************)
EXTENDS AgentMonitor, TLAPS

\* The runs an agent can begin before it has been restarted for the n-th time.
Life(n) == n * (MaxLogs + 1)

\* Of an agent's runs one is the first, and the others are of new logs.
RunsCounted ==
  /\ runs <= Life(restarts) + known + 1
  /\ run = 0 => runs <= Life(restarts)

\* A run to come, and a run that is active, has not ended.
EndsCounted ==
  /\ \A r \in Runs : r > runs => ends[r] = 0
  /\ active => run # 0 /\ ends[run] = 0

\* The log is of a game that has stopped, unless the game runs - or has never
\* run, and then the agent has seen nothing of it.
GamesCounted ==
  /\ gameRunning => processKnown
  /\ log.game <= stops
  /\ ~game => \/ log.game < stops
              \/ /\ stops = 0 /\ log.no = 0 /\ log.lines = 0 /\ ~log.closed
                 /\ ~gameRunning /\ (run # 0 => active)

\* The helper is not started again after a success.
HelperCounted ==
  /\ helped # 0 => probeDone
  /\ pc = "helping" => helped = 0

\* A run's lines are of the file that is followed, and that file's lines are of
\* the current run.
LinesFiled ==
  /\ pc = "read" => log.no # 0 /\ (~raced => known = log.no)
  /\ \A item \in Lines : item.file # 0
  /\ ~raced => \A item \in Lines : item.run = run => item.file = known
  /\ ~raced /\ restarts = 0 =>
       \A item \in Lines : item.file <= known /\ (item.file = known => item.run = run)

\* The inductive invariant.
LoopInv ==
  /\ MonitorInv
  /\ RunsCounted
  /\ EndsCounted
  /\ GamesCounted
  /\ HelperCounted
  /\ LinesFiled
  /\ OneLogPerRun
  /\ ActiveRunHasAch

-----------------------------------------------------------------------------
\* Life grows by the runs of one agent.
LEMMA LifeGrows ==
  ASSUME NEW n \in Nat
  PROVE  Life(n) \in Nat /\ Life(n + 1) = Life(n) + MaxLogs + 1
<1>1. MaxLogs \in Nat
  BY AgentMonitorAssumption DEF AgentMonitorAssumption
<1> QED BY <1>1 DEF Life

\* Fewer restarts, fewer runs.
LEMMA LifeMonotone ==
  ASSUME NEW m \in Nat, NEW n \in Nat, m <= n
  PROVE  Life(m) <= Life(n)
<1>1. MaxLogs \in Nat
  BY AgentMonitorAssumption DEF AgentMonitorAssumption
<1> DEFINE k == MaxLogs + 1
<1>2. k \in Nat
  BY <1>1
<1> HIDE DEF k
<1>3. m * k <= n * k
  <2>1. PICK d \in Nat : n = m + d
    <3>1. n - m \in Nat /\ n = m + (n - m)
      OBVIOUS
    <3> QED BY <3>1
  <2>2. n * k = m * k + d * k
    BY <2>1, <1>2
  <2>3. d * k \in Nat /\ m * k \in Nat
    BY <1>2
  <2> QED BY <2>2, <2>3
<1> QED BY <1>3 DEF Life, k

\* As long as the agents' logs are within their bound, so is another run.
LEMMA RunFits ==
  ASSUME NEW n \in 0 .. MaxRestarts, NEW r \in Nat, r <= Life(n) + MaxLogs
  PROVE  r + 1 \in Runs
<1>1. MaxLogs \in Nat /\ MaxRestarts \in Nat
  BY AgentMonitorAssumption DEF AgentMonitorAssumption
<1>2. n \in Nat /\ n <= MaxRestarts
  BY <1>1
<1>3. Life(n) <= Life(MaxRestarts) /\ Life(n) \in Nat
  BY <1>1, <1>2, LifeMonotone, LifeGrows
<1>4. Life(MaxRestarts + 1) = Life(MaxRestarts) + MaxLogs + 1 /\ Life(MaxRestarts) \in Nat
  BY <1>1, LifeGrows
<1>5. r + 1 <= Life(MaxRestarts + 1) /\ Life(MaxRestarts + 1) \in Nat
  BY <1>1, <1>3, <1>4
<1>6. Runs = 1 .. Life(MaxRestarts + 1)
  BY DEF Runs, Life
<1> QED BY <1>5, <1>6

\* What can be queued once r runs are begun and f logs are there.
Queueable(r, f) == [run : 1 .. r, kind : Kinds, file : 0 .. f, no : Nat]

\* More runs and files only add what may be queued.
LEMMA QueueableGrows ==
  ASSUME NEW r \in Nat, NEW s \in Nat, r <= s, NEW f \in Nat, NEW g \in Nat, f <= g
  PROVE  Queueable(r, f) \subseteq Queueable(s, g)
BY DEF Queueable

\* An item is what it was made of.
LEMMA ItemFields ==
  ASSUME NEW r, NEW k, NEW f, NEW n
  PROVE  /\ Item(r, k, f, n).run = r /\ Item(r, k, f, n).kind = k
         /\ Item(r, k, f, n).file = f /\ Item(r, k, f, n).no = n
         /\ \A s, g : r \in 1 .. s /\ k \in Kinds /\ f \in 0 .. g /\ n \in Nat
                        => Item(r, k, f, n) \in Queueable(s, g)
BY DEF Item, Queueable

\* Runs are numbered from 1 on.
LEMMA EarlierRuns ==
  ASSUME NEW r \in Runs
  PROVE  r \in Nat \ {0} /\ 1 .. r \subseteq Runs
<1>1. MaxLogs \in Nat /\ MaxRestarts \in Nat
  BY AgentMonitorAssumption DEF AgentMonitorAssumption
<1> DEFINE n == (MaxRestarts + 1) * (MaxLogs + 1)
<1>2. n \in Nat
  BY <1>1
<1>3. Runs = 1 .. n
  BY DEF Runs
<1> QED BY <1>2, <1>3

\* What is known of the variables.
LEMMA MonitorTypes ==
  ASSUME TypeOK
  PROVE  /\ MaxLogs \in Nat /\ MaxLines \in Nat /\ MaxRestarts \in Nat
         /\ game \in BOOLEAN
         /\ log.no \in 0 .. MaxLogs /\ log.no \in Nat
         /\ log.lines \in 0 .. MaxLines /\ log.lines \in Nat
         /\ log.closed \in BOOLEAN /\ log.recent \in BOOLEAN
         /\ log.game \in 0 .. MaxStops /\ log.game \in Nat
         /\ launches \in 0 .. MaxLaunches /\ launches \in Nat
         /\ stops \in 0 .. MaxStops /\ stops \in Nat
         /\ runs \in Nat /\ runs \in {0} \cup Runs
         /\ run \in 0 .. runs /\ run \in Nat
         /\ (run # 0 => run \in Runs)
         /\ active \in BOOLEAN /\ achFresh \in BOOLEAN /\ processKnown \in BOOLEAN
         /\ gameRunning \in BOOLEAN /\ probeDone \in BOOLEAN
         /\ raced \in BOOLEAN /\ joined \in BOOLEAN
         /\ queued \subseteq Queueable(runs, log.no)
         /\ ends \in [Runs -> Nat]
         /\ known \in 0 .. log.no /\ known \in Nat
         /\ offset \in 0 .. MaxLines + 1 /\ offset \in Nat
         /\ launchRead \in -1 .. launches /\ launchRead \in Int
         /\ latestACH \in 0 .. launches /\ latestACH \in Nat
         /\ helped \in Nat
         /\ restarts \in 0 .. MaxRestarts /\ restarts \in Nat
         /\ misses \in 0 .. MaxMisses /\ misses \in Nat
<1>1. /\ MaxLogs \in Nat /\ MaxLines \in Nat /\ MaxLaunches \in Nat /\ MaxStops \in Nat
      /\ MaxRestarts \in Nat /\ MaxMisses \in Nat
  BY AgentMonitorAssumption DEF AgentMonitorAssumption
<1>2. /\ log.no \in 0 .. MaxLogs /\ log.lines \in 0 .. MaxLines /\ log.closed \in BOOLEAN
      /\ log.recent \in BOOLEAN /\ log.game \in 0 .. MaxStops
  BY DEF TypeOK
<1>3. /\ active \in BOOLEAN /\ achFresh \in BOOLEAN /\ processKnown \in BOOLEAN
      /\ gameRunning \in BOOLEAN /\ probeDone \in BOOLEAN
      /\ raced \in BOOLEAN /\ joined \in BOOLEAN /\ game \in BOOLEAN
  BY DEF TypeOK
<1>4. runs \in Nat /\ runs \in {0} \cup Runs
  <2>1. Runs \subseteq Nat
    BY DEF Runs
  <2> QED BY <2>1 DEF TypeOK
<1>5. run \in 0 .. runs /\ run \in Nat /\ (run # 0 => run \in Runs)
  <2>1. run \in 0 .. runs
    BY DEF TypeOK
  <2>2. run # 0 => run \in 1 .. runs /\ runs \in Runs
    BY <2>1, <1>4
  <2> QED BY <2>1, <2>2, <1>4, EarlierRuns
<1>6. queued \subseteq Queueable(runs, log.no)
  BY DEF TypeOK, Queueable
<1>7. /\ launches \in 0 .. MaxLaunches /\ stops \in 0 .. MaxStops /\ ends \in [Runs -> Nat]
      /\ known \in 0 .. log.no /\ offset \in 0 .. MaxLines + 1 /\ launchRead \in -1 .. launches
      /\ latestACH \in 0 .. launches /\ helped \in Nat /\ restarts \in 0 .. MaxRestarts
      /\ misses \in 0 .. MaxMisses
  BY DEF TypeOK
<1>8. /\ launches \in Nat /\ stops \in Nat /\ log.no \in Nat /\ log.lines \in Nat
      /\ log.game \in Nat /\ restarts \in Nat /\ misses \in Nat /\ offset \in Nat
  BY <1>1, <1>2, <1>7
<1>9. known \in Nat /\ launchRead \in Int /\ latestACH \in Nat
  BY <1>7, <1>8
<1> QED BY <1>1, <1>2, <1>3, <1>4, <1>5, <1>6, <1>7, <1>8, <1>9

-----------------------------------------------------------------------------
\* What startRun does to the runs, their ends and their events.
LEMMA StartRunKeeps ==
  ASSUME LoopInv, runs + 1 \in Runs, NEW items, NEW isClosing \in BOOLEAN,
         items \subseteq Queueable(runs + 1, log.no),
         \A item \in items : item.run = runs + 1 /\ item.kind \in {"line", "closed"},
         StartRun(items, isClosing)
  PROVE  /\ runs' = runs + 1 /\ run' = runs + 1
         /\ active' = ~isClosing
         /\ queued' \subseteq Queueable(runs + 1, log.no)
         /\ ends' \in [Runs -> Nat]
         /\ EndsOnce' /\ EndsCounted'
         /\ Item(run', "process", 0, 1) \in queued' => gameRunning
         /\ latestACH # 0 /\ achFresh => Item(run', "ach", 0, latestACH) \in queued'
         /\ items \subseteq queued'
         /\ Lines' = Lines \cup items
<1> DEFINE new == runs + 1
<1>1. TypeOK
  BY DEF LoopInv, MonitorInv
<1>2. /\ runs \in Nat /\ run \in 0 .. runs /\ run \in Nat /\ active \in BOOLEAN
      /\ log.no \in Nat /\ latestACH \in Nat /\ ends \in [Runs -> Nat]
      /\ queued \subseteq Queueable(runs, log.no)
  BY <1>1, MonitorTypes
<1>3. /\ runs' = new /\ run' = new /\ active' = ~isClosing
      /\ queued' = queued \cup Opening(new) \cup items
      /\ ends' = [r \in Runs |->
           IF (r = run /\ active) \/ (r = new /\ isClosing) THEN ends[r] + 1 ELSE ends[r]]
  BY DEF StartRun
<1>4. \A item \in Opening(new) :
        /\ item \in Queueable(new, log.no)
        /\ item.kind \in {"process", "ach"}
  <2>1. Item(new, "process", 0, 1) \in Queueable(new, log.no)
    BY <1>2, ItemFields DEF Kinds
  <2>2. Item(new, "ach", 0, latestACH) \in Queueable(new, log.no)
    BY <1>2, ItemFields DEF Kinds
  <2> QED BY <2>1, <2>2, ItemFields DEF Opening
<1>5. queued' \subseteq Queueable(new, log.no)
  <2>1. Queueable(runs, log.no) \subseteq Queueable(new, log.no)
    BY <1>2, QueueableGrows
  <2> QED BY <2>1, <1>2, <1>3, <1>4
<1>6. ends' \in [Runs -> Nat]
  BY <1>2, <1>3
<1>7. \A r \in Runs : r > runs => ends[r] = 0
  BY DEF LoopInv, EndsCounted
<1>8. active => run # 0 /\ ends[run] = 0
  BY DEF LoopInv, EndsCounted
<1>9. \A r \in Runs : ends[r] <= 1 /\ r \in Nat
  BY EarlierRuns DEF LoopInv, MonitorInv, EndsOnce
<1>10. EndsOnce'
  <2> SUFFICES ASSUME NEW r \in Runs PROVE ends'[r] <= 1
    BY DEF EndsOnce
  <2>1. CASE r = run /\ active
    BY <2>1, <1>2, <1>3, <1>8
  <2>2. CASE r = new /\ isClosing
    BY <2>2, <1>2, <1>3, <1>7
  <2>3. CASE ~(r = run /\ active) /\ ~(r = new /\ isClosing)
    BY <2>3, <1>3, <1>9
  <2> QED BY <2>1, <2>2, <2>3
<1>11. EndsCounted'
  <2>1. ASSUME NEW r \in Runs, r > new PROVE ends'[r] = 0
    <3>1. r # run /\ r # new /\ r > runs
      BY <2>1, <1>2, <1>9
    <3> QED BY <3>1, <1>3, <1>7
  <2>2. ASSUME ~isClosing PROVE new # 0 /\ ends'[new] = 0
    <3>1. new # run /\ new > runs /\ new # 0
      BY <1>2
    <3> QED BY <3>1, <2>2, <1>3, <1>7
  <2> QED BY <2>1, <2>2, <1>3 DEF EndsCounted
<1>12. Item(new, "process", 0, 1) \in queued' => gameRunning
  <2>1. Item(new, "process", 0, 1) \notin queued
    <3>1. \A item \in queued : item.run <= runs
      BY <1>2 DEF Queueable
    <3> QED BY <3>1, <1>2, ItemFields
  <2>2. Item(new, "process", 0, 1) \notin items
    BY ItemFields
  <2>3. Item(new, "process", 0, 1) \in Opening(new) => gameRunning
    <3>1. Item(new, "process", 0, 1).kind # Item(new, "ach", 0, latestACH).kind
      BY ItemFields
    <3> QED BY <3>1 DEF Opening
  <2> QED BY <2>1, <2>2, <2>3, <1>3
<1>13. latestACH # 0 /\ achFresh => Item(new, "ach", 0, latestACH) \in queued'
  BY <1>3 DEF Opening
<1>14. Lines' = Lines \cup items
  <2>1. \A item \in items : item.kind \in {"line", "closed"}
    OBVIOUS
  <2>2. \A item \in Opening(new) : item.kind \notin {"line", "closed"}
    BY <1>4
  <2> QED BY <2>1, <2>2, <1>3 DEF Lines
<1> QED BY <1>3, <1>5, <1>6, <1>10, <1>11, <1>12, <1>13, <1>14

\* A run that is begun without an event of the log is active.
LEMMA StartBareRunKeeps ==
  ASSUME LoopInv, runs + 1 \in Runs, StartRun({}, FALSE)
  PROVE  /\ runs' = runs + 1 /\ run' = runs + 1 /\ active' = TRUE
         /\ queued' \subseteq Queueable(runs + 1, log.no)
         /\ ends' \in [Runs -> Nat]
         /\ EndsOnce' /\ EndsCounted'
         /\ Item(run', "process", 0, 1) \in queued' => gameRunning
         /\ latestACH # 0 /\ achFresh => Item(run', "ach", 0, latestACH) \in queued'
         /\ Lines' = Lines
<1> DEFINE items == {} isClosing == FALSE
<1>1. /\ items \subseteq Queueable(runs + 1, log.no)
      /\ \A item \in items : item.run = runs + 1 /\ item.kind \in {"line", "closed"}
      /\ isClosing \in BOOLEAN /\ StartRun(items, isClosing)
  OBVIOUS
<1>2. Lines \cup items = Lines /\ ~isClosing = TRUE
  OBVIOUS
<1> HIDE DEF items, isClosing
<1>3. /\ runs' = runs + 1 /\ run' = runs + 1
      /\ active' = ~isClosing
      /\ queued' \subseteq Queueable(runs + 1, log.no)
      /\ ends' \in [Runs -> Nat]
      /\ EndsOnce' /\ EndsCounted'
      /\ Item(run', "process", 0, 1) \in queued' => gameRunning
      /\ latestACH # 0 /\ achFresh => Item(run', "ach", 0, latestACH) \in queued'
      /\ Lines' = Lines \cup items
  BY <1>1, StartRunKeeps
<1>4. active' = TRUE
  BY <1>2, <1>3
<1> QED BY <1>2, <1>3, <1>4

\* What an event of the current run does to the runs, their ends and their events.
LEMMA AddKeeps ==
  ASSUME LoopInv, run # 0, NEW items, NEW isEnd \in BOOLEAN,
         items \subseteq Queueable(runs, log.no),
         Add(items, isEnd)
  PROVE  /\ runs' = runs /\ run' = run
         /\ active' = (active /\ ~isEnd)
         /\ queued' = queued \cup items
         /\ queued' \subseteq Queueable(runs, log.no)
         /\ ends' \in [Runs -> Nat]
         /\ EndsOnce' /\ EndsCounted'
<1>1. TypeOK
  BY DEF LoopInv, MonitorInv
<1>2. /\ runs \in Nat /\ run \in Runs /\ run \in 0 .. runs /\ active \in BOOLEAN
      /\ ends \in [Runs -> Nat] /\ queued \subseteq Queueable(runs, log.no)
  BY <1>1, MonitorTypes
<1>3. /\ runs' = runs /\ run' = run /\ active' = (active /\ ~isEnd)
      /\ queued' = queued \cup items
      /\ ends' = IF isEnd /\ active THEN [ends EXCEPT ![run] = @ + 1] ELSE ends
  BY DEF Add
<1>4. /\ \A r \in Runs : r > runs => ends[r] = 0
      /\ active => run # 0 /\ ends[run] = 0
  BY DEF LoopInv, EndsCounted
<1>5. \A r \in Runs : ends[r] <= 1 /\ r \in Nat
  BY EarlierRuns DEF LoopInv, MonitorInv, EndsOnce
<1>6. ends' \in [Runs -> Nat]
  BY <1>2, <1>3
<1>7. CASE isEnd /\ active
  <2>1. ends' = [ends EXCEPT ![run] = ends[run] + 1] /\ ~active'
    BY <1>7, <1>3
  <2>2. EndsOnce'
    BY <2>1, <1>2, <1>4, <1>5, <1>7 DEF EndsOnce
  <2>3. EndsCounted'
    BY <2>1, <1>2, <1>3, <1>4, <1>5 DEF EndsCounted
  <2> QED BY <2>2, <2>3, <1>2, <1>3, <1>6
<1>8. CASE ~(isEnd /\ active)
  <2>1. ends' = ends
    BY <1>8, <1>3
  <2>2. EndsOnce'
    BY <2>1, <1>5 DEF EndsOnce
  <2>3. EndsCounted'
    BY <2>1, <1>3, <1>4 DEF EndsCounted
  <2> QED BY <2>2, <2>3, <1>2, <1>3, <1>6
<1> QED BY <1>7, <1>8

-----------------------------------------------------------------------------
\* At first there is no game, no log and no run.
LEMMA LoopInit == Init => LoopInv
<1> SUFFICES ASSUME Init PROVE LoopInv
  OBVIOUS
<1>1. /\ MaxLogs \in Nat /\ MaxLines \in Nat /\ MaxLaunches \in Nat /\ MaxStops \in Nat
      /\ MaxRestarts \in Nat /\ MaxMisses \in Nat
  BY AgentMonitorAssumption DEF AgentMonitorAssumption
<1>2. TypeOK
  <2>1. game \in BOOLEAN /\ {active, achFresh, processKnown, gameRunning, probeDone, raced, joined} \subseteq BOOLEAN
    BY DEF Init
  <2>2. log \in [no : 0 .. MaxLogs, lines : 0 .. MaxLines, closed : BOOLEAN, recent : BOOLEAN, game : 0 .. MaxStops]
    BY <1>1 DEF Init
  <2>3. /\ launches \in 0 .. MaxLaunches /\ stops \in 0 .. MaxStops
        /\ runs \in {0} \cup Runs /\ run \in 0 .. runs
        /\ known \in 0 .. log.no /\ offset \in 0 .. MaxLines + 1 /\ launchRead \in -1 .. launches
        /\ latestACH \in 0 .. launches /\ helped \in Nat /\ restarts \in 0 .. MaxRestarts
        /\ misses \in 0 .. MaxMisses
    BY <1>1 DEF Init
  <2>4. ends \in [Runs -> Nat] /\ queued = {}
    BY DEF Init
  <2>5. pc \in {"log", "read", "launcher", "process", "helper", "helping", "probe"}
    BY DEF Init
  <2> QED BY <2>1, <2>2, <2>3, <2>4, <2>5 DEF TypeOK
<1>3. EndsOnce /\ ActiveMeansRunning /\ GameIsFollowed /\ HelperOncePerStop
  BY DEF Init, EndsOnce, ActiveMeansRunning, GameIsFollowed, HelperOncePerStop
<1>4. RunsCounted
  <2>1. Life(0) = 0
    BY <1>1 DEF Life
  <2> QED BY <2>1 DEF Init, RunsCounted
<1>5. EndsCounted /\ GamesCounted /\ HelperCounted
  BY DEF Init, EndsCounted, GamesCounted, HelperCounted
<1>6. LinesFiled /\ OneLogPerRun /\ ActiveRunHasAch
  BY DEF Init, LinesFiled, OneLogPerRun, ActiveRunHasAch, Lines
<1> QED BY <1>2, <1>3, <1>4, <1>5, <1>6 DEF LoopInv, MonitorInv

-----------------------------------------------------------------------------
\* The world.

\* What the invariant says of runs and helper does not depend on the world.
LEMMA WorldLeaves ==
  ASSUME LoopInv, UNCHANGED <<runVars, logVars, achVars, processVars, probeDone, pc,
                              helped, restarts, misses, joined>>
  PROVE  /\ EndsOnce' /\ ActiveMeansRunning' /\ HelperOncePerStop'
         /\ RunsCounted' /\ EndsCounted' /\ HelperCounted'
         /\ Lines' = Lines
         /\ (achFresh' \in {achFresh, FALSE}) => ActiveRunHasAch'
<1> USE DEF runVars, logVars, achVars, processVars
<1>1. EndsOnce' /\ ActiveMeansRunning' /\ HelperOncePerStop'
  BY DEF LoopInv, MonitorInv, EndsOnce, ActiveMeansRunning, HelperOncePerStop, Item
<1>2. RunsCounted' /\ EndsCounted' /\ HelperCounted' /\ Lines' = Lines
  BY DEF LoopInv, RunsCounted, EndsCounted, HelperCounted, Lines, Life
<1>3. (achFresh' \in {achFresh, FALSE}) => ActiveRunHasAch'
  BY DEF LoopInv, ActiveRunHasAch, Item
<1> QED BY <1>1, <1>2, <1>3

\* The launcher writes a line.
LEMMA LaunchesKeeps == ASSUME LoopInv, Launches PROVE LoopInv'
<1>1. /\ launches < MaxLaunches /\ launches' = launches + 1
      /\ UNCHANGED <<game, log, stops, pc, runVars, logVars, achVars, achFresh,
                     processVars, probeDone, checkVars>>
  BY DEF Launches
<1> USE DEF runVars, logVars, achVars, processVars, checkVars
<1>2. TypeOK
  BY DEF LoopInv, MonitorInv
<1>3. TypeOK'
  <2>1. /\ launches' \in 0 .. MaxLaunches
        /\ launchRead \in -1 .. launches' /\ latestACH \in 0 .. launches'
    BY <1>1, <1>2, MonitorTypes, AgentMonitorAssumption DEF AgentMonitorAssumption
  <2> QED BY <2>1, <1>1, <1>2 DEF TypeOK
<1>4. /\ EndsOnce' /\ ActiveMeansRunning' /\ HelperOncePerStop' /\ RunsCounted' /\ EndsCounted'
      /\ HelperCounted' /\ Lines' = Lines /\ ActiveRunHasAch'
  BY <1>1, WorldLeaves
<1>5. GameIsFollowed' /\ GamesCounted'
  BY <1>1 DEF LoopInv, MonitorInv, GameIsFollowed, GamesCounted
<1>6. LinesFiled' /\ OneLogPerRun'
  BY <1>1, <1>4 DEF LoopInv, LinesFiled, OneLogPerRun
<1> QED BY <1>3, <1>4, <1>5, <1>6 DEF LoopInv, MonitorInv

\* A game starts: the log that is there is of an earlier one, if there is one.
LEMMA GameStartsKeeps == ASSUME LoopInv, GameStarts PROVE LoopInv'
<1>1. /\ ~game /\ game' = TRUE
      /\ UNCHANGED <<log, launches, stops, pc, runVars, logVars, achVars, achFresh,
                     processVars, probeDone, checkVars>>
  BY DEF GameStarts
<1> USE DEF runVars, logVars, achVars, processVars, checkVars
<1>2. TypeOK
  BY DEF LoopInv, MonitorInv
<1>3. TypeOK'
  BY <1>1, <1>2 DEF TypeOK
<1>4. /\ EndsOnce' /\ ActiveMeansRunning' /\ HelperOncePerStop' /\ RunsCounted' /\ EndsCounted'
      /\ HelperCounted' /\ Lines' = Lines /\ ActiveRunHasAch'
  BY <1>1, WorldLeaves
<1>5. GamesCounted'
  BY <1>1 DEF LoopInv, GamesCounted
<1>6. GameIsFollowed'
  <2>1. log.game < stops \/ (run # 0 => active)
    BY <1>1 DEF LoopInv, GamesCounted
  <2>2. log.game \in Nat /\ stops \in Nat
    BY <1>2, MonitorTypes
  <2> QED BY <2>1, <2>2, <1>1 DEF GameIsFollowed
<1>7. LinesFiled' /\ OneLogPerRun'
  BY <1>1, <1>4 DEF LoopInv, LinesFiled, OneLogPerRun
<1> QED BY <1>3, <1>4, <1>5, <1>6, <1>7 DEF LoopInv, MonitorInv

\* A game exits: no log is of a game that is still to come.
LEMMA GameStopsKeeps == ASSUME LoopInv, GameStops PROVE LoopInv'
<1>1. /\ stops < MaxStops /\ game' = FALSE /\ stops' = stops + 1
      /\ UNCHANGED <<log, launches, pc, runVars, logVars, achVars, achFresh,
                     processVars, probeDone, checkVars>>
  BY DEF GameStops
<1> USE DEF runVars, logVars, achVars, processVars, checkVars
<1>2. TypeOK
  BY DEF LoopInv, MonitorInv
<1>3. TypeOK'
  <2>1. stops' \in 0 .. MaxStops
    BY <1>1, <1>2, MonitorTypes, AgentMonitorAssumption DEF AgentMonitorAssumption
  <2> QED BY <2>1, <1>1, <1>2 DEF TypeOK
<1>4. /\ EndsOnce' /\ ActiveMeansRunning' /\ HelperOncePerStop' /\ RunsCounted' /\ EndsCounted'
      /\ HelperCounted' /\ Lines' = Lines /\ ActiveRunHasAch'
  BY <1>1, WorldLeaves
<1>5. GameIsFollowed'
  BY <1>1 DEF GameIsFollowed
<1>6. GamesCounted'
  <2>1. log.game \in Nat /\ stops \in Nat /\ log.game <= stops
    BY <1>2, MonitorTypes DEF LoopInv, GamesCounted
  <2>2. log.game < stops + 1 /\ log.game <= stops + 1
    BY <2>1
  <2> QED BY <2>2, <1>1 DEF LoopInv, GamesCounted
<1>7. LinesFiled' /\ OneLogPerRun'
  BY <1>1, <1>4 DEF LoopInv, LinesFiled, OneLogPerRun
<1> QED BY <1>3, <1>4, <1>5, <1>6, <1>7 DEF LoopInv, MonitorInv

\* A new log is not the one that is followed; only a poll that is under way
\* can take it for that one.
LEMMA LogReplacedKeeps == ASSUME LoopInv, LogReplaced PROVE LoopInv'
<1>1. /\ game /\ log.no < MaxLogs
      /\ log' = [no |-> log.no + 1, lines |-> 0, closed |-> FALSE, recent |-> TRUE, game |-> stops]
      /\ raced' = (raced \/ pc = "read")
      /\ UNCHANGED <<game, launches, stops, pc, runVars, logVars, achVars, achFresh,
                     processVars, probeDone, helped, restarts, misses, joined>>
  BY DEF LogReplaced
<1> USE DEF runVars, logVars, achVars, processVars
<1>2. TypeOK
  BY DEF LoopInv, MonitorInv
<1>3. /\ log'.no = log.no + 1 /\ log'.game = stops
      /\ log.no \in Nat /\ known \in 0 .. log.no /\ stops \in 0 .. MaxStops /\ stops \in Nat
      /\ MaxLogs \in Nat /\ runs \in Nat /\ raced \in BOOLEAN
  BY <1>1, <1>2, MonitorTypes
<1>4. TypeOK'
  <2>1. log' \in [no : 0 .. MaxLogs, lines : 0 .. MaxLines, closed : BOOLEAN, recent : BOOLEAN, game : 0 .. MaxStops]
    <3>1. 0 \in 0 .. MaxLines /\ log.no + 1 \in 0 .. MaxLogs
      BY <1>1, <1>3, AgentMonitorAssumption DEF AgentMonitorAssumption
    <3> QED BY <3>1, <1>1, <1>3
  <2>2. queued \subseteq [run : 1 .. runs, kind : Kinds, file : 0 .. log'.no, no : Nat]
    BY <1>2, <1>3, MonitorTypes, QueueableGrows DEF Queueable
  <2>3. known \in 0 .. log'.no
    BY <1>3
  <2>4. raced' \in BOOLEAN
    BY <1>1
  <2> QED BY <2>1, <2>2, <2>3, <2>4, <1>1, <1>2 DEF TypeOK
<1>5. /\ EndsOnce' /\ ActiveMeansRunning' /\ HelperOncePerStop' /\ RunsCounted' /\ EndsCounted'
      /\ HelperCounted' /\ Lines' = Lines /\ ActiveRunHasAch'
  BY <1>1, WorldLeaves
<1>6. GameIsFollowed'
  BY <1>1, <1>3 DEF GameIsFollowed
<1>7. GamesCounted'
  BY <1>1, <1>3 DEF LoopInv, GamesCounted
<1>8. LinesFiled' /\ OneLogPerRun'
  <2>1. ~raced' => ~raced /\ pc' # "read"
    BY <1>1
  <2>2. pc' = "read" => log'.no # 0
    BY <1>3
  <2> QED BY <2>1, <2>2, <1>1, <1>5 DEF LoopInv, LinesFiled, OneLogPerRun
<1> QED BY <1>4, <1>5, <1>6, <1>7, <1>8 DEF LoopInv, MonitorInv

\* A log that is written is still the same game's.
LEMMA LogWrittenKeeps == ASSUME LoopInv, LogWritten PROVE LoopInv'
<1>0. PICK isLast \in BOOLEAN :
         /\ isLast \/ log.lines < MaxLines
         /\ log' = [no |-> log.no, lines |-> IF isLast THEN log.lines ELSE log.lines + 1,
                    closed |-> isLast, recent |-> TRUE, game |-> log.game]
  BY DEF LogWritten
<1>1. /\ game /\ log'.no = log.no /\ log'.game = log.game
      /\ UNCHANGED <<game, launches, stops, pc, runVars, logVars, achVars, achFresh,
                     processVars, probeDone, checkVars>>
  BY <1>0 DEF LogWritten
<1> USE DEF runVars, logVars, achVars, processVars, checkVars
<1>2. TypeOK
  BY DEF LoopInv, MonitorInv
<1>3. TypeOK'
  <2>1. /\ log.no \in 0 .. MaxLogs /\ log.lines \in 0 .. MaxLines /\ log.game \in 0 .. MaxStops
        /\ MaxLines \in Nat
    BY <1>2, MonitorTypes
  <2>2. (IF isLast THEN log.lines ELSE log.lines + 1) \in 0 .. MaxLines
    BY <2>1, <1>0
  <2>3. log' \in [no : 0 .. MaxLogs, lines : 0 .. MaxLines, closed : BOOLEAN, recent : BOOLEAN, game : 0 .. MaxStops]
    BY <2>1, <2>2, <1>0
  <2> QED BY <2>3, <1>1, <1>2 DEF TypeOK
<1>4. /\ EndsOnce' /\ ActiveMeansRunning' /\ HelperOncePerStop' /\ RunsCounted' /\ EndsCounted'
      /\ HelperCounted' /\ Lines' = Lines /\ ActiveRunHasAch'
  BY <1>1, WorldLeaves
<1>5. GameIsFollowed' /\ GamesCounted'
  BY <1>1 DEF LoopInv, MonitorInv, GameIsFollowed, GamesCounted
<1>6. LinesFiled' /\ OneLogPerRun'
  BY <1>1, <1>4 DEF LoopInv, LinesFiled, OneLogPerRun
<1> QED BY <1>3, <1>4, <1>5, <1>6 DEF LoopInv, MonitorInv

\* Time makes a log old and an ACH value stale.
LEMMA TimePassesKeeps == ASSUME LoopInv, TimePasses PROVE LoopInv'
<1>1. /\ log' = [log EXCEPT !.recent = FALSE]
      /\ achFresh' \in {achFresh, FALSE}
      /\ UNCHANGED <<game, launches, stops, pc, runVars, logVars, achVars,
                     processVars, probeDone, checkVars>>
  BY DEF TimePasses
<1> USE DEF runVars, logVars, achVars, processVars, checkVars
<1>2. TypeOK
  BY DEF LoopInv, MonitorInv
<1>3. /\ log' \in [no : 0 .. MaxLogs, lines : 0 .. MaxLines, closed : BOOLEAN, recent : BOOLEAN, game : 0 .. MaxStops]
      /\ log'.no = log.no /\ log'.game = log.game /\ log'.lines = log.lines /\ log'.closed = log.closed
  BY <1>1, <1>2 DEF TypeOK
<1>4. TypeOK'
  <2>1. achFresh' \in BOOLEAN
    BY <1>1, <1>2, MonitorTypes
  <2> QED BY <2>1, <1>1, <1>2, <1>3 DEF TypeOK
<1>5. /\ EndsOnce' /\ ActiveMeansRunning' /\ HelperOncePerStop' /\ RunsCounted' /\ EndsCounted'
      /\ HelperCounted' /\ Lines' = Lines /\ ActiveRunHasAch'
  BY <1>1, WorldLeaves
<1>6. GameIsFollowed' /\ GamesCounted'
  BY <1>1, <1>3 DEF LoopInv, MonitorInv, GameIsFollowed, GamesCounted
<1>7. LinesFiled' /\ OneLogPerRun'
  BY <1>1, <1>3, <1>5 DEF LoopInv, LinesFiled, OneLogPerRun
<1> QED BY <1>4, <1>5, <1>6, <1>7 DEF LoopInv, MonitorInv

-----------------------------------------------------------------------------
\* The loop's steps that leave the runs alone.

\* A step that leaves the runs alone leaves alone what is said of them.
LEMMA RunsLeft ==
  ASSUME LoopInv, UNCHANGED <<worldVars, runVars, logVars, processVars, latestACH, achFresh,
                              raced, restarts, misses, joined>>,
         pc' # "read"
  PROVE  /\ EndsOnce' /\ ActiveMeansRunning' /\ GameIsFollowed'
         /\ RunsCounted' /\ EndsCounted' /\ GamesCounted'
         /\ LinesFiled' /\ OneLogPerRun' /\ ActiveRunHasAch'
<1> USE DEF worldVars, runVars, logVars, processVars
<1>1. EndsOnce' /\ ActiveMeansRunning' /\ GameIsFollowed'
  BY DEF LoopInv, MonitorInv, EndsOnce, ActiveMeansRunning, GameIsFollowed, Item
<1>2. RunsCounted' /\ EndsCounted' /\ GamesCounted'
  BY DEF LoopInv, RunsCounted, EndsCounted, GamesCounted, Life
<1>3. LinesFiled' /\ OneLogPerRun'
  BY DEF LoopInv, LinesFiled, OneLogPerRun, Lines
<1>4. ActiveRunHasAch'
  BY DEF LoopInv, ActiveRunHasAch, Item
<1> QED BY <1>1, <1>2, <1>3, <1>4

\* There is no log to stat, the helper is not run, or it fails.
LEMMA NothingHappensKeeps ==
  ASSUME LoopInv, NoLog \/ SkipHelper \/ HelperFails
  PROVE  LoopInv'
<1>1. /\ pc' \in {"launcher", "probe"}
      /\ UNCHANGED <<worldVars, runVars, logVars, achVars, achFresh, processVars, probeDone, checkVars>>
  BY DEF NoLog, SkipHelper, HelperFails
<1> USE DEF worldVars, runVars, logVars, achVars, processVars, checkVars
<1>2. TypeOK'
  BY <1>1 DEF LoopInv, MonitorInv, TypeOK
<1>3. HelperOncePerStop' /\ HelperCounted'
  BY <1>1 DEF LoopInv, MonitorInv, HelperOncePerStop, HelperCounted
<1> QED BY <1>1, <1>2, <1>3, RunsLeft DEF LoopInv, MonitorInv

\* The launcher has written nothing new.
LEMMA SkipLauncherKeeps == ASSUME LoopInv, SkipLauncher PROVE LoopInv'
<1>1. /\ pc' = "process" /\ launchRead' = launches
      /\ UNCHANGED <<worldVars, runVars, logVars, latestACH, achFresh, processVars, probeDone, checkVars>>
  BY DEF SkipLauncher
<1> USE DEF worldVars, runVars, logVars, processVars, checkVars
<1>2. TypeOK'
  <2>1. TypeOK
    BY DEF LoopInv, MonitorInv
  <2>2. launchRead' \in -1 .. launches
    BY <2>1, <1>1, MonitorTypes
  <2> QED BY <2>1, <2>2, <1>1 DEF TypeOK
<1>3. HelperOncePerStop' /\ HelperCounted'
  BY <1>1 DEF LoopInv, MonitorInv, HelperOncePerStop, HelperCounted
<1> QED BY <1>1, <1>2, <1>3, RunsLeft DEF LoopInv, MonitorInv

\* The helper starts when it has not succeeded since the game stopped ...
LEMMA StartHelperKeeps == ASSUME LoopInv, StartHelper PROVE LoopInv'
<1>1. /\ ~probeDone /\ pc' = "helping"
      /\ UNCHANGED <<worldVars, runVars, logVars, achVars, achFresh, processVars, probeDone, checkVars>>
  BY DEF StartHelper, Wanted
<1> USE DEF worldVars, runVars, logVars, achVars, processVars, checkVars
<1>2. TypeOK'
  BY <1>1 DEF LoopInv, MonitorInv, TypeOK
<1>3. HelperOncePerStop' /\ HelperCounted'
  BY <1>1 DEF LoopInv, MonitorInv, HelperOncePerStop, HelperCounted
<1> QED BY <1>1, <1>2, <1>3, RunsLeft DEF LoopInv, MonitorInv

\* ... so that its success is the first.
LEMMA HelperReportsKeeps == ASSUME LoopInv, HelperReports PROVE LoopInv'
<1>1. /\ pc = "helping" /\ pc' = "probe" /\ probeDone' = TRUE /\ helped' = helped + 1
      /\ UNCHANGED <<worldVars, runVars, logVars, achVars, achFresh, processVars, raced, restarts,
                     misses, joined>>
  BY DEF HelperReports
<1> USE DEF worldVars, runVars, logVars, achVars, processVars
<1>2. helped = 0
  BY <1>1 DEF LoopInv, HelperCounted
<1>3. TypeOK'
  <2>1. TypeOK /\ helped' \in Nat /\ probeDone' \in BOOLEAN
    BY <1>1, <1>2 DEF LoopInv, MonitorInv
  <2> QED BY <2>1, <1>1 DEF TypeOK
<1>4. HelperOncePerStop' /\ HelperCounted'
  BY <1>1, <1>2 DEF HelperOncePerStop, HelperCounted
<1> QED BY <1>1, <1>3, <1>4, RunsLeft DEF LoopInv, MonitorInv

-----------------------------------------------------------------------------
\* The loop's steps that begin or end runs.

\* The lines to be read, as events of run r.
LEMMA LineItemsOf ==
  ASSUME TypeOK, NEW s \in Nat, NEW r \in 1 .. s
  PROVE  /\ LineItems(r) \subseteq Queueable(s, log.no)
         /\ \A item \in LineItems(r) :
              item.run = r /\ item.kind \in {"line", "closed"} /\ item.file = log.no
         /\ Unread # {} /\ log.closed =>
              \E item \in LineItems(r) : item.run = r /\ item.kind = "closed"
<1>1. /\ log.no \in Nat /\ log.lines \in 0 .. MaxLines /\ MaxLines \in Nat /\ offset \in Nat
      /\ log.closed \in BOOLEAN
  BY MonitorTypes
<1>2. ASSUME NEW item \in LineItems(r)
      PROVE  /\ item \in Queueable(s, log.no)
             /\ item.run = r /\ item.kind \in {"line", "closed"} /\ item.file = log.no
  <2>1. PICK n \in Unread : item = Item(r, IF n <= log.lines THEN "line" ELSE "closed", log.no, n)
    BY DEF LineItems
  <2>2. n \in Nat /\ (IF n <= log.lines THEN "line" ELSE "closed") \in {"line", "closed"}
    BY <1>1 DEF Unread
  <2> HIDE DEF Unread
  <2>3. log.no \in 0 .. log.no /\ {"line", "closed"} \subseteq Kinds
    BY <1>1 DEF Kinds
  <2> QED BY <2>1, <2>2, <2>3, ItemFields
<1>3. ASSUME Unread # {}, log.closed
      PROVE  \E item \in LineItems(r) : item.run = r /\ item.kind = "closed"
  <2>1. Size = log.lines + 1
    BY <1>3 DEF Size
  <2>2. PICK m \in 1 .. MaxLines + 1 : offset < m /\ m <= Size
    BY <1>3 DEF Unread
  <2>3. Size \in Unread /\ ~(Size <= log.lines)
    BY <2>1, <2>2, <1>1 DEF Unread
  <2>4. Item(r, "closed", log.no, Size) \in LineItems(r)
    BY <2>3 DEF LineItems
  <2> QED BY <2>4, ItemFields
<1> QED BY <1>2, <1>3

\* A log that is new to the agent begins a run; a first log that is old does not.
LEMMA StatLogKeeps == ASSUME LoopInv, StatLog PROVE LoopInv'
<1> DEFINE isNew == (known # 0 /\ known # log.no) \/ (known = 0 /\ log.recent)
<1>1. /\ log.no # 0 /\ known' = log.no
      /\ offset' \in {0, Size, offset}
      /\ IF isNew THEN StartRun({}, FALSE) ELSE UNCHANGED runVars
      /\ joined' = (joined \/ (known = 0 /\ ~log.recent /\ run # 0 /\ ~active))
      /\ pc' \in {"launcher", "read"}
      /\ UNCHANGED <<worldVars, achVars, achFresh, processVars, probeDone, helped, raced, restarts, misses>>
  BY DEF StatLog
<1> HIDE DEF isNew
<1> USE DEF worldVars, runVars, achVars, processVars
<1>2. TypeOK
  BY DEF LoopInv, MonitorInv
<1>3. /\ known \in 0 .. log.no /\ known \in Nat /\ log.no \in 0 .. MaxLogs /\ log.no \in Nat
      /\ MaxLogs \in Nat /\ runs \in Nat /\ restarts \in 0 .. MaxRestarts /\ restarts \in Nat
      /\ run \in 0 .. runs /\ run \in Nat /\ queued \subseteq Queueable(runs, log.no)
  BY <1>2, MonitorTypes
<1>4. Life(restarts) \in Nat
  BY <1>3, LifeGrows
<1>5. runs <= Life(restarts) + known + 1
  BY DEF LoopInv, RunsCounted
<1>6. /\ offset' \in 0 .. MaxLines + 1 /\ joined' \in BOOLEAN
      /\ pc' \in {"log", "read", "launcher", "process", "helper", "helping", "probe"}
  <2>1. Size \in 0 .. MaxLines + 1
    BY <1>2, MonitorTypes DEF Size
  <2>2. offset' \in 0 .. MaxLines + 1
    BY <2>1, <1>1, <1>2, MonitorTypes
  <2>3. joined' \in BOOLEAN
    BY <1>1
  <2> QED BY <2>2, <2>3, <1>1
<1>7. known' \in 0 .. log.no
  BY <1>1, <1>3
<1>8. HelperOncePerStop' /\ HelperCounted'
  BY <1>1 DEF LoopInv, MonitorInv, HelperOncePerStop, HelperCounted
<1>9. CASE isNew
  <2>1. known < log.no
    BY <1>1, <1>3, <1>9 DEF isNew
  <2>0. StartRun({}, FALSE)
    BY <1>1, <1>9
  <2>2. runs + 1 \in Runs
    BY <2>1, <1>3, <1>4, <1>5, RunFits
  <2>3. /\ runs' = runs + 1 /\ run' = runs + 1 /\ active' = TRUE
        /\ queued' \subseteq Queueable(runs + 1, log.no)
        /\ ends' \in [Runs -> Nat]
        /\ EndsOnce' /\ EndsCounted'
        /\ Item(run', "process", 0, 1) \in queued' => gameRunning
        /\ latestACH # 0 /\ achFresh => Item(run', "ach", 0, latestACH) \in queued'
        /\ Lines' = Lines
    BY <2>0, <2>2, StartBareRunKeeps
  <2>4. TypeOK'
    <3>1. runs' \in {0} \cup Runs /\ run' \in 0 .. runs' /\ active' \in BOOLEAN
      BY <2>2, <2>3, <1>3
    <3>2. queued' \subseteq [run : 1 .. runs', kind : Kinds, file : 0 .. log.no, no : Nat]
      BY <2>3 DEF Queueable
    <3>3. {active, achFresh, processKnown, gameRunning, probeDone, raced, joined}' \subseteq BOOLEAN
      BY <3>1, <1>1, <1>2, <1>6, MonitorTypes
    <3>4. UNCHANGED <<game, log, launches, stops, launchRead, latestACH, helped, restarts, misses>>
      BY <1>1
    <3>5. ends' \in [Runs -> Nat]
      BY <2>3
    <3> QED BY <3>1, <3>2, <3>3, <3>4, <3>5, <1>2, <1>6, <1>7 DEF TypeOK
  <2>5. ActiveMeansRunning' /\ GameIsFollowed' /\ ActiveRunHasAch'
    BY <2>3, <1>1 DEF ActiveMeansRunning, GameIsFollowed, ActiveRunHasAch
  <2>6. RunsCounted'
    <3>1. runs' <= Life(restarts) + known' + 1 /\ run' # 0
      BY <2>1, <2>3, <1>1, <1>3, <1>4, <1>5
    <3> QED BY <3>1, <1>1 DEF RunsCounted, Life
  <2>7. GamesCounted'
    BY <2>3, <1>1 DEF LoopInv, GamesCounted
  <2>8. LinesFiled'
    <3>1. \A item \in Lines : item.run # run'
      <4>1. \A item \in Lines : item.run \in 1 .. runs
        BY <1>3 DEF Lines, Queueable
      <4> QED BY <4>1, <2>3, <1>3
    <3>2. \A item \in Lines : item.file \in Nat /\ item.file # 0
      BY <1>3 DEF LoopInv, LinesFiled, Lines, Queueable
    <3>3. ~raced /\ restarts = 0 => \A item \in Lines : item.file <= known
      BY DEF LoopInv, LinesFiled
    <3>4. ~raced /\ restarts = 0 => \A item \in Lines : item.file <= known' /\ item.file # known'
      BY <3>2, <3>3, <2>1, <1>1, <1>3
    <3>5. UNCHANGED <<log, raced, restarts>>
      BY <1>1
    <3> QED BY <3>1, <3>2, <3>4, <3>5, <2>3, <1>1 DEF LinesFiled
  <2>9. OneLogPerRun'
    BY <2>3, <1>1 DEF LoopInv, OneLogPerRun
  <2> QED BY <2>3, <2>4, <2>5, <2>6, <2>7, <2>8, <2>9, <1>8 DEF LoopInv, MonitorInv
<1>10. CASE ~isNew
  <2>1. /\ UNCHANGED <<run, active, runs, queued, ends>>
        /\ known = log.no \/ (known = 0 /\ ~log.recent)
    BY <1>1, <1>10 DEF isNew
  <2>2. TypeOK'
    BY <2>1, <1>1, <1>2, <1>6, <1>7 DEF TypeOK
  <2>3. EndsOnce' /\ ActiveMeansRunning' /\ ActiveRunHasAch' /\ EndsCounted' /\ GamesCounted'
        /\ OneLogPerRun' /\ Lines' = Lines
    BY <2>1, <1>1 DEF LoopInv, MonitorInv, EndsOnce, ActiveMeansRunning, ActiveRunHasAch,
                      EndsCounted, GamesCounted, OneLogPerRun, Lines, Item
  <2>4. GameIsFollowed'
    BY <2>1, <1>1 DEF LoopInv, MonitorInv, GameIsFollowed
  <2>5. RunsCounted'
    <3>1. runs <= Life(restarts) + known' + 1
      BY <1>1, <1>3, <1>4, <1>5
    <3> QED BY <3>1, <2>1, <1>1 DEF LoopInv, RunsCounted, Life
  <2>6. LinesFiled'
    <3>1. \A item \in Lines : item.file \in Nat /\ item.file # 0
      BY <1>3 DEF LoopInv, LinesFiled, Lines, Queueable
    <3>2. ~raced => \A item \in Lines : item.run = run => item.file = known'
      BY <3>1, <2>1, <1>1 DEF LoopInv, LinesFiled
    <3>3. ~raced /\ restarts = 0 =>
            \A item \in Lines : item.file <= known' /\ (item.file = known' => item.run = run)
      <4>1. ~raced /\ restarts = 0 =>
              \A item \in Lines : item.file <= known /\ (item.file = known => item.run = run)
        BY DEF LoopInv, LinesFiled
      <4>2. CASE known = log.no
        BY <4>1, <4>2, <1>1
      <4>3. CASE known = 0
        BY <4>1, <4>3, <3>1
      <4> QED BY <4>2, <4>3, <2>1
    <3>4. UNCHANGED <<log, raced, restarts>>
      BY <1>1
    <3> QED BY <3>1, <3>2, <3>3, <3>4, <2>1, <2>3, <1>1 DEF LinesFiled
  <2> QED BY <2>2, <2>3, <2>4, <2>5, <2>6, <1>8 DEF LoopInv, MonitorInv
<1> QED BY <1>9, <1>10

\* The rest of the types, for a step that begins a run or adds to one.
LEMMA RunTypes ==
  ASSUME LoopInv, UNCHANGED <<worldVars, restarts, raced>>,
         runs' \in {0} \cup Runs, run' \in 0 .. runs', active' \in BOOLEAN,
         queued' \subseteq Queueable(runs', log.no), ends' \in [Runs -> Nat],
         pc' \in {"log", "read", "launcher", "process", "helper", "helping", "probe"},
         known' \in 0 .. log.no, offset' \in 0 .. MaxLines + 1,
         launchRead' \in -1 .. launches, latestACH' \in 0 .. launches,
         helped' \in Nat, misses' \in 0 .. MaxMisses,
         achFresh' \in BOOLEAN, processKnown' \in BOOLEAN, gameRunning' \in BOOLEAN,
         probeDone' \in BOOLEAN, joined' \in BOOLEAN
  PROVE  TypeOK'
<1>1. TypeOK
  BY DEF LoopInv, MonitorInv
<1>2. queued' \subseteq [run : 1 .. runs', kind : Kinds, file : 0 .. log.no, no : Nat]
  BY DEF Queueable
<1>3. {active, achFresh, processKnown, gameRunning, probeDone, raced, joined}' \subseteq BOOLEAN
  BY <1>1, MonitorTypes
<1> QED BY <1>1, <1>2, <1>3 DEF TypeOK, worldVars

\* The lines go to the run of their log, which the last of them ends.
LEMMA ReadLogKeeps == ASSUME LoopInv, ReadLog PROVE LoopInv'
<1>1. /\ pc = "read"
      /\ IF Unread = {}
         THEN UNCHANGED runVars
         ELSE StartOrAdd(LineItems(Target), log.closed)
      /\ offset' \in {offset, Size}
      /\ pc' = "launcher"
      /\ UNCHANGED <<worldVars, known, achVars, achFresh, processVars, probeDone, checkVars>>
  BY DEF ReadLog
<1> USE DEF worldVars, runVars, achVars, processVars, checkVars
<1>2. TypeOK
  BY DEF LoopInv, MonitorInv
<1>3. /\ known \in 0 .. log.no /\ known \in Nat /\ log.no \in 0 .. MaxLogs /\ log.no \in Nat
      /\ MaxLogs \in Nat /\ runs \in Nat /\ restarts \in 0 .. MaxRestarts /\ restarts \in Nat
      /\ run \in 0 .. runs /\ run \in Nat /\ queued \subseteq Queueable(runs, log.no)
      /\ log.closed \in BOOLEAN /\ active \in BOOLEAN /\ runs \in {0} \cup Runs
  BY <1>2, MonitorTypes
<1>4. Life(restarts) \in Nat
  BY <1>3, LifeGrows
<1>5. offset' \in 0 .. MaxLines + 1
  <2>1. Size \in 0 .. MaxLines + 1
    BY <1>2, MonitorTypes DEF Size
  <2> QED BY <2>1, <1>1, <1>2, MonitorTypes
<1>6. HelperOncePerStop' /\ HelperCounted'
  BY <1>1 DEF LoopInv, MonitorInv, HelperOncePerStop, HelperCounted
<1>7. /\ log.no # 0 /\ (~raced => known = log.no)
      /\ \A item \in Lines : item.file \in Nat /\ item.file # 0 /\ item.run \in 1 .. runs
      /\ ~raced => \A item \in Lines : item.run = run => item.file = known
      /\ ~raced /\ restarts = 0 =>
           \A item \in Lines : item.file <= known /\ (item.file = known => item.run = run)
  BY <1>1, <1>3 DEF LoopInv, LinesFiled, Lines, Queueable
<1>8. UNCHANGED <<game, log, stops, known, raced, restarts, misses, joined, gameRunning, processKnown,
                  latestACH, achFresh>>
  BY <1>1
<1>9. GamesCounted'
  <2>1. Unread # {} => log.lines # 0 \/ log.closed
    BY <1>2, MonitorTypes DEF Unread, Size
  <2>2. CASE Unread = {}
    BY <2>2, <1>1 DEF LoopInv, GamesCounted
  <2>3. CASE Unread # {}
    BY <2>1, <2>3, <1>8 DEF LoopInv, GamesCounted
  <2> QED BY <2>2, <2>3
<1>10. OneLogPerRun /\ LinesFiled
  BY DEF LoopInv
<1>11. CASE Unread = {}
  <2>1. UNCHANGED <<run, active, runs, queued, ends>>
    BY <1>1, <1>11
  <2>2. TypeOK'
    BY <2>1, <1>1, <1>2, <1>5 DEF TypeOK
  <2>3. /\ EndsOnce' /\ ActiveMeansRunning' /\ ActiveRunHasAch' /\ EndsCounted'
        /\ OneLogPerRun' /\ GameIsFollowed'
    BY <2>1, <1>8 DEF LoopInv, MonitorInv, EndsOnce, ActiveMeansRunning, ActiveRunHasAch,
                      EndsCounted, OneLogPerRun, GameIsFollowed, Lines, Item
  <2>4. RunsCounted' /\ LinesFiled'
    BY <2>1, <1>1 DEF LoopInv, RunsCounted, LinesFiled, Lines, Life
  <2> QED BY <2>2, <2>3, <2>4, <1>6, <1>9 DEF LoopInv, MonitorInv
<1>12. CASE Unread # {} /\ run = 0
  <2> DEFINE items == LineItems(runs + 1)
  <2>1. StartRun(items, log.closed)
    BY <1>1, <1>12 DEF StartOrAdd, Target
  <2>2. /\ items \subseteq Queueable(runs + 1, log.no)
        /\ \A item \in items :
             item.run = runs + 1 /\ item.kind \in {"line", "closed"} /\ item.file = log.no
        /\ log.closed => \E item \in items : item.run = runs + 1 /\ item.kind = "closed"
    BY <1>2, <1>3, <1>12, LineItemsOf
  <2> HIDE DEF items
  <2>3. runs <= Life(restarts)
    BY <1>12 DEF LoopInv, RunsCounted
  <2>4. runs + 1 \in Runs
    BY <2>3, <1>3, <1>4, RunFits
  <2>5. /\ runs' = runs + 1 /\ run' = runs + 1
        /\ active' = ~log.closed
        /\ queued' \subseteq Queueable(runs + 1, log.no)
        /\ ends' \in [Runs -> Nat]
        /\ EndsOnce' /\ EndsCounted'
        /\ Item(run', "process", 0, 1) \in queued' => gameRunning
        /\ latestACH # 0 /\ achFresh => Item(run', "ach", 0, latestACH) \in queued'
        /\ items \subseteq queued'
        /\ Lines' = Lines \cup items
    BY <2>1, <2>2, <2>4, <1>3, StartRunKeeps
  <2>6. TypeOK'
    <3>1. runs' \in {0} \cup Runs /\ run' \in 0 .. runs' /\ active' \in BOOLEAN
      BY <2>4, <2>5, <1>3
    <3>2. known' \in 0 .. log.no
      BY <1>1, <1>3
    <3> QED BY <3>1, <3>2, <2>5, <1>1, <1>2, <1>5, RunTypes, MonitorTypes
  <2>7. ActiveMeansRunning' /\ ActiveRunHasAch'
    BY <2>5, <1>8 DEF ActiveMeansRunning, ActiveRunHasAch
  <2>8. GameIsFollowed'
    BY <2>2, <2>5, <1>8 DEF GameIsFollowed
  <2>9. RunsCounted'
    <3>1. runs' <= Life(restarts) + known + 1 /\ run' # 0
      BY <2>3, <2>5, <1>3, <1>4
    <3> QED BY <3>1, <1>8 DEF RunsCounted, Life
  <2>10. LinesFiled'
    <3>1. \A item \in Lines : item.run # run'
      BY <2>5, <1>3, <1>7
    <3>2. \A item \in items : item.file = log.no /\ item.run = run'
      BY <2>2, <2>5
    <3>3. ~raced /\ restarts = 0 => \A item \in Lines : item.file # known
      BY <1>3, <1>7, <1>12
    <3>4. pc' # "read"
      BY <1>1
    <3>5. \A item \in Lines' : item.file # 0
      BY <3>2, <2>5, <1>7
    <3>6. ~raced => \A item \in Lines' : item.run = run' => item.file = known
      BY <3>1, <3>2, <2>5, <1>7
    <3>7. ~raced /\ restarts = 0 =>
            \A item \in Lines' : item.file <= known /\ (item.file = known => item.run = run')
      BY <3>2, <3>3, <2>5, <1>3, <1>7
    <3> QED BY <3>4, <3>5, <3>6, <3>7, <1>8 DEF LinesFiled
  <2>11. OneLogPerRun'
    <3> SUFFICES ASSUME ~raced, NEW e \in Lines', NEW f \in Lines'
                 PROVE  /\ e.run = f.run => e.file = f.file
                        /\ restarts = 0 /\ e.file = f.file => e.run = f.run
      BY <1>8 DEF OneLogPerRun
    <3>1. \A item \in items : item.run = runs + 1 /\ item.file = known
      BY <2>2, <1>7
    <3>2. \A item \in Lines : item.run # runs + 1
      BY <1>3, <1>7
    <3>3. restarts = 0 => \A item \in Lines : item.file # known
      BY <1>3, <1>7, <1>12
    <3>4. CASE e \in Lines /\ f \in Lines
      BY <3>4, <1>10 DEF OneLogPerRun
    <3>5. CASE e \in items /\ f \in items
      BY <3>1, <3>5
    <3>6. CASE (e \in items /\ f \in Lines) \/ (e \in Lines /\ f \in items)
      BY <3>1, <3>2, <3>3, <3>6
    <3> QED BY <3>4, <3>5, <3>6, <2>5
  <2> QED BY <2>5, <2>6, <2>7, <2>8, <2>9, <2>10, <2>11, <1>6, <1>9 DEF LoopInv, MonitorInv
<1>13. CASE Unread # {} /\ run # 0
  <2> DEFINE items == LineItems(run)
  <2>1. Add(items, log.closed)
    BY <1>1, <1>13 DEF StartOrAdd, Target
  <2>2. /\ items \subseteq Queueable(runs, log.no)
        /\ \A item \in items :
             item.run = run /\ item.kind \in {"line", "closed"} /\ item.file = log.no
        /\ log.closed => \E item \in items : item.run = run /\ item.kind = "closed"
    <3>1. run \in 1 .. runs
      BY <1>3, <1>13
    <3> QED BY <3>1, <1>2, <1>3, <1>13, LineItemsOf
  <2> HIDE DEF items
  <2>3. /\ runs' = runs /\ run' = run
        /\ active' = (active /\ ~log.closed)
        /\ queued' = queued \cup items
        /\ queued' \subseteq Queueable(runs, log.no)
        /\ ends' \in [Runs -> Nat]
        /\ EndsOnce' /\ EndsCounted'
    BY <2>1, <2>2, <1>3, <1>13, AddKeeps
  <2>4. Lines' = Lines \cup items
    BY <2>2, <2>3 DEF Lines
  <2>5. TypeOK'
    <3>1. runs' \in {0} \cup Runs /\ run' \in 0 .. runs' /\ active' \in BOOLEAN
      BY <2>3, <1>3
    <3>2. known' \in 0 .. log.no
      BY <1>1, <1>3
    <3> QED BY <3>1, <3>2, <2>3, <1>1, <1>2, <1>5, RunTypes, MonitorTypes
  <2>6. ActiveMeansRunning'
    <3>1. Item(run, "process", 0, 1) \notin items
      BY <2>2, ItemFields
    <3> QED BY <3>1, <2>3, <1>8 DEF LoopInv, MonitorInv, ActiveMeansRunning
  <2>7. ActiveRunHasAch'
    BY <2>3, <1>8 DEF LoopInv, ActiveRunHasAch
  <2>8. GameIsFollowed'
    BY <2>2, <2>3, <1>8 DEF LoopInv, MonitorInv, GameIsFollowed
  <2>9. RunsCounted'
    BY <2>3, <1>8 DEF LoopInv, RunsCounted, Life
  <2>10. LinesFiled'
    <3>1. pc' # "read"
      BY <1>1
    <3>2. \A item \in Lines' : item.file # 0
      BY <2>2, <2>4, <1>7
    <3>3. ~raced => \A item \in Lines' : item.run = run' => item.file = known
      BY <2>2, <2>3, <2>4, <1>7
    <3>4. ~raced /\ restarts = 0 =>
            \A item \in Lines' : item.file <= known /\ (item.file = known => item.run = run')
      BY <2>2, <2>3, <2>4, <1>3, <1>7
    <3> QED BY <3>1, <3>2, <3>3, <3>4, <1>8 DEF LinesFiled
  <2>11. OneLogPerRun'
    <3> SUFFICES ASSUME ~raced, NEW e \in Lines', NEW f \in Lines'
                 PROVE  /\ e.run = f.run => e.file = f.file
                        /\ restarts = 0 /\ e.file = f.file => e.run = f.run
      BY <1>8 DEF OneLogPerRun
    <3>1. \A item \in items : item.run = run /\ item.file = known
      BY <2>2, <1>7
    <3>2. CASE e \in Lines /\ f \in Lines
      BY <3>2, <1>10 DEF OneLogPerRun
    <3>3. CASE e \in items /\ f \in items
      BY <3>1, <3>3
    <3>4. CASE (e \in items /\ f \in Lines) \/ (e \in Lines /\ f \in items)
      BY <3>1, <3>4, <1>7
    <3> QED BY <3>2, <3>3, <3>4, <2>4
  <2> QED BY <2>3, <2>5, <2>6, <2>7, <2>8, <2>9, <2>10, <2>11, <1>6, <1>9 DEF LoopInv, MonitorInv
<1> QED BY <1>11, <1>12, <1>13

\* The launcher's new values go to the active run, the latest among them.
LEMMA ReadLauncherKeeps == ASSUME LoopInv, ReadLauncher PROVE LoopInv'
<1> DEFINE items == {Item(run, "ach", 0, n) : n \in (1 .. launches) \ (1 .. launchRead)}
<1>1. /\ launchRead < launches /\ launches # 0
      /\ latestACH' = launches /\ launchRead' = launches /\ achFresh' = TRUE
      /\ IF run # 0 /\ active THEN Add(items, FALSE) ELSE UNCHANGED runVars
      /\ pc' = "process"
      /\ UNCHANGED <<worldVars, logVars, processVars, probeDone, checkVars>>
  BY DEF ReadLauncher
<1> USE DEF worldVars, runVars, logVars, processVars, checkVars
<1>2. TypeOK
  BY DEF LoopInv, MonitorInv
<1>3. /\ launches \in Nat /\ launchRead \in Int /\ log.no \in Nat /\ runs \in Nat
      /\ runs \in {0} \cup Runs /\ run \in 0 .. runs /\ active \in BOOLEAN
  BY <1>2, MonitorTypes
<1>4. HelperOncePerStop' /\ HelperCounted'
  BY <1>1 DEF LoopInv, MonitorInv, HelperOncePerStop, HelperCounted
<1>5. launchRead' \in -1 .. launches /\ latestACH' \in 0 .. launches
  BY <1>1, <1>3
<1>6. CASE run # 0 /\ active
  <2>1. Item(run, "ach", 0, launches) \in items
    <3>1. launches \in (1 .. launches) \ (1 .. launchRead)
      BY <1>1, <1>3
    <3> QED BY <3>1
  <2>2. \A item \in items : item \in Queueable(runs, log.no) /\ item.kind = "ach"
    <3> SUFFICES ASSUME NEW n \in 1 .. launches
                 PROVE  /\ Item(run, "ach", 0, n) \in Queueable(runs, log.no)
                        /\ Item(run, "ach", 0, n).kind = "ach"
      OBVIOUS
    <3>1. run \in 1 .. runs /\ n \in Nat /\ 0 \in 0 .. log.no /\ "ach" \in Kinds
      BY <1>3, <1>6 DEF Kinds
    <3> QED BY <3>1, ItemFields
  <2> HIDE DEF items
  <2>3. Add(items, FALSE)
    BY <1>1, <1>6
  <2>4. /\ runs' = runs /\ run' = run
        /\ active' = (active /\ ~FALSE)
        /\ queued' = queued \cup items
        /\ queued' \subseteq Queueable(runs, log.no)
        /\ ends' \in [Runs -> Nat]
        /\ EndsOnce' /\ EndsCounted'
    <3>1. items \subseteq Queueable(runs, log.no) /\ FALSE \in BOOLEAN
      BY <2>2
    <3> QED BY <3>1, <2>3, <1>6, AddKeeps
  <2>5. active' = TRUE /\ Lines' = Lines
    BY <2>2, <2>4, <1>6 DEF Lines
  <2>6. TypeOK'
    BY <2>4, <2>5, <1>1, <1>2, <1>3, <1>5, RunTypes, MonitorTypes
  <2>7. ActiveMeansRunning'
    <3>1. Item(run, "process", 0, 1) \notin items
      BY <2>2, ItemFields
    <3> QED BY <3>1, <2>4, <1>1, <1>6 DEF LoopInv, MonitorInv, ActiveMeansRunning
  <2>8. GameIsFollowed' /\ GamesCounted'
    BY <2>5, <1>1 DEF LoopInv, GameIsFollowed, GamesCounted
  <2>9. ActiveRunHasAch'
    BY <2>1, <2>4, <1>1 DEF ActiveRunHasAch
  <2>10. RunsCounted' /\ LinesFiled' /\ OneLogPerRun'
    BY <2>4, <2>5, <1>1 DEF LoopInv, RunsCounted, LinesFiled, OneLogPerRun, Life
  <2> QED BY <2>4, <2>6, <2>7, <2>8, <2>9, <2>10, <1>4 DEF LoopInv, MonitorInv
<1>7. CASE ~(run # 0 /\ active)
  <2> HIDE DEF items
  <2>1. UNCHANGED <<run, active, runs, queued, ends>>
    BY <1>1, <1>7
  <2>2. TypeOK'
    BY <2>1, <1>1, <1>2, <1>5, MonitorTypes DEF TypeOK
  <2>3. EndsOnce' /\ ActiveMeansRunning' /\ GameIsFollowed' /\ EndsCounted' /\ GamesCounted'
    BY <2>1, <1>1 DEF LoopInv, MonitorInv, EndsOnce, ActiveMeansRunning, GameIsFollowed,
                      EndsCounted, GamesCounted, Item
  <2>4. RunsCounted' /\ LinesFiled' /\ OneLogPerRun'
    BY <2>1, <1>1 DEF LoopInv, RunsCounted, LinesFiled, OneLogPerRun, Lines, Life
  <2>5. ActiveRunHasAch'
    BY <2>1, <1>7 DEF ActiveRunHasAch
  <2> QED BY <2>2, <2>3, <2>4, <2>5, <1>4 DEF LoopInv, MonitorInv
<1> QED BY <1>6, <1>7

\* A look at the processes that finds the game gone ends the run; only a look
\* that fails ends it while the game runs.
LEMMA PollProcessKeeps ==
  ASSUME LoopInv, NEW isMissed \in BOOLEAN, PollProcess(isMissed)
  PROVE  LoopInv'
<1> DEFINE isRunning == game /\ ~isMissed
           isChange == processKnown /\ isRunning # gameRunning
           items == {Item(run, "process", 0, IF isRunning THEN 1 ELSE 0)}
<1>1. /\ isMissed => game /\ misses < MaxMisses
      /\ misses' = IF isMissed THEN misses + 1 ELSE misses
      /\ processKnown' = TRUE
      /\ gameRunning' = isRunning
      /\ probeDone' = (probeDone /\ ~(isChange /\ ~isRunning))
      /\ helped' = IF isChange /\ ~isRunning THEN 0 ELSE helped
      /\ IF run # 0 /\ (isChange \/ (~processKnown /\ isRunning))
         THEN Add(items, ~isRunning)
         ELSE UNCHANGED runVars
      /\ pc' = "helper"
      /\ UNCHANGED <<worldVars, logVars, achVars, achFresh, raced, restarts, joined>>
  BY DEF PollProcess
<1> USE DEF worldVars, runVars, logVars, achVars
<1>2. TypeOK
  BY DEF LoopInv, MonitorInv
<1>3. /\ log.no \in Nat /\ runs \in Nat /\ misses \in Nat /\ misses \in 0 .. MaxMisses
      /\ helped \in Nat /\ runs \in {0} \cup Runs /\ run \in 0 .. runs
      /\ ends \in [Runs -> Nat] /\ queued \subseteq Queueable(runs, log.no)
  BY <1>2, MonitorTypes
<1>4. /\ active \in BOOLEAN /\ gameRunning \in BOOLEAN /\ processKnown \in BOOLEAN
      /\ probeDone \in BOOLEAN /\ game \in BOOLEAN /\ joined \in BOOLEAN /\ achFresh \in BOOLEAN
  BY <1>2, MonitorTypes
<1>5. isRunning \in BOOLEAN /\ (isRunning => game) /\ (game /\ ~isRunning => isMissed)
  OBVIOUS
<1>6. /\ isChange \in BOOLEAN
      /\ ~isChange => ~processKnown \/ isRunning = gameRunning
      /\ isChange => processKnown /\ isRunning # gameRunning
  BY <1>4
<1> HIDE DEF isRunning, isChange
<1>7. misses' \in 0 .. MaxMisses /\ helped' \in Nat /\ (isMissed => misses' > 0)
      /\ misses' >= misses
  <2>1. MaxMisses \in Nat
    BY AgentMonitorAssumption DEF AgentMonitorAssumption
  <2>2. CASE isMissed
    BY <2>1, <2>2, <1>1, <1>3
  <2>3. CASE ~isMissed
    BY <2>1, <2>3, <1>1, <1>3
  <2> QED BY <2>2, <2>3
<1>8. probeDone' \in BOOLEAN /\ gameRunning' \in BOOLEAN /\ processKnown' \in BOOLEAN
  BY <1>1, <1>5
<1>9. HelperOncePerStop' /\ HelperCounted'
  <2>1. helped' # 0 => helped' = helped /\ probeDone' = probeDone
    BY <1>1, <1>4, <1>5, <1>6
  <2> QED BY <2>1, <1>1, <1>3, <1>7 DEF LoopInv, MonitorInv, HelperOncePerStop, HelperCounted
<1>10. \A item \in items : item \in Queueable(runs, log.no) \/ run = 0
  <2>1. run # 0 => run \in 1 .. runs
    BY <1>3
  <2>2. (IF isRunning THEN 1 ELSE 0) \in Nat /\ 0 \in 0 .. log.no /\ "process" \in Kinds
    BY <1>3 DEF Kinds
  <2> QED BY <2>1, <2>2, ItemFields
<1>11. \A item \in items : item.kind = "process"
  BY ItemFields
<1> HIDE DEF items
<1>12. gameRunning => processKnown
  BY DEF LoopInv, GamesCounted
<1>13. /\ active => run # 0
       /\ ~game => \/ log.game < stops
                   \/ /\ stops = 0 /\ log.no = 0 /\ log.lines = 0 /\ ~log.closed
                      /\ ~gameRunning /\ (run # 0 => active)
       /\ log.game <= stops
  BY DEF LoopInv, EndsCounted, GamesCounted
<1>14. UNCHANGED <<game, log, launches, stops, known, raced, restarts, joined, latestACH, achFresh>>
  BY <1>1
<1>15. CASE run # 0 /\ (isChange \/ (~processKnown /\ isRunning))
  <2>1. /\ Add(items, ~isRunning) /\ (~isRunning) \in BOOLEAN /\ items \subseteq Queueable(runs, log.no)
    BY <1>1, <1>10, <1>15
  <2>2. /\ runs' = runs /\ run' = run
        /\ active' = (active /\ ~(~isRunning))
        /\ queued' = queued \cup items
        /\ queued' \subseteq Queueable(runs, log.no)
        /\ ends' \in [Runs -> Nat]
        /\ EndsOnce' /\ EndsCounted'
    BY <2>1, <1>15, AddKeeps
  <2>3. active' = (active /\ isRunning)
    BY <2>2, <1>5
  <2>4. Lines' = Lines
    BY <2>2, <1>11 DEF Lines
  <2>5. TypeOK'
    <3>1. active' \in BOOLEAN
      BY <2>3
    <3> QED BY <3>1, <2>2, <1>1, <1>2, <1>3, <1>7, <1>8, <1>14, RunTypes, MonitorTypes
  <2>6. ActiveMeansRunning'
    BY <2>3, <1>1 DEF ActiveMeansRunning
  <2>7. GameIsFollowed'
    <3>1. CASE active /\ game
      <4>1. ~active' => misses' > 0
        BY <3>1, <2>3, <1>5, <1>7
      <4> QED BY <4>1 DEF GameIsFollowed
    <3>2. CASE ~active /\ game
      <4>1. misses > 0 => misses' > 0
        BY <1>3, <1>7
      <4> QED BY <4>1, <3>2, <2>2, <1>14 DEF LoopInv, MonitorInv, GameIsFollowed
    <3>3. CASE ~game
      BY <3>3, <1>14 DEF GameIsFollowed
    <3> QED BY <3>1, <3>2, <3>3
  <2>8. GamesCounted'
    <3>1. ~game => log.game < stops
      BY <1>4, <1>5, <1>6, <1>13, <1>15
    <3> QED BY <3>1, <1>1, <1>13, <1>14 DEF GamesCounted
  <2>9. ActiveRunHasAch'
    BY <2>2, <2>3, <1>14 DEF LoopInv, ActiveRunHasAch
  <2>10. RunsCounted' /\ LinesFiled' /\ OneLogPerRun'
    BY <2>2, <2>4, <1>1, <1>14 DEF LoopInv, RunsCounted, LinesFiled, OneLogPerRun, Life
  <2> QED BY <2>2, <2>5, <2>6, <2>7, <2>8, <2>9, <2>10, <1>9 DEF LoopInv, MonitorInv
<1>16. CASE ~(run # 0 /\ (isChange \/ (~processKnown /\ isRunning)))
  <2>1. UNCHANGED <<run, active, runs, queued, ends>>
    BY <1>1, <1>16
  <2>2. run # 0 => isRunning = gameRunning
    BY <1>4, <1>5, <1>6, <1>12, <1>16
  <2>3. TypeOK'
    BY <2>1, <1>1, <1>2, <1>3, <1>4, <1>7, <1>8, <1>14, RunTypes, MonitorTypes
  <2>4. ActiveMeansRunning'
    BY <2>1, <2>2, <1>1, <1>13 DEF LoopInv, MonitorInv, ActiveMeansRunning, Item
  <2>5. GameIsFollowed'
    <3>1. misses > 0 => misses' > 0
      BY <1>3, <1>7
    <3> QED BY <3>1, <2>1, <1>14 DEF LoopInv, MonitorInv, GameIsFollowed
  <2>6. GamesCounted'
    <3>1. ~game => ~isRunning
      BY <1>5
    <3> QED BY <3>1, <2>1, <1>1, <1>13, <1>14 DEF GamesCounted
  <2>7. EndsOnce' /\ EndsCounted' /\ ActiveRunHasAch'
    BY <2>1, <1>14 DEF LoopInv, MonitorInv, EndsOnce, EndsCounted, ActiveRunHasAch, Item
  <2>8. RunsCounted' /\ LinesFiled' /\ OneLogPerRun'
    BY <2>1, <1>1, <1>14 DEF LoopInv, RunsCounted, LinesFiled, OneLogPerRun, Lines, Life
  <2> QED BY <2>3, <2>4, <2>5, <2>6, <2>7, <2>8, <1>9 DEF LoopInv, MonitorInv
<1> QED BY <1>15, <1>16

\* A probe's event begins a run if there is none.
LEMMA PollProbeKeeps ==
  ASSUME LoopInv, NEW isFound \in BOOLEAN, PollProbe(isFound)
  PROVE  LoopInv'
<1>1. /\ IF isFound /\ run = 0 THEN StartRun({}, FALSE) ELSE UNCHANGED runVars
      /\ pc' = "log"
      /\ UNCHANGED <<worldVars, logVars, achVars, achFresh, processVars, probeDone, checkVars>>
  BY DEF PollProbe
<1> USE DEF worldVars, runVars, logVars, achVars, processVars, checkVars
<1>2. TypeOK
  BY DEF LoopInv, MonitorInv
<1>3. /\ known \in 0 .. log.no /\ known \in Nat /\ log.no \in 0 .. MaxLogs /\ log.no \in Nat
      /\ MaxLogs \in Nat /\ runs \in Nat /\ restarts \in 0 .. MaxRestarts /\ restarts \in Nat
      /\ run \in 0 .. runs /\ queued \subseteq Queueable(runs, log.no)
  BY <1>2, MonitorTypes
<1>4. HelperOncePerStop' /\ HelperCounted'
  BY <1>1 DEF LoopInv, MonitorInv, HelperOncePerStop, HelperCounted
<1>5. CASE isFound /\ run = 0
  <2>1. runs <= Life(restarts) /\ Life(restarts) \in Nat
    BY <1>3, <1>5, LifeGrows DEF LoopInv, RunsCounted
  <2>2. runs + 1 \in Runs
    BY <2>1, <1>3, RunFits
  <2>3. StartRun({}, FALSE)
    BY <1>1, <1>5
  <2>4. /\ runs' = runs + 1 /\ run' = runs + 1 /\ active' = TRUE
        /\ queued' \subseteq Queueable(runs + 1, log.no)
        /\ ends' \in [Runs -> Nat]
        /\ EndsOnce' /\ EndsCounted'
        /\ Item(run', "process", 0, 1) \in queued' => gameRunning
        /\ latestACH # 0 /\ achFresh => Item(run', "ach", 0, latestACH) \in queued'
        /\ Lines' = Lines
    BY <2>2, <2>3, StartBareRunKeeps
  <2>5. TypeOK'
    <3>1. runs' \in {0} \cup Runs /\ run' \in 0 .. runs' /\ active' \in BOOLEAN
      BY <2>2, <2>4, <1>3
    <3> QED BY <3>1, <2>4, <1>1, <1>2, RunTypes, MonitorTypes
  <2>6. ActiveMeansRunning' /\ GameIsFollowed' /\ ActiveRunHasAch' /\ GamesCounted'
    BY <2>4, <1>1 DEF LoopInv, ActiveMeansRunning, GameIsFollowed, ActiveRunHasAch, GamesCounted
  <2>7. RunsCounted'
    <3>1. runs' <= Life(restarts) + known + 1 /\ run' # 0
      BY <2>1, <2>4, <1>3
    <3> QED BY <3>1, <1>1 DEF RunsCounted, Life
  <2>8. LinesFiled'
    <3>1. \A item \in Lines : item.run \in 1 .. runs
      BY <1>3 DEF Lines, Queueable
    <3>2. \A item \in Lines : item.run # run' /\ item.run # run
      BY <3>1, <2>4, <1>3, <1>5
    <3> QED BY <3>2, <2>4, <1>1 DEF LoopInv, LinesFiled
  <2>9. OneLogPerRun'
    BY <2>4, <1>1 DEF LoopInv, OneLogPerRun
  <2> QED BY <2>4, <2>5, <2>6, <2>7, <2>8, <2>9, <1>4 DEF LoopInv, MonitorInv
<1>6. CASE ~(isFound /\ run = 0)
  <2>1. UNCHANGED runVars
    BY <1>1, <1>6
  <2>2. TypeOK'
    BY <2>1, <1>1, <1>2 DEF TypeOK
  <2> QED BY <2>1, <2>2, <1>1, <1>4, RunsLeft DEF LoopInv, MonitorInv
<1> QED BY <1>5, <1>6

\* A new agent knows no run, no log and no game.
LEMMA RestartKeeps == ASSUME LoopInv, Restart PROVE LoopInv'
<1>1. /\ restarts < MaxRestarts /\ restarts' = restarts + 1
      /\ pc' = "log" /\ run' = 0 /\ active' = FALSE /\ known' = 0 /\ offset' = 0
      /\ launchRead' = -1 /\ latestACH' = 0
      /\ processKnown' = FALSE /\ gameRunning' = FALSE /\ probeDone' = FALSE /\ helped' = 0
      /\ UNCHANGED <<worldVars, runs, queued, ends, achFresh, raced, misses, joined>>
  BY DEF Restart
<1> USE DEF worldVars
<1>2. TypeOK
  BY DEF LoopInv, MonitorInv
<1>3. /\ known \in 0 .. log.no /\ log.no \in 0 .. MaxLogs /\ log.no \in Nat /\ MaxLogs \in Nat
      /\ MaxRestarts \in Nat /\ MaxLines \in Nat
      /\ runs \in Nat /\ restarts \in 0 .. MaxRestarts /\ restarts \in Nat
      /\ launches \in Nat /\ queued \subseteq Queueable(runs, log.no)
  BY <1>2, MonitorTypes
<1>4. TypeOK'
  <2>1. /\ restarts' \in 0 .. MaxRestarts /\ run' \in 0 .. runs' /\ known' \in 0 .. log.no
        /\ offset' \in 0 .. MaxLines + 1 /\ launchRead' \in -1 .. launches
        /\ latestACH' \in 0 .. launches /\ helped' \in Nat
    BY <1>1, <1>3
  <2>2. {active, achFresh, processKnown, gameRunning, probeDone, raced, joined}' \subseteq BOOLEAN
    BY <1>1, <1>2, MonitorTypes
  <2> QED BY <2>1, <2>2, <1>1, <1>2 DEF TypeOK
<1>5. EndsOnce' /\ ActiveMeansRunning' /\ GameIsFollowed' /\ HelperOncePerStop'
  BY <1>1 DEF LoopInv, MonitorInv, EndsOnce, ActiveMeansRunning, GameIsFollowed, HelperOncePerStop
<1>6. RunsCounted'
  <2>1. runs <= Life(restarts) + known + 1
    BY DEF LoopInv, RunsCounted
  <2>2. Life(restarts) \in Nat /\ Life(restarts + 1) = Life(restarts) + MaxLogs + 1
    BY <1>3, LifeGrows
  <2>3. runs <= Life(restarts + 1) /\ runs <= Life(restarts + 1) + 0 + 1
    BY <2>1, <2>2, <1>3
  <2> QED BY <2>3, <1>1 DEF RunsCounted, Life
<1>7. EndsCounted' /\ GamesCounted' /\ HelperCounted'
  BY <1>1 DEF LoopInv, EndsCounted, GamesCounted, HelperCounted
<1>8. Lines' = Lines
  BY <1>1 DEF Lines
<1>9. LinesFiled'
  <2>1. \A item \in Lines : item.run # 0
    BY <1>3 DEF Lines, Queueable
  <2>2. restarts' # 0
    BY <1>1, <1>3
  <2> QED BY <2>1, <2>2, <1>1, <1>8 DEF LoopInv, LinesFiled
<1>10. OneLogPerRun' /\ ActiveRunHasAch'
  <2>1. restarts' # 0
    BY <1>1, <1>3
  <2> QED BY <2>1, <1>1, <1>8 DEF LoopInv, OneLogPerRun, ActiveRunHasAch
<1> QED BY <1>4, <1>5, <1>6, <1>7, <1>9, <1>10 DEF LoopInv, MonitorInv

-----------------------------------------------------------------------------
\* Every step keeps the invariant.
LEMMA LoopNext == LoopInv /\ [Next]_vars => LoopInv'
<1> SUFFICES ASSUME LoopInv, [Next]_vars PROVE LoopInv'
  OBVIOUS
<1>1. CASE World
  BY <1>1, LaunchesKeeps, GameStartsKeeps, GameStopsKeeps, LogReplacedKeeps, LogWrittenKeeps,
     TimePassesKeeps DEF World
<1>2. CASE Loop
  BY <1>2, StatLogKeeps, NothingHappensKeeps, ReadLogKeeps, ReadLauncherKeeps, SkipLauncherKeeps,
     PollProcessKeeps, StartHelperKeeps, HelperReportsKeeps, PollProbeKeeps DEF Loop
<1>3. CASE Restart
  BY <1>3, RestartKeeps
<1>4. CASE UNCHANGED vars
  <2>1. /\ UNCHANGED <<game, log, launches, stops, pc, run, active, runs, queued, ends>>
        /\ UNCHANGED <<known, offset, launchRead, latestACH, achFresh, processKnown, gameRunning>>
        /\ UNCHANGED <<probeDone, helped, raced, restarts, misses, joined>>
    BY <1>4 DEF vars, worldVars, runVars, logVars, achVars, processVars, checkVars
  <2>2. TypeOK'
    BY <2>1 DEF LoopInv, MonitorInv, TypeOK
  <2>3. EndsOnce' /\ ActiveMeansRunning' /\ GameIsFollowed' /\ HelperOncePerStop'
    BY <2>1 DEF LoopInv, MonitorInv, EndsOnce, ActiveMeansRunning, GameIsFollowed,
                HelperOncePerStop, Item
  <2>4. RunsCounted' /\ EndsCounted' /\ GamesCounted' /\ HelperCounted'
    BY <2>1 DEF LoopInv, RunsCounted, EndsCounted, GamesCounted, HelperCounted, Life
  <2>5. LinesFiled' /\ OneLogPerRun' /\ ActiveRunHasAch'
    BY <2>1 DEF LoopInv, LinesFiled, OneLogPerRun, ActiveRunHasAch, Lines, Item
  <2> QED BY <2>2, <2>3, <2>4, <2>5 DEF LoopInv, MonitorInv
<1> QED BY <1>1, <1>2, <1>3, <1>4 DEF Next

-----------------------------------------------------------------------------
\* A run ends once, does not outlast a game that was seen, and is not ended
\* while its game goes on, and the helper succeeds once for each stop: the
\* invariant of runs and helper holds for any number of logs, restarts and games.
THEOREM RunsFollowGames == Spec => []MonitorInv
<1>1. LoopInv => MonitorInv
  BY DEF LoopInv
<1> QED BY <1>1, LoopInit, LoopNext, PTL DEF Spec

\* No two logs are mixed in a run, and no log is split over two, unless a log
\* is replaced between a stat and a read or the agent is restarted.
THEOREM LogsAreNotMixed == Spec => []OneLogPerRun
<1>1. LoopInv => OneLogPerRun
  BY DEF LoopInv
<1> QED BY <1>1, LoopInit, LoopNext, PTL DEF Spec

\* Whichever comes first, the run or the launcher's value, the run has it.
THEOREM RunsHaveTheirAch == Spec => []ActiveRunHasAch
<1>1. LoopInv => ActiveRunHasAch
  BY DEF LoopInv
<1> QED BY <1>1, LoopInit, LoopNext, PTL DEF Spec
=============================================================================
