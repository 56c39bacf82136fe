------------------------------ MODULE RunStore ------------------------------
(***************************************************************************)
(* The collector's run files: one file per run, appended to by ingest and  *)
(* removed by the administrator or by the retention cleanup.               *)
(*                                                                         *)
(* appendEvents holds the server's lock from opening the file to syncing   *)
(* it, writes one line per event and answers after the sync.  The delete   *)
(* handler takes the lock too.  cleanup takes none: it looks at a file's   *)
(* modification time, then removes whatever bears the name.  A file that   *)
(* is removed while it is being written keeps its content and has no name. *)
(*                                                                         *)
(* A write can fail, also after some of its bytes (a full disk); a sync    *)
(* can fail; the answer can get lost; the process or the host can stop,    *)
(* and the host may forget what was not synced.  Each of these uses one of *)
(* MaxFaults faults.                                                       *)
(*                                                                         *)
(* The agent then sends again from the oldest event it holds.  That is the *)
(* first of the failed upload, unless its full queue dropped that one      *)
(* meanwhile; and an upload the agent has given up on may be stored later. *)
(***************************************************************************)
EXTENDS Integers, Sequences, Functions

CONSTANTS
  Run,        \* run identifiers
  BatchLimit, \* maxEvents: events in one upload at most
  Retention,  \* COLLECTOR_RETENTION_DAYS, in ticks
  LineSize,   \* LineSize[n]: the length of event n's line
  LineLimit,  \* the longest line that readRun can read, 256 KiB
  MaxEvents,  \* bound: events of one run
  MaxFiles,   \* bound: files created
  MaxTime,    \* bound: ticks
  MaxFaults   \* bound: failures

ASSUME RunStoreAssumption ==
  /\ BatchLimit \in Nat \ {0}
  /\ Retention \in Nat \ {0}
  /\ LineLimit \in Nat
  /\ LineSize \in [1 .. MaxEvents -> 1 .. LineLimit]
  /\ {MaxEvents, MaxFiles, MaxTime, MaxFaults} \subseteq Nat

VARIABLES
  clock,    \* time.Now()
  dir,      \* dir[r]: the file named <r>.jsonl, 0 when there is none
  created,  \* files created so far
  content,  \* content[f]: what was written to the file, in order
  durable,  \* durable[f]: how much of it is synced
  mtime,    \* mtime[f]: when it was last written
  writer,   \* the appendEvents that holds the lock
  cleaner,  \* the cleanup under way
  next,     \* next[r]: the oldest event of r the agent still holds
  late,     \* uploads the agent has given up on before they got the lock
  acked,    \* [run, id, at] for the events stored before a 204, and when
  deleted,  \* [run, id] for the events the administrator deleted
  expired,  \* [run, id] for the events in a file the cleanup removed
  skewed,   \* runs of which an event was dropped unsent, or an upload stored late
  faults    \* failures so far

fileVars == <<dir, created, content, durable, mtime>>
agentVars == <<next, late>>
historyVars == <<acked, deleted, expired, skewed>>
vars == <<clock, fileVars, writer, cleaner, agentVars, historyVars, faults>>

Files == 1 .. MaxFiles
Events == 1 .. MaxEvents

\* A write: an event's line, or a part of it without the newline, and how long the
\* line of the file is that ends with it.
Chunk == [id : Events, whole : BOOLEAN, line : Nat]

\* Of the upload being stored: run and file, its first event, the next to write and the
\* last, and whether the agent still waits for the answer.
Unlocked == [run |-> 0, file |-> 0, first |-> 1, at |-> 1, last |-> 0, isHeard |-> FALSE]

\* When the cleanup started; names it has yet to look at, and to remove; and the
\* modification time it saw of the latter.
Asleep == [start |-> 0, awake |-> FALSE, todo |-> {}, doomed |-> {}, seen |-> 0]

EventsIn(f) == {c.id : c \in Range(content[f])}
Tagged(r, ids) == {[run |-> r, id |-> n] : n \in ids}

Fault ==
  /\ faults < MaxFaults
  /\ faults' = faults + 1

Init ==
  /\ clock = 0
  /\ dir = [r \in Run |-> 0]
  /\ created = 0
  /\ content = [f \in Files |-> <<>>]
  /\ durable = [f \in Files |-> 0]
  /\ mtime = [f \in Files |-> 0]
  /\ writer = Unlocked
  /\ cleaner = Asleep
  /\ next = [r \in Run |-> 1]
  /\ late = {}
  /\ acked = {}
  /\ deleted = {}
  /\ expired = {}
  /\ skewed = {}
  /\ faults = 0

\* A tick is days long: an upload under the lock takes no time.
Advance ==
  /\ clock < MaxTime
  /\ writer = Unlocked
  /\ clock' = clock + 1
  /\ UNCHANGED <<fileVars, writer, cleaner, agentVars, historyVars, faults>>

-----------------------------------------------------------------------------
\* The agent, as the server gets to know it.

\* It sends one upload at a time.
Waits(r) == writer.isHeard /\ writer.run = r

\* queue: a full queue drops its oldest event.  How full it is, Uplink tells.
Drop(r) ==
  /\ ~Waits(r)
  /\ next[r] <= MaxEvents
  /\ next' = [next EXCEPT ![r] = @ + 1]
  /\ skewed' = skewed \cup {r}
  /\ UNCHANGED <<clock, fileVars, writer, cleaner, late, acked, deleted, expired, faults>>

\* The client's time is up before the handler has the lock.
GiveUp(r, size) ==
  /\ ~Waits(r)
  /\ next[r] + size - 1 <= MaxEvents
  /\ Fault
  /\ late' = late \cup {[run |-> r, first |-> next[r], last |-> next[r] + size - 1]}
  /\ UNCHANGED <<clock, fileVars, writer, cleaner, next, historyVars>>

\* It is up while the handler has the lock, or the answer gets lost.
StopWaiting ==
  /\ writer.isHeard
  /\ Fault
  /\ writer' = [writer EXCEPT !.isHeard = FALSE]
  /\ UNCHANGED <<clock, fileVars, cleaner, agentVars, historyVars>>

-----------------------------------------------------------------------------
\* appendEvents, under the lock.

\* Mutant of OpenFile: what the file holds is cut off.
OpenFileTruncated(r, first, last, isHeard) ==
  /\ writer = Unlocked
  /\ LET f == IF dir[r] = 0 THEN created + 1 ELSE dir[r]
     IN  /\ f <= MaxFiles
         /\ dir' = [dir EXCEPT ![r] = f]
         /\ created' = IF dir[r] = 0 THEN f ELSE created
         /\ mtime' = [mtime EXCEPT ![f] = clock]
         /\ content' = [content EXCEPT ![f] = <<>>]
         /\ writer' = [run |-> r, file |-> f, first |-> first, at |-> first, last |-> last,
                       isHeard |-> isHeard]
  /\ UNCHANGED <<clock, durable, cleaner, next, acked, deleted, expired, faults>>

\* OpenFile creates the file when the name is free.
OpenFile(r, first, last, isHeard) ==
  /\ writer = Unlocked
  /\ LET f == IF dir[r] = 0 THEN created + 1 ELSE dir[r]
     IN  /\ f <= MaxFiles
         /\ dir' = [dir EXCEPT ![r] = f]
         /\ created' = IF dir[r] = 0 THEN f ELSE created
         /\ mtime' = IF dir[r] = 0 THEN [mtime EXCEPT ![f] = clock] ELSE mtime
         /\ writer' = [run |-> r, file |-> f, first |-> first, at |-> first, last |-> last,
                       isHeard |-> isHeard]
  /\ UNCHANGED <<clock, content, durable, cleaner, next, acked, deleted, expired, faults>>

\* The agent's next upload gets the lock.
Open(r, size) ==
  /\ next[r] + size - 1 <= MaxEvents
  /\ OpenFile(r, next[r], next[r] + size - 1, TRUE)
  /\ UNCHANGED <<late, skewed>>

\* One gets it that the agent has given up on.
OpenLate(u) ==
  /\ u \in late
  /\ OpenFile(u.run, u.first, u.last, FALSE)
  /\ late' = late \ {u}
  /\ skewed' = skewed \cup {u.run}

Writing == writer.at <= writer.last

\* Mutant of Unended: the length is not reset where a line ends.
UnendedEver(s) == IF s = <<>> THEN 0 ELSE s[Len(s)].line

\* The length of what a file ends with and no newline ends.
Unended(s) == IF s = <<>> \/ s[Len(s)].whole THEN 0 ELSE s[Len(s)].line

\* A write goes to the file that was opened, named or not.
Written(isWhole, size) ==
  LET f == writer.file
      r == writer.run
  IN  /\ content' = [content EXCEPT ![f] =
           Append(@, [id |-> writer.at, whole |-> isWhole, line |-> Unended(@) + size])]
      /\ mtime' = [mtime EXCEPT ![f] = clock]
      /\ expired' = IF dir[r] = f THEN expired ELSE expired \cup Tagged(r, {writer.at})

Encode ==
  /\ Writing
  /\ Written(TRUE, LineSize[writer.at])
  /\ writer' = [writer EXCEPT !.at = @ + 1]
  /\ UNCHANGED <<clock, dir, created, durable, cleaner, agentVars, acked, deleted, skewed, faults>>

\* Mutant of EncodeFails: the error is dropped and the next event written.
EncodeGoesOn(size) ==
  /\ Writing
  /\ Fault
  /\ size <= LineSize[writer.at]
  /\ IF size > 0 THEN Written(FALSE, size) ELSE UNCHANGED <<content, mtime, expired>>
  /\ writer' = [writer EXCEPT !.at = @ + 1]
  /\ UNCHANGED <<clock, dir, created, durable, cleaner, agentVars, acked, deleted, skewed>>

\* A write fails before or after some of its bytes: 500.
EncodeFails(size) ==
  /\ Writing
  /\ Fault
  /\ size <= LineSize[writer.at]
  /\ IF size > 0 THEN Written(FALSE, size) ELSE UNCHANGED <<content, mtime, expired>>
  /\ writer' = Unlocked
  /\ UNCHANGED <<clock, dir, created, durable, cleaner, agentVars, acked, deleted, skewed>>

\* ingest answers 204, and the agent lets go of the batch if it waits for that.
Acknowledge ==
  /\ writer # Unlocked
  /\ ~Writing
  /\ acked' = acked \cup
       {[run |-> writer.run, id |-> n, at |-> clock] : n \in writer.first .. writer.last}
  /\ next' = IF writer.isHeard THEN [next EXCEPT ![writer.run] = writer.last + 1] ELSE next
  /\ writer' = Unlocked
  /\ UNCHANGED <<clock, dir, created, content, mtime, cleaner, late, deleted, expired, skewed,
                 faults>>

\* Mutant of Finish: the file is closed without a sync.
FinishUnsynced ==
  /\ Acknowledge
  /\ UNCHANGED durable

Finish ==
  /\ Acknowledge
  /\ durable' = [durable EXCEPT ![writer.file] = Len(content[writer.file])]

\* Sync reports an error: 500.
SyncFails ==
  /\ writer # Unlocked
  /\ ~Writing
  /\ Fault
  /\ writer' = Unlocked
  /\ UNCHANGED <<clock, fileVars, cleaner, agentVars, historyVars>>

-----------------------------------------------------------------------------
\* Removal.

\* deleteRunHandler
Delete(r) ==
  /\ writer = Unlocked
  /\ dir[r] # 0
  /\ dir' = [dir EXCEPT ![r] = 0]
  /\ deleted' = deleted \cup Tagged(r, EventsIn(dir[r]))
  /\ UNCHANGED <<clock, created, content, durable, mtime, writer, cleaner, agentVars,
                 acked, expired, skewed, faults>>

\* cleanup: the cutoff and the list of names.
CleanStart ==
  /\ ~cleaner.awake
  /\ cleaner' = [start |-> clock, awake |-> TRUE,
                 todo |-> {r \in Run : dir[r] # 0}, doomed |-> {}, seen |-> 0]
  /\ UNCHANGED <<clock, fileVars, writer, agentVars, historyVars, faults>>

\* Mutant of Past: the modification time is not compared.
PastAlways(f, time) == TRUE

\* ModTime().Before(cutoff)
Past(f, time) == mtime[f] + Retention < time

CleanLook(r) ==
  /\ r \in cleaner.todo
  /\ cleaner.doomed = {}
  /\ LET isPast == dir[r] # 0 /\ Past(dir[r], cleaner.start)
     IN  cleaner' = [cleaner EXCEPT !.todo = @ \ {r},
                                    !.doomed = IF isPast THEN {r} ELSE {},
                                    !.seen = IF isPast THEN mtime[dir[r]] ELSE 0]
  /\ UNCHANGED <<clock, fileVars, writer, agentVars, historyVars, faults>>

\* Mutant of CleanRemove: the file stays.
CleanForget(r) ==
  /\ r \in cleaner.doomed
  /\ cleaner' = [cleaner EXCEPT !.doomed = {}, !.seen = 0]
  /\ UNCHANGED <<clock, fileVars, writer, agentVars, historyVars, faults>>

\* The name is removed, whichever file bears it by now; if none does, the
\* error is ignored.
CleanRemove(r) ==
  /\ r \in cleaner.doomed
  /\ dir' = [dir EXCEPT ![r] = 0]
  /\ expired' = IF dir[r] = 0 THEN expired ELSE expired \cup Tagged(r, EventsIn(dir[r]))
  /\ cleaner' = [cleaner EXCEPT !.doomed = {}, !.seen = 0]
  /\ UNCHANGED <<clock, created, content, durable, mtime, writer, agentVars,
                 acked, deleted, skewed, faults>>

CleanEnd ==
  /\ cleaner.awake
  /\ cleaner.todo = {}
  /\ cleaner.doomed = {}
  /\ cleaner' = Asleep
  /\ UNCHANGED <<clock, fileVars, writer, agentVars, historyVars, faults>>

-----------------------------------------------------------------------------
\* The server stops and is started again, with the host when files in lossy
\* forget what was not synced.  An upload that waited for the lock is gone.
Restart(lossy) ==
  /\ Fault
  /\ content' = [f \in Files |->
       IF f \in lossy THEN SubSeq(content[f], 1, durable[f]) ELSE content[f]]
  /\ writer' = Unlocked
  /\ cleaner' = Asleep
  /\ late' = {}
  /\ UNCHANGED <<clock, dir, created, durable, mtime, next, historyVars>>

Agent ==
  \/ \E r \in Run : Drop(r)
  \/ \E r \in Run, size \in 1 .. BatchLimit : GiveUp(r, size)
  \/ StopWaiting

Ingest ==
  \/ \E r \in Run, size \in 1 .. BatchLimit : Open(r, size)
  \/ \E u \in late : OpenLate(u)
  \/ Encode
  \/ \E size \in 0 .. LineLimit : EncodeFails(size)
  \/ Finish
  \/ SyncFails

Cleanup ==
  \/ CleanStart
  \/ \E r \in Run : CleanLook(r) \/ CleanRemove(r)
  \/ CleanEnd

Next ==
  \/ Advance
  \/ Agent
  \/ Ingest
  \/ \E r \in Run : Delete(r)
  \/ Cleanup
  \/ \E lossy \in SUBSET Files : Restart(lossy)

Spec == Init /\ [][Next]_vars

\* The ticker of the cleanup goes on, and a cleanup that was started ends.
FairSpec ==
  /\ Spec
  /\ WF_vars(CleanStart)
  /\ WF_vars(CleanEnd)
  /\ WF_vars(\E r \in Run : CleanLook(r) \/ CleanRemove(r))

-----------------------------------------------------------------------------
(***************************************************************************)
(* Properties.                                                             *)
(***************************************************************************)

Uploads == [run : Run, file : 1 .. created, first : Events, at : 1 .. MaxEvents + 1,
            last : Events, isHeard : BOOLEAN]
Cleanups == [start : 0 .. clock, awake : BOOLEAN, todo : SUBSET Run, doomed : SUBSET Run,
             seen : 0 .. clock]
GivenUp == [run : Run, first : Events, last : Events]

\* Every variable has its type; a name never leads to a file that does not
\* exist or that another name leads to, and a file is synced no further than
\* it was written.
TypeOK ==
  /\ clock \in 0 .. MaxTime
  /\ created \in 0 .. MaxFiles
  /\ dir \in [Run -> 0 .. created]
  /\ \A r, s \in Run : dir[r] = dir[s] /\ dir[r] # 0 => r = s
  /\ content \in [Files -> Seq(Chunk)]
  /\ durable \in [Files -> Nat] /\ \A f \in Files : durable[f] <= Len(content[f])
  /\ mtime \in [Files -> 0 .. clock]
  /\ writer \in Uploads \cup {Unlocked}
  /\ cleaner \in Cleanups
  /\ next \in [Run -> 1 .. MaxEvents + 1]
  /\ late \subseteq {u \in GivenUp : u.first <= u.last}
  /\ acked \subseteq [run : Run, id : Events, at : 0 .. clock]
  /\ deleted \cup expired \subseteq [run : Run, id : Events]
  /\ skewed \subseteq Run
  /\ faults \in 0 .. MaxFaults

\* Chunk k of a file continues the line of a torn one.
IsBehindTear(f, k) == k > 1 /\ ~content[f][k - 1].whole

\* The lines of a file end with its whole chunks; one is an event when nothing
\* torn precedes it on its line.
Parses(f, k) == content[f][k].whole /\ ~IsBehindTear(f, k)

\* A line does not fit readRun's buffer.
IsTooLong(f, k) == content[f][k].line > LineLimit

\* readRun fails at a line that is too long, and nothing of the run is shown.
ReadRun(f) ==
  IF \E k \in DOMAIN content[f] : IsTooLong(f, k) THEN {}
  ELSE {content[f][k].id : k \in {j \in DOMAIN content[f] : Parses(f, j)}}

Named(r) == IF dir[r] = 0 THEN {} ELSE ReadRun(dir[r])

TornIn(f, n) == \E c \in Range(content[f]) : c.id = n /\ ~c.whole

\* The line of event n is whole, but was written behind a torn chunk.
IsSpoiled(f, n) ==
  \E k \in DOMAIN content[f] :
    content[f][k].id = n /\ content[f][k].whole /\ IsBehindTear(f, k)

\* Behind a torn chunk a line grew too long.
TearIsTooLong(f) == \E k \in DOMAIN content[f] : IsBehindTear(f, k) /\ IsTooLong(f, k)

\* What was acknowledged can be read back, whatever fails or stops, until it is removed,
\* with two exceptions.  A torn write can cost the run the one event that is written
\* behind it; that is the very event that was torn, unless the agent dropped events from
\* its full queue or an upload it had given up on was stored.  And it can cost the whole
\* run, when the line it began grows longer than readRun takes.
AckedIsReadable ==
  \A a \in acked :
    \/ a.id \in Named(a.run)
    \/ [run |-> a.run, id |-> a.id] \in deleted \cup expired
    \/ /\ dir[a.run] # 0
       /\ \/ /\ IsSpoiled(dir[a.run], a.id)
             /\ TornIn(dir[a.run], a.id) \/ a.run \in skewed
          \/ TearIsTooLong(dir[a.run])

\* The invariant of the store: types, and that what was acknowledged can be read back.
RunStoreInv == TypeOK /\ AckedIsReadable

Young(a) == clock <= a.at + Retention

\* The cleanup takes an acknowledged event within the retention period only
\* from a file that was written to, or created, since the cleanup looked at its name.
OnlyARaceTakesYoungEvents ==
  [][\A a \in acked :
       (/\ Young(a)
        /\ a.id \in Named(a.run)
        /\ dir'[a.run] = 0
        /\ cleaner' # cleaner)
       => mtime[dir[a.run]] > cleaner.seen]_vars

\* A file nobody writes to any more goes once the retention period is over.
RetentionEnds ==
  \A r \in Run :
    (dir[r] # 0 /\ Past(dir[r], clock)) ~> (dir[r] = 0 \/ ~Past(dir[r], clock))

\* Violated: "append-only JSONL run files" (Collector/README.md:131).  Each line
\* of a run file is one event.
EveryLineIsAnEvent ==
  \A r \in Run : dir[r] # 0 =>
    \A k \in DOMAIN content[dir[r]] : content[dir[r]][k].whole => Parses(dir[r], k)
=============================================================================
