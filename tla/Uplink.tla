------------------------------- MODULE Uplink -------------------------------
(***************************************************************************)
(* How the agent's events reach the collector's run files.                 *)
(*                                                                         *)
(* The agent is one goroutine (monitor): its pollers queue events for the  *)
(* current run, flush posts the oldest of them and waits for the answer.   *)
(* startRun closes the current run, drains its queue with as many flushes  *)
(* as it takes, and begins a new one.  The server appends an accepted      *)
(* batch to the file of the run its envelope names.                        *)
(*                                                                         *)
(* What can go wrong on the way: the server refuses a batch, or stores a   *)
(* prefix of it (or all of it) and still answers with an error; a request  *)
(* is lost; the agent's client gives up after its timeout while the        *)
(* handler still runs, so that the batch is stored later, possibly after   *)
(* the retry; an answer is lost; the agent dies.  Each of these uses one   *)
(* of MaxFaults faults.                                                    *)
(*                                                                         *)
(* Events are records [id, run, kind]: id numbers them in the order they   *)
(* were queued, run is the run they were queued for.  The code's events    *)
(* have neither: the envelope is stamped with the run when it is sent.     *)
(***************************************************************************)
EXTENDS Integers, Sequences, Functions

CONSTANTS
  MaxPending,  \* maxPendingEvents: length at which the queue drops its oldest event
  BatchLimit,  \* maxEvents: events in one upload at most
  MaxProfile,  \* bound: events startRun queues after session_start
  MaxRuns,     \* bound: runs the agent begins
  MaxMade,     \* bound: events the agent queues
  MaxFaults    \* bound: failures of the network, the server or the agent

ASSUME UplinkAssumption ==
  /\ MaxPending \in Nat \ {0}
  /\ BatchLimit \in Nat \ {0}
  /\ MaxProfile \in Nat
  /\ MaxRuns \in Nat
  /\ MaxMade \in Nat
  /\ MaxFaults \in Nat

VARIABLES
  run,      \* a.runID; 0 stands for ""
  active,   \* a.active
  pending,  \* a.pending
  pc,       \* where monitor is: "poll"; "flush" or "drain" while in a.flush
  count,    \* events in the outstanding request, 0 when there is none
  reply,    \* the answer to the outstanding request: "none", "ok", "error"
  stale,    \* requests the server still handles though their sender gave up
  files,    \* files[r]: events of <r>.jsonl
  runs,     \* runs begun so far
  made,     \* events queued so far
  lost,     \* events the agent discarded without an acknowledgement
  faults    \* failures so far

agentVars   == <<run, active, pending, pc>>
wireVars    == <<count, reply, stale>>
historyVars == <<runs, made, lost, faults>>
vars        == <<agentVars, wireVars, files, historyVars>>

Runs == 1 .. MaxRuns

\* "live" stands for the types queued only for an active run (heartbeats,
\* process samples, gaps, launcher codes), "note" for all the others.
Kinds == {"session_start", "session_end", "live", "note"}
Event == [id : Nat \ {0}, run : Runs, kind : Kinds]

Shorter(m, n) == IF m <= n THEN m ELSE n

-----------------------------------------------------------------------------
\* The queue.

\* Mutant of Excess: the queue never drops.
NoExcess(s) == 0

Excess(s) == IF Len(s) > MaxPending THEN Len(s) - MaxPending ELSE 0

Newest(s) == SubSeq(s, Excess(s) + 1, Len(s))

Oldest(s) == SubSeq(s, 1, Excess(s))

Fresh(r, kinds) ==
  [i \in 1 .. Len(kinds) |-> [id |-> made + i, run |-> r, kind |-> kinds[i]]]

\* a.queue for each of kinds in turn, by a run r whose queue is p.
Queue(p, r, kinds) ==
  LET all == p \o Fresh(r, kinds)
  IN  /\ made + Len(kinds) <= MaxMade
      /\ pending' = Newest(all)
      /\ lost' = lost \cup Range(Oldest(all))
      /\ made' = made + Len(kinds)

\* a.flush up to client.Do.  The batch is the longest prefix of at most
\* BatchLimit events whose encoding fits the body limit: any length can be.
Post(place) ==
  /\ pending # <<>>
  /\ count' \in 1 .. Shorter(Len(pending), BatchLimit)
  /\ reply' = "none"
  /\ pc' = place

Batch == SubSeq(pending, 1, count)

\* Mutant of Unsent: flush removes a full batch whatever it sent.
UnsentAfterFullBatch == SubSeq(pending, Shorter(Len(pending), BatchLimit) + 1, Len(pending))

Unsent == SubSeq(pending, count + 1, Len(pending))

NoRequest == count' = 0 /\ reply' = "none"

Fault ==
  /\ faults < MaxFaults
  /\ faults' = faults + 1

-----------------------------------------------------------------------------
Init ==
  /\ run = 0
  /\ active = FALSE
  /\ pending = <<>>
  /\ pc = "poll"
  /\ count = 0
  /\ reply = "none"
  /\ stale = {}
  /\ files = [r \in Runs |-> <<>>]
  /\ runs = 0
  /\ made = 0
  /\ lost = {}
  /\ faults = 0

\* An iteration of monitor that finds nothing to do.
Tick ==
  /\ pc = "poll"
  /\ pending = <<>>
  /\ UNCHANGED vars

\* A poller queues an event: most only need a run, some an active one.
Observe(kind) ==
  /\ pc = "poll"
  /\ run # 0
  /\ kind = "live" => active
  /\ Queue(pending, run, <<kind>>)
  /\ UNCHANGED <<run, active, pc, wireVars, files, runs, faults>>

\* Mutant of EndRun: active is not cleared.
EndRunStaysActive ==
  /\ pc = "poll"
  /\ run # 0
  /\ active
  /\ Queue(pending, run, <<"note", "session_end">>)
  /\ UNCHANGED <<run, active, pc, wireVars, files, runs, faults>>

\* pollGameLog reads the log's last line, or pollGameProcess finds the game gone.
EndRun ==
  /\ pc = "poll"
  /\ run # 0
  /\ active
  /\ Queue(pending, run, <<"note", "session_end">>)
  /\ active' = FALSE
  /\ UNCHANGED <<run, pc, wireVars, files, runs, faults>>

BeginRun(profile) ==
  /\ runs < MaxRuns
  /\ runs' = runs + 1
  /\ run' = runs + 1
  /\ active' = TRUE
  /\ Queue(pending, runs + 1, <<"session_start">> \o [i \in 1 .. profile |-> "note"])
  /\ pc' = "poll"

\* Mutant of StartRun: the ended run's queue is carried over.
StartRunWithQueue(profile) ==
  /\ pc = "poll"
  /\ ~active
  /\ BeginRun(profile)
  /\ UNCHANGED <<wireVars, files, faults>>

\* startRun while no run exists, or an ended one has nothing left to upload.
StartRun(profile) ==
  /\ pc = "poll"
  /\ ~active
  /\ pending = <<>>
  /\ BeginRun(profile)
  /\ UNCHANGED <<wireVars, files, faults>>

\* Mutant of CloseRun: an active run is drained without a session_end.
CloseRunUnended ==
  /\ pc = "poll"
  /\ run # 0
  /\ active \/ pending # <<>>
  /\ runs < MaxRuns
  /\ made + 2 + MaxProfile <= MaxMade
  /\ pc' = "drain"
  /\ UNCHANGED <<run, active, pending, wireVars, files, historyVars>>

\* startRun up to the first flush of the previous run's queue.
CloseRun ==
  /\ pc = "poll"
  /\ run # 0
  /\ active \/ pending # <<>>
  /\ runs < MaxRuns
  /\ made + 2 + MaxProfile <= MaxMade
  /\ Queue(pending, run, IF active THEN <<"session_end">> ELSE <<>>)
  /\ pc' = "drain"
  /\ UNCHANGED <<run, active, wireVars, files, runs, faults>>

\* Mutant of DrainNext: the batch is one event short, so the last one stays.
DrainNextOneShort ==
  /\ pc = "drain"
  /\ count = 0
  /\ pending # <<>>
  /\ count' = Shorter(Len(pending), BatchLimit) - 1
  /\ reply' = "none"
  /\ UNCHANGED <<run, active, pending, pc, stale, files, historyVars>>

DrainNext ==
  /\ pc = "drain"
  /\ count = 0
  /\ Post("drain")
  /\ UNCHANGED <<run, active, pending, stale, files, historyVars>>

\* startRun once the previous run's queue is empty.
DrainDone(profile) ==
  /\ pc = "drain"
  /\ count = 0
  /\ pending = <<>>
  /\ BeginRun(profile)
  /\ UNCHANGED <<wireVars, files, faults>>

\* Mutant of Flush: nothing is uploaded once the run has ended.
FlushWhileActive ==
  /\ pc = "poll"
  /\ active
  /\ Post("flush")
  /\ UNCHANGED <<run, active, pending, stale, files, historyVars>>

Flush ==
  /\ pc = "poll"
  /\ Post("flush")
  /\ UNCHANGED <<run, active, pending, stale, files, historyVars>>

-----------------------------------------------------------------------------
\* The answer reaches the agent.

\* Mutant of Accepted: an error answer counts as an acknowledgement.
AcceptedWhatever ==
  /\ count > 0
  /\ reply # "none"
  /\ pending' = Unsent
  /\ pc' = IF pc = "flush" THEN "poll" ELSE pc
  /\ NoRequest
  /\ UNCHANGED <<run, active, stale, files, historyVars>>

\* 204: the batch leaves the queue.
Accepted ==
  /\ count > 0
  /\ reply = "ok"
  /\ pending' = Unsent
  /\ pc' = IF pc = "flush" THEN "poll" ELSE pc
  /\ NoRequest
  /\ UNCHANGED <<run, active, stale, files, historyVars>>

\* Mutant of Deferred: the refused batch is queued again behind the others.
DeferredToTheEnd ==
  /\ pc = "flush"
  /\ reply = "error"
  /\ pending' = Unsent \o Batch
  /\ pc' = "poll"
  /\ NoRequest
  /\ UNCHANGED <<run, active, stale, files, historyVars>>

\* flush returns an error to monitor: the upload is deferred.
Deferred ==
  /\ pc = "flush"
  /\ reply = "error"
  /\ pc' = "poll"
  /\ NoRequest
  /\ UNCHANGED <<run, active, pending, stale, files, historyVars>>

\* flush returns an error to startRun: the previous run's queue is discarded.
DrainFailed ==
  /\ pc = "drain"
  /\ reply = "error"
  /\ lost' = lost \cup Range(pending)
  /\ pending' = <<>>
  /\ NoRequest
  /\ UNCHANGED <<run, active, pc, stale, files, runs, made, faults>>

-----------------------------------------------------------------------------
\* The server.

Stored(r, batch, n) == files' = [files EXCEPT ![r] = @ \o SubSeq(batch, 1, n)]

\* ingest stores the batch and answers 204.
Store ==
  /\ count > 0
  /\ reply = "none"
  /\ Stored(run, Batch, count)
  /\ reply' = "ok"
  /\ UNCHANGED <<agentVars, count, stale, historyVars>>

\* ingest refuses the batch (n = 0) or fails after writing n of its events:
\* an encode error, or a Sync error when all of them are written.
StoreFails(n) ==
  /\ count > 0
  /\ reply = "none"
  /\ n <= count
  /\ Fault
  /\ Stored(run, Batch, n)
  /\ reply' = "error"
  /\ UNCHANGED <<agentVars, count, stale, runs, made, lost>>

\* A handler whose client is gone stores what it can.
StoreStale(request, n) ==
  /\ n <= Len(request.batch)
  /\ Stored(request.run, request.batch, n)
  /\ stale' = stale \ {request}
  /\ UNCHANGED <<agentVars, count, reply, historyVars>>

-----------------------------------------------------------------------------
\* The network and the clock.

Outstanding == [no |-> faults, run |-> run, batch |-> Batch]

\* The client's timeout, a lost request or a lost answer.
TimeOut(arrives) ==
  /\ count > 0
  /\ reply \in {"none", "ok"}
  /\ arrives => reply = "none"
  /\ Fault
  /\ reply' = "error"
  /\ stale' = IF arrives THEN stale \cup {Outstanding} ELSE stale
  /\ UNCHANGED <<agentVars, count, files, runs, made, lost>>

\* The agent dies, or replaces itself by an update, and starts afresh.
Crash(arrives) ==
  /\ run # 0
  /\ arrives => count > 0 /\ reply = "none"
  /\ Fault
  /\ run' = 0
  /\ active' = FALSE
  /\ pending' = <<>>
  /\ pc' = "poll"
  /\ lost' = lost \cup Range(pending)
  /\ stale' = IF arrives THEN stale \cup {Outstanding} ELSE stale
  /\ NoRequest
  /\ UNCHANGED <<files, runs, made>>

-----------------------------------------------------------------------------
Agent ==
  \/ Tick
  \/ \E kind \in {"live", "note"} : Observe(kind)
  \/ EndRun
  \/ \E profile \in 0 .. MaxProfile : StartRun(profile) \/ DrainDone(profile)
  \/ CloseRun
  \/ DrainNext
  \/ Flush
  \/ Accepted
  \/ Deferred
  \/ DrainFailed

Server ==
  \/ Store
  \/ \E n \in 0 .. BatchLimit : StoreFails(n)
  \/ \E request \in stale : \E n \in 0 .. BatchLimit : StoreStale(request, n)

Failure == \E arrives \in BOOLEAN : TimeOut(arrives) \/ Crash(arrives)

Next == Agent \/ Server \/ Failure

Spec == Init /\ [][Next]_vars

\* The monitor loop keeps running and the server answers what reaches it.
Fairness ==
  /\ WF_vars(Flush \/ DrainNext)
  /\ WF_vars(Accepted \/ Deferred \/ DrainFailed)
  /\ WF_vars(\E profile \in 0 .. MaxProfile : DrainDone(profile))
  /\ WF_vars(Store)

FairSpec == Spec /\ Fairness

-----------------------------------------------------------------------------
(***************************************************************************)
(* Properties.                                                             *)
(***************************************************************************)

\* Every variable has its type, and the queue and a batch respect their limits.
TypeOK ==
  /\ run \in 0 .. runs
  /\ active \in BOOLEAN
  /\ pending \in Seq(Event)
  /\ Len(pending) <= MaxPending
  /\ pc \in {"poll", "flush", "drain"}
  /\ count \in 0 .. Shorter(Len(pending), BatchLimit)
  /\ reply \in {"none", "ok", "error"}
  /\ stale \subseteq [no : Nat, run : Runs, batch : Seq(Event)]
  /\ files \in [Runs -> Seq(Event)]
  /\ runs \in 0 .. MaxRuns
  /\ made \in 0 .. MaxMade
  /\ lost \subseteq Event
  /\ faults \in 0 .. MaxFaults

FiledIn(r) == Range(files[r])

Filed == UNION {FiledIn(r) : r \in Runs}

Known == Range(pending) \cup Filed \cup lost

\* A run's file only ever holds events that were queued for that run, however
\* late a batch arrives and whatever run the agent has moved on to.
Attribution ==
  \A r \in Runs : \A e \in FiledIn(r) : e.run = r

\* Every event the agent ever queued is still in its queue, is in its run's
\* file, or was discarded openly: by the full queue, by a failed drain or with
\* the process.  No acknowledgement, retry or error path makes one disappear.
Accounted ==
  {e.id : e \in Known} = 1 .. made

\* A run's file is written in order and without holes: when an event is
\* stored, every event queued for the run before it is already there, unless
\* it was discarded.  Retries repeat events and never reorder first copies.
StoredInOrder ==
  \A r \in Runs : \A i \in 1 .. Len(files[r]) : \A e \in Known :
    e.run = r /\ e.id < files[r][i].id =>
      e \in lost \/ \E j \in 1 .. i : files[r][j] = e

\* However the log, the process and a replaced log end a run, at most one
\* session_end is queued for it, and no active-only event after it.
EndsOnce ==
  \A e, f \in Known :
    /\ e.kind = "session_end"
    /\ f.run = e.run
    /\ f.kind \in {"session_end", "live"}
    => f.id <= e.id

\* When startRun replaces a run, that run's session_end is in its file or was
\* discarded: no run is left open on the dashboard without a loss.
ReplacedRunIsClosed ==
  [][run # 0 /\ run' > run =>
       \E e \in Range(files'[run]) \cup lost' :
          e.run = run /\ e.kind = "session_end"]_vars

\* A run is closed, and closed once.
RunsAreClosed == []EndsOnce /\ ReplacedRunIsClosed

\* Once failures cease, a deferred upload is retried until it is accepted: again
\* and again all that is queued is in its run's file, or was discarded.  With
\* Accounted, no event waits for ever.  Nor does startRun's loop of flushes hold the
\* monitor for ever.
EventuallyFiled ==
  /\ []<>(Range(pending) \subseteq Filed \cup lost)
  /\ pc = "drain" ~> pc = "poll"

\* The upload path delivers at least once: an event leaves the agent's queue
\* only when its run's file holds it, or by being discarded.
Delivery ==
  INSTANCE AtLeastOnce WITH
    Item      <- Event,
    offered   <- Known,
    owed      <- Range(pending),
    recorded  <- Filed,
    abandoned <- lost

DeliversAtLeastOnce == Delivery!Spec

-----------------------------------------------------------------------------
(***************************************************************************)
(* The inductive invariant behind Attribution, Accounted and               *)
(* DeliversAtLeastOnce.                                                    *)
(***************************************************************************)

\* Where the request and the run stand relative to the program counter.
Control ==
  /\ pc = "poll" => count = 0
  /\ count = 0 => reply = "none"
  /\ run = 0 => pending = <<>> /\ pc = "poll" /\ ~active

\* Queued and travelling events belong to the run they will be filed under.
OwnRun ==
  /\ \A e \in Range(pending) : e.run = run
  /\ \A q \in stale : \A e \in Range(q.batch) : e.run = q.run

\* What the agent is about to take off its queue is filed, and the server
\* never handles an event that is not accounted for.
Acknowledged ==
  /\ reply = "ok" => Range(Batch) \subseteq FiledIn(run)
  /\ \A q \in stale : Range(q.batch) \subseteq Known

\* The inductive invariant.
UplinkInv ==
  /\ TypeOK
  /\ Control
  /\ OwnRun
  /\ Attribution
  /\ Acknowledged
  /\ Accounted

\* The queue is in the order in which its events were made.
QueueOrdered ==
  \A i, j \in 1 .. Len(pending) : i < j => pending[i].id < pending[j].id

\* Whenever a batch of run r is appended, now or later, no event it needs
\* before one of its own is missing.
Covered(batch, r) ==
  \A k \in 1 .. Len(batch) : \A e \in Known :
    e.run = r /\ e.id < batch[k].id =>
      \/ e \in lost \cup FiledIn(r)
      \/ \E j \in 1 .. k : batch[j] = e

\* The inductive strengthening of StoredInOrder, next to UplinkInv.
OrderInv ==
  /\ QueueOrdered
  /\ \A q \in stale : Covered(q.batch, q.run)
  /\ StoredInOrder
=============================================================================
