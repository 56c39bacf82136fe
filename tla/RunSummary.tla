----------------------------- MODULE RunSummary -----------------------------
(***************************************************************************)
(* What the dashboard says of a run: summarize, a single pass over the     *)
(* events of the run's file.  The file is not what the agent recorded: it  *)
(* grows by batches that come twice when an acknowledgement was lost, with *)
(* more events behind them the second time, and a request that was given   *)
(* up may be served after newer ones (Uplink).  Some columns do not mind,  *)
(* some count too much, some show an old value: the properties say which.  *)
(*                                                                         *)
(* An event is [type, state, name, value, at].  value is the code, length, *)
(* duration, payload length, status or fault target that summarize reads   *)
(* of an event of that type, 0 if there is none.  A time is a number, and  *)
(* two faults more than SliceGap apart are of two slices.                  *)
(***************************************************************************)
EXTENDS Integers, SequencesExt

CONSTANTS
  Recorded, \* sequences of events: what agents may record in a run
  SliceGap, \* 200 ms
  MaxFile   \* bound: events in the file

\* A run has one session_end at most (Uplink's RunsAreClosed), and validateEvent accepts no
\* negative numbers.
ASSUME RunSummaryAssumption ==
  /\ {SliceGap, MaxFile} \subseteq Nat
  /\ Recorded \subseteq
       Seq([type : STRING, state : STRING, name : STRING, value : Nat, at : Int])
  /\ \A run \in Recorded : \A i, j \in DOMAIN run :
       run[i].type = "session_end" /\ run[j].type = "session_end" => i = j

VARIABLES
  sent,    \* the events the agent recorded, in its order
  stored,  \* how many of them are in the file
  summary, \* what summarize returns for the file as it is
  late     \* history: a copy of a batch came after newer events

vars == <<sent, stored, summary, late>>

-----------------------------------------------------------------------------
(* What one event does to the summary.                                     *)

Probes == {"module", "thread", "tls_callback", "dllmain", "exception"}

IsPing(e) == e.type = "rpc" /\ e.name = "FSessionProviderServiceWs::Ping"

\* The columns an event turns on.  Nothing turns them off.
Flags(e) ==
  {f \in {"ac_online", "diagnostics"} :
     \/ f = "ac_online" /\ e.type = "ac_state" /\ e.state = "online"
     \/ f = "diagnostics" /\ e.type = "diagnostic" /\ e.name = "GLogBackendRpcWsCalls"}

\* The counters an event increments.
Counters ==
  {"attempts", "calls", "responses", "failures", "payloads", "rpc_calls", "rpc_responses",
   "ping_calls", "ping_responses", "gaps", "probe_events", "probe_faults"}

Counts(e) ==
  CASE e.type = "mrac" ->
         (CASE e.state = "client_request" -> {"attempts"}
            [] e.state = "call"           -> {"calls"}
            [] e.state = "response"       -> {"responses"}
            [] e.state = "failure"        -> {"failures"}
            [] OTHER -> {})
         \cup (IF e.value > 0 THEN {"payloads"} ELSE {})
    [] e.type = "rpc" /\ e.state = "call" ->
         {"rpc_calls"} \cup (IF IsPing(e) THEN {"ping_calls"} ELSE {})
    [] e.type = "rpc" /\ e.state = "response" ->
         {"rpc_responses"} \cup (IF IsPing(e) THEN {"ping_responses"} ELSE {})
    [] e.type = "collector_state" /\ e.state = "resumed" -> {"gaps"}
    [] e.type = "exception" -> {"probe_events", "probe_faults"}
    [] e.type \in Probes \ {"exception"} -> {"probe_events"}
    [] OTHER -> {}

\* The columns that show the last value, as a function of those the event sets.
Latest(e) ==
  CASE e.type = "session_end"   -> [last |-> e.at, ended |-> e.at]
    [] e.type = "ach"           -> [last |-> e.at, ach |-> e.value]
    [] e.type = "mrac"          -> [last |-> e.at, mrac |-> e.state]
    [] e.type = "backend_state" -> [last |-> e.at, backend |-> e.state]
    [] e.type = "gate_result"   -> [last |-> e.at, gate |-> e.value]
    [] e.type = "backend_close" -> [last |-> e.at, backend |-> "closed", close |-> e.value]
    [] e.type = "platform_probe" /\ e.state = "dma_guard" ->
         [last |-> e.at, dma |-> <<e.value, e.name>>]
    [] e.type = "platform_probe" /\ e.state = "platform_provider" /\ e.value # 0 ->
         [last |-> e.at, ekpub |-> <<e.value, "provider">>]
    [] e.type = "platform_probe" /\ e.state = "pcp_ekpub" ->
         [last |-> e.at, ekpub |-> <<e.value, e.name>>]
    [] OTHER -> [last |-> e.at]

-----------------------------------------------------------------------------
(* The pass over the file.                                                 *)

Empty ==
  [events |-> 0, started |-> 0, latest |-> <<>>, flags |-> {},
   counts |-> [c \in Counters |-> 0], longest |-> 0, targets |-> {}, slices |-> 0,
   fault |-> {}, ping |-> {}, pingToClose |-> {}]

\* Mutant of Longer: the last gap stands for the longest.
LastGap(s, e) == IF e.type = "collector_state" /\ e.state = "resumed" THEN e.value ELSE s.longest

Longer(s, e) ==
  IF e.type = "collector_state" /\ e.state = "resumed" /\ e.value > s.longest
  THEN e.value ELSE s.longest

\* Mutant of NewSlice: only the first fault of all begins one.
NewSliceOnce(s, e) == e.type = "exception" /\ s.fault = {}

\* A fault begins a slice if the one before it, in the file, is long ago.
NewSlice(s, e) ==
  /\ e.type = "exception"
  /\ \A at \in s.fault : e.at - at > SliceGap

\* Mutant of PingToClose: a response later than the close counts.
PingToCloseAnyOrder(s, e) ==
  IF e.type = "backend_close" /\ s.ping # {}
  THEN {e.at - at : at \in s.ping}
  ELSE s.pingToClose

\* From the last response of a Ping to the close of the connection.
PingToClose(s, e) ==
  IF e.type = "backend_close" /\ \E at \in s.ping : at <= e.at
  THEN {e.at - at : at \in s.ping}
  ELSE s.pingToClose

\* Mutant of Counted: an event of the same time as the one before it is taken for a copy.
CountedIfNew(s, e) ==
  IF s.events > 0 /\ s.latest.last = e.at THEN {} ELSE Counts(e)

Counted(s, e) == Counts(e)

\* Mutant of Updated: the first value stays.
UpdatedOnce(s, e) == s.latest @@ Latest(e)

Updated(s, e) ==
  [column \in DOMAIN Latest(e) \cup DOMAIN s.latest |->
     IF column \in DOMAIN Latest(e) THEN Latest(e)[column] ELSE s.latest[column]]

Apply(s, e) ==
  LET counted == Counted(s, e)
  IN [events |-> s.events + 1,
      started |-> IF s.events = 0 THEN e.at ELSE s.started,
      latest |-> Updated(s, e),
      flags |-> s.flags \cup Flags(e),
      counts |-> [c \in Counters |-> s.counts[c] + IF c \in counted THEN 1 ELSE 0],
      longest |-> Longer(s, e),
      targets |-> s.targets \cup IF e.type = "exception" /\ e.value # 0 THEN {e.value} ELSE {},
      slices |-> s.slices + IF NewSlice(s, e) THEN 1 ELSE 0,
      fault |-> IF e.type = "exception" THEN {e.at} ELSE s.fault,
      ping |-> IF IsPing(e) /\ e.state = "response" THEN {e.at} ELSE s.ping,
      pingToClose |-> PingToClose(s, e)]

\* Mutant of Extend: the pass begins anew with the batch.
ExtendAnew(s, events) == FoldLeft(Apply, Empty, events)

\* summarize of a file is Extend(Empty, file), and of a file that grew the pass goes on.
Extend(s, events) == FoldLeft(Apply, s, events)

\* Mutant of Duration: to the last event of the file, always.
DurationToLast(s) ==
  IF s.latest.last >= s.started THEN {s.latest.last - s.started} ELSE {}

\* From the first event to the end of the run, or to the last event while it goes on.
Duration(s) ==
  LET end == IF "ended" \in DOMAIN s.latest THEN s.latest.ended ELSE s.latest.last
  IN IF end >= s.started THEN {end - s.started} ELSE {}

-----------------------------------------------------------------------------
(* The file grows.                                                         *)

Init ==
  /\ sent \in Recorded
  /\ stored = 0
  /\ summary = Empty
  /\ late = FALSE

\* A batch is stored: new events, a batch again with or without more events behind it, or
\* a copy that comes late.  First copies come in the agent's order.
Store(i, j) ==
  /\ i <= stored + 1
  /\ summary.events + j - i < MaxFile
  /\ summary' = Extend(summary, SubSeq(sent, i, j))
  /\ stored' = Max({stored, j})
  /\ late' = (late \/ j < stored)
  /\ UNCHANGED sent

Next == \E i, j \in 1 .. Len(sent) : i <= j /\ Store(i, j)

Spec == Init /\ [][Next]_vars

-----------------------------------------------------------------------------
(* Properties: what the summary of the file says of the recorded events.   *)

Stored == 1 .. stored
Those  == {sent[i] : i \in Stored}

\* Types.
TypeOK ==
  /\ stored \in 0 .. Len(sent)
  /\ summary.events \in stored .. MaxFile
  /\ summary.counts \in [Counters -> 0 .. MaxFile]
  /\ summary.pingToClose \subseteq Int
  /\ late \in BOOLEAN

\* A column that says that something was observed, the longest gap of the agent and the
\* fault targets are the truth whatever was stored twice or late.
ObservationsStand ==
  /\ summary.flags = UNION {Flags(e) : e \in Those}
  /\ DOMAIN summary.latest = UNION {DOMAIN Latest(e) : e \in Those}
  /\ summary.longest =
       Max({0} \cup {e.value : e \in {f \in Those : f.type = "collector_state" /\ f.state = "resumed"}})
  /\ summary.targets = {e.value : e \in {f \in Those : f.type = "exception"}} \ {0}

Occurrences(c) == Cardinality({i \in Stored : c \in Counts(sent[i])})

\* A counter never says less than what happened, and too much by at most the number of
\* events that are in the file again.
CountersNeverShort ==
  \A c \in Counters :
    /\ summary.counts[c] >= Occurrences(c)
    /\ summary.counts[c] <= Occurrences(c) + summary.events - stored

LastSetting(column) == sent[Max({i \in Stored : column \in DOMAIN Latest(sent[i])})]

\* The columns with a last value show it as long as batches are repeated in order, as an
\* agent does that waits for its acknowledgement: only a copy that comes late undoes them.
LatestUnlessLate ==
  ~late =>
    \A column \in DOMAIN summary.latest :
      summary.latest[column] = Latest(LastSetting(column))[column]

\* Once the run's end is stored, its start, end and duration stay what they are, whatever
\* copies of its batches come after it.
EndedRunStandsStill ==
  \A e \in Those :
    e.type = "session_end" =>
      /\ summary.started = sent[1].at
      /\ summary.latest.ended = e.at
      /\ Duration(summary) = IF e.at >= sent[1].at THEN {e.at - sent[1].at} ELSE {}

FaultIndices == {i \in Stored : sent[i].type = "exception"}

\* Faults that are stored twice or late hide no slice: a fault that comes long after all that
\* were recorded before it begins one.
NoSliceHidden ==
  summary.slices >=
    Cardinality({i \in FaultIndices :
                   \A j \in FaultIndices : j < i => sent[i].at - sent[j].at > SliceGap})

Pings  == {i \in Stored : IsPing(sent[i]) /\ sent[i].state = "response"}
Closes == {i \in Stored : sent[i].type = "backend_close"}

\* The interval shown is never negative, and it is the one from a response of a Ping to the
\* close of a connection; the copies of a batch do not make up another.
PingBeforeClose ==
  \A n \in summary.pingToClose :
    n >= 0 /\ \E i \in Pings, j \in Closes : n = sent[j].at - sent[i].at

LastPing(close) == Max({i \in Pings : i < close})
Measured == {j \in Closes : \E i \in Pings : i < j /\ sent[LastPing(j)].at <= sent[j].at}

\* Repeated batches, unless late, leave the last interval right, but for a Ping answered at
\* the very time of a close before it, which a repetition takes for one answered first, or at
\* an earlier time, by a clock that was set back.
PingToCloseUnlessLate ==
  \/ late
  \/ \E i \in Pings, j \in Closes : j < i /\ sent[i].at <= sent[j].at
  \/ summary.pingToClose =
       IF Measured = {} THEN {} ELSE {sent[Max(Measured)].at - sent[LastPing(Max(Measured))].at}

\* The invariant of the columns: types, and that copies make no observation up, and hide
\* neither an event that is counted nor a slice.
SummaryInv ==
  /\ TypeOK
  /\ ObservationsStand
  /\ CountersNeverShort
  /\ NoSliceHidden

\* The interval is one between a response and a close, and the last one, unless a copy is late.
PingToCloseIsTrue ==
  /\ PingBeforeClose
  /\ PingToCloseUnlessLate
=============================================================================
