----------------------------- MODULE UplinkProofs -----------------------------
(***************************************************************************)
(* Proofs about Uplink, for every value of its constants: what it files,   *)
(* and for whom; that a run's file is written in order; that a run is      *)
(* closed once; that uploading implements at-least-once delivery.          *)
(***************************************************************************)
EXTENDS Uplink, TLAPS

\* The empty sequence has no elements.
LEMMA RangeEmpty == Range(<<>>) = {}
BY DEF Range

\* Concatenation adds up the elements of its arguments.
LEMMA RangeConcat ==
  ASSUME NEW S, NEW s \in Seq(S), NEW t \in Seq(S)
  PROVE  Range(s \o t) = Range(s) \cup Range(t)
<1>1. Range(s \o t) \subseteq Range(s) \cup Range(t)
  <2> SUFFICES ASSUME NEW i \in 1 .. Len(s \o t)
               PROVE  (s \o t)[i] \in Range(s) \cup Range(t)
    BY DEF Range
  <2>1. CASE i <= Len(s)
    BY <2>1 DEF Range
  <2>2. CASE i > Len(s)
    <3>1. i - Len(s) \in 1 .. Len(t) /\ (s \o t)[i] = t[i - Len(s)]
      BY <2>2
    <3> QED BY <3>1 DEF Range
  <2> QED BY <2>1, <2>2
<1>2. Range(s) \subseteq Range(s \o t)
  <2> SUFFICES ASSUME NEW i \in 1 .. Len(s)
               PROVE  s[i] \in Range(s \o t)
    BY DEF Range
  <2>1. i \in 1 .. Len(s \o t) /\ (s \o t)[i] = s[i]
    OBVIOUS
  <2> QED BY <2>1 DEF Range
<1>3. Range(t) \subseteq Range(s \o t)
  <2> SUFFICES ASSUME NEW i \in 1 .. Len(t)
               PROVE  t[i] \in Range(s \o t)
    BY DEF Range
  <2>1. Len(s) + i \in 1 .. Len(s \o t) /\ (s \o t)[Len(s) + i] = t[i]
    OBVIOUS
  <2> QED BY <2>1 DEF Range
<1> QED BY <1>1, <1>2, <1>3

\* The elements of a slice are those at its positions.
LEMMA RangeSlice ==
  ASSUME NEW S, NEW s \in Seq(S), NEW m \in Nat \ {0}, NEW n \in 0 .. Len(s)
  PROVE  /\ SubSeq(s, m, n) \in Seq(S)
         /\ Range(SubSeq(s, m, n)) = {s[i] : i \in m .. n}
         /\ Range(SubSeq(s, m, n)) \subseteq Range(s)
<1> DEFINE q == SubSeq(s, m, n)
<1>1. /\ q \in Seq(S)
      /\ Len(q) = IF m <= n THEN n - m + 1 ELSE 0
      /\ \A i \in 1 .. Len(q) : q[i] = s[m + i - 1]
  OBVIOUS
<1>2. Range(q) \subseteq {s[i] : i \in m .. n}
  <2> SUFFICES ASSUME NEW i \in 1 .. Len(q)
               PROVE  q[i] \in {s[j] : j \in m .. n}
    BY <1>1 DEF Range
  <2>1. m + i - 1 \in m .. n /\ q[i] = s[m + i - 1]
    BY <1>1
  <2> QED BY <2>1
<1>3. {s[i] : i \in m .. n} \subseteq Range(q)
  <2> SUFFICES ASSUME NEW i \in m .. n
               PROVE  s[i] \in Range(q)
    OBVIOUS
  <2>1. i - m + 1 \in 1 .. Len(q) /\ q[i - m + 1] = s[i]
    BY <1>1
  <2> HIDE DEF q
  <2> QED BY <1>1, <2>1 DEF Range
<1>4. {s[i] : i \in m .. n} \subseteq Range(s)
  BY DEF Range
<1> QED BY <1>1, <1>2, <1>3, <1>4

\* Cutting a sequence in two keeps its elements.
LEMMA RangeCut ==
  ASSUME NEW S, NEW s \in Seq(S), NEW n \in 0 .. Len(s)
  PROVE  Range(s) = Range(SubSeq(s, 1, n)) \cup Range(SubSeq(s, n + 1, Len(s)))
<1>1. Range(SubSeq(s, 1, n)) = {s[i] : i \in 1 .. n}
  BY RangeSlice
<1>2. Range(SubSeq(s, n + 1, Len(s))) = {s[i] : i \in n + 1 .. Len(s)}
  BY RangeSlice
<1>3. 1 .. Len(s) = (1 .. n) \cup (n + 1 .. Len(s))
  OBVIOUS
<1>4. Range(s) = {s[i] : i \in 1 .. Len(s)}
  BY DEF Range
<1> QED BY <1>1, <1>2, <1>3, <1>4

-----------------------------------------------------------------------------
\* The events queue stamps: of the given run, numbered from made + 1.
LEMMA FreshEvents ==
  ASSUME made \in Nat, NEW r \in Runs, NEW kinds \in Seq(Kinds)
  PROVE  /\ Fresh(r, kinds) \in Seq(Event)
         /\ \A e \in Range(Fresh(r, kinds)) : e.run = r
         /\ {e.id : e \in Range(Fresh(r, kinds))} = made + 1 .. made + Len(kinds)
<1> DEFINE f == Fresh(r, kinds)
           n == Len(kinds)
<1>1. /\ n \in Nat
      /\ \A i \in 1 .. n : kinds[i] \in Kinds
  OBVIOUS
<1>2. f = [i \in 1 .. n |-> [id |-> made + i, run |-> r, kind |-> kinds[i]]]
  BY DEF Fresh
<1>3. \A i \in 1 .. n : f[i] \in Event /\ f[i].run = r /\ f[i].id = made + i
  BY <1>1, <1>2 DEF Event
<1>4. f \in Seq(Event)
  BY <1>1, <1>2, <1>3
<1>5. Range(f) = {f[i] : i \in 1 .. n}
  BY <1>2 DEF Range
<1>6. {e.id : e \in Range(f)} = {made + i : i \in 1 .. n}
  BY <1>3, <1>5
<1>7. {made + i : i \in 1 .. n} = made + 1 .. made + n
  <2>1. ASSUME NEW k \in made + 1 .. made + n
        PROVE  k \in {made + i : i \in 1 .. n}
    <3>1. k - made \in 1 .. n /\ k = made + (k - made)
      BY <1>1
    <3> QED BY <3>1
  <2> QED BY <1>1, <2>1
<1> HIDE DEF f, n
<1>8. \A e \in Range(f) : e.run = r
  BY <1>3, <1>5
<1> QED BY <1>4, <1>6, <1>7, <1>8 DEF f, n

\* What queueing does: the new events join the queue, the oldest may leave it
\* for lost, and nothing else happens to it.
LEMMA QueueEffect ==
  ASSUME made \in Nat, NEW p \in Seq(Event), NEW r \in Runs, NEW kinds \in Seq(Kinds),
         Queue(p, r, kinds)
  PROVE  /\ pending' \in Seq(Event)
         /\ Len(pending') <= MaxPending
         /\ made' = made + Len(kinds)
         /\ made' \in made .. MaxMade
         /\ Range(pending') \cup lost' = Range(p) \cup Range(Fresh(r, kinds)) \cup lost
         /\ Range(pending') \subseteq Range(p) \cup Range(Fresh(r, kinds))
         /\ lost \subseteq lost'
<1> DEFINE f == Fresh(r, kinds)
           all == p \o f
<1>1. f \in Seq(Event)
  BY FreshEvents
<1>2. /\ pending' = Newest(all)
      /\ lost' = lost \cup Range(Oldest(all))
      /\ made' = made + Len(kinds)
      /\ made' <= MaxMade
  BY DEF Queue
<1> HIDE DEF f
<1>3. all \in Seq(Event) /\ Range(all) = Range(p) \cup Range(f)
  BY <1>1, RangeConcat
<1> HIDE DEF all
<1>4. Excess(all) \in 0 .. Len(all) /\ Len(all) - Excess(all) <= MaxPending
  BY <1>3, UplinkAssumption DEF Excess
<1>5. Range(all) = Range(Oldest(all)) \cup Range(Newest(all))
  BY <1>3, <1>4, RangeCut DEF Oldest, Newest
<1>6. Newest(all) \in Seq(Event) /\ Len(Newest(all)) = Len(all) - Excess(all)
  BY <1>3, <1>4 DEF Newest
<1>7. Len(kinds) \in Nat /\ MaxMade \in Nat
  BY UplinkAssumption
<1> QED BY <1>2, <1>3, <1>4, <1>5, <1>6, <1>7 DEF f

\* What the server's append does to the files.
LEMMA StoredEffect ==
  ASSUME files \in [Runs -> Seq(Event)], NEW r \in Runs, NEW batch \in Seq(Event),
         NEW n \in 0 .. Len(batch), Stored(r, batch, n)
  PROVE  /\ files' \in [Runs -> Seq(Event)]
         /\ Range(files'[r]) = FiledIn(r) \cup Range(SubSeq(batch, 1, n))
         /\ Range(SubSeq(batch, 1, n)) \subseteq Range(batch)
         /\ \A q \in Runs \ {r} : files'[q] = files[q]
         /\ Filed \subseteq Filed'
         /\ Filed' \subseteq Filed \cup Range(batch)
<1> DEFINE part == SubSeq(batch, 1, n)
<1>1. part \in Seq(Event) /\ Range(part) \subseteq Range(batch)
  BY RangeSlice
<1>2. files'[r] = files[r] \o part /\ \A q \in Runs \ {r} : files'[q] = files[q]
  BY DEF Stored
<1>3. files' \in [Runs -> Seq(Event)]
  BY <1>1 DEF Stored
<1> HIDE DEF part
<1>4. Range(files'[r]) = FiledIn(r) \cup Range(part)
  <2>1. files[r] \in Seq(Event)
    OBVIOUS
  <2> QED BY <1>1, <1>2, <2>1, RangeConcat DEF FiledIn
<1>5. \A q \in Runs : /\ FiledIn(q) \subseteq Range(files'[q])
                      /\ Range(files'[q]) \subseteq FiledIn(q) \cup Range(batch)
  BY <1>1, <1>2, <1>4 DEF FiledIn
<1>6. Filed \subseteq Filed' /\ Filed' \subseteq Filed \cup Range(batch)
  BY <1>5 DEF Filed, FiledIn
<1> QED BY <1>1, <1>2, <1>3, <1>4, <1>6 DEF part

-----------------------------------------------------------------------------
\* The batch of the outstanding request is the oldest part of the queue.
LEMMA BatchEffect ==
  ASSUME TypeOK
  PROVE  /\ Batch \in Seq(Event) /\ Len(Batch) = count
         /\ Unsent \in Seq(Event) /\ Len(Unsent) <= Len(pending)
         /\ Range(pending) = Range(Batch) \cup Range(Unsent)
<1>1. pending \in Seq(Event) /\ count \in 0 .. Len(pending)
  BY UplinkAssumption DEF TypeOK, Shorter
<1>2. Range(pending) = Range(Batch) \cup Range(Unsent)
  BY <1>1, RangeCut DEF Batch, Unsent
<1> QED BY <1>1, <1>2 DEF Batch, Unsent

\* Queueing for a run keeps every event accounted for and attributed.
LEMMA QueueStep ==
  ASSUME UplinkInv, NEW r \in Runs, NEW kinds \in Seq(Kinds),
         Queue(pending, r, kinds),
         r = run \/ pending = <<>>,
         UNCHANGED <<files, stale>>
  PROVE  /\ pending' \in Seq(Event) /\ Len(pending') <= MaxPending
         /\ made' \in 0 .. MaxMade /\ lost' \subseteq Event
         /\ \A e \in Range(pending') : e.run = r
         /\ Attribution' /\ Accounted'
         /\ \A q \in stale' : Range(q.batch) \subseteq Known'
<1> DEFINE f == Range(Fresh(r, kinds))
<1>1. /\ pending \in Seq(Event) /\ made \in 0 .. MaxMade /\ lost \subseteq Event
      /\ \A e \in Range(pending) : e.run = run
      /\ Attribution /\ Accounted
      /\ \A q \in stale : Range(q.batch) \subseteq Known
  BY DEF UplinkInv, TypeOK, OwnRun, Acknowledged
<1>2. /\ Fresh(r, kinds) \in Seq(Event)
      /\ \A e \in f : e.run = r
      /\ {e.id : e \in f} = made + 1 .. made + Len(kinds)
  BY <1>1, FreshEvents
<1>3. /\ pending' \in Seq(Event) /\ Len(pending') <= MaxPending
      /\ made' = made + Len(kinds) /\ made' \in made .. MaxMade
      /\ Range(pending') \cup lost' = Range(pending) \cup f \cup lost
      /\ Range(pending') \subseteq Range(pending) \cup f
  BY <1>1, QueueEffect
<1>4. Filed' = Filed
  BY DEF Filed, FiledIn
<1>5. Known' = Known \cup f
  BY <1>3, <1>4 DEF Known
<1>6. f \subseteq Event /\ Range(pending) \subseteq Event
  BY <1>1, <1>2 DEF Range
<1>7. lost' \subseteq Event
  BY <1>1, <1>3, <1>6
<1>8. \A e \in Range(pending') : e.run = r
  <2>1. CASE r = run
    BY <1>1, <1>2, <1>3, <2>1
  <2>2. CASE pending = <<>>
    BY <1>2, <1>3, <2>2, RangeEmpty
  <2> QED BY <2>1, <2>2
<1>9. Attribution'
  BY <1>1 DEF Attribution, FiledIn
<1>10. Accounted'
  <2>1. {e.id : e \in Known'} = {e.id : e \in Known} \cup {e.id : e \in f}
    BY <1>5
  <2>2. {e.id : e \in Known'} = (1 .. made) \cup (made + 1 .. made + Len(kinds))
    BY <1>1, <1>2, <2>1 DEF Accounted
  <2>3. Len(kinds) \in Nat
    OBVIOUS
  <2> QED BY <1>1, <1>3, <2>2, <2>3 DEF Accounted
<1>11. \A q \in stale' : Range(q.batch) \subseteq Known'
  BY <1>1, <1>5
<1> HIDE DEF f
<1> QED BY <1>1, <1>3, <1>7, <1>8, <1>9, <1>10, <1>11

\* Storing a batch of accounted events under its own run changes nothing else.
LEMMA StoredStep ==
  ASSUME UplinkInv, NEW r \in Runs, NEW batch \in Seq(Event), NEW n \in 0 .. Len(batch),
         Stored(r, batch, n),
         Range(batch) \subseteq Known,
         \A e \in Range(batch) : e.run = r,
         UNCHANGED <<pending, lost, made>>
  PROVE  /\ files' \in [Runs -> Seq(Event)]
         /\ Known' = Known
         /\ Range(files'[r]) = FiledIn(r) \cup Range(SubSeq(batch, 1, n))
         /\ \A q \in Runs : FiledIn(q) \subseteq Range(files'[q])
         /\ Attribution' /\ Accounted'
<1>1. files \in [Runs -> Seq(Event)] /\ Attribution /\ Accounted
  BY DEF UplinkInv, TypeOK
<1>2. /\ files' \in [Runs -> Seq(Event)]
      /\ Range(files'[r]) = FiledIn(r) \cup Range(SubSeq(batch, 1, n))
      /\ Range(SubSeq(batch, 1, n)) \subseteq Range(batch)
      /\ \A q \in Runs \ {r} : files'[q] = files[q]
      /\ Filed \subseteq Filed' /\ Filed' \subseteq Filed \cup Range(batch)
  BY <1>1, StoredEffect
<1>3. Known' = Known
  BY <1>2 DEF Known
<1>4. Attribution'
  <2> SUFFICES ASSUME NEW q \in Runs, NEW e \in Range(files'[q])
               PROVE  e.run = q
    BY DEF Attribution, FiledIn
  <2>1. CASE q = r
    BY <1>1, <1>2, <2>1 DEF Attribution
  <2>2. CASE q # r
    BY <1>1, <1>2, <2>2 DEF Attribution, FiledIn
  <2> QED BY <2>1, <2>2
<1>5. Accounted'
  BY <1>1, <1>3 DEF Accounted
<1>6. \A q \in Runs : FiledIn(q) \subseteq Range(files'[q])
  BY <1>2 DEF FiledIn
<1> QED BY <1>2, <1>3, <1>4, <1>5, <1>6

-----------------------------------------------------------------------------
\* The initial state satisfies the invariant.
LEMMA InitInv == Init => UplinkInv
<1> SUFFICES ASSUME Init PROVE UplinkInv
  OBVIOUS
<1> USE UplinkAssumption DEF Init
<1>1. TypeOK
  <2>1. pending \in Seq(Event) /\ files \in [Runs -> Seq(Event)]
    OBVIOUS
  <2>2. Len(pending) <= MaxPending /\ count \in 0 .. Shorter(Len(pending), BatchLimit)
    BY DEF Shorter
  <2>3. active \in BOOLEAN
    OBVIOUS
  <2>4. /\ run \in 0 .. runs /\ pc \in {"poll", "flush", "drain"}
        /\ reply \in {"none", "ok", "error"} /\ runs \in 0 .. MaxRuns
        /\ made \in 0 .. MaxMade /\ faults \in 0 .. MaxFaults
    OBVIOUS
  <2>5. /\ stale \subseteq [no : Nat, run : Runs, batch : Seq(Event)]
        /\ lost \subseteq Event
    OBVIOUS
  <2> HIDE DEF Init
  <2> QED BY <2>1, <2>2, <2>3, <2>4, <2>5 DEF TypeOK
<1>2. Control
  BY DEF Control
<1>3. Range(pending) = {} /\ (\A r \in Runs : FiledIn(r) = {})
  BY RangeEmpty DEF FiledIn
<1>4. OwnRun /\ Attribution /\ Acknowledged
  BY <1>3 DEF OwnRun, Attribution, Acknowledged
<1>5. Known = {} /\ 1 .. made = {}
  BY <1>3 DEF Known, Filed
<1>6. Accounted
  BY <1>5 DEF Accounted
<1> QED BY <1>1, <1>2, <1>4, <1>6 DEF UplinkInv

\* Steps that touch neither the events nor where they are keep what is said of them.
LEMMA SameEvents ==
  ASSUME UplinkInv, UNCHANGED <<pending, files, made, lost>>
  PROVE  /\ Known' = Known /\ Attribution' /\ Accounted'
<1>1. Known' = Known
  BY DEF Known, Filed, FiledIn
<1> QED BY <1>1 DEF UplinkInv, Attribution, Accounted, FiledIn

\* A step that queues for the run it leaves the agent in preserves the invariant.
LEMMA QueueInv ==
  ASSUME UplinkInv, NEW r \in Runs, NEW kinds \in Seq(Kinds),
         Queue(pending, r, kinds),
         run' = r, r = run \/ pending = <<>>, r \in 0 .. runs',
         count = 0, pc' \in {"poll", "drain"},
         active' \in BOOLEAN, runs' \in 0 .. MaxRuns,
         UNCHANGED <<count, reply, stale, files, faults>>
  PROVE  UplinkInv'
<1> USE UplinkAssumption
<1>1. /\ TypeOK /\ Control /\ OwnRun
  BY DEF UplinkInv
<1>2. /\ pending' \in Seq(Event) /\ Len(pending') <= MaxPending
      /\ made' \in 0 .. MaxMade /\ lost' \subseteq Event
      /\ \A e \in Range(pending') : e.run = r
      /\ Attribution' /\ Accounted'
      /\ \A q \in stale' : Range(q.batch) \subseteq Known'
  BY QueueStep
<1>3. TypeOK'
  BY <1>1, <1>2 DEF TypeOK, Shorter
<1>4. Control' /\ reply' # "ok"
  BY <1>1 DEF Control, Runs
<1>5. OwnRun'
  BY <1>1, <1>2 DEF OwnRun
<1>6. Acknowledged'
  BY <1>2, <1>4 DEF Acknowledged
<1> QED BY <1>2, <1>3, <1>4, <1>5, <1>6 DEF UplinkInv

\* Every step of the agent preserves the invariant.
LEMMA AgentInv ==
  ASSUME UplinkInv, Agent
  PROVE  UplinkInv'
<1> USE UplinkAssumption
<1>1. /\ TypeOK /\ Control /\ OwnRun /\ Attribution /\ Acknowledged /\ Accounted
  BY DEF UplinkInv
<1>2. CASE Tick
  BY <1>2 DEF Tick, vars, agentVars, wireVars, historyVars, UplinkInv, TypeOK, Control,
     OwnRun, Attribution, Acknowledged, Accounted, Known, Filed, FiledIn, Batch
<1>4. ASSUME NEW kind \in {"live", "note"}, Observe(kind)
      PROVE  UplinkInv'
  <2>1. /\ <<kind>> \in Seq(Kinds) /\ run \in Runs /\ run' = run /\ run \in 0 .. runs'
        /\ Queue(pending, run, <<kind>>)
        /\ count = 0 /\ pc' \in {"poll", "drain"}
        /\ active' \in BOOLEAN /\ runs' \in 0 .. MaxRuns
        /\ UNCHANGED <<count, reply, stale, files, faults>>
    BY <1>1, <1>4 DEF Observe, Kinds, Control, TypeOK, Runs, wireVars
  <2> QED BY <2>1, QueueInv
<1>5. CASE EndRun
  <2> DEFINE kinds == <<"note", "session_end">>
  <2>1. kinds \in Seq(Kinds)
    <3>1. <<"note">> \in Seq(Kinds) /\ <<"session_end">> \in Seq(Kinds)
      BY DEF Kinds
    <3>2. kinds = <<"note">> \o <<"session_end">>
      OBVIOUS
    <3> QED BY <3>1, <3>2
  <2>2. Queue(pending, run, kinds)
    BY <1>5 DEF EndRun
  <2> HIDE DEF kinds
  <2>3. /\ run \in Runs /\ run' = run /\ run \in 0 .. runs'
        /\ count = 0 /\ pc' \in {"poll", "drain"}
        /\ runs' \in 0 .. MaxRuns
        /\ UNCHANGED <<count, reply, stale, files, faults>>
    BY <1>1, <1>5 DEF EndRun, Control, TypeOK, Runs, wireVars
  <2>4. active' \in BOOLEAN
    BY <1>5 DEF EndRun
  <2> QED BY <2>1, <2>2, <2>3, <2>4, QueueInv
<1>6. ASSUME NEW profile \in 0 .. MaxProfile, StartRun(profile) \/ DrainDone(profile)
      PROVE  UplinkInv'
  <2> DEFINE kinds == <<"session_start">> \o [i \in 1 .. profile |-> "note"]
             r == runs + 1
  <2>1. kinds \in Seq(Kinds)
    <3>1. [i \in 1 .. profile |-> "note"] \in Seq(Kinds) /\ <<"session_start">> \in Seq(Kinds)
      BY DEF Kinds
    <3> QED BY <3>1
  <2>2. /\ pending = <<>> /\ count = 0 /\ BeginRun(profile)
        /\ UNCHANGED <<count, reply, stale, files, faults>>
    BY <1>1, <1>6 DEF StartRun, DrainDone, Control, wireVars
  <2>3. /\ r \in Runs /\ run' = r /\ r \in 0 .. runs'
        /\ Queue(pending, r, kinds)
        /\ pc' \in {"poll", "drain"}
        /\ active' \in BOOLEAN /\ runs' \in 0 .. MaxRuns
    BY <1>1, <2>2 DEF BeginRun, TypeOK, Runs
  <2> HIDE DEF kinds, r
  <2> QED BY <2>1, <2>2, <2>3, QueueInv
<1>7. CASE CloseRun
  <2> DEFINE kinds == IF active THEN <<"session_end">> ELSE <<>>
  <2>1. kinds \in Seq(Kinds)
    <3>1. <<"session_end">> \in Seq(Kinds) /\ <<>> \in Seq(Kinds)
      BY DEF Kinds
    <3> QED BY <3>1
  <2>2. Queue(pending, run, kinds)
    BY <1>7 DEF CloseRun
  <2> HIDE DEF kinds
  <2>3. /\ run \in Runs /\ run' = run /\ run \in 0 .. runs'
        /\ count = 0 /\ pc' \in {"poll", "drain"}
        /\ active' \in BOOLEAN /\ runs' \in 0 .. MaxRuns
        /\ UNCHANGED <<count, reply, stale, files, faults>>
    BY <1>1, <1>7 DEF CloseRun, Control, TypeOK, Runs, wireVars
  <2> QED BY <2>1, <2>2, <2>3, QueueInv
<1>8. CASE DrainNext \/ Flush
  <2>1. /\ UNCHANGED <<run, active, pending, stale, files, runs, made, lost, faults>>
        /\ pending # <<>> /\ reply' = "none" /\ pc' \in {"flush", "drain"}
        /\ count' \in 1 .. Shorter(Len(pending), BatchLimit)
    BY <1>8 DEF DrainNext, Flush, Post, historyVars
  <2>2. TypeOK' /\ Control' /\ OwnRun'
    BY <1>1, <2>1 DEF TypeOK, Control, OwnRun, Shorter
  <2>3. Known' = Known /\ Attribution' /\ Accounted'
    BY <2>1, SameEvents
  <2>4. Acknowledged'
    BY <1>1, <2>1, <2>3 DEF Acknowledged
  <2> QED BY <2>2, <2>3, <2>4 DEF UplinkInv
<1>9. CASE Accepted
  <2>1. /\ pending' = Unsent /\ count' = 0 /\ reply' = "none"
        /\ pc' = IF pc = "flush" THEN "poll" ELSE pc
        /\ count > 0 /\ reply = "ok"
        /\ UNCHANGED <<run, active, stale, files, runs, made, lost, faults>>
    BY <1>9 DEF Accepted, NoRequest, historyVars
  <2>2. /\ Unsent \in Seq(Event) /\ Len(Unsent) <= Len(pending)
        /\ Range(pending) = Range(Batch) \cup Range(Unsent)
        /\ Range(Batch) \subseteq FiledIn(run)
    BY <1>1, <2>1, BatchEffect DEF Acknowledged
  <2>3. TypeOK'
    BY <1>1, <2>1, <2>2 DEF TypeOK, Shorter
  <2>4. Control' /\ OwnRun'
    BY <1>1, <2>1, <2>2 DEF Control, OwnRun, TypeOK
  <2>5. run \in Runs /\ Range(Batch) \subseteq Filed
    BY <1>1, <2>1, <2>2 DEF Control, TypeOK, Runs, Filed
  <2>6. Known' = Known /\ Attribution'
    BY <1>1, <2>1, <2>2, <2>5 DEF Known, Filed, FiledIn, Attribution
  <2>7. Accounted' /\ Acknowledged'
    BY <1>1, <2>1, <2>6 DEF Accounted, Acknowledged
  <2> QED BY <2>3, <2>4, <2>6, <2>7 DEF UplinkInv
<1>10. CASE Deferred
  <2>1. /\ count' = 0 /\ reply' = "none" /\ pc' = "poll"
        /\ UNCHANGED <<run, active, pending, stale, files, runs, made, lost, faults>>
    BY <1>10 DEF Deferred, NoRequest, historyVars
  <2>2. TypeOK' /\ Control' /\ OwnRun'
    BY <1>1, <2>1 DEF TypeOK, Control, OwnRun, Shorter
  <2>3. Known' = Known /\ Attribution' /\ Accounted'
    BY <2>1, SameEvents
  <2>4. Acknowledged'
    BY <1>1, <2>1, <2>3 DEF Acknowledged
  <2> QED BY <2>2, <2>3, <2>4 DEF UplinkInv
<1>11. CASE DrainFailed
  <2>1. /\ lost' = lost \cup Range(pending) /\ pending' = <<>> /\ count' = 0 /\ reply' = "none"
        /\ pc = "drain" /\ UNCHANGED <<run, active, pc, stale, files, runs, made, faults>>
    BY <1>11 DEF DrainFailed, NoRequest
  <2>2. Range(pending') = {} /\ Range(pending) \subseteq Event
    BY <1>1, <2>1, RangeEmpty DEF TypeOK, Range
  <2>3. TypeOK'
    BY <1>1, <2>1, <2>2 DEF TypeOK, Shorter
  <2>4. Control' /\ OwnRun'
    BY <1>1, <2>1, <2>2 DEF Control, OwnRun
  <2>5. Known' = Known /\ Attribution'
    BY <1>1, <2>1, <2>2 DEF Known, Filed, FiledIn, Attribution
  <2>6. Accounted' /\ Acknowledged'
    BY <1>1, <2>1, <2>5 DEF Accounted, Acknowledged
  <2> QED BY <2>3, <2>4, <2>5, <2>6 DEF UplinkInv
<1> QED BY <1>2, <1>4, <1>5, <1>6, <1>7, <1>8, <1>9, <1>10, <1>11 DEF Agent

\* Every step of the server preserves the invariant.
LEMMA ServerInv ==
  ASSUME UplinkInv, Server
  PROVE  UplinkInv'
<1> USE UplinkAssumption
<1>1. /\ TypeOK /\ Control /\ OwnRun /\ Attribution /\ Acknowledged /\ Accounted
  BY DEF UplinkInv
<1>2. /\ Batch \in Seq(Event) /\ Len(Batch) = count
      /\ Range(Batch) \subseteq Range(pending) /\ Range(pending) \subseteq Known
  BY <1>1, BatchEffect DEF Known
<1>3. \A e \in Range(Batch) : e.run = run
  BY <1>1, <1>2 DEF OwnRun
<1>4. count > 0 => run \in Runs
  <2>1. pending = <<>> => count = 0
    BY <1>1 DEF TypeOK, Shorter
  <2> QED BY <1>1, <2>1 DEF Control, TypeOK, Runs
<1>5. CASE Store \/ \E n \in 0 .. BatchLimit : StoreFails(n)
  <2>1. PICK n \in 0 .. count :
           /\ count > 0 /\ Stored(run, Batch, n)
           /\ reply' \in {"ok", "error"} /\ (reply' = "ok" => n = count)
           /\ faults' \in 0 .. MaxFaults
           /\ UNCHANGED <<run, active, pending, pc, count, stale, runs, made, lost>>
    BY <1>1, <1>5 DEF Store, StoreFails, Fault, agentVars, historyVars, TypeOK
  <2>2. n \in 0 .. Len(Batch)
    BY <1>1, <1>2, <2>1 DEF TypeOK
  <2>3. /\ files' \in [Runs -> Seq(Event)]
        /\ Known' = Known
        /\ Range(files'[run]) = FiledIn(run) \cup Range(SubSeq(Batch, 1, n))
        /\ Attribution' /\ Accounted'
    BY <1>2, <1>3, <1>4, <2>1, <2>2, StoredStep
  <2>4. TypeOK' /\ Control' /\ OwnRun'
    <3>1. TypeOK'
      BY <1>1, <2>1, <2>3 DEF TypeOK
    <3>2. Control'
      BY <1>1, <2>1 DEF Control
    <3>3. OwnRun'
      BY <1>1, <2>1 DEF OwnRun
    <3> QED BY <3>1, <3>2, <3>3
  <2>5. reply' = "ok" => Range(Batch) \subseteq Range(files'[run])
    <3>1. SubSeq(Batch, 1, Len(Batch)) = Batch
      BY <1>2
    <3> QED BY <1>2, <2>1, <2>3, <3>1
  <2>6. Acknowledged'
    BY <1>1, <2>1, <2>3, <2>5 DEF Acknowledged, FiledIn, Batch
  <2> QED BY <2>3, <2>4, <2>6 DEF UplinkInv
<1>6. ASSUME NEW request \in stale, NEW n \in 0 .. BatchLimit, StoreStale(request, n)
      PROVE  UplinkInv'
  <2>1. /\ request.run \in Runs /\ request.batch \in Seq(Event) /\ n \in 0 .. Len(request.batch)
        /\ Range(request.batch) \subseteq Known
        /\ \A e \in Range(request.batch) : e.run = request.run
        /\ Stored(request.run, request.batch, n)
        /\ stale' \subseteq stale
        /\ UNCHANGED <<run, active, pending, pc, count, reply, runs, made, lost, faults>>
    BY <1>1, <1>6 DEF StoreStale, TypeOK, OwnRun, Acknowledged, agentVars, historyVars
  <2>2. /\ files' \in [Runs -> Seq(Event)]
        /\ Known' = Known
        /\ \A q \in Runs : FiledIn(q) \subseteq Range(files'[q])
        /\ Attribution' /\ Accounted'
    BY <2>1, StoredStep
  <2>3. TypeOK' /\ Control' /\ OwnRun'
    BY <1>1, <2>1, <2>2 DEF TypeOK, Control, OwnRun
  <2>4. reply' = "ok" => run \in Runs
    BY <1>1, <1>4, <2>1 DEF Control, TypeOK, Shorter
  <2>5. Acknowledged'
    BY <1>1, <2>1, <2>2, <2>4 DEF Acknowledged, FiledIn, Batch
  <2> QED BY <2>2, <2>3, <2>5 DEF UplinkInv
<1> QED BY <1>5, <1>6 DEF Server

\* Every failure preserves the invariant.
LEMMA FailureInv ==
  ASSUME UplinkInv, Failure
  PROVE  UplinkInv'
<1> USE UplinkAssumption
<1>1. /\ TypeOK /\ Control /\ OwnRun /\ Attribution /\ Acknowledged /\ Accounted
  BY DEF UplinkInv
<1>2. /\ Batch \in Seq(Event)
      /\ Range(Batch) \subseteq Range(pending) /\ Range(pending) \subseteq Known
  BY <1>1, BatchEffect DEF Known
<1>3. count > 0 => run \in Runs
  <2>1. pending = <<>> => count = 0
    BY <1>1 DEF TypeOK, Shorter
  <2> QED BY <1>1, <2>1 DEF Control, TypeOK, Runs
<1>4. count > 0 =>
        /\ Outstanding \in [no : Nat, run : Runs, batch : Seq(Event)]
        /\ \A e \in Range(Outstanding.batch) : e.run = Outstanding.run
        /\ Range(Outstanding.batch) \subseteq Known
  BY <1>1, <1>2, <1>3 DEF Outstanding, OwnRun, TypeOK
<1>5. ASSUME NEW arrives \in BOOLEAN, TimeOut(arrives)
      PROVE  UplinkInv'
  <2>1. /\ reply' = "error" /\ count > 0 /\ faults' \in 0 .. MaxFaults
        /\ stale' \subseteq stale \cup {Outstanding}
        /\ UNCHANGED <<run, active, pending, pc, count, files, runs, made, lost>>
    BY <1>1, <1>5 DEF TimeOut, Fault, agentVars, TypeOK
  <2>2. TypeOK' /\ Control' /\ OwnRun'
    BY <1>1, <1>4, <2>1 DEF TypeOK, Control, OwnRun
  <2>3. Known' = Known /\ Attribution' /\ Accounted'
    BY <2>1, SameEvents
  <2>4. Acknowledged'
    BY <1>1, <1>4, <2>1, <2>3 DEF Acknowledged
  <2> QED BY <2>2, <2>3, <2>4 DEF UplinkInv
<1>6. ASSUME NEW arrives \in BOOLEAN, Crash(arrives)
      PROVE  UplinkInv'
  <2>1. /\ run' = 0 /\ pending' = <<>> /\ pc' = "poll" /\ count' = 0 /\ reply' = "none"
        /\ lost' = lost \cup Range(pending) /\ faults' \in 0 .. MaxFaults
        /\ stale' \subseteq stale \cup {Outstanding}
        /\ stale' # stale => count > 0
        /\ UNCHANGED <<files, runs, made>>
    BY <1>1, <1>6 DEF Crash, Fault, NoRequest, TypeOK
  <2>2. active' = FALSE
    BY <1>6 DEF Crash
  <2>3. Range(pending') = {} /\ Range(pending) \subseteq Event
    BY <1>1, <2>1, RangeEmpty DEF TypeOK, Range
  <2>4. active' \in BOOLEAN
    BY <2>2
  <2>5. TypeOK'
    BY <1>1, <1>4, <2>1, <2>3, <2>4 DEF TypeOK, Shorter
  <2>6. Control' /\ OwnRun'
    BY <1>1, <1>4, <2>1, <2>2, <2>3 DEF Control, OwnRun
  <2>7. Known' = Known /\ Attribution'
    BY <1>1, <2>1, <2>3 DEF Known, Filed, FiledIn, Attribution
  <2>8. Accounted' /\ Acknowledged'
    BY <1>1, <1>4, <2>1, <2>7 DEF Accounted, Acknowledged
  <2> QED BY <2>5, <2>6, <2>7, <2>8 DEF UplinkInv
<1> QED BY <1>5, <1>6 DEF Failure

-----------------------------------------------------------------------------
\* The invariant holds in every reachable state of the upload path.
THEOREM UplinkInvariant == Spec => []UplinkInv
<1>1. Init => UplinkInv
  BY InitInv
<1>2. UplinkInv /\ [Next]_vars => UplinkInv'
  <2> SUFFICES ASSUME UplinkInv, [Next]_vars PROVE UplinkInv'
    OBVIOUS
  <2>1. CASE UNCHANGED vars
    BY <2>1 DEF vars, agentVars, wireVars, historyVars, UplinkInv, TypeOK, Control,
       OwnRun, Attribution, Acknowledged, Accounted, Known, Filed, FiledIn, Batch
  <2> QED BY <2>1, AgentInv, ServerInv, FailureInv DEF Next
<1> QED BY <1>1, <1>2, PTL DEF Spec

\* Variables keep their types; the queue and the batches keep their limits.
THEOREM TypeCorrect == Spec => []TypeOK
<1>1. UplinkInv => TypeOK
  BY DEF UplinkInv
<1> QED BY <1>1, UplinkInvariant, PTL

\* A run's file only holds events queued for that run.
THEOREM AttributionHolds == Spec => []Attribution
<1>1. UplinkInv => Attribution
  BY DEF UplinkInv
<1> QED BY <1>1, UplinkInvariant, PTL

\* Every queued event is in the queue, in a file, or openly discarded.
THEOREM AccountedHolds == Spec => []Accounted
<1>1. UplinkInv => Accounted
  BY DEF UplinkInv
<1> QED BY <1>1, UplinkInvariant, PTL

-----------------------------------------------------------------------------
(* The order of a file, the end of a run, and the refinement.              *)

\* Events are numbered up to made, and new ones beyond it.
LEMMA Numbers ==
  ASSUME UplinkInv
  PROVE  /\ made \in Nat
         /\ \A e \in Known : e.id \in 1 .. made
         /\ pending \in Seq(Event)
         /\ \A i \in 1 .. Len(pending) : pending[i] \in Known /\ pending[i].id \in 1 .. made
<1>1. made \in Nat /\ pending \in Seq(Event)
  BY UplinkAssumption DEF UplinkInv, TypeOK
<1>2. \A e \in Known : e.id \in 1 .. made
  BY DEF UplinkInv, Accounted
<1>3. \A i \in 1 .. Len(pending) : pending[i] \in Known
  BY <1>1 DEF Known, Range
<1> QED BY <1>1, <1>2, <1>3

\* A batch about to be posted or left behind needs nothing that is missing.
LEMMA BatchCovered ==
  ASSUME UplinkInv, OrderInv
  PROVE  Covered(Batch, run)
<1>1. /\ pending \in Seq(Event) /\ count \in 0 .. Len(pending)
      /\ Attribution /\ QueueOrdered
  BY UplinkAssumption DEF UplinkInv, TypeOK, Shorter, OrderInv
<1>2. Len(Batch) = count /\ \A k \in 1 .. count : Batch[k] = pending[k]
  BY <1>1 DEF Batch
<1> SUFFICES ASSUME NEW k \in 1 .. count, NEW e \in Known,
                    e.run = run, e.id < pending[k].id, e \notin lost \cup FiledIn(run)
             PROVE  \E j \in 1 .. k : Batch[j] = e
  BY <1>2 DEF Covered
<1>3. e \notin Filed
  BY <1>1 DEF Attribution, Filed
<1>4. PICK j \in 1 .. Len(pending) : pending[j] = e
  BY <1>1, <1>3 DEF Known, Range
<1>5. j <= k
  <2> SUFFICES ASSUME k < j PROVE FALSE
    BY <1>1
  <2>1. pending[k].id < pending[j].id
    BY <1>1 DEF QueueOrdered
  <2>2. pending[k].id \in Nat /\ pending[j].id \in Nat
    BY <1>1, Numbers
  <2> QED BY <1>4, <2>1, <2>2
<1> QED BY <1>1, <1>2, <1>4, <1>5

\* Cutting a queue short at either end keeps it ordered.
LEMMA OrderedSlice ==
  ASSUME NEW s \in Seq(Event), NEW m \in 1 .. Len(s) + 1,
         \A i, j \in 1 .. Len(s) : i < j => s[i].id < s[j].id
  PROVE  LET t == SubSeq(s, m, Len(s))
         IN  \A i, j \in 1 .. Len(t) : i < j => t[i].id < t[j].id
<1> DEFINE t == SubSeq(s, m, Len(s))
<1>1. Len(t) = Len(s) - m + 1 /\ \A i \in 1 .. Len(t) : t[i] = s[m + i - 1]
  OBVIOUS
<1> HIDE DEF t
<1>2. ASSUME NEW i \in 1 .. Len(t), NEW j \in 1 .. Len(t), i < j
      PROVE  t[i].id < t[j].id
  <2>1. /\ m + i - 1 \in 1 .. Len(s) /\ m + j - 1 \in 1 .. Len(s)
        /\ m + i - 1 < m + j - 1
        /\ t[i] = s[m + i - 1] /\ t[j] = s[m + j - 1]
    BY <1>1, <1>2
  <2> QED BY <2>1
<1> QED BY <1>2 DEF t

\* Fresh events come after those already queued.
LEMMA OrderedAll ==
  ASSUME UplinkInv, QueueOrdered, NEW r \in Runs, NEW kinds \in Seq(Kinds)
  PROVE  LET all == pending \o Fresh(r, kinds)
         IN  /\ all \in Seq(Event)
             /\ \A i, j \in 1 .. Len(all) : i < j => all[i].id < all[j].id
<1> DEFINE f == Fresh(r, kinds)
           all == pending \o f
<1>1. /\ pending \in Seq(Event) /\ made \in Nat
      /\ \A i \in 1 .. Len(pending) : pending[i].id \in 1 .. made
  BY Numbers
<1>2. f \in Seq(Event) /\ Len(f) = Len(kinds) /\ \A i \in 1 .. Len(f) : f[i].id = made + i
  BY <1>1, FreshEvents DEF Fresh
<1> HIDE DEF f
<1>3. all \in Seq(Event)
  BY <1>1, <1>2
<1>4. ASSUME NEW i \in 1 .. Len(all), NEW j \in 1 .. Len(all), i < j
      PROVE  all[i].id < all[j].id
  <2>1. CASE j <= Len(pending)
    BY <1>1, <1>2, <1>4, <2>1 DEF QueueOrdered
  <2>2. CASE i <= Len(pending) /\ Len(pending) < j
    <3>1. /\ all[i] = pending[i] /\ i \in 1 .. Len(pending)
          /\ all[j] = f[j - Len(pending)] /\ j - Len(pending) \in 1 .. Len(f)
      BY <1>1, <1>2, <2>2
    <3>2. all[i].id \in 1 .. made /\ all[j].id = made + (j - Len(pending))
      BY <1>1, <1>2, <3>1
    <3> HIDE DEF all
    <3> QED BY <1>1, <1>2, <3>1, <3>2
  <2>3. CASE Len(pending) < i
    <3>1. /\ all[i] = f[i - Len(pending)] /\ i - Len(pending) \in 1 .. Len(f)
          /\ all[j] = f[j - Len(pending)] /\ j - Len(pending) \in 1 .. Len(f)
      BY <1>1, <1>2, <1>4, <2>3
    <3>2. all[i].id = made + (i - Len(pending)) /\ all[j].id = made + (j - Len(pending))
      BY <1>2, <3>1
    <3>3. i \in Nat /\ j \in Nat /\ Len(pending) \in Nat
      BY <1>1
    <3> HIDE DEF all
    <3> QED BY <1>1, <1>4, <3>2, <3>3
  <2> QED BY <1>1, <1>2, <2>1, <2>2, <2>3
<1> QED BY <1>3, <1>4 DEF f

\* A queue stays ordered when fresh events join it.
LEMMA OrderedQueue ==
  ASSUME UplinkInv, QueueOrdered, NEW r \in Runs, NEW kinds \in Seq(Kinds),
         Queue(pending, r, kinds)
  PROVE  QueueOrdered'
<1> DEFINE all == pending \o Fresh(r, kinds)
<1>1. pending' = SubSeq(all, Excess(all) + 1, Len(all))
  BY DEF Queue, Newest
<1>2. all \in Seq(Event) /\ \A i, j \in 1 .. Len(all) : i < j => all[i].id < all[j].id
  BY OrderedAll
<1> HIDE DEF all
<1>3. Excess(all) + 1 \in 1 .. Len(all) + 1
  BY <1>2, UplinkAssumption DEF Excess
<1> QED BY <1>1, <1>2, <1>3, OrderedSlice DEF QueueOrdered

-----------------------------------------------------------------------------
\* The steps of the agent, by what they do to the events: queue some, leave
\* all where they are, drop an acknowledged batch, or discard the queue.
Queues ==
  /\ \E r \in Runs : \E kinds \in Seq(Kinds) :
       Queue(pending, r, kinds) /\ (r = run \/ pending = <<>>)
  /\ UNCHANGED <<files, stale>>

Rests == UNCHANGED <<pending, files, lost, made>>

Drops ==
  /\ pending' = Unsent
  /\ Range(Batch) \subseteq Filed
  /\ UNCHANGED <<files, stale, lost, made>>

Discards ==
  /\ pending' = <<>>
  /\ lost' = lost \cup Range(pending)
  /\ UNCHANGED <<files, made>>

\* A request in flight names a run.
LEMMA RequestRun ==
  ASSUME UplinkInv, count > 0
  PROVE  run \in Runs
<1>1. TypeOK /\ Control
  BY DEF UplinkInv
<1>2. pending = <<>> => count = 0
  BY <1>1, UplinkAssumption DEF TypeOK, Shorter
<1>3. run # 0
  BY <1>1, <1>2 DEF Control
<1> QED BY <1>1, <1>3, UplinkAssumption DEF TypeOK, Runs

\* Every step of the agent is one of the four.
LEMMA AgentStep ==
  ASSUME UplinkInv, Agent
  PROVE  \/ Queues
         \/ Rests /\ UNCHANGED stale
         \/ Drops
         \/ Discards /\ UNCHANGED stale
<1> USE UplinkAssumption
<1>1. TypeOK /\ Control /\ Acknowledged
  BY DEF UplinkInv
<1>2. CASE Tick \/ Deferred \/ DrainNext \/ Flush
  BY <1>2 DEF Tick, Deferred, DrainNext, Flush, Post, vars, agentVars, wireVars,
     historyVars, Rests
<1>3. ASSUME NEW kind \in {"live", "note"}, Observe(kind)
      PROVE  Queues
  <2>1. <<kind>> \in Seq(Kinds) /\ run \in Runs
    BY <1>1, <1>3 DEF Observe, Kinds, TypeOK, Runs
  <2> QED BY <1>3, <2>1 DEF Observe, Queues, wireVars
<1>4. CASE EndRun
  <2> DEFINE kinds == <<"note", "session_end">>
  <2>1. kinds \in Seq(Kinds)
    <3>1. <<"note">> \in Seq(Kinds) /\ <<"session_end">> \in Seq(Kinds)
      BY DEF Kinds
    <3>2. kinds = <<"note">> \o <<"session_end">>
      OBVIOUS
    <3> QED BY <3>1, <3>2
  <2>2. Queue(pending, run, kinds)
    BY <1>4 DEF EndRun
  <2> HIDE DEF kinds
  <2>3. run \in Runs /\ UNCHANGED <<files, stale>>
    BY <1>1, <1>4 DEF EndRun, TypeOK, Runs, wireVars
  <2> QED BY <2>1, <2>2, <2>3 DEF Queues
<1>5. ASSUME NEW profile \in 0 .. MaxProfile, StartRun(profile) \/ DrainDone(profile)
      PROVE  Queues
  <2> DEFINE kinds == <<"session_start">> \o [i \in 1 .. profile |-> "note"]
             r == runs + 1
  <2>1. kinds \in Seq(Kinds)
    <3>1. [i \in 1 .. profile |-> "note"] \in Seq(Kinds) /\ <<"session_start">> \in Seq(Kinds)
      BY DEF Kinds
    <3> QED BY <3>1
  <2>2. pending = <<>> /\ BeginRun(profile) /\ UNCHANGED <<files, stale>>
    BY <1>5 DEF StartRun, DrainDone, wireVars
  <2>3. r \in Runs /\ Queue(pending, r, kinds)
    BY <1>1, <2>2 DEF BeginRun, TypeOK, Runs
  <2> HIDE DEF kinds, r
  <2> QED BY <2>1, <2>2, <2>3 DEF Queues
<1>6. CASE CloseRun
  <2> DEFINE kinds == IF active THEN <<"session_end">> ELSE <<>>
  <2>1. kinds \in Seq(Kinds)
    <3>1. <<"session_end">> \in Seq(Kinds) /\ <<>> \in Seq(Kinds)
      BY DEF Kinds
    <3> QED BY <3>1
  <2>2. Queue(pending, run, kinds)
    BY <1>6 DEF CloseRun
  <2> HIDE DEF kinds
  <2>3. run \in Runs /\ UNCHANGED <<files, stale>>
    BY <1>1, <1>6 DEF CloseRun, TypeOK, Runs, wireVars
  <2> QED BY <2>1, <2>2, <2>3 DEF Queues
<1>7. CASE Accepted
  <2>1. count > 0 /\ reply = "ok" /\ pending' = Unsent /\ UNCHANGED <<files, stale, lost, made>>
    BY <1>7 DEF Accepted, historyVars
  <2>2. Range(Batch) \subseteq Filed
    BY <1>1, <2>1, RequestRun DEF Acknowledged, Filed
  <2> QED BY <2>1, <2>2 DEF Drops
<1>8. CASE DrainFailed
  BY <1>8 DEF DrainFailed, Discards
<1> QED BY <1>2, <1>3, <1>4, <1>5, <1>6, <1>7, <1>8 DEF Agent

\* Every step of the server appends to one file what it has covered.
LEMMA ServerStep ==
  ASSUME UplinkInv, OrderInv, Server
  PROVE  \E r \in Runs : \E batch \in Seq(Event) : \E n \in 0 .. Len(batch) :
           /\ Stored(r, batch, n)
           /\ Covered(batch, r)
           /\ Range(batch) \subseteq Known
           /\ \A e \in Range(batch) : e.run = r
           /\ stale' \subseteq stale
           /\ UNCHANGED <<pending, lost, made>>
<1>1. TypeOK /\ OwnRun /\ Acknowledged
  BY DEF UplinkInv
<1>2. /\ Batch \in Seq(Event) /\ Len(Batch) = count
      /\ Range(Batch) \subseteq Known
      /\ \A e \in Range(Batch) : e.run = run
      /\ Covered(Batch, run)
  BY <1>1, BatchEffect, BatchCovered DEF Known, OwnRun
<1>3. CASE Store \/ \E n \in 0 .. BatchLimit : StoreFails(n)
  <2>1. PICK n \in 0 .. count :
           count > 0 /\ Stored(run, Batch, n) /\ UNCHANGED <<pending, stale, lost, made>>
    BY <1>1, <1>3 DEF Store, StoreFails, agentVars, historyVars, TypeOK
  <2>2. run \in Runs
    BY <2>1, RequestRun
  <2> QED BY <1>2, <2>1, <2>2
<1>4. ASSUME NEW request \in stale, NEW n \in 0 .. BatchLimit, StoreStale(request, n)
      PROVE  /\ request.run \in Runs /\ request.batch \in Seq(Event)
             /\ n \in 0 .. Len(request.batch)
             /\ Stored(request.run, request.batch, n)
             /\ Covered(request.batch, request.run)
             /\ Range(request.batch) \subseteq Known
             /\ \A e \in Range(request.batch) : e.run = request.run
             /\ stale' \subseteq stale
             /\ UNCHANGED <<pending, lost, made>>
  BY <1>1, <1>4 DEF StoreStale, OrderInv, TypeOK, OwnRun, Acknowledged, agentVars, historyVars
<1> QED BY <1>3, <1>4 DEF Server

\* Every failure may leave a request behind, and at most discards the queue.
LEMMA FailureStep ==
  ASSUME UplinkInv, Failure
  PROVE  /\ Rests \/ Discards
         /\ stale' \subseteq stale \cup {Outstanding}
BY DEF Failure, TimeOut, Crash, Rests, Discards, agentVars

-----------------------------------------------------------------------------
\* Events known before and after a step: only ever later ones are added.
LEMMA QuietStep ==
  ASSUME UplinkInv, OrderInv,
         NEW new, Known' \subseteq Known \cup new,
         \A e \in new : e.id \in Nat /\ made < e.id,
         lost \subseteq lost', files' = files,
         stale' \subseteq stale \cup {Outstanding}
  PROVE  StoredInOrder' /\ \A q \in stale' : Covered(q.batch, q.run)'
<1>1. /\ TypeOK /\ Acknowledged /\ StoredInOrder
      /\ \A q \in stale : Covered(q.batch, q.run)
      /\ \A e \in Known : e.id \in 1 .. made
      /\ made \in Nat
  BY Numbers DEF UplinkInv, OrderInv
<1>2. ASSUME NEW r \in Runs, NEW i \in 1 .. Len(files[r]), NEW e \in Known',
             e.run = r, e.id < files[r][i].id, e \notin lost'
      PROVE  \E j \in 1 .. i : files[r][j] = e
  <2>1. files[r][i] \in Known
    BY <1>1 DEF TypeOK, Known, Filed, FiledIn, Range
  <2>2. e \in Known
    BY <1>1, <1>2, <2>1
  <2> QED BY <1>1, <1>2, <2>2 DEF StoredInOrder
<1>3. StoredInOrder'
  BY <1>2 DEF StoredInOrder
<1>4. ASSUME NEW batch, NEW r, Range(batch) \subseteq Known, batch \in Seq(Event),
             Covered(batch, r)
      PROVE  Covered(batch, r)'
  <2> SUFFICES ASSUME NEW k \in 1 .. Len(batch), NEW e \in Known',
                      e.run = r, e.id < batch[k].id
               PROVE  e \in lost' \cup Range(files'[r]) \/ \E j \in 1 .. k : batch[j] = e
    BY DEF Covered, FiledIn
  <2>1. batch[k] \in Known
    BY <1>4 DEF Range
  <2>2. e \in Known
    BY <1>1, <2>1
  <2> QED BY <1>4, <2>2 DEF Covered, FiledIn
<1>5. /\ Batch \in Seq(Event) /\ Range(Batch) \subseteq Known /\ Covered(Batch, run)
  BY <1>1, BatchEffect, BatchCovered DEF Known
<1>6. ASSUME NEW q \in stale'
      PROVE  Covered(q.batch, q.run)'
  <2>1. CASE q \in stale
    BY <1>1, <1>4, <2>1 DEF TypeOK, Acknowledged
  <2>2. CASE q = Outstanding
    <3>1. q.batch = Batch /\ q.run = run
      BY <2>2 DEF Outstanding
    <3>2. \A b, r : b = Batch /\ r = run => Covered(b, r)'
      BY <1>4, <1>5
    <3> QED BY <3>1, <3>2
  <2> QED BY <1>6, <2>1, <2>2
<1> QED BY <1>3, <1>6

\* Appending a covered batch keeps the file in order and all else covered.
LEMMA AppendStep ==
  ASSUME UplinkInv, OrderInv,
         NEW r \in Runs, NEW batch \in Seq(Event), NEW n \in 0 .. Len(batch),
         Stored(r, batch, n),
         Covered(batch, r),
         Range(batch) \subseteq Known,
         \A e \in Range(batch) : e.run = r,
         stale' \subseteq stale,
         UNCHANGED <<pending, lost, made>>
  PROVE  OrderInv'
<1>1. /\ TypeOK /\ Attribution /\ QueueOrdered /\ StoredInOrder
      /\ \A q \in stale : Covered(q.batch, q.run)
      /\ files \in [Runs -> Seq(Event)]
  BY DEF UplinkInv, OrderInv, TypeOK
<1>2. /\ Known' = Known
      /\ \A q \in Runs : FiledIn(q) \subseteq Range(files'[q])
  BY StoredStep
<1>3. QueueOrdered'
  BY <1>1 DEF QueueOrdered
<1>4. ASSUME NEW q \in stale'
      PROVE  Covered(q.batch, q.run)'
  <2>1. q.run \in Runs
    BY <1>1, <1>4 DEF TypeOK
  <2>2. FiledIn(q.run) \subseteq FiledIn(q.run)' /\ lost' = lost
    BY <1>2, <2>1 DEF FiledIn
  <2>3. Covered(q.batch, q.run)
    BY <1>1, <1>4
  <2> SUFFICES ASSUME NEW k \in 1 .. Len(q.batch), NEW e \in Known,
                      e.run = q.run, e.id < q.batch[k].id
               PROVE  e \in lost' \cup FiledIn(q.run)' \/ \E j \in 1 .. k : q.batch[j] = e
    BY <1>2 DEF Covered
  <2> QED BY <2>2, <2>3 DEF Covered
<1> DEFINE old == files[r]
           part == SubSeq(batch, 1, n)
<1>5. /\ old \in Seq(Event) /\ part \in Seq(Event) /\ Len(part) = n
      /\ \A k \in 1 .. n : part[k] = batch[k]
      /\ files'[r] = old \o part
      /\ \A q \in Runs \ {r} : files'[q] = files[q]
  BY <1>1 DEF Stored
<1>6. ASSUME NEW i \in 1 .. Len(files'[r]), NEW e \in Known,
             e.run = r, e.id < files'[r][i].id, e \notin lost
      PROVE  \E j \in 1 .. i : files'[r][j] = e
  <2> HIDE DEF old, part
  <2>1. CASE i <= Len(old)
    <3>1. i \in 1 .. Len(old) /\ files'[r][i] = old[i]
      BY <1>5, <1>6, <2>1
    <3>2. PICK j \in 1 .. i : old[j] = e
      BY <1>1, <1>6, <3>1 DEF StoredInOrder, old
    <3>3. files'[r][j] = e
      BY <1>5, <3>1, <3>2
    <3> QED BY <3>3
  <2>2. CASE Len(old) < i
    <3> DEFINE k == i - Len(old)
    <3>1. k \in 1 .. n /\ files'[r][i] = batch[k] /\ k \in 1 .. Len(batch)
      BY <1>5, <1>6, <2>2
    <3> HIDE DEF k
    <3>2. e \in FiledIn(r) \/ \E j \in 1 .. k : batch[j] = e
      BY <1>6, <3>1 DEF Covered
    <3>3. CASE e \in FiledIn(r)
      <4>1. PICK j \in 1 .. Len(old) : old[j] = e
        BY <1>5, <3>3 DEF FiledIn, Range, old
      <4>2. j \in 1 .. i /\ files'[r][j] = e
        BY <1>5, <2>2, <4>1
      <4> QED BY <4>2
    <3>4. CASE \E j \in 1 .. k : batch[j] = e
      <4>1. PICK j \in 1 .. k : batch[j] = e
        BY <3>4
      <4>2. j \in 1 .. n /\ part[j] = e
        BY <1>5, <3>1, <4>1
      <4>3. Len(old) + j \in 1 .. i /\ files'[r][Len(old) + j] = part[j]
        BY <1>5, <4>1, <4>2 DEF k
      <4> QED BY <4>2, <4>3
    <3> QED BY <3>2, <3>3, <3>4
  <2> QED BY <1>5, <2>1, <2>2
<1>7. StoredInOrder'
  <2> SUFFICES ASSUME NEW q \in Runs, NEW i \in 1 .. Len(files'[q]), NEW e \in Known,
                      e.run = q, e.id < files'[q][i].id, e \notin lost
               PROVE  \E j \in 1 .. i : files'[q][j] = e
    BY <1>2 DEF StoredInOrder
  <2>1. CASE q = r
    BY <1>6, <2>1
  <2>2. CASE q # r
    <3> HIDE DEF old, part
    <3>1. files'[q] = files[q]
      BY <1>5, <2>2
    <3>2. \E j \in 1 .. i : files[q][j] = e
      BY <1>1, <3>1 DEF StoredInOrder
    <3> QED BY <3>1, <3>2
  <2> QED BY <2>1, <2>2
<1> QED BY <1>3, <1>4, <1>7 DEF OrderInv

\* Queueing adds fresh events, numbered beyond all others, to what is known.
LEMMA QueuedEvents ==
  ASSUME UplinkInv, NEW r \in Runs, NEW kinds \in Seq(Kinds),
         Queue(pending, r, kinds), UNCHANGED files
  PROVE  /\ Known' = Known \cup Range(Fresh(r, kinds))
         /\ \A e \in Range(Fresh(r, kinds)) : e.id \in Nat /\ made < e.id
         /\ Range(Fresh(r, kinds)) \subseteq Event
         /\ lost \subseteq lost'
<1> DEFINE f == Range(Fresh(r, kinds))
<1>1. made \in Nat /\ pending \in Seq(Event)
  BY Numbers
<1>2. /\ Fresh(r, kinds) \in Seq(Event)
      /\ {e.id : e \in f} = made + 1 .. made + Len(kinds)
  BY <1>1, FreshEvents
<1>3. Range(pending') \cup lost' = Range(pending) \cup f \cup lost /\ lost \subseteq lost'
  BY <1>1, QueueEffect
<1>4. Known' = Known \cup f
  BY <1>3 DEF Known, Filed, FiledIn
<1>5. \A e \in f : e.id \in made + 1 .. made + Len(kinds)
  BY <1>2
<1>6. f \subseteq Event
  BY <1>2 DEF Range
<1> HIDE DEF f
<1>7. \A e \in f : e.id \in Nat /\ made < e.id
  BY <1>1, <1>5
<1> QED BY <1>3, <1>4, <1>6, <1>7 DEF f

\* An event leaves a full queue for lost and nothing else is lost: no event is
\* in the queue twice.
LEMMA QueueSplit ==
  ASSUME UplinkInv, OrderInv, NEW r \in Runs, NEW kinds \in Seq(Kinds),
         Queue(pending, r, kinds)
  PROVE  LET f == Range(Fresh(r, kinds))
         IN  /\ Range(pending') \subseteq Range(pending) \cup f
             /\ lost' = lost \cup ((Range(pending) \cup f) \ Range(pending'))
<1> DEFINE f == Fresh(r, kinds)
           all == pending \o f
           m == Excess(all)
<1>1. made \in Nat /\ pending \in Seq(Event) /\ QueueOrdered
  BY Numbers DEF OrderInv
<1>2. f \in Seq(Event)
  BY <1>1, FreshEvents
<1>3. pending' = SubSeq(all, m + 1, Len(all)) /\ lost' = lost \cup Range(SubSeq(all, 1, m))
  BY DEF Queue, Newest, Oldest
<1>4. \A i, j \in 1 .. Len(all) : i < j => all[i].id < all[j].id
  BY <1>1, OrderedAll
<1> HIDE DEF f
<1>5. all \in Seq(Event) /\ Range(all) = Range(pending) \cup Range(f)
  BY <1>1, <1>2, RangeConcat
<1> HIDE DEF all
<1>6. m \in 0 .. Len(all)
  BY <1>5, UplinkAssumption DEF Excess
<1> HIDE DEF m
<1>7. /\ Range(all) = Range(SubSeq(all, 1, m)) \cup Range(SubSeq(all, m + 1, Len(all)))
      /\ Range(SubSeq(all, 1, m)) = {all[i] : i \in 1 .. m}
      /\ Range(SubSeq(all, m + 1, Len(all))) = {all[i] : i \in m + 1 .. Len(all)}
  BY <1>5, <1>6, RangeCut, RangeSlice
<1>8. ASSUME NEW i \in 1 .. m, NEW j \in m + 1 .. Len(all)
      PROVE  all[i] # all[j]
  <2>1. i \in 1 .. Len(all) /\ j \in 1 .. Len(all) /\ i < j
    BY <1>5, <1>6
  <2>2. all[i].id < all[j].id /\ all[i] \in Event
    BY <1>4, <1>5, <2>1
  <2> QED BY <2>2 DEF Event
<1> QED BY <1>3, <1>5, <1>7, <1>8 DEF f

-----------------------------------------------------------------------------
\* The order invariant holds at the start.
LEMMA InitOrder == Init => OrderInv
<1> SUFFICES ASSUME Init PROVE OrderInv
  OBVIOUS
<1>1. \A r \in Runs : Len(files[r]) = 0
  BY DEF Init
<1> QED BY <1>1 DEF Init, OrderInv, QueueOrdered, StoredInOrder

\* Every step preserves the order invariant.
LEMMA NextOrder ==
  ASSUME UplinkInv, OrderInv, [Next]_vars
  PROVE  OrderInv'
<1>1. /\ QueueOrdered /\ TypeOK /\ pending \in Seq(Event)
      /\ count \in 0 .. Len(pending)
  BY UplinkAssumption DEF UplinkInv, TypeOK, OrderInv, Shorter
<1>2. CASE Queues
  <2>1. PICK r \in Runs, kinds \in Seq(Kinds) : Queue(pending, r, kinds)
    BY <1>2 DEF Queues
  <2>2. files' = files /\ stale' = stale
    BY <1>2 DEF Queues
  <2>3. StoredInOrder' /\ \A q \in stale' : Covered(q.batch, q.run)'
    BY <2>1, <2>2, QueuedEvents, QuietStep
  <2> QED BY <1>1, <2>1, <2>3, OrderedQueue DEF OrderInv
<1>3. ASSUME Known' = Known, lost \subseteq lost', files' = files,
             stale' \subseteq stale \cup {Outstanding}, QueueOrdered'
      PROVE  OrderInv'
  <2>1. StoredInOrder' /\ \A q \in stale' : Covered(q.batch, q.run)'
    <3> DEFINE new == {}
    <3>1. Known' \subseteq Known \cup new /\ \A e \in new : e.id \in Nat /\ made < e.id
      BY <1>3
    <3> HIDE DEF new
    <3> QED BY <1>3, <3>1, QuietStep
  <2> QED BY <1>3, <2>1 DEF OrderInv
<1>4. CASE Rests /\ stale' \subseteq stale \cup {Outstanding}
  <2>1. Known' = Known /\ QueueOrdered' /\ lost \subseteq lost' /\ files' = files
    BY <1>1, <1>4 DEF Rests, Known, Filed, FiledIn, QueueOrdered
  <2> QED BY <1>3, <1>4, <2>1
<1>5. CASE Drops
  <2>1. Range(pending) = Range(Batch) \cup Range(Unsent)
    BY <1>1, BatchEffect
  <2>2. Known' = Known /\ lost \subseteq lost' /\ files' = files /\ stale' = stale
    BY <1>5, <2>1 DEF Drops, Known, Filed, FiledIn
  <2>3. QueueOrdered'
    <3>1. count + 1 \in 1 .. Len(pending) + 1
      BY <1>1
    <3>2. pending' = SubSeq(pending, count + 1, Len(pending))
      BY <1>5 DEF Drops, Unsent
    <3> QED BY <1>1, <3>1, <3>2, OrderedSlice DEF QueueOrdered
  <2> QED BY <1>3, <2>2, <2>3
<1>6. CASE Discards /\ stale' \subseteq stale \cup {Outstanding}
  <2>1. Known' = Known /\ lost \subseteq lost' /\ files' = files
    BY <1>6, RangeEmpty DEF Discards, Known, Filed, FiledIn
  <2>2. QueueOrdered'
    BY <1>6 DEF Discards, QueueOrdered
  <2> QED BY <1>3, <1>6, <2>1, <2>2
<1>7. CASE Agent
  BY <1>2, <1>4, <1>5, <1>6, <1>7, AgentStep
<1>8. CASE Server
  BY <1>8, ServerStep, AppendStep
<1>9. CASE Failure
  BY <1>4, <1>6, <1>9, FailureStep
<1>10. CASE UNCHANGED vars
  BY <1>4, <1>10 DEF vars, agentVars, wireVars, historyVars, Rests
<1> QED BY <1>7, <1>8, <1>9, <1>10 DEF Next

\* A run's file is written in order and without holes, whatever is retried,
\* delayed, refused or half stored.
THEOREM StoredInOrderHolds == Spec => []StoredInOrder
<1>1. UplinkInv /\ OrderInv /\ [Next]_vars => OrderInv'
  BY NextOrder
<1>2. OrderInv => StoredInOrder
  BY DEF OrderInv
<1> QED BY <1>1, <1>2, InitOrder, UplinkInvariant, PTL DEF Spec

-----------------------------------------------------------------------------
\* The upload path implements at-least-once delivery: an event leaves the
\* queue only when its run's file holds it or by being discarded.
THEOREM ImplementsAtLeastOnce == Spec => DeliversAtLeastOnce
<1>1. Init => Delivery!Init
  <2> SUFFICES ASSUME Init PROVE Delivery!Init
    OBVIOUS
  <2>1. Range(pending) = {} /\ lost = {} /\ \A r \in Runs : FiledIn(r) = {}
    BY RangeEmpty DEF Init, FiledIn
  <2> QED BY <2>1 DEF Delivery!Init, Known, Filed
<1>2. UplinkInv /\ OrderInv /\ [Next]_vars => [Delivery!Next]_Delivery!vars
  <2> SUFFICES ASSUME UplinkInv, OrderInv, [Next]_vars
               PROVE  Delivery!Next \/ UNCHANGED <<Known, Range(pending), Filed, lost>>
    BY DEF Delivery!vars
  <2>1. CASE Queues
    <3>1. PICK r \in Runs, kinds \in Seq(Kinds) : Queue(pending, r, kinds)
      BY <2>1 DEF Queues
    <3> DEFINE f == Range(Fresh(r, kinds))
    <3>2. /\ Known' = Known \cup f /\ f \subseteq Event
          /\ \A e \in f : e.id \in Nat /\ made < e.id
      BY <2>1, <3>1, QueuedEvents DEF Queues
    <3>3. Filed' = Filed
      BY <2>1 DEF Queues, Filed, FiledIn
    <3>4. f = Known' \ Known
      BY <3>2, Numbers
    <3>5. /\ Range(pending') \subseteq Range(pending) \cup f
          /\ lost' = lost \cup ((Range(pending) \cup f) \ Range(pending'))
      BY <3>1, QueueSplit
    <3> QED BY <3>2, <3>3, <3>4, <3>5 DEF Delivery!Next, Delivery!Offer
  <2>2. CASE Rests
    BY <2>2 DEF Rests, Known, Filed, FiledIn
  <2>3. CASE Drops
    <3>1. Range(pending) = Range(Batch) \cup Range(Unsent) /\ Range(Batch) \subseteq Filed
      BY <2>3, BatchEffect DEF Drops, UplinkInv
    <3>2. Known' = Known /\ Filed' = Filed /\ lost' = lost
      BY <2>3, <3>1 DEF Drops, Known, Filed, FiledIn
    <3>3. Range(pending') \subseteq Range(pending) /\ Range(pending) \ Range(pending') \subseteq Filed
      BY <2>3, <3>1 DEF Drops
    <3> QED BY <3>2, <3>3 DEF Delivery!Next, Delivery!Discharge
  <2>4. CASE Discards
    <3>1. /\ Range(pending') = {} /\ lost' = lost \cup Range(pending)
          /\ Known' = Known /\ Filed' = Filed
      BY <2>4, RangeEmpty DEF Discards, Known, Filed, FiledIn
    <3> QED BY <3>1 DEF Delivery!Next, Delivery!Abandon
  <2>5. CASE Server
    <3>1. PICK r \in Runs, batch \in Seq(Event) : \E n \in 0 .. Len(batch) :
             /\ Stored(r, batch, n)
             /\ Range(batch) \subseteq Known
             /\ \A e \in Range(batch) : e.run = r
             /\ UNCHANGED <<pending, lost, made>>
      BY <2>5, ServerStep
    <3>2. Known' = Known
      BY <3>1, StoredStep
    <3>3. Filed \subseteq Filed'
      BY <3>1, StoredEffect DEF UplinkInv, TypeOK
    <3>4. Filed' \subseteq Known
      BY <3>2 DEF Known
    <3> QED BY <3>1, <3>2, <3>3, <3>4 DEF Delivery!Next, Delivery!Record
  <2>6. CASE UNCHANGED vars
    BY <2>6 DEF vars, agentVars, wireVars, historyVars, Known, Filed, FiledIn
  <2> QED BY <2>1, <2>2, <2>3, <2>4, <2>5, <2>6, AgentStep, FailureStep DEF Next
<1>3. UplinkInv /\ OrderInv /\ [Next]_vars => OrderInv'
  BY NextOrder
<1> QED BY <1>1, <1>2, <1>3, InitOrder, UplinkInvariant, PTL
        DEF Spec, DeliversAtLeastOnce, Delivery!Spec

-----------------------------------------------------------------------------
HasEnd(r) == \E e \in Known : e.run = r /\ e.kind = "session_end"

\* A run that is active has no session_end until startRun drains its queue, and one
\* that is over has one.
EndsKnown ==
  /\ \A e \in Known : e.run \in 1 .. runs
  /\ run # 0 /\ active /\ pc # "drain" => ~HasEnd(run)
  /\ run # 0 /\ (~active \/ pc = "drain") => HasEnd(run)

\* The inductive strengthening of EndsOnce, next to UplinkInv and OrderInv.
CloseInv == EndsOnce /\ EndsKnown

\* A run may have its session_end queued last, if it has none, and may always have
\* queued what needs no active run.
LEMMA QueuedEnds ==
  ASSUME UplinkInv, EndsOnce, NEW r \in Runs, NEW kinds \in Seq(Kinds),
         Queue(pending, r, kinds), UNCHANGED files,
         \/ \A i \in 1 .. Len(kinds) : kinds[i] \notin {"session_end", "live"}
         \/ /\ ~HasEnd(r)
            /\ \A i \in 1 .. Len(kinds) : kinds[i] = "session_end" => i = Len(kinds)
  PROVE  /\ EndsOnce'
         /\ Known \subseteq Known'
         /\ \A e \in Known' : e \in Known \/ e.run = r
         /\ HasEnd(r)' <=> HasEnd(r) \/ \E i \in 1 .. Len(kinds) : kinds[i] = "session_end"
<1> DEFINE f == Range(Fresh(r, kinds))
<1>1. /\ made \in Nat
      /\ \A e \in Known : e.id \in 1 .. made
  BY Numbers
<1>2. Known' = Known \cup f
  BY QueuedEvents
<1>3. Len(kinds) \in Nat
  OBVIOUS
<1>4. \A e \in f : e.run = r /\ \E i \in 1 .. Len(kinds) : e.id = made + i /\ e.kind = kinds[i]
  BY DEF Fresh, Range
<1>5. \A i \in 1 .. Len(kinds) : \E e \in f : e.run = r /\ e.kind = kinds[i]
  <2> SUFFICES ASSUME NEW i \in 1 .. Len(kinds)
               PROVE  \E e \in f : e.run = r /\ e.kind = kinds[i]
    OBVIOUS
  <2>1. Fresh(r, kinds)[i] \in f
    BY DEF Fresh, Range
  <2>2. Fresh(r, kinds)[i].run = r /\ Fresh(r, kinds)[i].kind = kinds[i]
    BY DEF Fresh
  <2> QED BY <2>1, <2>2
<1> HIDE DEF f
<1>6. ASSUME NEW e \in Known', NEW g \in Known',
             e.kind = "session_end", g.run = e.run, g.kind \in {"session_end", "live"}
      PROVE  g.id <= e.id
  <2>1. CASE e \in Known /\ g \in Known
    BY <1>6, <2>1 DEF EndsOnce
  <2>2. CASE e \in f /\ g \in Known
    <3>1. PICK i \in 1 .. Len(kinds) : e.id = made + i
      BY <1>4, <2>2
    <3> QED BY <1>1, <1>3, <2>2, <3>1
  <2>3. CASE e \in Known /\ g \in f
    <3>1. HasEnd(r)
      BY <1>4, <1>6, <2>3 DEF HasEnd
    <3>2. PICK i \in 1 .. Len(kinds) : g.kind = kinds[i]
      BY <1>4, <2>3
    <3> QED BY <1>6, <3>1, <3>2
  <2>4. CASE e \in f /\ g \in f
    <3>1. PICK i \in 1 .. Len(kinds) : e.id = made + i /\ e.kind = kinds[i]
      BY <1>4, <2>4
    <3>2. PICK j \in 1 .. Len(kinds) : g.id = made + j /\ g.kind = kinds[j]
      BY <1>4, <2>4
    <3>3. i = Len(kinds)
      BY <1>6, <3>1
    <3> QED BY <1>1, <1>3, <3>1, <3>2, <3>3
  <2> QED BY <1>2, <1>6, <2>1, <2>2, <2>3, <2>4
<1>7. EndsOnce'
  BY <1>6 DEF EndsOnce
<1>8. HasEnd(r)' <=> HasEnd(r) \/ \E i \in 1 .. Len(kinds) : kinds[i] = "session_end"
  <2>1. HasEnd(r)' <=> \E e \in Known \cup f : e.run = r /\ e.kind = "session_end"
    BY <1>2 DEF HasEnd
  <2>2. (\E e \in f : e.run = r /\ e.kind = "session_end")
          <=> \E i \in 1 .. Len(kinds) : kinds[i] = "session_end"
    BY <1>4, <1>5
  <2> QED BY <2>1, <2>2 DEF HasEnd
<1> QED BY <1>2, <1>4, <1>7, <1>8

\* A step that queues nothing makes no events known and forgets none.
LEMMA KnownStays ==
  ASSUME UplinkInv, OrderInv,
         \/ Rests \/ Drops \/ Discards \/ Server
  PROVE  Known' = Known
<1>1. CASE Rests
  BY <1>1 DEF Rests, Known, Filed, FiledIn
<1>2. CASE Drops
  <2>1. Range(pending) = Range(Batch) \cup Range(Unsent)
    BY BatchEffect DEF UplinkInv
  <2> QED BY <1>2, <2>1 DEF Drops, Known, Filed, FiledIn
<1>3. CASE Discards
  BY <1>3, RangeEmpty DEF Discards, Known, Filed, FiledIn
<1>4. CASE Server
  BY <1>4, ServerStep, StoredStep
<1> QED BY <1>1, <1>2, <1>3, <1>4

\* What a step leaves of CloseInv that queues nothing.
LEMMA EndsStay ==
  ASSUME CloseInv, Known' = Known, runs' = runs,
         \/ run' = 0
         \/ run' = run /\ active' = active /\ (pc' = "drain" <=> pc = "drain")
  PROVE  CloseInv'
<1>1. EndsOnce'
  BY DEF CloseInv, EndsOnce
<1>2. \A r : HasEnd(r)' <=> HasEnd(r)
  BY DEF HasEnd
<1>3. EndsKnown'
  <2>1. HasEnd(run)' <=> HasEnd(run') 
    BY DEF HasEnd
  <2> QED BY <1>2, <2>1 DEF CloseInv, EndsKnown
<1> QED BY <1>1, <1>3 DEF CloseInv

\* A poller's event, a session_end included, is queued while the run has no session_end.
LEMMA EndsQueued ==
  ASSUME UplinkInv, CloseInv, NEW kinds \in Seq(Kinds),
         Queue(pending, run, kinds), UNCHANGED <<run, runs, files>>,
         run # 0, pc = "poll",
         \/ \A i \in 1 .. Len(kinds) : kinds[i] \notin {"session_end", "live"}
         \/ active /\ \A i \in 1 .. Len(kinds) : kinds[i] = "session_end" => i = Len(kinds),
         active' /\ pc' # "drain" => active /\ \A i \in 1 .. Len(kinds) : kinds[i] # "session_end",
         ~active' \/ pc' = "drain" => ~active \/ \E i \in 1 .. Len(kinds) : kinds[i] = "session_end"
  PROVE  CloseInv'
<1>1. run \in Runs
  BY UplinkAssumption DEF UplinkInv, TypeOK, Runs
<1>2. /\ EndsOnce
      /\ \A e \in Known : e.run \in 1 .. runs
      /\ active => ~HasEnd(run)
      /\ ~active => HasEnd(run)
  BY DEF CloseInv, EndsKnown
<1>3. /\ EndsOnce'
      /\ \A e \in Known' : e \in Known \/ e.run = run
      /\ HasEnd(run)' <=> HasEnd(run) \/ \E i \in 1 .. Len(kinds) : kinds[i] = "session_end"
  <2> DEFINE r == run
  <2>1. r \in Runs /\ Queue(pending, r, kinds)
    BY <1>1
  <2>2. \/ \A i \in 1 .. Len(kinds) : kinds[i] \notin {"session_end", "live"}
        \/ /\ ~HasEnd(r)
           /\ \A i \in 1 .. Len(kinds) : kinds[i] = "session_end" => i = Len(kinds)
    BY <1>2
  <2>3. HasEnd(run)' <=> HasEnd(r)'
    BY DEF HasEnd
  <2> QED BY <1>2, <2>1, <2>2, <2>3, QueuedEnds
<1>4. \A e \in Known' : e.run \in 1 .. runs'
  BY <1>1, <1>2, <1>3 DEF UplinkInv, TypeOK, Runs
<1>5. EndsKnown'
  BY <1>2, <1>3, <1>4 DEF EndsKnown
<1> QED BY <1>3, <1>5 DEF CloseInv

\* A run begins without a session_end.
LEMMA EndsBegun ==
  ASSUME UplinkInv, CloseInv, NEW profile \in 0 .. MaxProfile,
         BeginRun(profile), pending = <<>>, UNCHANGED files
  PROVE  CloseInv'
<1> DEFINE kinds == <<"session_start">> \o [i \in 1 .. profile |-> "note"]
<1>1. kinds \in Seq(Kinds)
  <2>1. [i \in 1 .. profile |-> "note"] \in Seq(Kinds) /\ <<"session_start">> \in Seq(Kinds)
    BY DEF Kinds
  <2> QED BY <2>1
<1>2. \A i \in 1 .. Len(kinds) : kinds[i] \notin {"session_end", "live"}
  BY UplinkAssumption
<1>3. PICK r \in Runs : r = runs + 1 /\ Queue(pending, r, kinds)
  BY UplinkAssumption DEF BeginRun, UplinkInv, TypeOK, Runs
<1>4. run' = r /\ runs' = r /\ active' = TRUE /\ pc' = "poll"
  BY <1>3 DEF BeginRun
<1> HIDE DEF kinds
<1>5. EndsOnce /\ \A e \in Known : e.run \in 1 .. runs
  BY DEF CloseInv, EndsKnown
<1>6. runs \in Nat
  BY UplinkAssumption DEF UplinkInv, TypeOK
<1>7. ~HasEnd(r)
  BY <1>3, <1>5, <1>6 DEF HasEnd
<1>8. /\ EndsOnce'
      /\ \A e \in Known' : e \in Known \/ e.run = r
      /\ ~HasEnd(r)'
  BY <1>1, <1>2, <1>3, <1>5, <1>7, QueuedEnds
<1>9. \A e \in Known' : e.run \in 1 .. runs'
  BY <1>3, <1>4, <1>5, <1>6, <1>8 DEF Runs
<1>10. EndsKnown'
  <2>1. ~HasEnd(run)'
    BY <1>4, <1>8 DEF HasEnd
  <2> QED BY <1>4, <1>9, <2>1 DEF EndsKnown
<1> QED BY <1>8, <1>10 DEF CloseInv

\* Every step keeps a run's end.
LEMMA NextClose ==
  ASSUME UplinkInv, OrderInv, CloseInv, [Next]_vars
  PROVE  CloseInv'
<1>1. Control /\ TypeOK
  BY DEF UplinkInv
<1>2. ASSUME NEW kind \in {"live", "note"}, Observe(kind)
      PROVE  CloseInv'
  <2> DEFINE kinds == <<kind>>
  <2>1. kinds \in Seq(Kinds) /\ Len(kinds) = 1 /\ kinds[1] = kind
    BY DEF Kinds
  <2>2. /\ Queue(pending, run, kinds) /\ UNCHANGED <<run, active, pc, runs, files>>
        /\ run # 0 /\ pc = "poll" /\ (kind = "live" => active)
    BY <1>2 DEF Observe
  <2> HIDE DEF kinds
  <2>3. /\ \/ \A i \in 1 .. Len(kinds) : kinds[i] \notin {"session_end", "live"}
           \/ active /\ \A i \in 1 .. Len(kinds) : kinds[i] = "session_end" => i = Len(kinds)
        /\ active' /\ pc' # "drain" => active /\ \A i \in 1 .. Len(kinds) : kinds[i] # "session_end"
        /\ ~active' \/ pc' = "drain" => ~active \/ \E i \in 1 .. Len(kinds) : kinds[i] = "session_end"
    BY <1>2, <2>1, <2>2
  <2> QED BY <2>1, <2>2, <2>3, EndsQueued
<1>3. CASE EndRun
  <2> DEFINE kinds == <<"note", "session_end">>
  <2>1. kinds \in Seq(Kinds)
    <3>1. <<"note">> \in Seq(Kinds) /\ <<"session_end">> \in Seq(Kinds)
      BY DEF Kinds
    <3>2. kinds = <<"note">> \o <<"session_end">>
      OBVIOUS
    <3> QED BY <3>1, <3>2
  <2>2. Len(kinds) = 2 /\ kinds[1] = "note" /\ kinds[2] = "session_end"
    OBVIOUS
  <2>3. Queue(pending, run, kinds)
    BY <1>3 DEF EndRun
  <2> HIDE DEF kinds
  <2>4. UNCHANGED <<run, pc, runs, files>> /\ run # 0 /\ pc = "poll" /\ active /\ active' = FALSE
    BY <1>3 DEF EndRun
  <2>5. /\ \/ \A i \in 1 .. Len(kinds) : kinds[i] \notin {"session_end", "live"}
           \/ active /\ \A i \in 1 .. Len(kinds) : kinds[i] = "session_end" => i = Len(kinds)
        /\ active' /\ pc' # "drain" => active /\ \A i \in 1 .. Len(kinds) : kinds[i] # "session_end"
        /\ ~active' \/ pc' = "drain" => ~active \/ \E i \in 1 .. Len(kinds) : kinds[i] = "session_end"
    BY <2>2, <2>4
  <2> QED BY <2>1, <2>3, <2>4, <2>5, EndsQueued
<1>4. CASE CloseRun
  <2> DEFINE kinds == IF active THEN <<"session_end">> ELSE <<>>
  <2>1. kinds \in Seq(Kinds)
    <3>1. <<"session_end">> \in Seq(Kinds) /\ <<>> \in Seq(Kinds)
      BY DEF Kinds
    <3> QED BY <3>1
  <2>2. IF active THEN Len(kinds) = 1 /\ kinds[1] = "session_end" ELSE Len(kinds) = 0
    OBVIOUS
  <2>3. Queue(pending, run, kinds)
    BY <1>4 DEF CloseRun
  <2> HIDE DEF kinds
  <2>4. UNCHANGED <<run, active, runs, files>> /\ run # 0 /\ pc = "poll" /\ pc' = "drain"
    BY <1>4 DEF CloseRun
  <2>5. /\ \/ \A i \in 1 .. Len(kinds) : kinds[i] \notin {"session_end", "live"}
           \/ active /\ \A i \in 1 .. Len(kinds) : kinds[i] = "session_end" => i = Len(kinds)
        /\ active' /\ pc' # "drain" => active /\ \A i \in 1 .. Len(kinds) : kinds[i] # "session_end"
        /\ ~active' \/ pc' = "drain" => ~active \/ \E i \in 1 .. Len(kinds) : kinds[i] = "session_end"
    <3>1. CASE active
      <4>1. Len(kinds) = 1 /\ kinds[1] = "session_end"
        BY <2>2, <3>1
      <4> QED BY <2>4, <3>1, <4>1
    <3>2. CASE ~active
      <4>1. Len(kinds) = 0
        BY <2>2, <3>2
      <4> QED BY <2>4, <3>2, <4>1
    <3> QED BY <3>1, <3>2
  <2> QED BY <2>1, <2>3, <2>4, <2>5, EndsQueued
<1>5. ASSUME NEW profile \in 0 .. MaxProfile, StartRun(profile) \/ DrainDone(profile)
      PROVE  CloseInv'
  BY <1>5, EndsBegun DEF StartRun, DrainDone
<1>6. CASE Tick \/ Deferred \/ DrainNext \/ Flush
  <2>1. Rests
    BY <1>6 DEF Tick, Deferred, DrainNext, Flush, Post, vars, agentVars, wireVars,
       historyVars, Rests
  <2>2. runs' = runs /\ run' = run /\ active' = active /\ (pc' = "drain" <=> pc = "drain")
    BY <1>6 DEF Tick, Deferred, DrainNext, Flush, Post, vars, agentVars, historyVars
  <2> QED BY <2>1, <2>2, KnownStays, EndsStay
<1>7. CASE Accepted \/ DrainFailed
  <2>1. Drops \/ Discards
    <3>1. CASE Accepted
      <4>1. count > 0 /\ reply = "ok" /\ pending' = Unsent /\ UNCHANGED <<files, stale, lost, made>>
        BY <3>1 DEF Accepted, historyVars
      <4>2. Range(Batch) \subseteq Filed
        BY <4>1, RequestRun DEF UplinkInv, Acknowledged, Filed
      <4> QED BY <4>1, <4>2 DEF Drops
    <3>2. CASE DrainFailed
      BY <3>2 DEF DrainFailed, Discards
    <3> QED BY <1>7, <3>1, <3>2
  <2>2. runs' = runs /\ run' = run /\ active' = active /\ (pc' = "drain" <=> pc = "drain")
    BY <1>1, <1>7 DEF Accepted, DrainFailed, historyVars, TypeOK
  <2> QED BY <2>1, <2>2, KnownStays, EndsStay
<1>8. CASE Server
  <2>1. UNCHANGED <<run, active, pc, runs>>
    BY <1>8 DEF Server, Store, StoreFails, StoreStale, agentVars, historyVars
  <2> QED BY <1>8, <2>1, KnownStays, EndsStay
<1>9. CASE Failure
  <2>1. Rests \/ Discards
    BY <1>9, FailureStep
  <2>2. /\ runs' = runs
        /\ \/ run' = 0
           \/ run' = run /\ active' = active /\ pc' = pc
    BY <1>9 DEF Failure, TimeOut, Crash, agentVars
  <2> QED BY <2>1, <2>2, KnownStays, EndsStay
<1>10. CASE UNCHANGED vars
  <2>1. Rests /\ UNCHANGED <<run, active, pc, runs>>
    BY <1>10 DEF vars, agentVars, wireVars, historyVars, Rests
  <2> QED BY <2>1, KnownStays, EndsStay
<1> QED
  BY <1>2, <1>3, <1>4, <1>5, <1>6, <1>7, <1>8, <1>9, <1>10 DEF Next, Agent

\* A run has one session_end at most and nothing that needs it active behind it, and
\* when startRun replaces it its session_end is in its file or was discarded.
THEOREM RunsAreClosedHolds == Spec => RunsAreClosed
<1>1. Init => CloseInv
  <2> SUFFICES ASSUME Init PROVE CloseInv
    OBVIOUS
  <2>1. Range(pending) = {} /\ lost = {} /\ \A r \in Runs : FiledIn(r) = {}
    BY RangeEmpty DEF Init, FiledIn
  <2>2. Known = {}
    BY <2>1 DEF Known, Filed
  <2> QED BY <2>2 DEF Init, CloseInv, EndsOnce, EndsKnown
<1>2. UplinkInv /\ OrderInv /\ CloseInv /\ [Next]_vars => CloseInv'
  BY NextClose
<1>3. UplinkInv /\ OrderInv /\ [Next]_vars => OrderInv'
  BY NextOrder
<1>4. CloseInv => EndsOnce
  BY DEF CloseInv
<1> DEFINE Closing == run # 0 /\ run' > run =>
                        \E e \in Range(files'[run]) \cup lost' :
                          e.run = run /\ e.kind = "session_end"
<1>5. UplinkInv /\ OrderInv /\ CloseInv /\ [Next]_vars => [Closing]_vars
  <2> SUFFICES ASSUME UplinkInv, OrderInv, CloseInv, [Next]_vars, run # 0, run' > run
               PROVE  \E e \in Range(files'[run]) \cup lost' :
                        e.run = run /\ e.kind = "session_end"
    OBVIOUS
  <2>1. run \in Nat /\ Attribution /\ made \in Nat
    BY UplinkAssumption DEF UplinkInv, TypeOK
  <2>2. PICK profile \in 0 .. MaxProfile : StartRun(profile) \/ DrainDone(profile)
    <3>1. Agent
      BY <2>1 DEF Next, Server, Store, StoreFails, StoreStale, Failure, TimeOut, Crash,
         vars, agentVars
    <3> QED BY <2>1, <3>1 DEF Agent, Tick, Observe, EndRun, CloseRun, DrainNext, Flush,
               Accepted, Deferred, DrainFailed, vars, agentVars
  <2>3. pending = <<>> /\ (~active \/ pc = "drain") /\ UNCHANGED files /\ BeginRun(profile)
    BY <2>2 DEF StartRun, DrainDone
  <2>4. PICK e \in Known : e.run = run /\ e.kind = "session_end"
    BY <2>3 DEF CloseInv, EndsKnown, HasEnd
  <2>5. lost \subseteq lost'
    BY <2>3 DEF BeginRun, Queue
  <2>6. e \in FiledIn(run) \cup lost
    BY <2>1, <2>3, <2>4, RangeEmpty DEF Known, Filed, Attribution
  <2> QED BY <2>3, <2>4, <2>5, <2>6 DEF FiledIn
<1> QED BY <1>1, <1>2, <1>3, <1>4, <1>5, InitOrder, UplinkInvariant, PTL
        DEF Spec, RunsAreClosed, ReplacedRunIsClosed
=============================================================================
