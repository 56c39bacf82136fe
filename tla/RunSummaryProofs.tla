------------------------- MODULE RunSummaryProofs -------------------------
(***************************************************************************)
(* What a summary says of a run, for every run and every way its file may  *)
(* grow.  summarize is a fold, so the proofs are by induction over a batch,*)
(* and then over the batches.                                              *)
(***************************************************************************)
EXTENDS RunSummary, WellFoundedInduction, FiniteSetTheorems, TLAPS

-----------------------------------------------------------------------------
(* Induction.                                                              *)

\* The natural numbers are well-founded.
LEMMA NatOrder == IsWellFoundedOn({ss \in Nat \X Nat : ss[1] < ss[2]}, Nat)
BY NatLessThanWellFounded DEF OpToRel

\* Induction over the numbers up to a bound.
LEMMA UpTo ==
  ASSUME NEW n \in Nat, NEW S, 0 \in S, \A k \in 1 .. n : k - 1 \in S => k \in S
  PROVE  0 .. n \subseteq S
<1> SUFFICES ASSUME (0 .. n) \ S # {} PROVE FALSE
  OBVIOUS
<1> DEFINE Less == {ss \in Nat \X Nat : ss[1] < ss[2]}
<1>1. PICK k \in (0 .. n) \ S : \A j \in (0 .. n) \ S : <<j, k>> \notin Less
  <2>1. IsWellFoundedOn(Less, Nat) /\ (0 .. n) \ S \subseteq Nat
    BY NatOrder
  <2> HIDE DEF Less
  <2> QED BY <2>1, WFMin
<1>2. k \in 1 .. n /\ k - 1 \in 0 .. n /\ k - 1 < k
  BY <1>1
<1>3. k - 1 \notin S
  BY <1>1, <1>2
<1>4. <<k - 1, k>> \in Less
  BY <1>2
<1> QED BY <1>1, <1>2, <1>3, <1>4

\* The greatest of a set is the member that bounds it.
LEMMA MaxIs ==
  ASSUME NEW S \in SUBSET Int, NEW m \in S, \A x \in S : x <= m
  PROVE  Max(S) = m
<1>1. \A x \in S : (\A y \in S : x >= y) => x = m
  OBVIOUS
<1> QED BY <1>1 DEF Max

\* A set of numbers up to a bound has a greatest one.
LEMMA MaxExists ==
  ASSUME NEW n \in Nat, NEW T \in SUBSET (0 .. n), T # {}
  PROVE  /\ Max(T) \in T
         /\ \A x \in T : x <= Max(T)
<1> DEFINE S == {m \in 0 .. n : \A U \in SUBSET (0 .. m) : U # {} => \E x \in U : \A y \in U : y <= x}
<1>1. 0 \in S
  <2>1. 0 .. 0 = {0} /\ 0 \in 0 .. n
    OBVIOUS
  <2>2. \A U \in SUBSET {0} : U # {} => U = {0}
    OBVIOUS
  <2>3. \A U \in SUBSET (0 .. 0) : U # {} => \E x \in U : \A y \in U : y <= x
    BY <2>1, <2>2
  <2> QED BY <2>1, <2>3
<1>2. ASSUME NEW k \in 1 .. n, k - 1 \in S PROVE k \in S
  <2> SUFFICES ASSUME NEW U \in SUBSET (0 .. k), U # {} PROVE \E x \in U : \A y \in U : y <= x
    OBVIOUS
  <2>1. CASE k \in U
    BY <2>1
  <2>2. CASE k \notin U
    <3>1. U \in SUBSET (0 .. (k - 1))
      BY <2>2
    <3> QED BY <1>2, <3>1
  <2> QED BY <2>1, <2>2
<1>3. n \in S
  <2> HIDE DEF S
  <2>1. 0 .. n \subseteq S
    BY <1>1, <1>2, UpTo
  <2> QED BY <2>1
<1>4. PICK m \in T : \A y \in T : y <= m
  BY <1>3
<1>5. Max(T) = m
  BY <1>4, MaxIs
<1> QED BY <1>4, <1>5

-----------------------------------------------------------------------------
(* The pass over a batch.                                                  *)

\* summarize takes one event after the other: there is a summary after each.
LEMMA PassOf ==
  ASSUME NEW s, NEW seq, NEW n \in Nat, DOMAIN seq = 1 .. n
  PROVE  \E pass : /\ pass[0] = s
                   /\ \A k \in 1 .. n : pass[k] = Apply(pass[k - 1], seq[k])
                   /\ pass[n] = Extend(s, seq)
<1> DEFINE Body(m, it) ==
      [T \in SUBSET (1 .. m) |->
         IF T = {} THEN s ELSE Apply(it[T \ {Max(T)}], seq[Max(T)])]
<1>1. Extend(s, seq) = (CHOOSE it : it = Body(n, it))[1 .. n]
  BY DEF Extend, FoldLeft, MapThenFoldSet
<1>2. \E it : it = Body(n, it)
  <2> DEFINE S == {m \in 0 .. n : \E it : it = Body(m, it)}
  <2>1. 0 \in S
    <3>1. SUBSET (1 .. 0) = {{}}
      OBVIOUS
    <3>2. [T \in SUBSET (1 .. 0) |-> s] = Body(0, [T \in SUBSET (1 .. 0) |-> s])
      BY <3>1
    <3> QED BY <3>2
  <2>2. ASSUME NEW k \in 1 .. n, k - 1 \in S PROVE k \in S
    <3>1. PICK it : it = Body(k - 1, it)
      BY <2>2
    <3> DEFINE new == [T \in SUBSET (1 .. k) |->
                         IF k \in T THEN Apply(it[T \ {k}], seq[k]) ELSE it[T]]
    <3>2. \A T \in SUBSET (1 .. k) : k \in T => Max(T) = k
      BY MaxIs
    <3>3. \A T \in SUBSET (1 .. k) : k \notin T => T \in SUBSET (1 .. (k - 1))
      OBVIOUS
    <3>4. \A T \in SUBSET (1 .. (k - 1)) : new[T] = it[T]
      OBVIOUS
    <3>5. ASSUME NEW T \in SUBSET (1 .. k) PROVE new[T] = Body(k, new)[T]
      <4>1. CASE k \in T
        <5>1. T \ {k} \in SUBSET (1 .. (k - 1)) /\ T # {}
          BY <4>1
        <5>2. new[T] = Apply(it[T \ {k}], seq[k])
          BY <4>1
        <5>3. new[T \ {k}] = it[T \ {k}]
          BY <3>4, <5>1
        <5>4. Body(k, new)[T] = Apply(new[T \ {Max(T)}], seq[Max(T)])
          BY <5>1
        <5> HIDE DEF new, Body
        <5> QED BY <3>2, <4>1, <5>2, <5>3, <5>4
      <4>2. CASE k \notin T /\ T # {}
        <5>1. T \in SUBSET (1 .. (k - 1)) /\ T \in SUBSET (0 .. k) /\ k \in Nat
          BY <4>2
        <5>2. Max(T) \in T
          BY <4>2, <5>1, MaxExists
        <5>3. T \ {Max(T)} \in SUBSET (1 .. (k - 1))
          BY <5>1
        <5>4. new[T] = it[T] /\ new[T \ {Max(T)}] = it[T \ {Max(T)}]
          BY <3>4, <5>1, <5>3
        <5>5. Body(k, new)[T] = Apply(new[T \ {Max(T)}], seq[Max(T)])
          BY <4>2
        <5>6. Body(k - 1, it)[T] = Apply(it[T \ {Max(T)}], seq[Max(T)])
          BY <4>2, <5>1
        <5> HIDE DEF new, Body
        <5> QED BY <3>1, <5>4, <5>5, <5>6
      <4>3. CASE T = {}
        <5>1. T \in SUBSET (1 .. (k - 1)) /\ new[T] = it[T]
          BY <4>3, <3>4
        <5>2. Body(k - 1, it)[T] = s /\ Body(k, new)[T] = s
          BY <4>3, <5>1
        <5> HIDE DEF new, Body
        <5> QED BY <3>1, <5>1, <5>2
      <4> QED BY <4>1, <4>2, <4>3
    <3>6. new = Body(k, new)
      <4>1. DOMAIN new = SUBSET (1 .. k) /\ DOMAIN Body(k, new) = SUBSET (1 .. k)
        OBVIOUS
      <4>2. new = [T \in SUBSET (1 .. k) |-> new[T]]
        OBVIOUS
      <4>3. Body(k, new) = [T \in SUBSET (1 .. k) |-> Body(k, new)[T]]
        OBVIOUS
      <4> HIDE DEF new, Body
      <4> QED BY <3>5, <4>2, <4>3
    <3>7. k \in 0 .. n
      OBVIOUS
    <3> HIDE DEF new, Body
    <3> QED BY <3>6, <3>7
  <2>3. n \in S
    <3> HIDE DEF S
    <3>1. 0 .. n \subseteq S
      BY <2>1, <2>2, UpTo
    <3> QED BY <3>1
  <2> QED BY <2>3
<1>3. PICK it : it = Body(n, it) /\ Extend(s, seq) = it[1 .. n]
  <2> HIDE DEF Body
  <2> QED BY <1>1, <1>2
<1> DEFINE pass == [k \in 0 .. n |-> it[1 .. k]]
<1>4. pass[0] = s
  BY <1>3
<1>5. ASSUME NEW k \in 1 .. n PROVE pass[k] = Apply(pass[k - 1], seq[k])
  <2>1. 1 .. k \in SUBSET (1 .. n) /\ 1 .. k \in SUBSET Int /\ k \in 1 .. k /\ \A x \in 1 .. k : x <= k
    OBVIOUS
  <2>2. Max(1 .. k) = k
    BY <2>1, MaxIs
  <2>3. (1 .. k) \ {k} = 1 .. (k - 1)
    OBVIOUS
  <2>4. it[1 .. k] = Apply(it[(1 .. k) \ {Max(1 .. k)}], seq[Max(1 .. k)])
    BY <1>3, <2>1
  <2>5. it[1 .. k] = Apply(it[1 .. (k - 1)], seq[k])
    BY <2>2, <2>3, <2>4
  <2> QED BY <2>5
<1>6. pass[n] = Extend(s, seq)
  <2>1. pass[n] = it[1 .. n]
    OBVIOUS
  <2> HIDE DEF pass, Body
  <2> QED BY <1>3, <2>1
<1> HIDE DEF pass
<1> QED BY <1>4, <1>5, <1>6

-----------------------------------------------------------------------------
(* What a summary shows when the first m events of the run are stored.     *)

Faults(m) == {i \in 1 .. m : sent[i].type = "exception"}
FreshFaults(m) ==
  {i \in Faults(m) : \A j \in Faults(m) : j < i => sent[i].at - sent[j].at > SliceGap}
PingsOf(m)  == {i \in 1 .. m : IsPing(sent[i]) /\ sent[i].state = "response"}
ClosesOf(m) == {i \in 1 .. m : sent[i].type = "backend_close"}
IsGap(e) == e.type = "collector_state" /\ e.state = "resumed"

FlagsOf(m)   == UNION {Flags(sent[i]) : i \in 1 .. m}
ColumnsOf(m) == UNION {DOMAIN Latest(sent[i]) : i \in 1 .. m}

FlagsShown(u, m)   == u.flags = FlagsOf(m)
ColumnsShown(u, m) == DOMAIN u.latest = ColumnsOf(m)
LongestShown(u, m) ==
  /\ u.longest \in Nat
  /\ u.longest = 0 \/ \E i \in 1 .. m : IsGap(sent[i]) /\ sent[i].value = u.longest
  /\ \A i \in 1 .. m : IsGap(sent[i]) => sent[i].value <= u.longest
TargetsShown(u, m) == u.targets = {sent[i].value : i \in Faults(m)} \ {0}

Observed(u, m) ==
  /\ FlagsShown(u, m) /\ ColumnsShown(u, m) /\ LongestShown(u, m) /\ TargetsShown(u, m)

Counting(c, m) == {i \in 1 .. m : c \in Counts(sent[i])}

CountsShown(u, m) ==
  /\ u.events \in Nat /\ m <= u.events
  /\ u.counts \in [Counters -> Nat]
  /\ \A c \in Counters :
       /\ Cardinality(Counting(c, m)) <= u.counts[c]
       /\ u.counts[c] <= Cardinality(Counting(c, m)) + (u.events - m)
       /\ u.counts[c] <= u.events

SlicesShown(u, m) ==
  /\ u.slices \in Nat
  /\ Cardinality(FreshFaults(m)) <= u.slices
  /\ u.fault \subseteq {sent[i].at : i \in Faults(m)}

\* An interval from the response of a Ping to the close of a connection.
IsInterval(n, m) ==
  n >= 0 /\ \E i \in PingsOf(m), j \in ClosesOf(m) : n = sent[j].at - sent[i].at

PingsShown(u, m) ==
  /\ u.ping \subseteq {sent[i].at : i \in PingsOf(m)}
  /\ \A a, b \in u.ping : a = b
  /\ \A n \in u.pingToClose : n \in Int /\ IsInterval(n, m)

EndShown(u, m) ==
  /\ (m = 0 <=> u.events = 0)
  /\ u.events \in Nat
  /\ m > 0 => u.started = sent[1].at
  /\ \A i \in 1 .. m : sent[i].type = "session_end" => u.latest["ended"] = sent[i].at

Shows(u, m) ==
  Observed(u, m) /\ CountsShown(u, m) /\ SlicesShown(u, m) /\ PingsShown(u, m) /\ EndShown(u, m)

Event == [type : STRING, state : STRING, name : STRING, value : Nat, at : Int]

IsRun(s) ==
  /\ s \in Seq(Event)
  /\ \A i, j \in DOMAIN s : s[i].type = "session_end" /\ s[j].type = "session_end" => i = j

\* An event that was stored, or the one after those.
Comes(k, m, after) ==
  /\ m \in 0 .. Len(sent) /\ k \in 1 .. Len(sent)
  /\ \/ k <= m /\ after = m
     \/ k = m + 1 /\ after = k

\* The numbers and the events of a step.
LEMMA ComesTypes ==
  ASSUME IsRun(sent), NEW k, NEW m, NEW after, Comes(k, m, after)
  PROVE  /\ m \in Nat /\ after \in Nat /\ after \in 0 .. Len(sent) /\ k \in Nat /\ k > 0
         /\ 1 .. after = (1 .. m) \cup {k}
         /\ m <= after /\ after <= m + 1 /\ (after # m => after = m + 1 /\ k = after)
         /\ \A i \in 1 .. after : sent[i] \in Event
BY DEF IsRun, Comes

\* One event: flags, columns and targets.
LEMMA ApplyObserves ==
  ASSUME IsRun(sent), NEW k, NEW m, NEW after, Comes(k, m, after), NEW u, Observed(u, m)
  PROVE  Observed(Apply(u, sent[k]), after)
<1> DEFINE e == sent[k]
           v == Apply(u, e)
<1>1. 1 .. after = (1 .. m) \cup {k} /\ e \in Event
  BY ComesTypes
<1>2. FlagsShown(v, after)
  <2>1. v.flags = u.flags \cup Flags(e)
    BY DEF Apply
  <2>2. u.flags = FlagsOf(m)
    BY DEF Observed, FlagsShown
  <2>3. FlagsOf(after) = FlagsOf(m) \cup Flags(e)
    BY <1>1 DEF FlagsOf
  <2> HIDE DEF v, e
  <2> QED BY <2>1, <2>2, <2>3 DEF FlagsShown
<1>3. ColumnsShown(v, after)
  <2>1. DOMAIN v.latest = DOMAIN Latest(e) \cup DOMAIN u.latest
    BY DEF Apply, Updated
  <2>2. DOMAIN u.latest = ColumnsOf(m)
    BY DEF Observed, ColumnsShown
  <2>3. ColumnsOf(after) = ColumnsOf(m) \cup DOMAIN Latest(e)
    BY <1>1 DEF ColumnsOf
  <2> HIDE DEF v, e
  <2> QED BY <2>1, <2>2, <2>3 DEF ColumnsShown
<1>4. LongestShown(v, after)
  <2>1. v.longest = IF IsGap(e) /\ e.value > u.longest THEN e.value ELSE u.longest
    BY DEF Apply, Longer, IsGap
  <2>2. LongestShown(u, m) /\ e.value \in Nat /\ \A i \in 1 .. after : sent[i].value \in Nat
    BY <1>1, ComesTypes DEF Observed, Event
  <2>3. v.longest \in Nat /\ u.longest <= v.longest
    BY <2>1, <2>2 DEF LongestShown
  <2>4. v.longest = 0 \/ \E i \in 1 .. after : IsGap(sent[i]) /\ sent[i].value = v.longest
    BY <1>1, <2>1, <2>2 DEF LongestShown
  <2>5. ASSUME NEW i \in 1 .. after, IsGap(sent[i]) PROVE sent[i].value <= v.longest
    <3>1. CASE i = k
      BY <2>1, <2>2, <2>5, <3>1 DEF LongestShown
    <3>2. CASE i \in 1 .. m
      <4>1. sent[i].value <= u.longest /\ sent[i].value \in Nat /\ u.longest \in Nat
        BY <2>2, <2>5, <3>2 DEF LongestShown
      <4> HIDE DEF v
      <4> QED BY <2>3, <4>1
    <3> QED BY <1>1, <3>1, <3>2
  <2> HIDE DEF v, e
  <2> QED BY <2>3, <2>4, <2>5 DEF LongestShown
<1>5. TargetsShown(v, after)
  <2>1. v.targets = u.targets \cup IF e.type = "exception" /\ e.value # 0 THEN {e.value} ELSE {}
    BY DEF Apply
  <2>2. u.targets = {sent[i].value : i \in Faults(m)} \ {0}
    BY DEF Observed, TargetsShown
  <2>3. Faults(after) = Faults(m) \cup (IF e.type = "exception" THEN {k} ELSE {})
    BY <1>1 DEF Faults
  <2> HIDE DEF v
  <2> QED BY <2>1, <2>2, <2>3 DEF TargetsShown
<1> QED BY <1>2, <1>3, <1>4, <1>5 DEF Observed

\* A number more in a set of counted numbers.
LEMMA CountUpTo ==
  ASSUME NEW m \in Nat, NEW S \in SUBSET Nat
  PROVE  /\ Cardinality(S \cap (1 .. m)) \in Nat
         /\ Cardinality(S \cap (1 .. (m + 1)))
              = Cardinality(S \cap (1 .. m)) + (IF m + 1 \in S THEN 1 ELSE 0)
<1>1. IsFiniteSet(S \cap (1 .. m))
  <2>1. IsFiniteSet(1 .. m) /\ S \cap (1 .. m) \in SUBSET (1 .. m)
    BY FS_Interval
  <2> QED BY <2>1, FS_Subset
<1> DEFINE c == Cardinality(S \cap (1 .. m))
<1>4. c \in Nat
  BY <1>1, FS_CardinalityType
<1>2. CASE m + 1 \in S
  <2>1. S \cap (1 .. (m + 1)) = (S \cap (1 .. m)) \cup {m + 1} /\ m + 1 \notin S \cap (1 .. m)
    BY <1>2
  <2> QED BY <1>1, <1>2, <1>4, <2>1, FS_AddElement
<1>3. CASE m + 1 \notin S
  <2>1. S \cap (1 .. (m + 1)) = S \cap (1 .. m)
    BY <1>3
  <2>2. Cardinality(S \cap (1 .. (m + 1))) = c
    BY <2>1
  <2> HIDE DEF c
  <2> QED BY <1>3, <1>4, <2>2 DEF c
<1> QED BY <1>2, <1>3

\* One event: counters.
LEMMA ApplyCounts ==
  ASSUME IsRun(sent), NEW k, NEW m, NEW after, Comes(k, m, after), NEW u, CountsShown(u, m)
  PROVE  CountsShown(Apply(u, sent[k]), after)
<1> DEFINE e == sent[k]
           v == Apply(u, e)
<1>1. /\ v.events = u.events + 1
      /\ v.counts = [c \in Counters |-> u.counts[c] + IF c \in Counts(e) THEN 1 ELSE 0]
  BY DEF Apply, Counted
<1>2. /\ m \in Nat /\ after \in Nat /\ m <= after /\ after <= m + 1
      /\ after # m => after = m + 1 /\ k = after
  BY ComesTypes
<1>3. u.events \in Nat /\ m <= u.events /\ \A c \in Counters : u.counts[c] \in Nat
  BY DEF CountsShown
<1> HIDE DEF v
<1>4. v.events \in Nat /\ after <= v.events /\ v.counts \in [Counters -> Nat]
  BY <1>1, <1>2, <1>3
<1>5. ASSUME NEW c \in Counters
      PROVE  /\ Cardinality(Counting(c, after)) <= v.counts[c]
             /\ v.counts[c] <= Cardinality(Counting(c, after)) + (v.events - after)
             /\ v.counts[c] <= v.events
  <2> DEFINE S == {i \in Nat : c \in Counts(sent[i])}
  <2>1. Counting(c, m) = S \cap (1 .. m) /\ Counting(c, after) = S \cap (1 .. after)
    BY <1>2 DEF Counting
  <2>2. /\ Cardinality(S \cap (1 .. m)) \in Nat
        /\ Cardinality(S \cap (1 .. (m + 1)))
             = Cardinality(S \cap (1 .. m)) + (IF m + 1 \in S THEN 1 ELSE 0)
    <3> HIDE DEF S
    <3>1. S \in SUBSET Nat
      BY DEF S
    <3> QED BY <1>2, <3>1, CountUpTo
  <2>3. /\ Cardinality(Counting(c, m)) <= u.counts[c]
        /\ u.counts[c] <= Cardinality(Counting(c, m)) + (u.events - m)
        /\ u.counts[c] <= u.events
    BY DEF CountsShown
  <2>4. v.counts[c] = u.counts[c] + IF c \in Counts(e) THEN 1 ELSE 0
    BY <1>1
  <2>5. CASE after = m
    BY <1>1, <1>2, <1>3, <2>1, <2>2, <2>3, <2>4, <2>5
  <2>6. CASE after = m + 1
    <3>1. k = m + 1 /\ (m + 1 \in S <=> c \in Counts(e))
      BY <1>2, <2>6
    <3> HIDE DEF e, S
    <3> QED BY <1>1, <1>2, <1>3, <2>1, <2>2, <2>3, <2>4, <2>6, <3>1
  <2> QED BY <1>2, <2>5, <2>6
<1>9. CountsShown(v, after)
  BY <1>4, <1>5 DEF CountsShown
<1> QED BY <1>9 DEF v

\* One event: slices.
LEMMA ApplySlices ==
  ASSUME IsRun(sent), NEW k, NEW m, NEW after, Comes(k, m, after), NEW u, SlicesShown(u, m)
  PROVE  SlicesShown(Apply(u, sent[k]), after)
<1> DEFINE e == sent[k]
           v == Apply(u, e)
<1>1. /\ v.slices = u.slices + IF NewSlice(u, e) THEN 1 ELSE 0
      /\ v.fault = IF e.type = "exception" THEN {e.at} ELSE u.fault
  BY DEF Apply
<1>2. /\ m \in Nat /\ after \in Nat /\ m <= after /\ after <= m + 1
      /\ after # m => after = m + 1 /\ k = after
      /\ 1 .. after = (1 .. m) \cup {k}
  BY ComesTypes
<1>3. u.slices \in Nat /\ Cardinality(FreshFaults(m)) <= u.slices
      /\ u.fault \subseteq {sent[i].at : i \in Faults(m)}
  BY DEF SlicesShown
<1> HIDE DEF v
<1>4. v.slices \in Nat /\ u.slices <= v.slices
  BY <1>1, <1>3
<1>5. v.fault \subseteq {sent[i].at : i \in Faults(after)}
  BY <1>1, <1>2, <1>3 DEF Faults
<1> DEFINE S == {i \in Nat : /\ sent[i].type = "exception"
                             /\ \A j \in Nat : /\ j > 0 /\ sent[j].type = "exception" /\ j < i
                                               => sent[i].at - sent[j].at > SliceGap}
<1>6. FreshFaults(m) = S \cap (1 .. m) /\ FreshFaults(after) = S \cap (1 .. after)
  BY <1>2 DEF FreshFaults, Faults
<1>7. /\ Cardinality(S \cap (1 .. m)) \in Nat
      /\ Cardinality(S \cap (1 .. (m + 1)))
           = Cardinality(S \cap (1 .. m)) + (IF m + 1 \in S THEN 1 ELSE 0)
  <2> HIDE DEF S
  <2>1. S \in SUBSET Nat
    BY DEF S
  <2> QED BY <1>2, <2>1, CountUpTo
<1>8. Cardinality(FreshFaults(after)) <= v.slices
  <2>1. CASE after = m
    BY <1>3, <1>4, <1>6, <1>7, <2>1
  <2>2. CASE after = m + 1 /\ m + 1 \notin S
    BY <1>3, <1>4, <1>6, <1>7, <2>2
  <2>3. CASE after = m + 1 /\ m + 1 \in S
    <3>1. k = m + 1 /\ e.type = "exception"
      BY <1>2, <2>3
    <3>2. \A j \in Faults(m) : e.at - sent[j].at > SliceGap
      BY <1>2, <2>3, <3>1 DEF Faults
    <3>3. NewSlice(u, e)
      BY <1>3, <3>1, <3>2 DEF NewSlice
    <3>4. v.slices = u.slices + 1
      BY <1>1, <3>3
    <3> HIDE DEF S
    <3> QED BY <1>3, <1>6, <1>7, <2>3, <3>4
  <2> QED BY <1>2, <2>1, <2>2, <2>3
<1>9. SlicesShown(v, after)
  BY <1>4, <1>5, <1>8 DEF SlicesShown
<1> QED BY <1>9 DEF v

\* One event: the last answered ping and the interval to a close.
LEMMA ApplyPings ==
  ASSUME IsRun(sent), NEW k, NEW m, NEW after, Comes(k, m, after), NEW u, PingsShown(u, m)
  PROVE  PingsShown(Apply(u, sent[k]), after)
<1> DEFINE e == sent[k]
           v == Apply(u, e)
<1>1. /\ v.ping = IF IsPing(e) /\ e.state = "response" THEN {e.at} ELSE u.ping
      /\ v.pingToClose = PingToClose(u, e)
  BY DEF Apply
<1>2. 1 .. after = (1 .. m) \cup {k} /\ k \in 1 .. after /\ \A i \in 1 .. after : sent[i].at \in Int
  BY ComesTypes DEF Event
<1>3. PingsOf(m) \subseteq PingsOf(after) /\ ClosesOf(m) \subseteq ClosesOf(after)
  BY <1>2 DEF PingsOf, ClosesOf
<1>4. v.ping \subseteq {sent[i].at : i \in PingsOf(after)}
  BY <1>1, <1>2, <1>3 DEF PingsShown, PingsOf
<1>5. ASSUME NEW n \in v.pingToClose PROVE n \in Int /\ IsInterval(n, after)
  <2>1. CASE n \in u.pingToClose
    BY <1>3, <2>1 DEF PingsShown, IsInterval
  <2>2. CASE n \notin u.pingToClose
    <3>1. e.type = "backend_close" /\ (\E at \in u.ping : at <= e.at) /\ n \in {e.at - at : at \in u.ping}
      BY <1>1, <1>5, <2>2 DEF PingToClose
    <3>2. PICK at \in u.ping : at <= e.at /\ n = e.at - at
      BY <3>1 DEF PingsShown
    <3>3. PICK i \in PingsOf(m) : at = sent[i].at
      BY DEF PingsShown
    <3>4. i \in PingsOf(after) /\ k \in ClosesOf(after) /\ at \in Int /\ e.at \in Int
      BY <1>2, <1>3, <3>1, <3>3 DEF ClosesOf, PingsOf
    <3> HIDE DEF v
    <3>5. n \in Int /\ n >= 0 /\ n = sent[k].at - sent[i].at
      BY <3>2, <3>3, <3>4
    <3> QED BY <3>4, <3>5 DEF IsInterval
  <2> QED BY <2>1, <2>2
<1>6. \A a, b \in v.ping : a = b
  BY <1>1 DEF PingsShown
<1> HIDE DEF v
<1>9. PingsShown(v, after)
  BY <1>4, <1>5, <1>6 DEF PingsShown
<1> QED BY <1>9 DEF v

\* Only the event of a session's end sets the column of that end.
LEMMA LatestEnds ==
  ASSUME NEW e
  PROVE  /\ "ended" \in DOMAIN Latest(e) <=> e.type = "session_end"
         /\ e.type = "session_end" => Latest(e)["ended"] = e.at
<1>1. CASE e.type = "session_end"
  <2>1. Latest(e) = [last |-> e.at, ended |-> e.at]
    BY <1>1 DEF Latest
  <2> QED BY <1>1, <2>1
<1>2. CASE e.type # "session_end"
  <2>1. \/ Latest(e) = [last |-> e.at, ach |-> e.value]
        \/ Latest(e) = [last |-> e.at, mrac |-> e.state]
        \/ Latest(e) = [last |-> e.at, backend |-> e.state]
        \/ Latest(e) = [last |-> e.at, gate |-> e.value]
        \/ Latest(e) = [last |-> e.at, backend |-> "closed", close |-> e.value]
        \/ Latest(e) = [last |-> e.at, dma |-> <<e.value, e.name>>]
        \/ Latest(e) = [last |-> e.at, ekpub |-> <<e.value, "provider">>]
        \/ Latest(e) = [last |-> e.at, ekpub |-> <<e.value, e.name>>]
        \/ Latest(e) = [last |-> e.at]
    BY <1>2, ZenonT(60) DEF Latest
  <2>2. "ended" \notin DOMAIN Latest(e)
    BY <2>1
  <2> QED BY <1>2, <2>2
<1> QED BY <1>1, <1>2

\* One event: the beginning, the end and the reason.
LEMMA ApplyEnds ==
  ASSUME IsRun(sent), NEW k, NEW m, NEW after, Comes(k, m, after),
         NEW u, EndShown(u, m), Observed(u, m)
  PROVE  EndShown(Apply(u, sent[k]), after)
<1> DEFINE e == sent[k]
           v == Apply(u, e)
<1>1. /\ v.events = u.events + 1
      /\ v.started = IF u.events = 0 THEN e.at ELSE u.started
      /\ v.latest = Updated(u, e)
  BY DEF Apply
<1>2. /\ m \in Nat /\ after \in Nat /\ m <= after /\ after <= m + 1 /\ k \in Nat /\ k > 0
      /\ after # m => after = m + 1 /\ k = after
      /\ 1 .. after = (1 .. m) \cup {k}
  BY ComesTypes
<1>3. u.events \in Nat /\ (m = 0 <=> u.events = 0) /\ (m > 0 => u.started = sent[1].at)
  BY DEF EndShown
<1> HIDE DEF v
<1>4. v.events \in Nat /\ v.events # 0
  BY <1>1, <1>3
<1>5. after # 0 /\ v.started = sent[1].at
  <2>1. CASE m = 0
    <3>1. k = 1 /\ after = 1
      BY <1>2, <2>1
    <3> QED BY <1>1, <1>3, <2>1, <3>1
  <2>2. CASE m # 0
    <3>1. m > 0 /\ after # 0
      BY <1>2, <2>2
    <3> QED BY <1>1, <1>3, <2>2, <3>1
  <2> QED BY <2>1, <2>2
<1>6. ASSUME NEW i \in 1 .. after, sent[i].type = "session_end" PROVE v.latest["ended"] = sent[i].at
  <2>1. CASE e.type = "session_end"
    <3>1. i = k
      BY <1>2, <1>6, <2>1 DEF IsRun, Comes
    <3>2. "ended" \in DOMAIN Latest(e) /\ Latest(e)["ended"] = e.at
      BY <2>1, LatestEnds
    <3> QED BY <1>1, <3>1, <3>2 DEF Updated
  <2>2. CASE e.type # "session_end"
    <3>1. i \in 1 .. m
      BY <1>2, <1>6, <2>2
    <3>2. "ended" \notin DOMAIN Latest(e) /\ "ended" \in DOMAIN Latest(sent[i])
      BY <1>6, <2>2, LatestEnds
    <3>3. "ended" \in DOMAIN u.latest
      BY <3>1, <3>2 DEF Observed, ColumnsShown, ColumnsOf
    <3>4. u.latest["ended"] = sent[i].at
      BY <1>6, <3>1 DEF EndShown
    <3> QED BY <1>1, <3>2, <3>3, <3>4 DEF Updated
  <2> QED BY <2>1, <2>2
<1>9. EndShown(v, after)
  BY <1>4, <1>5, <1>6 DEF EndShown
<1> QED BY <1>9 DEF v

\* One event: all of them.
LEMMA ApplyShows ==
  ASSUME IsRun(sent), NEW k, NEW m, NEW after, Comes(k, m, after), NEW u, Shows(u, m)
  PROVE  Shows(Apply(u, sent[k]), after)
BY ApplyObserves, ApplyCounts, ApplySlices, ApplyPings, ApplyEnds DEF Shows

-----------------------------------------------------------------------------
(* The pass over a batch.                                                  *)

\* The summaries of a pass over the events from the i-th to the j-th, by the last one it read.
IsPass(pass, u, i, j) ==
  /\ pass[i - 1] = u
  /\ pass[j] = Extend(u, SubSeq(sent, i, j))
  /\ \A q \in i .. j : pass[q] = Apply(pass[q - 1], sent[q])

\* Extend goes through a batch event by event.
LEMMA PassOfBatch ==
  ASSUME IsRun(sent), NEW u, NEW i \in 1 .. Len(sent), NEW j \in 1 .. Len(sent), i <= j
  PROVE  \E pass : IsPass(pass, u, i, j)
<1> DEFINE seq == SubSeq(sent, i, j)
           n == j - i + 1
<1>1. n \in Nat /\ DOMAIN seq = 1 .. n /\ \A q \in 1 .. n : seq[q] = sent[i + q - 1]
  BY DEF IsRun
<1>2. PICK it : /\ it[0] = u
                /\ \A q \in 1 .. n : it[q] = Apply(it[q - 1], seq[q])
                /\ it[n] = Extend(u, seq)
  <2> HIDE DEF seq, n
  <2> QED BY <1>1, PassOf
<1> DEFINE pass == [q \in (i - 1) .. j |-> it[q - i + 1]]
<1>3. pass[i - 1] = u
  BY <1>2
<1>4. pass[j] = Extend(u, seq)
  BY <1>2
<1>5. ASSUME NEW q \in i .. j PROVE pass[q] = Apply(pass[q - 1], sent[q])
  <2>1. q - i + 1 \in 1 .. n /\ (q - i + 1) - 1 = (q - 1) - i + 1 /\ i + (q - i + 1) - 1 = q
    OBVIOUS
  <2>2. q \in (i - 1) .. j /\ q - 1 \in (i - 1) .. j
    OBVIOUS
  <2>3. it[q - i + 1] = Apply(it[(q - i + 1) - 1], seq[q - i + 1])
    BY <1>2, <2>1
  <2>4. seq[q - i + 1] = sent[q]
    BY <1>1, <2>1
  <2> HIDE DEF seq, n
  <2> QED BY <2>1, <2>2, <2>3, <2>4
<1> HIDE DEF pass
<1>6. IsPass(pass, u, i, j)
  BY <1>3, <1>4, <1>5 DEF IsPass
<1> QED BY <1>6

\* Induction over the pass, from the event before the batch to the last one of it.
LEMMA FromTo ==
  ASSUME NEW i \in Nat, i > 0, NEW j \in Nat, i <= j, NEW S,
         i - 1 \in S, \A q \in i .. j : q - 1 \in S => q \in S
  PROVE  (i - 1) .. j \subseteq S
<1> DEFINE T == {q \in 0 .. j : q >= i - 1 => q \in S}
<1>1. 0 \in T
  OBVIOUS
<1>2. ASSUME NEW k \in 1 .. j, k - 1 \in T PROVE k \in T
  <2>1. CASE k < i - 1
    BY <2>1
  <2>2. CASE k = i - 1
    BY <2>2
  <2>3. CASE k > i - 1
    BY <1>2, <2>3
  <2> QED BY <2>1, <2>2, <2>3
<1>3. 0 .. j \subseteq T
  <2> HIDE DEF T
  <2> QED BY <1>1, <1>2, UpTo
<1> QED BY <1>3

AfterPass(m, q) == IF q > m THEN q ELSE m

\* After each event of a batch the summary shows all that was read.
LEMMA PassShows ==
  ASSUME IsRun(sent), NEW u, NEW i \in 1 .. Len(sent), NEW j \in 1 .. Len(sent), i <= j,
         NEW m \in 0 .. Len(sent), i <= m + 1, Shows(u, m), NEW pass, IsPass(pass, u, i, j)
  PROVE  \A q \in (i - 1) .. j : Shows(pass[q], AfterPass(m, q))
<1>0. Len(sent) \in Nat
  BY DEF IsRun
<1> DEFINE S == {q \in (i - 1) .. j : Shows(pass[q], AfterPass(m, q))}
<1>1. i - 1 \in S
  <2>1. AfterPass(m, i - 1) = m /\ i - 1 \in (i - 1) .. j
    BY <1>0 DEF AfterPass
  <2> QED BY <2>1 DEF IsPass
<1>2. ASSUME NEW q \in i .. j, q - 1 \in S PROVE q \in S
  <2>1. Comes(q, AfterPass(m, q - 1), AfterPass(m, q))
    BY <1>0 DEF Comes, AfterPass
  <2>2. Shows(pass[q - 1], AfterPass(m, q - 1)) /\ pass[q] = Apply(pass[q - 1], sent[q])
    BY <1>2 DEF IsPass
  <2>3. Shows(pass[q], AfterPass(m, q)) /\ q \in (i - 1) .. j
    BY <1>0, <2>1, <2>2, ApplyShows
  <2> QED BY <2>3
<1>3. (i - 1) .. j \subseteq S
  <2>1. i \in Nat /\ i > 0 /\ j \in Nat
    BY <1>0
  <2> HIDE DEF S
  <2> QED BY <1>1, <1>2, <2>1, FromTo
<1> QED BY <1>3

-----------------------------------------------------------------------------
(* What a summary shows of the last events, unless a copy came late.       *)

IsLast(k, T) == k \in T /\ \A x \in T : x <= k

Setting(c, lo, hi) == {k \in lo .. hi : c \in DOMAIN Latest(sent[k])}
PingsIn(lo, hi)    == {k \in lo .. hi : IsPing(sent[k]) /\ sent[k].state = "response"}

\* Every column with a last value shows the one of the event that set it last.
LatestShown(u, m) ==
  \A c \in DOMAIN u.latest :
    \E k : IsLast(k, Setting(c, 1, m)) /\ u.latest[c] = Latest(sent[k])[c]

\* The time the pass remembers is that of the last response of a Ping.
PingShown(u, m) ==
  \/ PingsIn(1, m) = {} /\ u.ping = {}
  \/ \E p : IsLast(p, PingsIn(1, m)) /\ u.ping = {sent[p].at}

\* The closes with an interval to show, and that of the last of them is shown, if no response
\* came after a close at the time of that close or at an earlier one.
MeasuredOf(m) ==
  {k \in ClosesOf(m) : \E p : IsLast(p, PingsIn(1, k - 1)) /\ sent[p].at <= sent[k].at}

Untimely(m) == \E p \in PingsOf(m), k \in ClosesOf(m) : k < p /\ sent[p].at <= sent[k].at

IntervalShown(u, m) ==
  \/ Untimely(m)
  \/ MeasuredOf(m) = {} /\ u.pingToClose = {}
  \/ \E k, p : /\ IsLast(k, MeasuredOf(m)) /\ IsLast(p, PingsIn(1, k - 1))
               /\ u.pingToClose = {sent[k].at - sent[p].at}

ShowsLast(u, m) == LatestShown(u, m) /\ PingShown(u, m) /\ IntervalShown(u, m)

\* What is set by some of the steps of a pass and left alone by the others: in the end it is as
\* the last of those steps left it, or as it was.
SetOrKept(f, g, T, i, j) == \A q \in i .. j : f[q] = IF q \in T THEN g[q] ELSE f[q - 1]

LeftByLast(f, g, T, i, q) ==
  \/ T \cap (i .. q) = {} /\ f[q] = f[i - 1]
  \/ \E k : IsLast(k, T \cap (i .. q)) /\ f[q] = g[k]

\* What each of some places sets, the last of them leaves.
LEMMA LastStep ==
  ASSUME NEW i \in Nat, i > 0, NEW j \in Nat, i <= j, NEW T, NEW f, NEW g, SetOrKept(f, g, T, i, j)
  PROVE  \A q \in (i - 1) .. j : LeftByLast(f, g, T, i, q)
<1> DEFINE S == {q \in (i - 1) .. j : LeftByLast(f, g, T, i, q)}
<1>1. i - 1 \in S
  <2>1. i .. (i - 1) = {} /\ i - 1 \in (i - 1) .. j
    OBVIOUS
  <2> QED BY <2>1 DEF LeftByLast
<1>2. ASSUME NEW q \in i .. j, q - 1 \in S PROVE q \in S
  <2>1. i .. q = (i .. (q - 1)) \cup {q} /\ q \in i .. q /\ q \in (i - 1) .. j
    OBVIOUS
  <2>4. f[q] = IF q \in T THEN g[q] ELSE f[q - 1]
    BY DEF SetOrKept
  <2>2. CASE q \in T
    <3>1. IsLast(q, T \cap (i .. q)) /\ f[q] = g[q]
      BY <2>1, <2>2, <2>4 DEF IsLast
    <3> QED BY <2>1, <3>1 DEF LeftByLast
  <2>3. CASE q \notin T
    <3>1. T \cap (i .. q) = T \cap (i .. (q - 1)) /\ f[q] = f[q - 1]
      BY <2>1, <2>3, <2>4
    <3>2. LeftByLast(f, g, T, i, q - 1)
      BY <1>2
    <3>3. LeftByLast(f, g, T, i, q)
      BY <3>1, <3>2 DEF LeftByLast
    <3> QED BY <2>1, <3>3
  <2> QED BY <2>2, <2>3
<1>3. (i - 1) .. j \subseteq S
  <2> HIDE DEF S
  <2> QED BY <1>1, <1>2, FromTo
<1> QED BY <1>3

\* The events that were stored before, and those of a batch that ends where they do or later.
LEMMA Covers ==
  ASSUME NEW m \in Nat, NEW i \in Nat, i > 0, NEW j \in Nat, i <= m + 1, m <= j
  PROVE  1 .. j = (1 .. m) \cup (i .. j)
OBVIOUS

\* The columns of which the last value matters.
LEMMA ApplyColumns ==
  ASSUME NEW u, NEW e
  PROVE  /\ Apply(u, e).latest = Updated(u, e)
         /\ Apply(u, e).ping = IF IsPing(e) /\ e.state = "response" THEN {e.at} ELSE u.ping
         /\ Apply(u, e).pingToClose = PingToClose(u, e)
         /\ Apply(u, e).events = u.events + 1
BY DEF Apply

\* A column has the last value of the events read.
LEMMA PassLatest ==
  ASSUME IsRun(sent), NEW u, NEW i \in 1 .. Len(sent), NEW j \in 1 .. Len(sent), i <= j,
         NEW m \in 0 .. Len(sent), i <= m + 1, m <= j, LatestShown(u, m),
         NEW pass, IsPass(pass, u, i, j)
  PROVE  LatestShown(pass[j], j)
<1>0. Len(sent) \in Nat /\ i \in Nat /\ i > 0 /\ j \in Nat /\ m \in Nat
  BY DEF IsRun
<1> SUFFICES ASSUME NEW c \in DOMAIN pass[j].latest
             PROVE  \E k : IsLast(k, Setting(c, 1, j)) /\ pass[j].latest[c] = Latest(sent[k])[c]
  BY DEF LatestShown
<1> DEFINE T == {q \in Int : c \in DOMAIN Latest(sent[q])}
           Shown(v) == IF c \in DOMAIN v.latest THEN <<v.latest[c]>> ELSE <<>>
           f == [q \in (i - 1) .. j |-> Shown(pass[q])]
           g == [q \in i .. j |-> <<Latest(sent[q])[c]>>]
<1>1. ASSUME NEW q \in i .. j PROVE f[q] = IF q \in T THEN g[q] ELSE f[q - 1]
  <2>1. pass[q].latest = Updated(pass[q - 1], sent[q])
    <3>1. pass[q] = Apply(pass[q - 1], sent[q])
      BY DEF IsPass
    <3>2. Apply(pass[q - 1], sent[q]).latest = Updated(pass[q - 1], sent[q])
      BY ApplyColumns, Zenon
    <3> QED BY <3>1, <3>2
  <2>2. q \in (i - 1) .. j /\ q - 1 \in (i - 1) .. j /\ (q \in T <=> c \in DOMAIN Latest(sent[q]))
    BY <1>0
  <2>3. CASE c \in DOMAIN Latest(sent[q])
    <3>1. Shown(pass[q]) = <<Latest(sent[q])[c]>>
      BY <2>1, <2>3 DEF Updated
    <3> QED BY <2>2, <2>3, <3>1
  <2>4. CASE c \notin DOMAIN Latest(sent[q])
    <3>1. Shown(pass[q]) = Shown(pass[q - 1])
      BY <2>1, <2>4 DEF Updated
    <3> HIDE DEF Shown, T
    <3> QED BY <2>2, <2>4, <3>1
  <2> QED BY <2>3, <2>4
<1>2. LeftByLast(f, g, T, i, j)
  <2>1. j \in (i - 1) .. j
    BY <1>0
  <2> HIDE DEF f, g, T
  <2>2. SetOrKept(f, g, T, i, j)
    BY <1>1 DEF SetOrKept
  <2> QED BY <1>0, <2>1, <2>2, LastStep
<1>3. 1 .. j = (1 .. m) \cup (i .. j)
  BY <1>0, Covers
<1>4. CASE \E k : IsLast(k, T \cap (i .. j)) /\ f[j] = g[k]
  <2>1. PICK k : IsLast(k, T \cap (i .. j)) /\ f[j] = g[k]
    BY <1>4
  <2>2. k \in i .. j /\ c \in DOMAIN Latest(sent[k]) /\ j \in (i - 1) .. j
    BY <1>0, <2>1 DEF IsLast
  <2>3. <<pass[j].latest[c]>> = <<Latest(sent[k])[c]>>
    BY <2>1, <2>2
  <2>4. pass[j].latest[c] = Latest(sent[k])[c]
    BY <2>3
  <2>5. ASSUME NEW x \in Setting(c, 1, j) PROVE x <= k
    <3>1. CASE x < i
      BY <1>0, <2>2, <3>1 DEF Setting
    <3>2. CASE x >= i
      BY <1>0, <2>1, <3>2 DEF Setting, IsLast
    <3> QED BY <1>0, <3>1, <3>2 DEF Setting
  <2>6. IsLast(k, Setting(c, 1, j))
    BY <1>0, <2>2, <2>5 DEF Setting, IsLast
  <2> QED BY <2>4, <2>6
<1>5. CASE T \cap (i .. j) = {} /\ f[j] = f[i - 1]
  <2>1. Shown(pass[j]) = Shown(u)
    <3>1. j \in (i - 1) .. j /\ i - 1 \in (i - 1) .. j /\ pass[i - 1] = u
      BY <1>0 DEF IsPass
    <3>2. f[j] = Shown(pass[j]) /\ f[i - 1] = Shown(pass[i - 1])
      BY <3>1
    <3> HIDE DEF f, Shown
    <3> QED BY <1>5, <3>1, <3>2
  <2>2. c \in DOMAIN u.latest /\ u.latest[c] = pass[j].latest[c]
    BY <2>1
  <2>3. PICK k : IsLast(k, Setting(c, 1, m)) /\ u.latest[c] = Latest(sent[k])[c]
    BY <2>2 DEF LatestShown
  <2>4. Setting(c, 1, j) = Setting(c, 1, m)
    BY <1>0, <1>3, <1>5 DEF Setting
  <2> QED BY <2>2, <2>3, <2>4
<1> QED BY <1>2, <1>4, <1>5 DEF LeftByLast

\* What the pass remembers of the responses of a Ping, at each of its events.
LEMMA PassPings ==
  ASSUME IsRun(sent), NEW u, NEW i \in 1 .. Len(sent), NEW j \in 1 .. Len(sent), i <= j,
         NEW pass, IsPass(pass, u, i, j)
  PROVE  \A q \in (i - 1) .. j :
           \/ PingsIn(i, q) = {} /\ pass[q].ping = u.ping
           \/ \E p : IsLast(p, PingsIn(i, q)) /\ pass[q].ping = {sent[p].at}
<1>0. Len(sent) \in Nat /\ i \in Nat /\ i > 0 /\ j \in Nat
  BY DEF IsRun
<1> DEFINE T == {q \in Int : IsPing(sent[q]) /\ sent[q].state = "response"}
           f == [q \in (i - 1) .. j |-> pass[q].ping]
           g == [q \in i .. j |-> {sent[q].at}]
<1>1. ASSUME NEW q \in i .. j PROVE f[q] = IF q \in T THEN g[q] ELSE f[q - 1]
  <2>1. pass[q].ping = IF IsPing(sent[q]) /\ sent[q].state = "response"
                       THEN {sent[q].at} ELSE pass[q - 1].ping
    <3>1. pass[q] = Apply(pass[q - 1], sent[q])
      BY DEF IsPass
    <3>2. Apply(pass[q - 1], sent[q]).ping
            = IF IsPing(sent[q]) /\ sent[q].state = "response" THEN {sent[q].at} ELSE pass[q - 1].ping
      BY ApplyColumns, Zenon
    <3> QED BY <3>1, <3>2
  <2>2. q \in (i - 1) .. j /\ q - 1 \in (i - 1) .. j /\ q \in Int
    BY <1>0
  <2> QED BY <2>1, <2>2
<1>2. \A q \in (i - 1) .. j : LeftByLast(f, g, T, i, q)
  <2> HIDE DEF f, g, T
  <2>1. SetOrKept(f, g, T, i, j)
    BY <1>1 DEF SetOrKept
  <2> QED BY <1>0, <2>1, LastStep
<1> SUFFICES ASSUME NEW q \in (i - 1) .. j
             PROVE  \/ PingsIn(i, q) = {} /\ pass[q].ping = u.ping
                    \/ \E p : IsLast(p, PingsIn(i, q)) /\ pass[q].ping = {sent[p].at}
  OBVIOUS
<1>3. PingsIn(i, q) = T \cap (i .. q)
  BY <1>0 DEF PingsIn
<1>4. i - 1 \in (i - 1) .. j /\ f[i - 1] = u.ping /\ f[q] = pass[q].ping
  BY <1>0 DEF IsPass
<1>5. ASSUME NEW k, IsLast(k, T \cap (i .. q)) PROVE g[k] = {sent[k].at}
  BY <1>0, <1>5 DEF IsLast
<1> HIDE DEF f, g, T
<1> QED BY <1>2, <1>3, <1>4, <1>5 DEF LeftByLast

\* The ping is the last one of the events read.
LEMMA PassPing ==
  ASSUME IsRun(sent), NEW u, NEW i \in 1 .. Len(sent), NEW j \in 1 .. Len(sent), i <= j,
         NEW m \in 0 .. Len(sent), i <= m + 1, m <= j, PingShown(u, m),
         NEW pass, IsPass(pass, u, i, j)
  PROVE  PingShown(pass[j], j)
<1>0. Len(sent) \in Nat /\ i \in Nat /\ i > 0 /\ j \in Nat /\ m \in Nat /\ j \in (i - 1) .. j
  BY DEF IsRun
<1>1. 1 .. j = (1 .. m) \cup (i .. j)
  BY <1>0, Covers
<1>2. CASE PingsIn(i, j) = {} /\ pass[j].ping = u.ping
  <2>1. PingsIn(1, j) = PingsIn(1, m)
    BY <1>1, <1>2 DEF PingsIn
  <2> QED BY <1>2, <2>1 DEF PingShown
<1>3. CASE \E p : IsLast(p, PingsIn(i, j)) /\ pass[j].ping = {sent[p].at}
  <2>1. PICK p : IsLast(p, PingsIn(i, j)) /\ pass[j].ping = {sent[p].at}
    BY <1>3
  <2>2. p \in PingsIn(1, j) /\ p \in i .. j
    BY <1>0, <2>1 DEF IsLast, PingsIn
  <2>3. ASSUME NEW x \in PingsIn(1, j) PROVE x <= p
    <3>1. CASE x < i
      BY <1>0, <2>2, <3>1 DEF PingsIn
    <3>2. CASE x >= i
      BY <1>0, <2>1, <3>2 DEF PingsIn, IsLast
    <3> QED BY <1>0, <3>1, <3>2 DEF PingsIn
  <2> QED BY <2>1, <2>2, <2>3 DEF PingShown, IsLast
<1> QED BY <1>0, <1>2, <1>3, PassPings

\* The closes of the batch to which the pass measures, and the last of them.
PassMeasured(pass, i, j) ==
  {k \in i .. j : sent[k].type = "backend_close" /\ \E at \in pass[k - 1].ping : at <= sent[k].at}

Intervals(pass, k) == {sent[k].at - at : at \in pass[k - 1].ping}

\* A batch leaves the interval alone, or as its last close that had a ping sets it.
LEMMA PassCloses ==
  ASSUME IsRun(sent), NEW u, NEW i \in 1 .. Len(sent), NEW j \in 1 .. Len(sent), i <= j,
         NEW pass, IsPass(pass, u, i, j)
  PROVE  \/ PassMeasured(pass, i, j) = {} /\ pass[j].pingToClose = u.pingToClose
         \/ \E k : /\ IsLast(k, PassMeasured(pass, i, j))
                   /\ pass[j].pingToClose = Intervals(pass, k)
<1>0. Len(sent) \in Nat /\ i \in Nat /\ i > 0 /\ j \in Nat
  BY DEF IsRun
<1> DEFINE T == {q \in Int : sent[q].type = "backend_close" /\ \E at \in pass[q - 1].ping : at <= sent[q].at}
           f == [q \in (i - 1) .. j |-> pass[q].pingToClose]
           g == [q \in i .. j |-> Intervals(pass, q)]
<1>1. ASSUME NEW q \in i .. j PROVE f[q] = IF q \in T THEN g[q] ELSE f[q - 1]
  <2>1. pass[q].pingToClose = PingToClose(pass[q - 1], sent[q])
    <3>1. pass[q] = Apply(pass[q - 1], sent[q])
      BY DEF IsPass
    <3>2. Apply(pass[q - 1], sent[q]).pingToClose = PingToClose(pass[q - 1], sent[q])
      BY ApplyColumns, Zenon
    <3> QED BY <3>1, <3>2
  <2>2. q \in (i - 1) .. j /\ q - 1 \in (i - 1) .. j /\ q \in Int
    BY <1>0
  <2> QED BY <2>1, <2>2 DEF PingToClose, Intervals
<1>2. LeftByLast(f, g, T, i, j)
  <2>1. j \in (i - 1) .. j
    BY <1>0
  <2> HIDE DEF f, g, T
  <2>2. SetOrKept(f, g, T, i, j)
    BY <1>1 DEF SetOrKept
  <2> QED BY <1>0, <2>1, <2>2, LastStep
<1>3. PassMeasured(pass, i, j) = T \cap (i .. j)
  BY <1>0 DEF PassMeasured
<1>4. f[i - 1] = u.pingToClose /\ f[j] = pass[j].pingToClose
  BY <1>0 DEF IsPass
<1>5. ASSUME NEW k, IsLast(k, T \cap (i .. j))
      PROVE  g[k] = Intervals(pass, k)
  BY <1>0, <1>5 DEF IsLast
<1> HIDE DEF f, g, T
<1> QED BY <1>2, <1>3, <1>4, <1>5 DEF LeftByLast

\* The last ping of a batch is the last one of all before it.
LEMMA LastFrom ==
  ASSUME NEW i \in Nat, i > 0, NEW n \in Int, NEW p, IsLast(p, PingsIn(i, n))
  PROVE  IsLast(p, PingsIn(1, n)) /\ p \in i .. n
<1>1. p \in i .. n /\ p \in PingsIn(1, n)
  BY DEF IsLast, PingsIn
<1>2. ASSUME NEW x \in PingsIn(1, n) PROVE x <= p
  <2>1. CASE x < i
    BY <1>1, <2>1 DEF PingsIn
  <2>2. CASE x >= i
    BY <2>2 DEF PingsIn, IsLast
  <2> QED BY <2>1, <2>2 DEF PingsIn
<1> QED BY <1>1, <1>2 DEF IsLast


IsMeasuredFrom(pass, i, m, k, p) ==
  /\ IsLast(p, PingsIn(1, k - 1))
  /\ pass[k - 1].ping = {sent[p].at}
  /\ sent[p].at <= sent[k].at
  /\ p \in i .. (k - 1) \/ IsLast(p, PingsIn(1, m))

\* A close that the pass measures is one to measure, and from the right response.
LEMMA PassMeasuresTrue ==
  ASSUME IsRun(sent), NEW u, NEW i \in 1 .. Len(sent), NEW j \in 1 .. Len(sent), i <= j,
         NEW m \in 0 .. Len(sent), i <= m + 1, m <= j, PingShown(u, m), ~Untimely(j),
         NEW pass, IsPass(pass, u, i, j), NEW k \in PassMeasured(pass, i, j)
  PROVE  \E p : IsMeasuredFrom(pass, i, m, k, p)
<1>0. /\ Len(sent) \in Nat /\ i \in Nat /\ i > 0 /\ j \in Nat /\ m \in Nat
      /\ k \in i .. j /\ k - 1 \in (i - 1) .. j /\ k - 1 \in Int
  BY DEF IsRun, PassMeasured
<1>1. PICK at \in pass[k - 1].ping : at <= sent[k].at /\ sent[k].type = "backend_close"
  BY DEF PassMeasured
<1>2. CASE \E p : IsLast(p, PingsIn(i, k - 1)) /\ pass[k - 1].ping = {sent[p].at}
  <2>1. PICK p : IsLast(p, PingsIn(i, k - 1)) /\ pass[k - 1].ping = {sent[p].at}
    BY <1>2
  <2>2. IsLast(p, PingsIn(1, k - 1)) /\ p \in i .. (k - 1)
    BY <1>0, <2>1, LastFrom
  <2> QED BY <1>1, <2>1, <2>2 DEF IsMeasuredFrom
<1>3. CASE PingsIn(i, k - 1) = {} /\ pass[k - 1].ping = u.ping
  <2>1. PICK p : IsLast(p, PingsIn(1, m)) /\ u.ping = {sent[p].at}
    BY <1>1, <1>3 DEF PingShown
  <2>2. sent[p].at <= sent[k].at /\ p \in PingsIn(1, m) /\ p \in 1 .. m
    BY <1>1, <1>3, <2>1 DEF IsLast, PingsIn
  <2>3. p # k
    BY <1>1, <2>2 DEF PingsIn, IsPing
  <2>4. ~ (k < p)
    <3>1. p \in PingsOf(j) /\ k \in ClosesOf(j)
      BY <1>0, <1>1, <2>2 DEF PingsOf, PingsIn, ClosesOf
    <3> QED BY <2>2, <3>1 DEF Untimely
  <2>5. p \in PingsIn(1, k - 1)
    BY <1>0, <2>2, <2>3, <2>4 DEF PingsIn
  <2>6. ASSUME NEW x \in PingsIn(1, k - 1) PROVE x <= p
    <3>1. CASE x <= m
      BY <1>0, <2>1, <3>1 DEF PingsIn, IsLast
    <3>2. CASE x > m
      BY <1>0, <1>3, <3>2 DEF PingsIn
    <3> QED BY <1>0, <3>1, <3>2 DEF PingsIn
  <2>7. IsLast(p, PingsIn(1, k - 1))
    BY <2>5, <2>6 DEF IsLast
  <2> QED BY <1>3, <2>1, <2>2, <2>7 DEF IsMeasuredFrom
<1> QED BY <1>0, <1>2, <1>3, PassPings

\* A close to measure that the pass does not measure lies before a response it began with.
LEMMA PassMisses ==
  ASSUME IsRun(sent), NEW u, NEW i \in 1 .. Len(sent), NEW j \in 1 .. Len(sent), i <= j,
         NEW m \in 0 .. Len(sent), i <= m + 1, m <= j, PingShown(u, m),
         NEW pass, IsPass(pass, u, i, j),
         NEW k \in MeasuredOf(j), k >= i, k \notin PassMeasured(pass, i, j)
  PROVE  PingsIn(i, k - 1) = {} /\ \E p : IsLast(p, PingsIn(1, m)) /\ k < p
<1>0. /\ Len(sent) \in Nat /\ i \in Nat /\ i > 0 /\ j \in Nat /\ m \in Nat
      /\ k \in i .. j /\ k - 1 \in (i - 1) .. j /\ k - 1 \in Int /\ sent[k].type = "backend_close"
  BY DEF IsRun, MeasuredOf, ClosesOf
<1>1. PICK p : IsLast(p, PingsIn(1, k - 1)) /\ sent[p].at <= sent[k].at
  BY DEF MeasuredOf
<1>2. p \in 1 .. (k - 1) /\ p \in PingsIn(1, k - 1)
  BY <1>1 DEF IsLast, PingsIn
<1>3. ASSUME NEW q, IsLast(q, PingsIn(i, k - 1)), pass[k - 1].ping = {sent[q].at} PROVE FALSE
  <2>1. IsLast(q, PingsIn(1, k - 1)) /\ q \in i .. (k - 1)
    BY <1>0, <1>3, LastFrom
  <2>2. q = p
    BY <1>0, <1>1, <1>2, <2>1 DEF IsLast
  <2> QED BY <1>0, <1>1, <1>3, <2>2 DEF PassMeasured
<1>4. PingsIn(i, k - 1) = {} /\ pass[k - 1].ping = u.ping
  <2>1. \/ PingsIn(i, k - 1) = {} /\ pass[k - 1].ping = u.ping
        \/ \E q : IsLast(q, PingsIn(i, k - 1)) /\ pass[k - 1].ping = {sent[q].at}
    BY <1>0, PassPings
  <2> QED BY <1>3, <2>1
<1>5. p \in PingsIn(1, m)
  BY <1>0, <1>2, <1>4 DEF PingsIn
<1>6. PICK q : IsLast(q, PingsIn(1, m)) /\ u.ping = {sent[q].at}
  BY <1>5 DEF PingShown
<1>7. q \in 1 .. m /\ q \in PingsIn(1, m) /\ p <= q
  BY <1>5, <1>6 DEF IsLast, PingsIn
<1>8. q # k
  BY <1>0, <1>7 DEF PingsIn, IsPing
<1>9. ~ (q < k)
  <2> SUFFICES ASSUME q < k PROVE FALSE
    OBVIOUS
  <2>1. q \in PingsIn(1, k - 1)
    BY <1>0, <1>7 DEF PingsIn
  <2>2. q = p
    BY <1>0, <1>1, <1>2, <1>7, <2>1 DEF IsLast
  <2> QED BY <1>0, <1>1, <1>4, <1>6, <2>2 DEF PassMeasured
<1> QED BY <1>0, <1>4, <1>6, <1>7, <1>8, <1>9

\* The interval is that of the last close with a ping, unless one came late.
LEMMA PassInterval ==
  ASSUME IsRun(sent), NEW u, NEW i \in 1 .. Len(sent), NEW j \in 1 .. Len(sent), i <= j,
         NEW m \in 0 .. Len(sent), i <= m + 1, m <= j, PingShown(u, m), IntervalShown(u, m),
         NEW pass, IsPass(pass, u, i, j)
  PROVE  IntervalShown(pass[j], j)
<1> SUFFICES ASSUME ~Untimely(j) PROVE IntervalShown(pass[j], j)
  BY DEF IntervalShown
<1>0. /\ Len(sent) \in Nat /\ i \in Nat /\ i > 0 /\ j \in Nat /\ m \in Nat
      /\ MeasuredOf(j) \subseteq 1 .. j /\ MeasuredOf(m) \subseteq 1 .. m
      /\ PassMeasured(pass, i, j) \subseteq i .. j
  BY DEF IsRun, MeasuredOf, ClosesOf, PassMeasured
<1>1. CASE \E k : /\ IsLast(k, PassMeasured(pass, i, j))
                  /\ pass[j].pingToClose = Intervals(pass, k)
  <2>1. PICK k : /\ IsLast(k, PassMeasured(pass, i, j))
                 /\ pass[j].pingToClose = Intervals(pass, k)
    BY <1>1
  <2>2. k \in PassMeasured(pass, i, j) /\ k \in i .. j
    BY <1>0, <2>1 DEF IsLast
  <2>9. PICK p : IsMeasuredFrom(pass, i, m, k, p)
    BY <2>2, PassMeasuresTrue
  <2>3. /\ IsLast(p, PingsIn(1, k - 1)) /\ pass[k - 1].ping = {sent[p].at}
        /\ sent[p].at <= sent[k].at
        /\ p \in i .. (k - 1) \/ IsLast(p, PingsIn(1, m))
    BY <2>9 DEF IsMeasuredFrom
  <2>4. k \in MeasuredOf(j)
    BY <1>0, <2>2, <2>3 DEF MeasuredOf, ClosesOf, PassMeasured
  <2>5. ASSUME NEW x \in MeasuredOf(j), ~ (x <= k) PROVE FALSE
    <3>1. x \in 1 .. j /\ k < x /\ x >= i /\ x \notin PassMeasured(pass, i, j)
      BY <1>0, <2>1, <2>2, <2>5 DEF IsLast
    <3>2. PingsIn(i, x - 1) = {}
      BY <3>1, PassMisses
    <3>3. PICK q : IsLast(q, PingsIn(1, m)) /\ x < q
      BY <3>1, PassMisses
    <3>4. CASE p \in i .. (k - 1)
      <4>1. p \in PingsIn(i, x - 1)
        BY <1>0, <2>2, <2>3, <3>1, <3>4 DEF IsLast, PingsIn
      <4> QED BY <3>2, <4>1
    <3>5. CASE IsLast(p, PingsIn(1, m))
      <4>1. q \in PingsIn(1, m) /\ q <= p /\ q \in 1 .. m /\ p \in 1 .. (k - 1)
        BY <1>0, <2>2, <2>3, <3>3, <3>5 DEF IsLast, PingsIn
      <4> QED BY <2>2, <3>1, <3>3, <4>1
    <3> QED BY <2>3, <3>4, <3>5
  <2>6. IsLast(k, MeasuredOf(j))
    BY <2>4, <2>5 DEF IsLast
  <2>7. pass[j].pingToClose = {sent[k].at - sent[p].at}
    BY <2>1, <2>3 DEF Intervals
  <2> QED BY <2>3, <2>6, <2>7 DEF IntervalShown
<1>2. CASE PassMeasured(pass, i, j) = {} /\ pass[j].pingToClose = u.pingToClose
  <2>1. ~Untimely(m)
    BY <1>0 DEF Untimely, PingsOf, ClosesOf
  <2>2. ASSUME NEW k \in MeasuredOf(j) PROVE k \in MeasuredOf(m)
    <3>1. k \in 1 .. j
      BY <1>0
    <3>2. CASE k <= m
      BY <1>0, <3>1, <3>2 DEF MeasuredOf, ClosesOf
    <3>3. CASE k > m
      <4>1. k >= i /\ k \notin PassMeasured(pass, i, j)
        BY <1>0, <1>2, <3>1, <3>3
      <4>2. PICK q : IsLast(q, PingsIn(1, m)) /\ k < q
        BY <4>1, PassMisses
      <4> QED BY <1>0, <3>1, <3>3, <4>2 DEF IsLast, PingsIn
    <3> QED BY <1>0, <3>1, <3>2, <3>3
  <2>3. MeasuredOf(m) \subseteq MeasuredOf(j)
    BY <1>0 DEF MeasuredOf, ClosesOf
  <2>4. MeasuredOf(j) = MeasuredOf(m)
    BY <2>2, <2>3
  <2> QED BY <1>2, <2>1, <2>4 DEF IntervalShown
<1>3. \/ PassMeasured(pass, i, j) = {} /\ pass[j].pingToClose = u.pingToClose
      \/ \E k : /\ IsLast(k, PassMeasured(pass, i, j))
                /\ pass[j].pingToClose = Intervals(pass, k)
  BY PassCloses
<1> QED BY <1>1, <1>2, <1>3

\* The three of them.
LEMMA PassShowsLast ==
  ASSUME IsRun(sent), NEW u, NEW i \in 1 .. Len(sent), NEW j \in 1 .. Len(sent), i <= j,
         NEW m \in 0 .. Len(sent), i <= m + 1, m <= j, ShowsLast(u, m),
         NEW pass, IsPass(pass, u, i, j)
  PROVE  ShowsLast(pass[j], j)
BY PassLatest, PassPing, PassInterval DEF ShowsLast

-----------------------------------------------------------------------------
(* The file.                                                               *)

\* The inductive invariant: what the properties say, and what the pass carries from one event
\* to the next, the time of the last fault and of the last response of a Ping.
IInv ==
  /\ sent \in Recorded
  /\ stored \in 0 .. Len(sent)
  /\ late \in BOOLEAN
  /\ Shows(summary, stored)
  /\ summary.events <= MaxFile
  /\ ~late => ShowsLast(summary, stored)

\* What a recorder sends is a run of events.
LEMMA RecordedIsRun ==
  ASSUME sent \in Recorded
  PROVE  IsRun(sent) /\ Len(sent) \in Nat
BY RunSummaryAssumption DEF IsRun, Event

\* The empty summary shows an empty file.
LEMMA EmptyShows == Shows(Empty, 0) /\ ShowsLast(Empty, 0)
<1>1. 1 .. 0 = {}
  OBVIOUS
<1>2. /\ Empty.events = 0 /\ Empty.latest = <<>> /\ Empty.flags = {} /\ Empty.longest = 0
      /\ Empty.targets = {} /\ Empty.slices = 0 /\ Empty.fault = {} /\ Empty.ping = {}
      /\ Empty.pingToClose = {} /\ Empty.counts = [c \in Counters |-> 0]
  BY DEF Empty
<1> DEFINE u == Empty
<1> HIDE DEF u
<1>3. Observed(u, 0)
  <2>1. FlagsShown(u, 0)
    BY <1>1, <1>2 DEF u, FlagsShown, FlagsOf
  <2>2. ColumnsShown(u, 0)
    <3>1. DOMAIN u.latest = {}
      BY <1>2 DEF u
    <3> QED BY <1>1, <3>1 DEF ColumnsShown, ColumnsOf
  <2>3. LongestShown(u, 0)
    BY <1>1, <1>2 DEF u, LongestShown
  <2>4. TargetsShown(u, 0)
    BY <1>1, <1>2 DEF u, TargetsShown, Faults
  <2> QED BY <2>1, <2>2, <2>3, <2>4 DEF Observed
<1>4. CountsShown(u, 0)
  <2>1. \A c : Counting(c, 0) = {}
    BY <1>1 DEF Counting
  <2>2. Cardinality({}) = 0
    BY FS_EmptySet
  <2>3. u.events = 0 /\ u.counts \in [Counters -> Nat] /\ \A c \in Counters : u.counts[c] = 0
    BY <1>2 DEF u
  <2>4. \A c \in Counters : Cardinality(Counting(c, 0)) = 0
    BY <2>1, <2>2
  <2> QED BY <2>3, <2>4 DEF CountsShown
<1>5. SlicesShown(u, 0)
  <2>1. FreshFaults(0) = {}
    BY <1>1 DEF FreshFaults, Faults
  <2>2. Cardinality({}) = 0
    BY FS_EmptySet
  <2>3. Cardinality(FreshFaults(0)) = 0
    BY <2>1, <2>2
  <2>4. u.slices = 0 /\ u.fault = {}
    BY <1>2 DEF u
  <2> QED BY <2>3, <2>4 DEF SlicesShown
<1>6. PingsShown(u, 0)
  BY <1>2 DEF u, PingsShown
<1>7. EndShown(u, 0)
  BY <1>1, <1>2 DEF u, EndShown
<1>8. ShowsLast(u, 0)
  <2>1. LatestShown(u, 0)
    BY <1>2 DEF u, LatestShown
  <2>2. PingShown(u, 0)
    BY <1>1, <1>2 DEF u, PingShown, PingsIn
  <2>3. IntervalShown(u, 0)
    BY <1>1, <1>2 DEF u, IntervalShown, MeasuredOf, ClosesOf
  <2> QED BY <2>1, <2>2, <2>3 DEF ShowsLast
<1> QED BY <1>3, <1>4, <1>5, <1>6, <1>7, <1>8 DEF Shows, u

\* No event is stored at first.
LEMMA InitInv == Init => IInv
<1> SUFFICES ASSUME Init PROVE IInv
  OBVIOUS
<1>1. sent \in Recorded /\ stored = 0 /\ summary = Empty /\ late = FALSE
  BY DEF Init
<1>2. Len(sent) \in Nat /\ MaxFile \in Nat
  BY <1>1, RecordedIsRun, RunSummaryAssumption
<1>3. summary.events = 0
  BY <1>1 DEF Empty
<1>4. stored \in 0 .. Len(sent) /\ summary.events <= MaxFile
  BY <1>1, <1>2, <1>3
<1>5. Shows(summary, stored) /\ ShowsLast(summary, stored)
  BY <1>1, EmptyShows
<1> QED BY <1>1, <1>4, <1>5 DEF IInv

\* How many events there are after each event of a pass.
LEMMA PassCounts ==
  ASSUME IsRun(sent), NEW u, NEW i \in 1 .. Len(sent), NEW j \in 1 .. Len(sent), i <= j,
         u.events \in Nat, NEW pass, IsPass(pass, u, i, j)
  PROVE  pass[j].events = u.events + j - i + 1
<1>0. Len(sent) \in Nat /\ i \in Nat /\ i > 0 /\ j \in Nat
  BY DEF IsRun
<1> DEFINE S == {q \in (i - 1) .. j : pass[q].events = u.events + q - i + 1}
<1>1. i - 1 \in S
  <2>1. i - 1 \in (i - 1) .. j /\ u.events + (i - 1) - i + 1 = u.events
    BY <1>0
  <2> QED BY <2>1 DEF IsPass
<1>2. ASSUME NEW q \in i .. j, q - 1 \in S PROVE q \in S
  <2>1. pass[q] = Apply(pass[q - 1], sent[q])
    BY DEF IsPass
  <2>2. Apply(pass[q - 1], sent[q]).events = pass[q - 1].events + 1
    BY ApplyColumns, Zenon
  <2>3. pass[q - 1].events = u.events + (q - 1) - i + 1
    BY <1>2
  <2>4. q \in (i - 1) .. j /\ (u.events + (q - 1) - i + 1) + 1 = u.events + q - i + 1
    BY <1>0, SMTT(20)
  <2> QED BY <2>1, <2>2, <2>3, <2>4
<1>3. (i - 1) .. j \subseteq S
  <2> HIDE DEF S
  <2> QED BY <1>0, <1>1, <1>2, FromTo
<1>4. j \in (i - 1) .. j
  BY <1>0
<1> QED BY <1>3, <1>4

\* The run does not change.
LEMMA SameRun ==
  ASSUME sent' = sent, NEW u, NEW m, Shows(u, m)
  PROVE  Shows(u, m)'
<1>1. Observed(u, m)'
  <2>1. FlagsShown(u, m)' /\ ColumnsShown(u, m)'
    BY DEF Shows, Observed, FlagsShown, FlagsOf, ColumnsShown, ColumnsOf
  <2>2. LongestShown(u, m)'
    BY DEF Shows, Observed, LongestShown
  <2>3. TargetsShown(u, m)'
    BY DEF Shows, Observed, TargetsShown, Faults
  <2> QED BY <2>1, <2>2, <2>3 DEF Observed
<1>2. CountsShown(u, m)'
  BY DEF Shows, CountsShown, Counting
<1>3. SlicesShown(u, m)'
  BY DEF Shows, SlicesShown, FreshFaults, Faults
<1>4. PingsShown(u, m)'
  BY DEF Shows, PingsShown, PingsOf, ClosesOf, IsInterval
<1>5. EndShown(u, m)'
  BY DEF Shows, EndShown
<1> QED BY <1>1, <1>2, <1>3, <1>4, <1>5 DEF Shows

\* What a summary shows is about the events alone.
LEMMA SameRunLast ==
  ASSUME sent' = sent, NEW u, NEW m, ShowsLast(u, m)
  PROVE  ShowsLast(u, m)'
BY DEF ShowsLast, LatestShown, PingShown, IntervalShown, MeasuredOf, Untimely, IsLast, Setting,
       PingsIn, PingsOf, ClosesOf

\* A batch that is stored keeps the invariant.
LEMMA StoreInv ==
  ASSUME IInv, NEW i \in 1 .. Len(sent), NEW j \in 1 .. Len(sent), i <= j, Store(i, j)
  PROVE  IInv'
<1>1. /\ IsRun(sent) /\ Len(sent) \in Nat /\ i \in Nat /\ j \in Nat /\ stored \in Nat
      /\ stored \in 0 .. Len(sent) /\ summary.events \in Nat /\ MaxFile \in Nat
  BY RecordedIsRun, RunSummaryAssumption DEF IInv, Shows, CountsShown
<1>2. /\ i <= stored + 1 /\ summary.events + j - i < MaxFile /\ sent' = sent
      /\ summary' = Extend(summary, SubSeq(sent, i, j)) /\ late' = (late \/ j < stored)
  BY DEF Store
<1>3. stored' = AfterPass(stored, j)
  <2>1. stored' = Max({stored, j}) /\ {stored, j} \in SUBSET Int
    BY <1>1 DEF Store
  <2>2. CASE j > stored
    <3>1. Max({stored, j}) = j
      <4>1. j \in {stored, j} /\ \A x \in {stored, j} : x <= j
        BY <1>1, <2>2
      <4> QED BY <2>1, <4>1, MaxIs
    <3> QED BY <1>1, <2>1, <2>2, <3>1 DEF AfterPass
  <2>3. CASE ~ (j > stored)
    <3>1. Max({stored, j}) = stored
      <4>1. stored \in {stored, j} /\ \A x \in {stored, j} : x <= stored
        BY <1>1, <2>3
      <4> QED BY <2>1, <4>1, MaxIs
    <3> QED BY <1>1, <2>1, <2>3, <3>1 DEF AfterPass
  <2> QED BY <2>2, <2>3
<1>4. PICK pass : IsPass(pass, summary, i, j)
  BY <1>1, PassOfBatch
<1>5. summary' = pass[j]
  BY <1>2, <1>4 DEF IsPass
<1>6. Shows(pass[j], stored')
  <2>1. Shows(summary, stored) /\ j \in (i - 1) .. j
    BY <1>1 DEF IInv
  <2> QED BY <1>1, <1>2, <1>3, <1>4, <2>1, PassShows
<1>7. pass[j].events <= MaxFile
  <2>1. pass[j].events = summary.events + j - i + 1
    BY <1>1, <1>4, PassCounts
  <2> QED BY <1>1, <1>2, <2>1
<1>8. ASSUME ~late' PROVE ShowsLast(pass[j], stored')
  <2>1. ~late /\ stored <= j
    <3>1. ~ (late \/ j < stored)
      BY <1>2, <1>8, Zenon
    <3> QED BY <1>1, <3>1
  <2>2. ShowsLast(summary, stored) /\ stored' = j
    BY <1>1, <1>3, <2>1 DEF IInv, AfterPass
  <2>3. ShowsLast(pass[j], j)
    BY <1>1, <1>2, <1>4, <2>1, <2>2, PassShowsLast
  <2> QED BY <2>2, <2>3
<1>9. sent' \in Recorded /\ stored' \in 0 .. Len(sent') /\ late' \in BOOLEAN
  <2>1. sent' \in Recorded /\ stored' \in 0 .. Len(sent')
    BY <1>1, <1>2, <1>3 DEF IInv, AfterPass
  <2>2. late' \in BOOLEAN
    BY <1>2 DEF IInv
  <2> QED BY <2>1, <2>2
<1>10. Shows(summary, stored)'
  BY <1>2, <1>5, <1>6, SameRun
<1>11. ~late' => ShowsLast(summary, stored)'
  BY <1>2, <1>5, <1>8, SameRunLast
<1> QED BY <1>5, <1>7, <1>9, <1>10, <1>11 DEF IInv

\* The inductive invariant holds throughout.
LEMMA Invariant == Spec => []IInv
<1>1. Init => IInv
  BY InitInv
<1>2. IInv /\ [Next]_vars => IInv'
  <2> SUFFICES ASSUME IInv, [Next]_vars PROVE IInv'
    OBVIOUS
  <2>1. CASE Next
    <3>1. PICK i, j \in 1 .. Len(sent) : i <= j /\ Store(i, j)
      BY <2>1 DEF Next
    <3> QED BY <3>1, StoreInv
  <2>2. CASE UNCHANGED vars
    <3>1. sent' = sent /\ stored' = stored /\ summary' = summary /\ late' = late
      BY <2>2 DEF vars
    <3>2. Shows(summary, stored)'
      BY <3>1, SameRun DEF IInv
    <3>3. ~late' => ShowsLast(summary, stored)'
      BY <3>1, SameRunLast DEF IInv
    <3> QED BY <3>1, <3>2, <3>3 DEF IInv
  <2> QED BY <2>1, <2>2
<1> QED BY <1>1, <1>2, PTL DEF Spec

-----------------------------------------------------------------------------
(* What the invariant says of the columns.                                 *)

\* The summary's flags, columns and targets.
LEMMA ShownObservations == IInv => ObservationsStand
<1> SUFFICES ASSUME IInv PROVE ObservationsStand
  OBVIOUS
<1>0. Observed(summary, stored) /\ \A i \in Stored : sent[i] \in Event
  BY RecordedIsRun DEF IInv, Shows, IsRun, Stored
<1>1. summary.flags = UNION {Flags(e) : e \in Those}
  BY <1>0 DEF Observed, FlagsShown, FlagsOf, Those, Stored
<1>2. DOMAIN summary.latest = UNION {DOMAIN Latest(e) : e \in Those}
  BY <1>0 DEF Observed, ColumnsShown, ColumnsOf, Those, Stored
<1> DEFINE S == {e.value : e \in {f \in Those : f.type = "collector_state" /\ f.state = "resumed"}}
<1>3. summary.longest = Max({0} \cup S)
  <2>1. {0} \cup S \in SUBSET Int
    BY <1>0 DEF Those, Event
  <2>2. LongestShown(summary, stored)
    BY <1>0 DEF Observed
  <2>3. summary.longest \in {0} \cup S
    BY <2>2 DEF LongestShown, Those, Stored, IsGap
  <2>4. \A x \in {0} \cup S : x <= summary.longest
    BY <2>2 DEF LongestShown, Those, Stored, IsGap
  <2> HIDE DEF S
  <2> QED BY <2>1, <2>3, <2>4, MaxIs
<1>4. summary.targets = {e.value : e \in {f \in Those : f.type = "exception"}} \ {0}
  BY <1>0 DEF Observed, TargetsShown, Faults, Those, Stored
<1> QED BY <1>1, <1>2, <1>3, <1>4 DEF ObservationsStand

\* Its counters.
LEMMA ShownCounts == IInv => TypeOK /\ CountersNeverShort
<1> SUFFICES ASSUME IInv PROVE TypeOK /\ CountersNeverShort
  OBVIOUS
<1>1. CountsShown(summary, stored) /\ PingsShown(summary, stored)
  BY DEF IInv, Shows
<1>2. /\ summary.events \in Nat /\ stored <= summary.events /\ summary.events <= MaxFile
      /\ stored \in Nat /\ Len(sent) \in Nat /\ stored \in 0 .. Len(sent) /\ MaxFile \in Nat
  BY <1>1, RecordedIsRun, RunSummaryAssumption DEF IInv, CountsShown
<1>3. TypeOK
  <2>1. summary.counts \in [Counters -> 0 .. MaxFile]
    BY <1>1, <1>2 DEF CountsShown
  <2>2. summary.pingToClose \subseteq Int
    BY <1>1 DEF PingsShown
  <2>3. late \in BOOLEAN
    BY DEF IInv
  <2> QED BY <1>2, <2>1, <2>2, <2>3 DEF TypeOK
<1>4. ASSUME NEW c \in Counters
      PROVE  /\ summary.counts[c] >= Occurrences(c)
             /\ summary.counts[c] <= Occurrences(c) + summary.events - stored
  <2>1. Occurrences(c) = Cardinality(Counting(c, stored))
    BY DEF Occurrences, Counting, Stored
  <2>2. Cardinality(Counting(c, stored)) \in Nat
    <3>1. IsFiniteSet(1 .. stored) /\ Counting(c, stored) \in SUBSET (1 .. stored)
      BY <1>2, FS_Interval DEF Counting
    <3> QED BY <3>1, FS_Subset, FS_CardinalityType
  <2>3. summary.counts[c] \in Nat
    BY <1>1 DEF CountsShown
  <2> QED BY <1>1, <1>2, <2>1, <2>2, <2>3 DEF CountsShown
<1> QED BY <1>3, <1>4 DEF CountersNeverShort

\* Its slices.
LEMMA ShownSlices == IInv => NoSliceHidden
<1> SUFFICES ASSUME IInv PROVE NoSliceHidden
  OBVIOUS
<1>1. SlicesShown(summary, stored)
  BY DEF IInv, Shows
<1>2. FaultIndices = Faults(stored)
  BY DEF FaultIndices, Faults, Stored
<1>3. Cardinality(FreshFaults(stored)) \in Nat
  <2>1. stored \in Nat /\ FreshFaults(stored) \in SUBSET (1 .. stored)
    BY RecordedIsRun DEF IInv, FreshFaults, Faults
  <2>2. IsFiniteSet(1 .. stored)
    BY <2>1, FS_Interval
  <2> QED BY <2>1, <2>2, FS_Subset, FS_CardinalityType
<1> QED BY <1>1, <1>2, <1>3 DEF NoSliceHidden, SlicesShown, FreshFaults

\* The summary's columns of what was observed and counted are right for every run, however
\* its batches are repeated and delayed.
THEOREM SummaryIsRight == Spec => []SummaryInv
<1>1. IInv => SummaryInv
  BY ShownObservations, ShownCounts, ShownSlices DEF SummaryInv
<1> QED BY <1>1, Invariant, PTL

\* The columns with a last value show it, for every run, unless a copy of a batch comes late.
THEOREM LatestIsLast == Spec => []LatestUnlessLate
<1>1. IInv => LatestUnlessLate
  <2> SUFFICES ASSUME IInv, ~late, NEW c \in DOMAIN summary.latest
               PROVE  summary.latest[c] = Latest(LastSetting(c))[c]
    BY DEF LatestUnlessLate
  <2>1. PICK k : IsLast(k, Setting(c, 1, stored)) /\ summary.latest[c] = Latest(sent[k])[c]
    BY DEF IInv, ShowsLast, LatestShown
  <2>2. Setting(c, 1, stored) = {i \in Stored : c \in DOMAIN Latest(sent[i])}
    BY DEF Setting, Stored
  <2>3. Max(Setting(c, 1, stored)) = k
    <3>1. Setting(c, 1, stored) \in SUBSET Int
      BY DEF Setting
    <3> QED BY <2>1, <3>1, MaxIs DEF IsLast
  <2> QED BY <2>1, <2>2, <2>3 DEF LastSetting
<1> QED BY <1>1, Invariant, PTL

\* The start, the end and the duration of a run whose end is stored stay what they are, for
\* every run and whatever copies come after it.
THEOREM EndedRunStays == Spec => []EndedRunStandsStill
<1>1. IInv => EndedRunStandsStill
  <2> SUFFICES ASSUME IInv, NEW e \in Those, e.type = "session_end"
               PROVE  /\ summary.started = sent[1].at
                      /\ summary.latest.ended = e.at
                      /\ Duration(summary) = IF e.at >= sent[1].at THEN {e.at - sent[1].at} ELSE {}
    BY DEF EndedRunStandsStill
  <2>1. PICK i \in 1 .. stored : e = sent[i]
    BY DEF Those, Stored
  <2>2. stored > 0 /\ EndShown(summary, stored) /\ ColumnsShown(summary, stored)
    BY RecordedIsRun, <2>1 DEF IInv, Shows, Observed
  <2>3. summary.started = sent[1].at /\ summary.latest["ended"] = e.at
    BY <2>1, <2>2 DEF EndShown
  <2>4. "ended" \in DOMAIN summary.latest
    BY <2>1, <2>2, LatestEnds DEF ColumnsShown, ColumnsOf
  <2> QED BY <2>3, <2>4 DEF Duration
<1> QED BY <1>1, Invariant, PTL

\* The interval from the last response of a Ping to a close is one of the recorded events, and
\* the last one unless a copy comes late or a response is of the time of a close before it.
THEOREM IntervalIsTrue == Spec => []PingToCloseIsTrue
<1>1. IInv => PingBeforeClose
  BY DEF IInv, Shows, PingsShown, IsInterval, PingBeforeClose, PingsOf, ClosesOf, Pings, Closes, Stored
<1>2. IInv => PingToCloseUnlessLate
  <2> SUFFICES ASSUME IInv, ~late, ~ \E i \in Pings, j \in Closes : j < i /\ sent[i].at <= sent[j].at
               PROVE  summary.pingToClose =
                        IF Measured = {} THEN {}
                        ELSE {sent[Max(Measured)].at - sent[LastPing(Max(Measured))].at}
    BY DEF PingToCloseUnlessLate
  <2>1. Pings = PingsOf(stored) /\ Closes = ClosesOf(stored) /\ stored \in Nat
    BY RecordedIsRun DEF IInv, Pings, Closes, PingsOf, ClosesOf, Stored
  <2>2. IntervalShown(summary, stored) /\ ~Untimely(stored)
    BY <2>1 DEF IInv, ShowsLast, Untimely
  <2>3. ASSUME NEW k \in Closes
        PROVE  /\ {i \in Pings : i < k} = PingsIn(1, k - 1)
               /\ \A p : IsLast(p, PingsIn(1, k - 1)) => LastPing(k) = p
    <3>1. k \in 1 .. stored
      BY <2>1 DEF ClosesOf
    <3>2. {i \in Pings : i < k} = PingsIn(1, k - 1) /\ PingsIn(1, k - 1) \in SUBSET Int
      BY <2>1, <3>1 DEF PingsOf, PingsIn
    <3>3. ASSUME NEW p, IsLast(p, PingsIn(1, k - 1)) PROVE LastPing(k) = p
      <4>1. Max(PingsIn(1, k - 1)) = p
        BY <3>2, <3>3, MaxIs DEF IsLast
      <4> QED BY <3>2, <4>1 DEF LastPing
    <3> QED BY <3>2, <3>3
  <2>4. Measured = MeasuredOf(stored)
    <3>1. ASSUME NEW k \in Closes
          PROVE  (\E i \in Pings : i < k /\ sent[LastPing(k)].at <= sent[k].at)
                   <=> \E p : IsLast(p, PingsIn(1, k - 1)) /\ sent[p].at <= sent[k].at
      <4>1. CASE PingsIn(1, k - 1) = {}
        BY <2>3, <4>1 DEF IsLast
      <4>2. CASE PingsIn(1, k - 1) # {}
        <5>1. PICK p : IsLast(p, PingsIn(1, k - 1))
          <6>1. stored \in Nat /\ PingsIn(1, k - 1) \in SUBSET (0 .. stored)
            BY <2>1 DEF PingsIn, ClosesOf
          <6>2. Max(PingsIn(1, k - 1)) \in PingsIn(1, k - 1)
                  /\ \A x \in PingsIn(1, k - 1) : x <= Max(PingsIn(1, k - 1))
            BY <4>2, <6>1, MaxExists
          <6> QED BY <6>2 DEF IsLast
        <5>2. LastPing(k) = p /\ \E i \in Pings : i < k
          BY <2>3, <4>2, <5>1
        <5>3. \A q : IsLast(q, PingsIn(1, k - 1)) => q = p
          BY <2>3, <5>2
        <5> QED BY <5>1, <5>2, <5>3
      <4> QED BY <4>1, <4>2
    <3> QED BY <2>1, <3>1 DEF Measured, MeasuredOf
  <2>5. CASE MeasuredOf(stored) = {} /\ summary.pingToClose = {}
    BY <2>4, <2>5
  <2>6. CASE \E k, p : /\ IsLast(k, MeasuredOf(stored)) /\ IsLast(p, PingsIn(1, k - 1))
                       /\ summary.pingToClose = {sent[k].at - sent[p].at}
    <3>1. PICK k, p : /\ IsLast(k, MeasuredOf(stored)) /\ IsLast(p, PingsIn(1, k - 1))
                      /\ summary.pingToClose = {sent[k].at - sent[p].at}
      BY <2>6
    <3>2. MeasuredOf(stored) \in SUBSET Int /\ k \in MeasuredOf(stored) /\ k \in Closes
      BY <2>1, <3>1 DEF IsLast, MeasuredOf, ClosesOf
    <3>3. Max(Measured) = k /\ Measured # {}
      BY <2>4, <3>1, <3>2, MaxIs DEF IsLast
    <3>4. LastPing(k) = p
      BY <2>3, <3>1, <3>2
    <3> QED BY <3>1, <3>3, <3>4
  <2> QED BY <2>2, <2>5, <2>6 DEF IntervalShown
<1>3. IInv => PingToCloseIsTrue
  BY <1>1, <1>2 DEF PingToCloseIsTrue
<1> QED BY <1>3, Invariant, PTL
=============================================================================
