---------------------------- MODULE LogTailProofs ----------------------------
(***************************************************************************)
(* Proofs about LogTail: whatever the writer does between two steps of a   *)
(* poll, a tailer repeats, skips and splices nothing of a log, but of one  *)
(* that goes on unnoticed in another.                                      *)
(***************************************************************************)
EXTENDS LogTail, SequenceTheorems, TLAPS

-----------------------------------------------------------------------------
\* The inductive invariant: LogTailInv and NoSplicedLine, and why they hold.

\* An incomplete line is one cell: the last one that was read.
HalfLine ==
  \/ partial = <<>>
  \/ /\ Len(partial) = 1 /\ partial[1][2] = offset /\ offset % 2 = 1
     /\ partial[1][1] = reading \/ {partial[1][1], reading} \subseteq mixed

WholeLines == out # <<>> => IsEnd(out[Len(out)])

\* NoSplicedLine, of the incomplete line as well.
NoSplicedText ==
  \A i \in 1 .. Len(Text) - 1 :
    \/ IsEnd(Text[i])
    \/ Text[i + 1] = <<Text[i][1], Text[i][2] + 1>>
    \/ {Text[i][1], Text[i + 1][1]} \subseteq mixed

CellsBelowOffset ==
  reading \notin mixed => \A i \in DOMAIN Text : Text[i][1] = reading => Text[i][2] <= offset

\* The invariant of what was read.
TextInv == FollowsOn /\ ReachesOffset /\ NoSplicedText /\ CellsBelowOffset /\ HalfLine /\ WholeLines

\* The inodes that the tailer may read, or look at, before a file is created anew.
Live == ({path} \cup IF tailer = "probe" THEN {looked} ELSE {}) \ {0}

Touched == {joined.log, reading} \cup {Text[i][1] : i \in DOMAIN Text}

\* A log that was begun and can still be read is the one that is being read.
LiveIsRead ==
  \A i \in Live :
    files[i].log \in Touched \ mixed => files[i].log = reading /\ offset <= files[i].len

\* A file that came to the path since the look at the other is new.
NewIsUntouched ==
  path # 0 /\ (IF tailer = "probe" THEN looked \notin {0, path} ELSE known \notin {0, path})
    => files[path].log \in mixed \/ files[path].log \notin Touched

LiveDiffer ==
  tailer = "probe" /\ path # 0 /\ looked \notin {0, path} => files[path].log # files[looked].log

LooksAtKnown == looked # 0 => known # 0 /\ (tailer = "probe" \/ looked = known)

LogsAreBegun ==
  /\ \A i \in Inodes : files[i].log <= logs
  /\ Touched \cup mixed \subseteq 0 .. logs

UnknownIsUnread ==
  known = 0 =>
    /\ offset = 0 /\ partial = <<>> /\ out = <<>> /\ reading = 0 /\ mixed = {}
    /\ looked = 0 /\ joined = [log |-> 0, at |-> 0]

\* The invariant of the files.
FilesInv ==
  LiveIsRead /\ NewIsUntouched /\ LiveDiffer /\ LooksAtKnown /\ LogsAreBegun /\ UnknownIsUnread

IInv == TypeOK /\ TextInv /\ FilesInv

-----------------------------------------------------------------------------
\* Numbers and sequences.

LEMMA ConstantTypes ==
  /\ Inodes \subseteq Nat \ {0} /\ 1 \in Inodes
  /\ Chunk \in Nat \ {0} /\ MaxLogs \in Nat \ {0}
  /\ MaxLen \in Nat /\ MaxFills \in Nat /\ MaxRuns \in Nat
BY LogTailAssumption DEF LogTailAssumption

LEMMA Parity ==
  ASSUME NEW n \in Nat
  PROVE  /\ n % 2 = 0 \/ n % 2 = 1
         /\ n % 2 = 0 => (n + 1) % 2 = 1
         /\ n % 2 = 1 => (n + 1) % 2 = 0
OBVIOUS

LEMMA CellParts ==
  ASSUME NEW cell \in Cell
  PROVE  /\ cell[1] \in 1 .. MaxLogs /\ cell[2] \in 1 .. MaxLen
         /\ cell = <<cell[1], cell[2]>>
BY DEF Cell

LEMMA MinOfTwo ==
  ASSUME NEW a \in Nat, NEW b \in Nat
  PROVE  Min({a, b}) = IF a <= b THEN a ELSE b
<1> DEFINE m == IF a <= b THEN a ELSE b
<1>1. m \in {a, b} /\ \A y \in {a, b} : m <= y
  OBVIOUS
<1>2. \A x \in {a, b} : (\A y \in {a, b} : x <= y) => x = m
  OBVIOUS
<1> HIDE DEF m
<1>3. Min({a, b}) = m
  BY <1>1, <1>2 DEF Min
<1> QED BY <1>3 DEF m

LEMMA CompleteIs ==
  ASSUME NEW text \in Seq(Cell), NEW n \in 0 .. Len(text), n = 0 \/ IsEnd(text[n]),
         \A k \in n + 1 .. Len(text) : ~IsEnd(text[k])
  PROVE  Complete(text) = n
<1> DEFINE S == {0} \cup {i \in DOMAIN text : IsEnd(text[i])}
<1>1. DOMAIN text = 1 .. Len(text) /\ Len(text) \in Nat
  OBVIOUS
<1>2. n \in S /\ S \subseteq 0 .. Len(text)
  BY <1>1
<1>3. \A y \in S : n >= y
  <2> SUFFICES ASSUME NEW y \in S, y > n PROVE FALSE
    BY <1>2
  <2>1. y \in n + 1 .. Len(text) /\ y # 0
    BY <1>2
  <2> QED BY <2>1
<1> HIDE DEF S
<1>4. \A x \in S : (\A y \in S : x >= y) => x = n
  BY <1>2, <1>3
<1>5. Max(S) = n
  BY <1>2, <1>3, <1>4 DEF Max
<1> QED BY <1>5 DEF Complete, S

\* The cells of one read.
Data(file, from) == SubSeq(Cells(file), from + 1, Min({file.len, from + Chunk}))

LEMMA DataOfRead ==
  ASSUME NEW file \in [log : 1 .. MaxLogs, len : 0 .. MaxLen], NEW from \in 0 .. MaxLen
  PROVE  LET data == Data(file, from)
         IN  /\ data \in Seq(Cell)
             /\ Len(data) = 0 \/ from + Len(data) <= file.len
             /\ \A k \in 1 .. Len(data) : data[k] = <<file.log, from + k>>
<1> DEFINE m == Min({file.len, from + Chunk})
           cells == Cells(file)
           data == SubSeq(cells, from + 1, m)
<1>1. file.len \in 0 .. MaxLen /\ file.log \in 1 .. MaxLogs /\ MaxLen \in Nat /\ Chunk \in Nat
  BY ConstantTypes
<1>2. m \in Nat /\ m <= file.len
  BY <1>1, MinOfTwo
<1> HIDE DEF m
<1>3. \A k \in 1 .. file.len : cells[k] = <<file.log, k>> /\ cells[k] \in Cell
  BY <1>1 DEF Cells, Cell
<1> HIDE DEF cells
<1>4. \A i \in from + 1 .. m : cells[i] \in Cell
  BY <1>1, <1>2, <1>3
<1>5. /\ data \in Seq(Cell)
      /\ Len(data) = IF from + 1 <= m THEN m - (from + 1) + 1 ELSE 0
      /\ \A i \in 1 .. m - (from + 1) + 1 : data[i] = cells[from + 1 + i - 1]
  BY <1>1, <1>2, <1>4, SubSeqProperties
<1> HIDE DEF data
<1>6. Len(data) = 0 \/ from + Len(data) <= file.len
  BY <1>1, <1>2, <1>5
<1>7. ASSUME NEW k \in 1 .. Len(data) PROVE data[k] = <<file.log, from + k>>
  <2>1. k \in 1 .. m - (from + 1) + 1 /\ from + 1 + k - 1 = from + k /\ from + k \in 1 .. file.len
    BY <1>1, <1>2, <1>5
  <2> QED BY <1>3, <1>5, <2>1
<1> QED BY <1>5, <1>6, <1>7 DEF Data, data, m, cells

\* The cells of a log behind some place, and what may be left of a line up to there.
AreCellsOf(d, log, from) == \A k \in 1 .. Len(d) : d[k] = <<log, from + k>>
IsHalf(p, from) == p = <<>> \/ (Len(p) = 1 /\ p[1][2] = from /\ from % 2 = 1)

\* Where the complete lines end, when a read goes on behind at most one cell.
LEMMA CompleteOfRead ==
  ASSUME NEW p \in Seq(Cell), NEW d \in Seq(Cell), NEW from \in Nat, NEW log,
         IsHalf(p, from), AreCellsOf(d, log, from)
  PROVE  LET text == p \o d
         IN  /\ Complete(text) \in 0 .. Len(text)
             /\ Complete(text) = 0 \/ IsEnd(text[Complete(text)])
             /\ \/ Complete(text) = Len(text)
                \/ /\ Complete(text) = Len(text) - 1
                   /\ (from + Len(d)) % 2 = 1
                   /\ text[Len(text)][2] = from + Len(d)
                   /\ IF d = <<>> THEN text = p ELSE text[Len(text)] = <<log, from + Len(d)>>
<1> DEFINE text == p \o d
           n == Len(text)
           e == from + Len(d)
<1> USE DEF IsHalf, AreCellsOf
<1>1. text \in Seq(Cell) /\ n = Len(p) + Len(d) /\ Len(p) \in {0, 1} /\ Len(d) \in Nat /\ n \in Nat /\ e \in Nat
  OBVIOUS
<1>2. \A k \in 1 .. Len(d) : text[Len(p) + k] = <<log, from + k>>
  <2> SUFFICES ASSUME NEW k \in 1 .. Len(d) PROVE text[Len(p) + k] = d[k]
    OBVIOUS
  <2> QED BY <1>1, ConcatProperties
<1>3. \A k \in 1 .. Len(p) : text[k] = p[k]
  BY <1>1, ConcatProperties
<1>4. d = <<>> => text = p
  BY ConcatEmptySeq
<1>5. d = <<>> <=> Len(d) = 0
  OBVIOUS
<1>6. p = <<>> <=> Len(p) = 0
  OBVIOUS
<1> HIDE DEF text, n, e
<1>7. \A k \in 1 .. n : text[k][2] = e - n + k
  <2> SUFFICES ASSUME NEW k \in 1 .. n PROVE text[k][2] = e - n + k
    OBVIOUS
  <2>1. CASE k <= Len(p)
    <3>1. k = 1 /\ Len(p) = 1 /\ text[k] = p[1]
      BY <1>1, <1>3, <2>1
    <3>2. p[1][2] = from
      BY <1>6, <3>1
    <3>3. e - n + k = from
      BY <1>1, <3>1 DEF e
    <3> QED BY <3>1, <3>2, <3>3
  <2>2. CASE k > Len(p)
    <3>1. k - Len(p) \in 1 .. Len(d) /\ Len(p) + (k - Len(p)) = k
      BY <1>1, <2>2
    <3>2. text[k] = <<log, from + (k - Len(p))>>
      BY <1>2, <3>1
    <3> QED BY <1>1, <3>1, <3>2 DEF e
  <2> QED BY <1>1, <2>1, <2>2
<1>8. n > 0 => text[n][2] = e
  <2>1. n > 0 => n \in 1 .. n
    BY <1>1
  <2>2. e - n + n = e
    BY <1>1
  <2> QED BY <1>7, <2>1, <2>2
<1>9. CASE n = 0
  <2>1. 0 \in 0 .. Len(text) /\ \A k \in 0 + 1 .. Len(text) : ~IsEnd(text[k])
    BY <1>9 DEF n
  <2>2. Complete(text) = 0
    BY <1>1, <2>1, CompleteIs
  <2> QED BY <1>1, <1>9, <2>2 DEF text, n, e
<1>10. CASE n > 0 /\ e % 2 = 0
  <2>1. IsEnd(text[n])
    BY <1>8, <1>10 DEF IsEnd
  <2>2. n \in 0 .. Len(text) /\ \A k \in n + 1 .. Len(text) : ~IsEnd(text[k])
    BY <1>1 DEF n
  <2>3. Complete(text) = n
    BY <1>1, <2>1, <2>2, CompleteIs
  <2> QED BY <1>1, <2>1, <2>3 DEF text, n, e
<1>11. CASE n > 0 /\ e % 2 = 1
  <2>1. ~IsEnd(text[n])
    BY <1>8, <1>11 DEF IsEnd
  <2>2. n - 1 = 0 \/ IsEnd(text[n - 1])
    <3> SUFFICES ASSUME n > 1 PROVE IsEnd(text[n - 1])
      BY <1>1, <1>11
    <3>1. text[n - 1][2] = e - 1 /\ e - 1 \in Nat /\ e - 1 + 1 = e
      <4>1. n - 1 \in 1 .. n /\ e - n + (n - 1) = e - 1
        BY <1>1
      <4>2. e - 1 \in Nat
        BY <1>1, <1>5 DEF e
      <4> QED BY <1>1, <1>7, <4>1, <4>2
    <3>2. (e - 1) % 2 = 0
      BY <1>11, <3>1, Parity
    <3> QED BY <3>1, <3>2 DEF IsEnd
  <2>3. n - 1 \in 0 .. Len(text) /\ \A k \in n - 1 + 1 .. Len(text) : ~IsEnd(text[k])
    BY <1>1, <1>11, <2>1 DEF n
  <2>4. Complete(text) = n - 1
    BY <1>1, <2>2, <2>3, CompleteIs
  <2>5. IF d = <<>> THEN text = p ELSE text[n] = <<log, e>>
    <3>1. CASE d # <<>>
      <4>1. Len(d) \in 1 .. Len(d) /\ Len(p) + Len(d) = n
        BY <1>1, <1>5, <3>1
      <4> QED BY <1>2, <3>1, <4>1 DEF e
    <3> QED BY <1>4, <3>1
  <2> QED BY <1>1, <1>8, <1>11, <2>2, <2>4, <2>5 DEF text, n, e
<1> QED BY <1>1, <1>9, <1>10, <1>11, Parity DEF text, n, e
-----------------------------------------------------------------------------
\* The invariant holds in the beginning, and the writer keeps it.

LEMMA InitIInv == Init => IInv
<1> SUFFICES ASSUME Init PROVE IInv
  OBVIOUS
<1>1. Text = <<>> /\ DOMAIN Text = {} /\ Len(Text) = 0
  <2>1. out = <<>> /\ partial = <<>>
    BY DEF Init
  <2> QED BY <2>1 DEF Text
<1>2. TypeOK
  BY ConstantTypes DEF Init, TypeOK
<1>3. TextInv
  BY <1>1 DEF Init, TextInv, FollowsOn, ReachesOffset, NoSplicedText, CellsBelowOffset, HalfLine,
              WholeLines, First
<1>4. Touched = {0}
  BY <1>1 DEF Init, Touched
<1>5. \A i \in Inodes : files[i].log = 1
  BY DEF Init
<1>6. Live \subseteq Inodes
  BY ConstantTypes DEF Init, Live
<1>7. LiveIsRead /\ LogsAreBegun
  BY <1>4, <1>5, <1>6 DEF Init, LiveIsRead, LogsAreBegun
<1>8. NewIsUntouched /\ LiveDiffer /\ LooksAtKnown /\ UnknownIsUnread
  BY DEF Init, NewIsUntouched, LiveDiffer, LooksAtKnown, UnknownIsUnread
<1> QED BY <1>2, <1>3, <1>7, <1>8 DEF IInv, FilesInv

\* What the files are, and that a live one is there.
LEMMA FileTypes ==
  ASSUME TypeOK
  PROVE  /\ \A i \in Inodes : files[i].log \in 1 .. MaxLogs /\ files[i].len \in 0 .. MaxLen
         /\ \A i \in Inodes : files[i] \in [log : 1 .. MaxLogs, len : 0 .. MaxLen]
         /\ Live \subseteq Inodes
         /\ path # 0 => path \in Live /\ path \in Inodes
         /\ tailer = "probe" /\ looked # 0 => looked \in Live
         /\ looked # 0 => looked \in Inodes
         /\ 0 \notin Inodes
<1>1. 0 \notin Inodes
  BY ConstantTypes
<1>2. path \in Inodes \cup {0} /\ looked \in Inodes \cup {0}
  BY DEF TypeOK
<1>3. files \in [Inodes -> [log : 1 .. MaxLogs, len : 0 .. MaxLen]]
  BY DEF TypeOK
<1> QED BY <1>1, <1>2, <1>3 DEF Live

\* A step of the writer or of the queue changes nothing of what was read.
LEMMA EnvText ==
  ASSUME TextInv, UNCHANGED tail
  PROVE  TextInv' /\ Text' = Text /\ Touched' = Touched
<1>1. Text' = Text /\ Touched' = Touched
  BY DEF tail, Text, Touched
<1>2. \A log : First(log)' = First(log)
  BY DEF tail, First
<1>3. FollowsOn' /\ ReachesOffset'
  BY <1>1, <1>2 DEF tail, TextInv, FollowsOn, ReachesOffset
<1>4. NoSplicedText' /\ CellsBelowOffset' /\ HalfLine' /\ WholeLines'
  BY <1>1 DEF tail, TextInv, NoSplicedText, CellsBelowOffset, HalfLine, WholeLines
<1> QED BY <1>1, <1>3, <1>4 DEF TextInv

LEMMA WriteIInv == IInv /\ Write => IInv'
<1> SUFFICES ASSUME IInv, Write PROVE IInv'
  OBVIOUS
<1>1. TextInv' /\ Text' = Text /\ Touched' = Touched
  BY EnvText DEF IInv, Write
<1>2. /\ path' = path /\ tailer' = tailer /\ looked' = looked /\ known' = known /\ offset' = offset
      /\ reading' = reading /\ mixed' = mixed /\ logs' = logs
  BY DEF Write, tail
<1>3. Live' = Live /\ path \in Inodes
  BY <1>2, FileTypes DEF Live, IInv, Write
<1> DEFINE longer == [files[path] EXCEPT !.len = files[path].len + 1]
<1>4. longer.log = files[path].log /\ longer.len = files[path].len + 1
  BY <1>3, FileTypes DEF IInv
<1>5. longer \in [log : 1 .. MaxLogs, len : 0 .. MaxLen]
  <2>1. files[path].len < MaxLen /\ files[path].len \in 0 .. MaxLen /\ MaxLen \in Nat
    BY <1>3, FileTypes, ConstantTypes DEF IInv, Write
  <2>2. files[path].len + 1 \in 0 .. MaxLen
    BY <2>1
  <2> QED BY <1>3, <2>2, FileTypes DEF IInv
<1>6. files' = [files EXCEPT ![path] = longer]
  BY DEF Write
<1> HIDE DEF longer
<1>7. \A i \in Inodes :
        files'[i].log = files[i].log /\ files[i].len <= files'[i].len /\ files'[i].len \in 0 .. MaxLen
  <2> SUFFICES ASSUME NEW i \in Inodes
               PROVE  /\ files'[i].log = files[i].log /\ files[i].len <= files'[i].len
                      /\ files'[i].len \in 0 .. MaxLen
    OBVIOUS
  <2>1. i \in DOMAIN files /\ files[i].len \in 0 .. MaxLen /\ MaxLen \in Nat
    BY FileTypes, ConstantTypes DEF IInv, TypeOK
  <2>2. CASE i = path
    <3>1. files'[i] = longer
      BY <1>6, <2>1, <2>2
    <3>2. files[i].len <= longer.len
      BY <1>4, <2>1, <2>2
    <3> QED BY <1>4, <1>5, <2>2, <3>1, <3>2
  <2>3. CASE i # path
    BY <1>6, <2>1, <2>3
  <2> QED BY <2>2, <2>3
<1>8. files' \in [Inodes -> [log : 1 .. MaxLogs, len : 0 .. MaxLen]]
  BY <1>5, <1>6 DEF IInv, TypeOK
<1>9. TypeOK'
  BY <1>8 DEF IInv, TypeOK, Write, tail
<1>10. LiveIsRead'
  <2> SUFFICES ASSUME NEW i \in Live, files'[i].log \in Touched \ mixed
               PROVE  files'[i].log = reading /\ offset <= files'[i].len
    BY <1>1, <1>2, <1>3 DEF LiveIsRead
  <2>1. i \in Inodes /\ offset \in Nat
    BY FileTypes, ConstantTypes DEF IInv, TypeOK
  <2>2. files[i].log = reading /\ offset <= files[i].len
    BY <1>7, <2>1 DEF IInv, FilesInv, LiveIsRead
  <2> QED BY <1>7, <2>1, <2>2, FileTypes, ConstantTypes DEF IInv
<1>11. NewIsUntouched' /\ LiveDiffer'
  <2>1. looked \in Inodes \cup {0}
    BY DEF IInv, TypeOK
  <2> QED BY <1>1, <1>2, <1>3, <1>7, <2>1 DEF IInv, FilesInv, NewIsUntouched, LiveDiffer
<1>12. LooksAtKnown' /\ LogsAreBegun' /\ UnknownIsUnread'
  BY <1>1, <1>2, <1>7 DEF Write, tail, IInv, FilesInv, LooksAtKnown, LogsAreBegun, UnknownIsUnread
<1> QED BY <1>1, <1>9, <1>10, <1>11, <1>12 DEF IInv, FilesInv

\* A log that begins now is none that the tailer knows.
LEMMA NewLog ==
  ASSUME IInv, logs < MaxLogs
  PROVE  /\ logs + 1 \in 1 .. MaxLogs
         /\ logs + 1 \notin Touched
         /\ \A i \in Inodes : files[i].log # logs + 1
<1>1. logs \in 1 .. MaxLogs /\ MaxLogs \in Nat
  BY ConstantTypes DEF IInv, TypeOK
<1>2. Touched \subseteq 0 .. logs /\ \A i \in Inodes : files[i].log <= logs
  BY DEF IInv, FilesInv, LogsAreBegun
<1>3. logs + 1 \notin 0 .. logs
  BY <1>1
<1>4. \A i \in Inodes : files[i].log # logs + 1
  <2> SUFFICES ASSUME NEW i \in Inodes, files[i].log = logs + 1 PROVE FALSE
    OBVIOUS
  <2> QED BY <1>1, <1>2
<1> QED BY <1>1, <1>2, <1>3, <1>4

LEMMA TruncateIInv == IInv /\ Truncate => IInv'
<1> SUFFICES ASSUME IInv, Truncate PROVE IInv'
  OBVIOUS
<1> DEFINE new == logs + 1
<1>1. TextInv' /\ Text' = Text /\ Touched' = Touched
  BY EnvText DEF IInv, Truncate
<1>2. /\ path' = path /\ tailer' = tailer /\ looked' = looked /\ known' = known /\ offset' = offset
      /\ reading' = reading /\ mixed' = mixed /\ logs' = new
  BY DEF Truncate, tail
<1>3. Live' = Live /\ path \in Inodes
  BY <1>2, FileTypes DEF Live, IInv, Truncate
<1>4. new \in 1 .. MaxLogs /\ new \notin Touched /\ \A i \in Inodes : files[i].log # new
  BY NewLog DEF IInv, Truncate
<1>5. /\ files'[path].log = new
      /\ \A i \in Inodes : i # path => files'[i] = files[i]
  BY <1>3 DEF IInv, TypeOK, Truncate
<1>6. files' \in [Inodes -> [log : 1 .. MaxLogs, len : 0 .. MaxLen]]
  <2>1. [log |-> new, len |-> 0] \in [log : 1 .. MaxLogs, len : 0 .. MaxLen]
    BY <1>4, ConstantTypes
  <2> QED BY <2>1 DEF IInv, TypeOK, Truncate
<1>7. logs \in Nat /\ new \in Nat /\ logs <= new
  BY ConstantTypes DEF IInv, TypeOK
<1>8. TypeOK'
  BY <1>2, <1>4, <1>6 DEF IInv, TypeOK, Truncate, tail
<1>9. LogsAreBegun'
  <2>1. \A i \in Inodes : files'[i].log <= new
    <3> SUFFICES ASSUME NEW i \in Inodes PROVE files'[i].log <= new
      OBVIOUS
    <3>1. CASE i = path
      BY <1>5, <1>7, <3>1
    <3>2. CASE i # path
      <4>1. files'[i].log = files[i].log /\ files[i].log <= logs /\ files[i].log \in Nat
        BY <1>5, <3>2, FileTypes, ConstantTypes DEF IInv, FilesInv, LogsAreBegun
      <4> QED BY <1>7, <4>1
    <3> QED BY <3>1, <3>2
  <2>2. Touched \cup mixed \subseteq 0 .. new
    BY <1>7 DEF IInv, FilesInv, LogsAreBegun
  <2> QED BY <1>1, <1>2, <2>1, <2>2 DEF LogsAreBegun
<1> HIDE DEF new
<1>10. LiveIsRead'
  <2> SUFFICES ASSUME NEW i \in Live, files'[i].log \in Touched \ mixed
               PROVE  files'[i].log = reading /\ offset <= files'[i].len
    BY <1>1, <1>2, <1>3 DEF LiveIsRead
  <2>1. i # path /\ i \in Inodes
    BY <1>4, <1>5, FileTypes DEF IInv
  <2> QED BY <1>5, <2>1 DEF IInv, FilesInv, LiveIsRead
<1>11. NewIsUntouched' /\ LiveDiffer'
  <2>1. looked \in Inodes \cup {0}
    BY DEF IInv, TypeOK
  <2> QED BY <1>1, <1>2, <1>4, <1>5, <2>1 DEF NewIsUntouched, LiveDiffer
<1>12. LooksAtKnown' /\ UnknownIsUnread'
  BY <1>2 DEF Truncate, tail, IInv, FilesInv, LooksAtKnown, UnknownIsUnread
<1> QED BY <1>1, <1>8, <1>9, <1>10, <1>11, <1>12 DEF IInv, FilesInv

LEMMA CreateIInv == IInv /\ Create => IInv'
<1> SUFFICES ASSUME IInv, Create PROVE IInv'
  OBVIOUS
<1> DEFINE new == logs + 1
<1>1. TextInv' /\ Text' = Text /\ Touched' = Touched
  BY EnvText DEF IInv, Create
<1>2. /\ tailer' = tailer /\ looked' = looked /\ known' = known /\ offset' = offset
      /\ reading' = reading /\ mixed' = mixed /\ logs' = new /\ path = 0
  BY DEF Create, tail
<1>3. PICK created \in Inodes :
        /\ tailer = "probe" => created # looked
        /\ path' = created
        /\ files' = [files EXCEPT ![created] = [log |-> new, len |-> 0]]
  BY DEF Create
<1>4. new \in 1 .. MaxLogs /\ new \notin Touched /\ \A i \in Inodes : files[i].log # new
  BY NewLog DEF IInv, Create
<1>5. /\ files'[created].log = new
      /\ \A i \in Inodes : i # created => files'[i] = files[i]
  BY <1>3 DEF IInv, TypeOK
<1>6. files' \in [Inodes -> [log : 1 .. MaxLogs, len : 0 .. MaxLen]]
  <2>1. [log |-> new, len |-> 0] \in [log : 1 .. MaxLogs, len : 0 .. MaxLen]
    BY <1>4, ConstantTypes
  <2> QED BY <1>3, <2>1 DEF IInv, TypeOK
<1>7. logs \in Nat /\ new \in Nat /\ logs <= new
  BY ConstantTypes DEF IInv, TypeOK
<1>8. TypeOK'
  BY <1>2, <1>3, <1>4, <1>6 DEF IInv, TypeOK, Create, tail
<1>9. LogsAreBegun'
  <2>1. \A i \in Inodes : files'[i].log <= new
    <3> SUFFICES ASSUME NEW i \in Inodes PROVE files'[i].log <= new
      OBVIOUS
    <3>1. CASE i = created
      BY <1>5, <1>7, <3>1
    <3>2. CASE i # created
      <4>1. files'[i].log = files[i].log /\ files[i].log <= logs /\ files[i].log \in Nat
        BY <1>5, <3>2, FileTypes, ConstantTypes DEF IInv, FilesInv, LogsAreBegun
      <4> QED BY <1>7, <4>1
    <3> QED BY <3>1, <3>2
  <2>2. Touched \cup mixed \subseteq 0 .. new
    BY <1>7 DEF IInv, FilesInv, LogsAreBegun
  <2> QED BY <1>1, <1>2, <2>1, <2>2 DEF LogsAreBegun
<1> HIDE DEF new
<1>10. Live' \subseteq Live \cup {created}
  BY <1>2, <1>3 DEF Live
<1>11. LiveIsRead'
  <2> SUFFICES ASSUME NEW i \in Live', files'[i].log \in Touched \ mixed
               PROVE  files'[i].log = reading /\ offset <= files'[i].len
    BY <1>1, <1>2 DEF LiveIsRead
  <2>1. i # created /\ i \in Live /\ i \in Inodes
    BY <1>4, <1>5, <1>10, FileTypes DEF IInv
  <2> QED BY <1>5, <2>1 DEF IInv, FilesInv, LiveIsRead
<1>12. NewIsUntouched' /\ LiveDiffer'
  <2>1. looked \in Inodes \cup {0}
    BY DEF IInv, TypeOK
  <2> QED BY <1>1, <1>2, <1>3, <1>4, <1>5, <2>1 DEF NewIsUntouched, LiveDiffer
<1>13. LooksAtKnown' /\ UnknownIsUnread'
  BY <1>2 DEF Create, tail, IInv, FilesInv, LooksAtKnown, UnknownIsUnread
<1> QED BY <1>1, <1>8, <1>9, <1>11, <1>12, <1>13 DEF IInv, FilesInv

LEMMA OtherEnvIInv == IInv /\ (Remove \/ Age \/ Fill \/ Drain) => IInv'
<1> SUFFICES ASSUME IInv, Remove \/ Age \/ Fill \/ Drain PROVE IInv'
  OBVIOUS
<1>1. UNCHANGED tail /\ files' = files /\ tailer' = tailer /\ logs' = logs /\ path' \in {path, 0}
  BY DEF Remove, Age, Fill, Drain
<1>2. TextInv' /\ Text' = Text /\ Touched' = Touched
  BY <1>1, EnvText DEF IInv
<1>3. Live' \subseteq Live
  BY <1>1 DEF Live, tail
<1>4. TypeOK'
  <2>1. recent' \in BOOLEAN /\ room' \in BOOLEAN
    BY DEF IInv, TypeOK, Remove, Age, Fill, Drain
  <2>2. fills' \in 0 .. MaxFills
    BY ConstantTypes DEF IInv, TypeOK, Remove, Age, Fill, Drain
  <2>3. runs' = runs
    BY DEF Remove, Age, Fill, Drain
  <2>4. path' \in Inodes \cup {0}
    BY <1>1 DEF IInv, TypeOK
  <2> QED BY <1>1, <2>1, <2>2, <2>3, <2>4 DEF IInv, TypeOK, tail
<1>5. LiveIsRead' /\ LogsAreBegun'
  BY <1>1, <1>2, <1>3 DEF IInv, FilesInv, LiveIsRead, LogsAreBegun, tail
<1>6. NewIsUntouched' /\ LiveDiffer' /\ LooksAtKnown' /\ UnknownIsUnread'
  BY <1>1, <1>2
  DEF IInv, FilesInv, NewIsUntouched, LiveDiffer, LooksAtKnown, UnknownIsUnread, tail
<1> QED BY <1>2, <1>4, <1>5, <1>6 DEF IInv, FilesInv
-----------------------------------------------------------------------------
\* The looks keep the invariant.

LEMMA JoinIInv == IInv /\ Join => IInv'
<1> SUFFICES ASSUME IInv, Join PROVE IInv'
  OBVIOUS
<1>1. /\ known = 0 /\ looked = 0 /\ path # 0 /\ known' = path /\ looked' \in {0, path}
      /\ offset' = IF JoinsAtEnd THEN files[path].len ELSE 0
      /\ reading' = files[path].log
      /\ joined' = [log |-> reading', at |-> offset']
      /\ UNCHANGED <<partial, out, mixed, env>>
  BY DEF Join
<1>2. partial = <<>> /\ out = <<>> /\ mixed = {}
  BY <1>1 DEF IInv, FilesInv, UnknownIsUnread
<1>3. path \in Inodes /\ files[path].len \in 0 .. MaxLen /\ files[path].log \in 1 .. MaxLogs
      /\ MaxLen \in Nat /\ MaxLogs \in Nat
  BY <1>1, FileTypes, ConstantTypes DEF IInv
<1>4. offset' \in 0 .. MaxLen /\ offset' <= files[path].len
  BY <1>1, <1>3
<1>5. Text' = <<>> /\ DOMAIN Text' = {} /\ Len(Text') = 0
  <2>1. out' = <<>> /\ partial' = <<>>
    BY <1>1, <1>2
  <2> QED BY <2>1 DEF Text
<1>6. Touched' = {files[path].log}
  <2>1. joined'.log = files[path].log
    BY <1>1
  <2> QED BY <1>1, <1>5, <2>1 DEF Touched
<1>7. TypeOK'
  <2>1. reading' \in 0 .. MaxLogs
    BY <1>1, <1>3
  <2>2. joined' \in [log : 0 .. MaxLogs, at : 0 .. MaxLen]
    BY <1>1, <1>4, <2>1
  <2>3. {path', looked', known'} \subseteq Inodes \cup {0}
    BY <1>1, <1>3 DEF env
  <2> QED BY <1>1, <1>4, <2>1, <2>2, <2>3 DEF IInv, TypeOK, env
<1>8. TextInv'
  <2>1. First(reading)' = offset'
    BY <1>1 DEF First
  <2>2. ReachesOffset'
    BY <1>5, <2>1 DEF ReachesOffset
  <2> QED
    BY <1>1, <1>2, <1>5, <2>2 DEF TextInv, FollowsOn, NoSplicedText, CellsBelowOffset, HalfLine, WholeLines
<1>9. Live' \subseteq {path}
  BY <1>1 DEF Live, env
<1>10. LiveIsRead'
  BY <1>1, <1>4, <1>6, <1>9 DEF LiveIsRead, env
<1>11. NewIsUntouched' /\ LiveDiffer' /\ LooksAtKnown' /\ UnknownIsUnread'
  BY <1>1 DEF NewIsUntouched, LiveDiffer, LooksAtKnown, UnknownIsUnread, env
<1>12. LogsAreBegun'
  <2>1. files[path].log <= logs /\ logs \in Nat
    BY <1>3, ConstantTypes DEF IInv, TypeOK, FilesInv, LogsAreBegun
  <2>2. files[path].log \in 0 .. logs
    BY <1>3, <2>1
  <2> QED BY <1>1, <1>2, <1>6, <2>2 DEF IInv, FilesInv, LogsAreBegun, env
<1> QED BY <1>7, <1>8, <1>10, <1>11, <1>12 DEF IInv, FilesInv

\* What was handed on is the beginning of the text.
LEMMA OutIsPrefix ==
  ASSUME TypeOK
  PROVE  /\ Text \in Seq(Cell) /\ DOMAIN Text = 1 .. Len(Text) /\ Len(Text) \in Nat
         /\ out \in Seq(Cell) /\ DOMAIN out = 1 .. Len(out) /\ Len(out) \in Nat
         /\ Len(Text) = Len(out) + Len(partial) /\ Len(partial) \in Nat
         /\ \A i \in 1 .. Len(out) : Text[i] = out[i]
         /\ \A i \in 1 .. Len(partial) : Text[Len(out) + i] = partial[i]
<1>1. out \in Seq(Cell) /\ partial \in Seq(Cell)
  BY DEF TypeOK
<1>2. /\ Text \in Seq(Cell) /\ Len(Text) = Len(out) + Len(partial)
      /\ \A i \in 1 .. Len(out) + Len(partial) :
           Text[i] = IF i <= Len(out) THEN out[i] ELSE partial[i - Len(out)]
  BY <1>1, ConcatProperties DEF Text
<1>3. Len(out) \in Nat /\ Len(partial) \in Nat
  BY <1>1
<1>4. ASSUME NEW i \in 1 .. Len(partial) PROVE Text[Len(out) + i] = partial[i]
  <2>1. Len(out) + i \in 1 .. Len(out) + Len(partial) /\ ~(Len(out) + i <= Len(out))
        /\ Len(out) + i - Len(out) = i
    BY <1>3
  <2> QED BY <1>2, <2>1
<1> QED BY <1>1, <1>2, <1>3, <1>4

\* The log that is at the path, or that the probe has open, is the one that is read, or new.
LEMMA LiveLog ==
  ASSUME IInv, NEW i \in Live, files[i].log \notin mixed, files[i].log # reading
  PROVE  /\ \A n \in DOMAIN Text : Text[n][1] # files[i].log
         /\ First(files[i].log) = 0
<1>1. files[i].log \notin Touched
  BY DEF IInv, FilesInv, LiveIsRead
<1> QED BY <1>1 DEF Touched, First

LEMMA LookAtNewLogIInv == IInv /\ LookAtNewLog => IInv'
<1> SUFFICES ASSUME IInv, LookAtNewLog PROVE IInv'
  OBVIOUS
<1>1. /\ known # 0 /\ looked = 0 /\ path # 0 /\ known' = path /\ looked' \in {0, path}
      /\ offset' = 0 /\ partial' = <<>> /\ reading' = files[path].log
      /\ UNCHANGED <<out, joined, mixed, env>>
      /\ Replaced(path) \/ files[path].len < offset
  BY DEF LookAtNewLog, StartOver
<1>2. path \in Inodes /\ files[path].len \in 0 .. MaxLen /\ files[path].log \in 1 .. MaxLogs
      /\ MaxLen \in Nat /\ MaxLogs \in Nat /\ offset \in Nat /\ path \in Live
  <2>1. offset \in Nat
    BY ConstantTypes DEF IInv, TypeOK
  <2> QED BY <1>1, <2>1, FileTypes, ConstantTypes DEF IInv
<1>3. files[path].log \in mixed \/ files[path].log \notin Touched
  <2>1. CASE Replaced(path)
    BY <1>1, <2>1 DEF Replaced, IInv, FilesInv, NewIsUntouched
  <2>2. CASE files[path].len < offset
    <3>1. ~(offset <= files[path].len)
      BY <1>2, <2>2
    <3> QED BY <1>2, <3>1 DEF IInv, FilesInv, LiveIsRead
  <2> QED BY <1>1, <2>1, <2>2
<1>4. /\ DOMAIN Text = 1 .. Len(Text) /\ Len(Text) \in Nat
      /\ Len(out) \in Nat /\ Len(out) <= Len(Text)
      /\ \A i \in 1 .. Len(out) : Text[i] = out[i]
  BY OutIsPrefix DEF IInv
<1>5. TypeOK'
  <2>1. reading' \in 0 .. MaxLogs /\ 0 \in 0 .. MaxLen /\ partial' \in Seq(Cell)
    BY <1>1, <1>2
  <2>2. {path', looked', known'} \subseteq Inodes \cup {0}
    BY <1>1, <1>2 DEF env
  <2> QED BY <1>1, <2>1, <2>2 DEF IInv, TypeOK, env
<1>6. Text' = out /\ DOMAIN Text' = 1 .. Len(out) /\ Len(Text') = Len(out)
  <2>1. out' = out /\ partial' = <<>> /\ out \in Seq(Cell)
    BY <1>1 DEF IInv, TypeOK
  <2>2. Text' = out
    BY <2>1, ConcatEmptySeq DEF Text
  <2> QED BY <2>1, <2>2
<1>7. /\ \A i \in DOMAIN Text' : i \in DOMAIN Text /\ Text'[i] = Text[i]
      /\ \A i \in 1 .. Len(Text') - 1 : i \in 1 .. Len(Text) - 1 /\ i \in DOMAIN Text' /\ i + 1 \in DOMAIN Text'
  BY <1>4, <1>6
<1>8. \A log : First(log)' = First(log)
  BY <1>1 DEF First
<1>9. FollowsOn'
  <2> SUFFICES ASSUME NEW i \in DOMAIN Text', Text'[i][1] \notin mixed
               PROVE  /\ \/ Text'[i][2] = First(Text'[i][1]) + 1
                         \/ i > 1 /\ Text'[i - 1] = <<Text'[i][1], Text'[i][2] - 1>>
                      /\ \A j \in DOMAIN Text' : Text'[j] = Text'[i] => j = i
    BY <1>1, <1>8 DEF FollowsOn
  <2>1. i \in DOMAIN Text /\ Text'[i] = Text[i]
    BY <1>7
  <2>2. i > 1 => i - 1 \in DOMAIN Text'
    BY <1>4, <1>6
  <2>3. i > 1 => Text'[i - 1] = Text[i - 1]
    BY <1>7, <2>2
  <2> QED BY <1>7, <2>1, <2>3 DEF IInv, TextInv, FollowsOn
<1>10. reading' \notin mixed => \A i \in DOMAIN Text' : Text'[i][1] # reading'
  BY <1>1, <1>3, <1>7 DEF Touched
<1>11. reading' \notin mixed => First(reading') = 0
  BY <1>1, <1>3 DEF Touched, First
<1>12. ReachesOffset' /\ CellsBelowOffset'
  BY <1>1, <1>8, <1>10, <1>11 DEF ReachesOffset, CellsBelowOffset
<1>13. NoSplicedText'
  <2> SUFFICES ASSUME NEW i \in 1 .. Len(Text') - 1
               PROVE  \/ IsEnd(Text'[i])
                      \/ Text'[i + 1] = <<Text'[i][1], Text'[i][2] + 1>>
                      \/ {Text'[i][1], Text'[i + 1][1]} \subseteq mixed
    BY <1>1 DEF NoSplicedText
  <2>1. i \in 1 .. Len(Text) - 1 /\ Text'[i] = Text[i] /\ Text'[i + 1] = Text[i + 1]
    BY <1>7
  <2> QED BY <2>1 DEF IInv, TextInv, NoSplicedText
<1>14. TextInv'
  BY <1>1, <1>9, <1>12, <1>13 DEF IInv, TextInv, HalfLine, WholeLines
<1>15. Live' \subseteq {path}
  BY <1>1 DEF Live, env
<1>16. LiveIsRead'
  BY <1>1, <1>2, <1>15 DEF LiveIsRead, env
<1>17. NewIsUntouched' /\ LiveDiffer' /\ LooksAtKnown' /\ UnknownIsUnread'
  <2>1. known' # 0
    BY <1>1
  <2> QED BY <1>1, <2>1 DEF NewIsUntouched, LiveDiffer, LooksAtKnown, UnknownIsUnread, env
<1>18. LogsAreBegun'
  <2>1. files[path].log <= logs /\ logs \in Nat
    BY <1>2, ConstantTypes DEF IInv, TypeOK, FilesInv, LogsAreBegun
  <2>2. files[path].log \in 0 .. logs
    BY <1>2, <2>1
  <2>3. Touched' \subseteq Touched \cup {files[path].log}
    BY <1>1, <1>7 DEF Touched
  <2> QED BY <1>1, <2>2, <2>3 DEF IInv, FilesInv, LogsAreBegun, env
<1> QED BY <1>5, <1>14, <1>16, <1>17, <1>18 DEF IInv, FilesInv

LEMMA LookIInv == IInv /\ Look => IInv'
<1> SUFFICES ASSUME IInv, Look PROVE IInv'
  OBVIOUS
<1> DEFINE log == files[path].log
<1>1. /\ known # 0 /\ looked = 0 /\ path # 0 /\ looked' \in {0, path}
      /\ known' = known /\ offset' = offset /\ partial' = partial /\ out' = out /\ joined' = joined
      /\ UNCHANGED env
      /\ ~Replaced(path) /\ files[path].len >= offset
  BY DEF Look
<1>2. /\ reading' = IF offset = 0 THEN log ELSE reading
      /\ mixed' = IF offset # 0 /\ log # reading THEN mixed \cup {reading, log} ELSE mixed
  BY <1>1 DEF Look, Continue, Replaced
<1>3. path \in Inodes /\ files[path].len \in 0 .. MaxLen /\ log \in 1 .. MaxLogs
      /\ MaxLen \in Nat /\ MaxLogs \in Nat /\ offset \in Nat /\ path \in Live
      /\ offset <= files[path].len /\ reading \in 0 .. MaxLogs
  <2>1. offset \in Nat /\ reading \in 0 .. MaxLogs
    BY ConstantTypes DEF IInv, TypeOK
  <2>2. path \in Inodes /\ path \in Live /\ MaxLen \in Nat /\ MaxLogs \in Nat
    BY <1>1, FileTypes, ConstantTypes DEF IInv
  <2>3. files[path].len \in 0 .. MaxLen /\ log \in 1 .. MaxLogs
    BY <2>2, FileTypes DEF IInv
  <2> QED BY <1>1, <2>1, <2>2, <2>3
<1> HIDE DEF log
<1>4. Text' = Text
  BY <1>1 DEF Text
<1>5. TypeOK'
  <2>1. reading' \in 0 .. MaxLogs /\ mixed' \subseteq 0 .. MaxLogs
    BY <1>2, <1>3 DEF IInv, TypeOK
  <2> QED BY <1>1, <1>3, <2>1 DEF IInv, TypeOK, env
<1>6. \A any : First(any)' = First(any)
  BY <1>1 DEF First
<1>7. mixed \subseteq mixed'
  BY <1>2
<1>8. FollowsOn' /\ NoSplicedText' /\ WholeLines'
  BY <1>1, <1>4, <1>6, <1>7 DEF IInv, TextInv, FollowsOn, NoSplicedText, WholeLines
<1>9. HalfLine'
  <2>1. CASE offset = 0
    <3>1. offset % 2 # 1
      BY <2>1
    <3> QED BY <1>1, <3>1 DEF IInv, TextInv, HalfLine
  <2>2. CASE offset # 0
    BY <1>1, <1>2, <1>7, <2>2 DEF IInv, TextInv, HalfLine
  <2> QED BY <2>1, <2>2
<1>10. ReachesOffset' /\ CellsBelowOffset'
  <2>1. CASE reading' = reading
    BY <1>1, <1>4, <1>6, <1>7, <2>1 DEF IInv, TextInv, ReachesOffset, CellsBelowOffset
  <2>2. CASE reading' # reading
    <3>1. reading' = log /\ offset = 0 /\ log # reading /\ mixed' = mixed
      BY <1>2, <2>2
    <3>2. log \notin mixed => (\A n \in DOMAIN Text : Text[n][1] # log) /\ First(log) = 0
      BY <1>3, <3>1, LiveLog DEF log
    <3> QED BY <1>1, <1>4, <1>6, <3>1, <3>2 DEF ReachesOffset, CellsBelowOffset
  <2> QED BY <2>1, <2>2
<1>11. Live' \subseteq {path}
  BY <1>1 DEF Live, env
<1>12. LiveIsRead'
  <2> SUFFICES ASSUME log \notin mixed' PROVE log = reading' /\ offset <= files[path].len
    BY <1>1, <1>11 DEF LiveIsRead, env, log
  <2> QED BY <1>2, <1>3
<1>13. NewIsUntouched' /\ LiveDiffer' /\ LooksAtKnown' /\ UnknownIsUnread'
  BY <1>1 DEF NewIsUntouched, LiveDiffer, LooksAtKnown, UnknownIsUnread, env, Replaced
<1>14. LogsAreBegun'
  <2>1. log <= logs /\ logs \in Nat
    BY <1>3, ConstantTypes DEF IInv, TypeOK, FilesInv, LogsAreBegun, log
  <2>2. log \in 0 .. logs
    BY <1>3, <2>1
  <2>3. Touched' \cup mixed' \subseteq Touched \cup mixed \cup {log}
    BY <1>1, <1>2, <1>4 DEF Touched
  <2> QED BY <1>1, <2>2, <2>3 DEF IInv, FilesInv, LogsAreBegun, env
<1> QED BY <1>5, <1>8, <1>9, <1>10, <1>12, <1>13, <1>14 DEF IInv, TextInv, FilesInv

LEMMA ReadMissingIInv == IInv /\ (ReadMissing \/ NoLook \/ UNCHANGED vars) => IInv'
<1> SUFFICES ASSUME IInv, ReadMissing \/ NoLook \/ UNCHANGED vars PROVE IInv'
  OBVIOUS
<1>1. /\ UNCHANGED <<known, offset, partial, out, reading, joined, mixed, env>>
      /\ looked' = looked \/ (looked' = 0 /\ tailer # "probe")
  BY DEF ReadMissing, NoLook, vars, tail
<1>2. Text' = Text /\ Touched' = Touched /\ Live' \subseteq Live
  BY <1>1 DEF Text, Touched, Live, env
<1>3. \A log : First(log)' = First(log)
  BY <1>1 DEF First
<1>4. TextInv'
  BY <1>1, <1>2, <1>3
  DEF IInv, TextInv, FollowsOn, ReachesOffset, NoSplicedText, CellsBelowOffset, HalfLine, WholeLines
<1>5. TypeOK'
  BY <1>1 DEF IInv, TypeOK, env
<1>6. LiveIsRead' /\ LogsAreBegun'
  BY <1>1, <1>2 DEF IInv, FilesInv, LiveIsRead, LogsAreBegun, env
<1>7. NewIsUntouched' /\ LiveDiffer' /\ LooksAtKnown' /\ UnknownIsUnread'
  BY <1>1, <1>2 DEF IInv, FilesInv, NewIsUntouched, LiveDiffer, LooksAtKnown, UnknownIsUnread, env
<1> QED BY <1>4, <1>5, <1>6, <1>7 DEF IInv, FilesInv

LEMMA NewRunIInv == IInv /\ NewRun => IInv'
<1> SUFFICES ASSUME IInv, NewRun PROVE IInv'
  OBVIOUS
<1>1. /\ tailer = "proton" /\ looked = 0 /\ looked' = 0 /\ tailer' = tailer
      /\ known' = 0 /\ offset' = 0 /\ partial' = <<>> /\ out' = <<>> /\ reading' = 0 /\ mixed' = {}
      /\ joined' = [log |-> 0, at |-> 0] /\ files' = files /\ path' = path /\ logs' = logs
  BY DEF NewRun
<1>2. Text' = <<>> /\ DOMAIN Text' = {} /\ Len(Text') = 0
  BY <1>1 DEF Text
<1>3. Touched' = {0}
  BY <1>1, <1>2 DEF Touched
<1>4. TypeOK'
  <2>1. runs' \in 0 .. MaxRuns
    BY ConstantTypes DEF IInv, TypeOK, NewRun
  <2>2. joined' \in [log : 0 .. MaxLogs, at : 0 .. MaxLen]
    BY <1>1, ConstantTypes
  <2>3. partial' \in Seq(Cell) /\ out' \in Seq(Cell) /\ reading' \in 0 .. MaxLogs /\ offset' \in 0 .. MaxLen
    BY <1>1, ConstantTypes
  <2> QED BY <1>1, <2>1, <2>2, <2>3 DEF NewRun, IInv, TypeOK
<1>5. TextInv'
  BY <1>1, <1>2 DEF TextInv, FollowsOn, ReachesOffset, NoSplicedText, CellsBelowOffset, HalfLine,
                    WholeLines, First
<1>6. Live' \subseteq Inodes /\ \A i \in Inodes : files[i].log # 0
  BY <1>1, FileTypes DEF IInv, Live
<1>7. LiveIsRead' /\ LogsAreBegun'
  <2>1. 0 \in 0 .. logs
    BY ConstantTypes DEF IInv, TypeOK
  <2> QED BY <1>1, <1>3, <1>6, <2>1 DEF IInv, FilesInv, LiveIsRead, LogsAreBegun
<1>8. NewIsUntouched' /\ LiveDiffer' /\ LooksAtKnown' /\ UnknownIsUnread'
  BY <1>1 DEF NewIsUntouched, LiveDiffer, LooksAtKnown, UnknownIsUnread
<1> QED BY <1>4, <1>5, <1>7, <1>8 DEF IInv, FilesInv
-----------------------------------------------------------------------------
\* The read keeps the invariant.

\* The inode that is read.
Inode == IF tailer = "probe" THEN looked ELSE path

\* What a read does: it appends cells of one log to the text, behind the offset, and hands
\* the complete lines on.
LEMMA ReadText ==
  ASSUME IInv, Read
  PROVE  /\ Inode \in Live /\ looked # 0 /\ looked' = 0
         /\ UNCHANGED <<known, joined, env>>
         /\ IF Inode = looked THEN Continue(Inode, files[Inode].log) ELSE Swapped(files[Inode].log)
         /\ \E data \in Seq(Cell) :
              /\ offset' = offset + Len(data)
              /\ Len(data) = 0 \/ offset + Len(data) <= files[Inode].len
              /\ \A k \in 1 .. Len(data) : data[k] = <<files[Inode].log, offset + k>>
              /\ Text' = Text \o data
              /\ out' \in Seq(Cell) /\ partial' \in Seq(Cell)
              /\ WholeLines'
              /\ \/ partial' = <<>>
                 \/ /\ Len(partial') = 1 /\ (offset + Len(data)) % 2 = 1
                    /\ partial'[1][2] = offset + Len(data)
                    /\ \/ partial' = partial /\ data = <<>>
                       \/ partial'[1][1] = files[Inode].log
<1> DEFINE file == files[Inode]
           data == Data(file, offset)
           text == partial \o data
           c == Complete(text)
<1>1. Inode \in Live /\ Inode \in Inodes /\ looked # 0
  BY FileTypes DEF IInv, Read, Inode
<1>2. file \in [log : 1 .. MaxLogs, len : 0 .. MaxLen] /\ offset \in 0 .. MaxLen /\ MaxLen \in Nat
  BY <1>1, FileTypes, ConstantTypes DEF IInv, TypeOK
<1>3. /\ data \in Seq(Cell)
      /\ Len(data) = 0 \/ offset + Len(data) <= file.len
      /\ \A k \in 1 .. Len(data) : data[k] = <<file.log, offset + k>>
  BY <1>2, DataOfRead
<1>4. /\ offset' = Advance(data)
      /\ out' = out \o SubSeq(text, 1, c)
      /\ partial' = SubSeq(text, c + 1, Len(text))
      /\ looked' = 0
      /\ UNCHANGED <<known, joined, env>>
      /\ IF Inode = looked THEN Continue(Inode, file.log) ELSE Swapped(file.log)
  BY DEF Read, Inode, Data
<1>5. out \in Seq(Cell) /\ partial \in Seq(Cell) /\ offset \in Nat
  BY <1>2 DEF IInv, TypeOK
<1>6. partial = <<>> \/ (Len(partial) = 1 /\ partial[1][2] = offset /\ offset % 2 = 1)
  BY DEF IInv, TextInv, HalfLine
<1> DEFINE log == file.log
<1>7. \A k \in 1 .. Len(data) : data[k] = <<log, offset + k>>
  BY <1>3
<1> HIDE DEF data, log
<1>8. /\ c \in 0 .. Len(text)
      /\ c = 0 \/ IsEnd(text[c])
      /\ \/ c = Len(text)
         \/ /\ c = Len(text) - 1
            /\ (offset + Len(data)) % 2 = 1
            /\ text[Len(text)][2] = offset + Len(data)
            /\ IF data = <<>> THEN text = partial ELSE text[Len(text)] = <<log, offset + Len(data)>>
  <2>1. partial \in Seq(Cell) /\ data \in Seq(Cell) /\ offset \in Nat
    BY <1>3, <1>5
  <2>2. IsHalf(partial, offset) /\ AreCellsOf(data, log, offset)
    BY <1>6, <1>7 DEF IsHalf, AreCellsOf
  <2> QED BY <2>1, <2>2, CompleteOfRead
<1>9. text \in Seq(Cell) /\ Len(text) \in Nat
  BY <1>3, <1>5
<1>10. Text \o data = out \o text
  BY <1>3, <1>5, ConcatAssociative DEF Text
<1> HIDE DEF text, c, file
<1> DEFINE lines == SubSeq(text, 1, c)
           rest == SubSeq(text, c + 1, Len(text))
<1>11. /\ lines \in Seq(Cell) /\ Len(lines) = c
       /\ \A i \in 1 .. c : lines[i] = text[i]
  BY <1>8, <1>9, SubSeqProperties
<1>12. /\ rest \in Seq(Cell) /\ Len(rest) = Len(text) - c
       /\ \A i \in 1 .. Len(text) - c : rest[i] = text[c + i]
  <2>1. \A i \in c + 1 .. Len(text) : text[i] \in Cell
    BY <1>8, <1>9
  <2>2. c + 1 \in Int /\ Len(text) \in Int
    BY <1>8, <1>9
  <2>3. /\ rest \in Seq(Cell)
        /\ Len(rest) = IF c + 1 <= Len(text) THEN Len(text) - (c + 1) + 1 ELSE 0
        /\ \A i \in 1 .. Len(text) - (c + 1) + 1 : rest[i] = text[c + 1 + i - 1]
    BY <2>1, <2>2, SubSeqProperties
  <2>4. c \in Nat /\ c <= Len(text) /\ \A i \in 1 .. Len(text) - c : c + 1 + i - 1 = c + i
    BY <1>8, <1>9
  <2> HIDE DEF rest
  <2>5. Len(rest) = Len(text) - c
    BY <1>9, <2>3, <2>4
  <2>6. 1 .. Len(text) - (c + 1) + 1 = 1 .. Len(text) - c
    BY <1>9, <2>4
  <2> QED BY <2>3, <2>4, <2>5, <2>6
<1>13. lines \o rest = text
  <2>1. SubSeq(text, 1, Len(text)) = text
    BY <1>9, SubSeqFull
  <2>2. 1 \in 1 .. Len(text) + 1 /\ c \in 1 - 1 .. Len(text) /\ Len(text) \in c .. Len(text)
    BY <1>8, <1>9
  <2> QED BY <1>9, <2>1, <2>2, ConcatAdjacentSubSeq
<1>14. out' = out \o lines /\ partial' = rest
  BY <1>4 
<1> HIDE DEF lines, rest
<1>15. out' \in Seq(Cell) /\ partial' \in Seq(Cell)
  BY <1>5, <1>11, <1>12, <1>14, ConcatProperties
<1>16. Text' = Text \o data
  <2>1. Text' = (out \o lines) \o rest
    BY <1>14 DEF Text
  <2>2. lines \in Seq(Cell) /\ rest \in Seq(Cell)
    BY <1>11, <1>12
  <2>3. (out \o lines) \o rest = out \o (lines \o rest)
    BY <1>5, <2>2, ConcatAssociative
  <2> QED BY <1>10, <1>13, <2>1, <2>3
<1>17. WholeLines'
  <2>1. Len(out') = Len(out) + c /\ Len(out) \in Nat /\ c \in Nat
    <3>1. lines \in Seq(Cell) /\ Len(lines) = c
      BY <1>11
    <3>2. Len(out') = Len(out) + Len(lines)
      BY <1>5, <1>14, <3>1, ConcatProperties
    <3> QED BY <1>5, <1>8, <3>1, <3>2
  <2>2. CASE c = 0
    <3>1. lines = <<>>
      BY <1>11, <2>2
    <3>2. out' = out
      BY <1>5, <1>14, <3>1, ConcatEmptySeq
    <3> QED BY <3>2 DEF IInv, TextInv, WholeLines
  <2>3. CASE c # 0
    <3>1. Len(out) + c \in 1 .. Len(out) + Len(lines) /\ ~(Len(out) + c <= Len(out))
          /\ Len(out) + c - Len(out) = c /\ c \in 1 .. c
      BY <1>11, <2>1, <2>3
    <3>2. out'[Len(out')] = lines[c]
      BY <1>5, <1>11, <1>14, <2>1, <3>1, ConcatProperties
    <3>3. lines[c] = text[c]
      BY <1>11, <3>1
    <3> QED BY <1>8, <2>3, <3>2, <3>3 DEF WholeLines
  <2> QED BY <2>2, <2>3
<1>18. \/ partial' = <<>>
       \/ /\ Len(partial') = 1 /\ (offset + Len(data)) % 2 = 1
          /\ partial'[1][2] = offset + Len(data)
          /\ \/ partial' = partial /\ data = <<>>
             \/ partial'[1][1] = log
  <2>1. CASE c = Len(text)
    <3>1. Len(rest) = 0
      BY <1>9, <1>12, <2>1
    <3> QED BY <1>12, <1>14, <3>1
  <2>2. CASE c # Len(text)
    <3>1. /\ c = Len(text) - 1
          /\ (offset + Len(data)) % 2 = 1
          /\ text[Len(text)][2] = offset + Len(data)
          /\ IF data = <<>> THEN text = partial ELSE text[Len(text)] = <<log, offset + Len(data)>>
      BY <1>8, <2>2
    <3>2. Len(text) - c = 1 /\ c + 1 = Len(text) /\ c \in Nat
      BY <1>8, <1>9, <3>1
    <3>3. Len(rest) = 1 /\ rest[1] = text[Len(text)]
      <4>1. 1 \in 1 .. Len(text) - c
        BY <3>2
      <4> QED BY <1>12, <3>2, <4>1
    <3>4. CASE data = <<>>
      <4>1. text = partial /\ partial # <<>>
        BY <1>8, <1>9, <2>2, <3>1, <3>4
      <4>2. Len(text) = 1
        BY <1>6, <4>1
      <4>3. c = 0
        BY <3>2, <4>2
      <4>4. lines = <<>>
        BY <1>11, <4>3
      <4>5. rest = partial
        BY <1>12, <1>13, <4>1, <4>4, ConcatEmptySeq
      <4> QED BY <1>14, <3>1, <3>3, <3>4, <4>5
    <3>5. CASE data # <<>>
      BY <1>14, <3>1, <3>3, <3>5
    <3> QED BY <3>4, <3>5
  <2> QED BY <2>1, <2>2
<1>19. offset' = offset + Len(data)
  BY <1>4 DEF Advance
<1>20. \E d \in Seq(Cell) :
         /\ offset' = offset + Len(d)
         /\ Len(d) = 0 \/ offset + Len(d) <= file.len
         /\ \A k \in 1 .. Len(d) : d[k] = <<file.log, offset + k>>
         /\ Text' = Text \o d
         /\ out' \in Seq(Cell) /\ partial' \in Seq(Cell)
         /\ WholeLines'
         /\ \/ partial' = <<>>
            \/ /\ Len(partial') = 1 /\ (offset + Len(d)) % 2 = 1
               /\ partial'[1][2] = offset + Len(d)
               /\ \/ partial' = partial /\ d = <<>>
                  \/ partial'[1][1] = file.log
  <2>1. log = file.log
    BY DEF log
  <2> QED BY <1>3, <1>15, <1>16, <1>17, <1>18, <1>19, <2>1
<1> QED BY <1>1, <1>4, <1>20 DEF file
LEMMA ReadIInv == IInv /\ Read => IInv'
<1> SUFFICES ASSUME IInv, Read PROVE IInv'
  OBVIOUS
<1> DEFINE file == files[Inode]
           log == files[Inode].log
           n == Len(Text)
<1>1. /\ Inode \in Live /\ looked # 0 /\ looked' = 0
      /\ UNCHANGED <<known, joined, env>>
      /\ IF Inode = looked THEN Continue(Inode, log) ELSE Swapped(log)
  BY ReadText
<1>2. PICK data \in Seq(Cell) :
        /\ offset' = offset + Len(data)
        /\ Len(data) = 0 \/ offset + Len(data) <= file.len
        /\ \A k \in 1 .. Len(data) : data[k] = <<log, offset + k>>
        /\ Text' = Text \o data
        /\ out' \in Seq(Cell) /\ partial' \in Seq(Cell)
        /\ WholeLines'
        /\ \/ partial' = <<>>
           \/ /\ Len(partial') = 1 /\ (offset + Len(data)) % 2 = 1
              /\ partial'[1][2] = offset + Len(data)
              /\ \/ partial' = partial /\ data = <<>>
                 \/ partial'[1][1] = log
  BY ReadText
<1> DEFINE m == Len(data)
<1>3. /\ Inode \in Inodes /\ log \in 1 .. MaxLogs /\ file.len \in 0 .. MaxLen
      /\ MaxLen \in Nat /\ MaxLogs \in Nat /\ m \in Nat
  <2>1. Inode \in Inodes
    BY <1>1, FileTypes DEF IInv
  <2>2. log \in 1 .. MaxLogs /\ file.len \in 0 .. MaxLen
    BY <2>1, FileTypes DEF IInv
  <2>3. m \in Nat
    OBVIOUS
  <2> QED BY <2>1, <2>2, <2>3, ConstantTypes
<1>4. offset \in 0 .. MaxLen /\ offset \in Nat /\ reading \in 0 .. MaxLogs /\ mixed \subseteq 0 .. MaxLogs
  BY <1>3 DEF IInv, TypeOK
<1>5. \/ /\ reading' = IF offset = 0 THEN log ELSE reading
         /\ mixed' = IF offset # 0 /\ log # reading THEN mixed \cup {reading, log} ELSE mixed
      \/ reading' = reading /\ mixed' = mixed \cup {reading, log}
  <2>1. CASE Inode = looked
    <3>1. tailer = "probe" \/ Inode = known
      BY <1>1, <2>1 DEF IInv, FilesInv, LooksAtKnown
    <3> QED BY <1>1, <2>1, <3>1 DEF Continue
  <2>2. CASE Inode # looked
    BY <1>1, <2>2 DEF Swapped
  <2> QED BY <2>1, <2>2
<1> HIDE DEF file, log
<1>6. /\ mixed \subseteq mixed' /\ reading' \in {reading, log}
      /\ mixed' \subseteq mixed \cup {reading, log}
      /\ offset # 0 => reading' = reading
      /\ log \notin mixed' => reading' = log /\ (log = reading \/ offset = 0)
      /\ log \in mixed' => reading' \in mixed'
      /\ log \in mixed' => log \in mixed \/ log = reading \/ {reading, log} \subseteq mixed'
  BY <1>5
<1>7. log \notin mixed' /\ log # reading => (\A i \in DOMAIN Text : Text[i][1] # log) /\ First(log) = 0
  BY <1>1, <1>6, LiveLog DEF log
<1>8. /\ Text \in Seq(Cell) /\ DOMAIN Text = 1 .. n /\ n \in Nat
      /\ Len(Text) = Len(out) + Len(partial)
      /\ \A i \in 1 .. Len(partial) : Text[Len(out) + i] = partial[i]
      /\ \A i \in 1 .. Len(out) : Text[i] = out[i]
      /\ Len(out) \in Nat /\ Len(partial) \in Nat
  BY OutIsPrefix DEF IInv
<1>9. /\ Text' \in Seq(Cell) /\ Len(Text') = n + m /\ DOMAIN Text' = 1 .. n + m
      /\ \A i \in 1 .. n + m : Text'[i] = IF i <= n THEN Text[i] ELSE data[i - n]
  <2>1. Text \in Seq(Cell) /\ data \in Seq(Cell) /\ Text' = Text \o data
    BY <1>2, <1>8
  <2>2. /\ Text \o data \in Seq(Cell) /\ Len(Text \o data) = n + m
        /\ \A i \in 1 .. n + m : (Text \o data)[i] = IF i <= n THEN Text[i] ELSE data[i - n]
    BY <2>1, ConcatProperties
  <2>3. Text' \in Seq(Cell) /\ Len(Text') = n + m
    BY <2>1, <2>2
  <2>4. DOMAIN Text' = 1 .. n + m
    BY <2>3
  <2>5. \A i \in 1 .. n + m : Text'[i] = IF i <= n THEN Text[i] ELSE data[i - n]
    BY <2>1, <2>2
  <2> QED BY <2>3, <2>4, <2>5
<1> HIDE DEF n, m
<1>10. /\ \A i \in 1 .. n : i \in 1 .. n + m /\ Text'[i] = Text[i]
       /\ \A i \in n + 1 .. n + m : Text'[i] = <<log, offset + (i - n)>>
  <2>1. \A i \in 1 .. n : i \in 1 .. n + m /\ Text'[i] = Text[i]
    BY <1>3, <1>8, <1>9
  <2>2. ASSUME NEW i \in n + 1 .. n + m PROVE Text'[i] = <<log, offset + (i - n)>>
    <3>1. i \in 1 .. n + m /\ ~(i <= n) /\ i - n \in 1 .. m
      BY <1>3, <1>8
    <3>2. Text'[i] = data[i - n]
      BY <1>9, <3>1
    <3> QED BY <1>2, <3>1, <3>2 DEF m
  <2> QED BY <2>1, <2>2
<1>11. \A any : First(any)' = First(any)
  BY <1>1 DEF First
\* The cell that the first new one follows.
<1>12. log \notin mixed' =>
         \/ offset = First(log) /\ \A i \in 1 .. n : Text[i][1] # log
         \/ n > 0 /\ Text[n] = <<log, offset>>
  <2> SUFFICES ASSUME log \notin mixed', log = reading
               PROVE  \/ offset = First(log) /\ \A i \in 1 .. n : Text[i][1] # log
                      \/ n > 0 /\ Text[n] = <<log, offset>>
    BY <1>6, <1>7, <1>8
  <2>1. reading \notin mixed
    BY <1>6
  <2>2. CASE \E i \in DOMAIN Text : Text[i][1] = reading
    <3>1. Text[n] = <<reading, offset>>
      BY <2>1, <2>2 DEF IInv, TextInv, ReachesOffset, n
    <3> QED BY <1>8, <2>2, <3>1
  <2>3. CASE ~\E i \in DOMAIN Text : Text[i][1] = reading
    BY <1>8, <2>1, <2>3 DEF IInv, TextInv, ReachesOffset
  <2> QED BY <2>2, <2>3
<1>13. log \notin mixed' => \A i \in 1 .. n : Text[i][1] = log => Text[i][2] <= offset
  BY <1>6, <1>7, <1>8 DEF IInv, TextInv, CellsBelowOffset
<1>14. FollowsOn'
  <2> SUFFICES ASSUME NEW i \in 1 .. n + m, Text'[i][1] \notin mixed'
               PROVE  /\ \/ Text'[i][2] = First(Text'[i][1]) + 1
                         \/ i > 1 /\ Text'[i - 1] = <<Text'[i][1], Text'[i][2] - 1>>
                      /\ \A j \in 1 .. n + m : Text'[j] = Text'[i] => j = i
    BY <1>9, <1>11 DEF FollowsOn
  <2>1. CASE i <= n
    <3>1. i \in 1 .. n /\ Text'[i] = Text[i] /\ Text[i][1] \notin mixed
      BY <1>3, <1>6, <1>8, <1>10, <2>1
    <3>2. i > 1 => i - 1 \in 1 .. n /\ Text'[i - 1] = Text[i - 1]
      BY <1>8, <1>10, <3>1
    <3>3. \/ Text[i][2] = First(Text[i][1]) + 1
          \/ i > 1 /\ Text[i - 1] = <<Text[i][1], Text[i][2] - 1>>
      BY <1>8, <3>1 DEF IInv, TextInv, FollowsOn
    <3>4. ASSUME NEW j \in 1 .. n + m, Text'[j] = Text'[i] PROVE j = i
      <4>1. CASE j <= n
        <5>1. j \in 1 .. n /\ Text[j] = Text[i]
          BY <1>8, <1>10, <3>1, <3>4, <4>1
        <5> QED BY <1>8, <3>1, <5>1 DEF IInv, TextInv, FollowsOn
      <4>2. CASE j > n
        <5>1. j \in n + 1 .. n + m /\ j - n \in 1 .. m
          BY <1>3, <1>8, <4>2
        <5>2. Text[i] = <<log, offset + (j - n)>>
          BY <1>10, <3>1, <3>4, <5>1
        <5>3. log \notin mixed' /\ Text[i][1] = log /\ Text[i][2] = offset + (j - n)
          BY <3>1, <5>2
        <5>4. offset + (j - n) <= offset
          BY <1>13, <3>1, <5>3
        <5> QED BY <1>4, <5>1, <5>4
      <4> QED BY <1>3, <1>8, <4>1, <4>2
    <3> QED BY <3>1, <3>2, <3>3, <3>4
  <2>2. CASE i > n
    <3>1. i \in n + 1 .. n + m /\ Text'[i] = <<log, offset + (i - n)>> /\ i - n \in 1 .. m
      BY <1>3, <1>8, <1>10, <2>2
    <3>2. log \notin mixed' /\ Text'[i][1] = log /\ Text'[i][2] = offset + (i - n)
      BY <3>1
    <3>3. \/ offset + (i - n) = First(log) + 1
          \/ i > 1 /\ Text'[i - 1] = <<log, offset + (i - n) - 1>>
      <4>1. CASE i = n + 1
        <5>1. i - n = 1 /\ i - 1 = n /\ offset + (i - n) - 1 = offset
          BY <1>4, <1>8, <4>1
        <5>2. CASE offset = First(log)
          BY <5>1, <5>2
        <5>3. CASE n > 0 /\ Text[n] = <<log, offset>>
          <6>1. n \in 1 .. n /\ i > 1
            BY <1>8, <4>1, <5>3
          <6>2. Text'[n] = Text[n]
            BY <1>10, <6>1
          <6> QED BY <5>1, <5>3, <6>1, <6>2
        <5> QED BY <1>12, <3>2, <5>2, <5>3
      <4>2. CASE i # n + 1
        <5>1. i - 1 \in n + 1 .. n + m /\ i > 1 /\ offset + (i - 1 - n) = offset + (i - n) - 1
          BY <1>3, <1>4, <1>8, <3>1, <4>2
        <5>2. Text'[i - 1] = <<log, offset + (i - 1 - n)>>
          BY <1>10, <5>1
        <5> QED BY <5>1, <5>2
      <4> QED BY <4>1, <4>2
    <3>4. ASSUME NEW j \in 1 .. n + m, Text'[j] = Text'[i] PROVE j = i
      <4>1. CASE j <= n
        <5>1. j \in 1 .. n /\ Text[j] = <<log, offset + (i - n)>>
          BY <1>3, <1>8, <1>10, <3>1, <3>4, <4>1
        <5>2. Text[j][1] = log /\ Text[j][2] = offset + (i - n)
          BY <5>1
        <5>3. offset + (i - n) <= offset
          BY <1>13, <3>2, <5>1, <5>2
        <5> QED BY <1>4, <3>1, <5>3
      <4>2. CASE j > n
        <5>1. j \in n + 1 .. n + m
          BY <1>3, <1>8, <4>2
        <5>2. Text'[j] = <<log, offset + (j - n)>>
          BY <1>10, <5>1
        <5>3. offset + (j - n) = offset + (i - n)
          BY <3>1, <3>4, <5>2
        <5> QED BY <1>3, <1>4, <1>8, <5>1, <5>3
      <4> QED BY <1>3, <1>8, <4>1, <4>2
    <3>5. \/ Text'[i][2] = First(Text'[i][1]) + 1
          \/ i > 1 /\ Text'[i - 1] = <<Text'[i][1], Text'[i][2] - 1>>
      <4>1. CASE offset + (i - n) = First(log) + 1
        BY <3>2, <4>1
      <4>2. CASE i > 1 /\ Text'[i - 1] = <<log, offset + (i - n) - 1>>
        <5>1. Text'[i][2] - 1 = offset + (i - n) - 1
          BY <1>3, <1>4, <1>8, <3>2
        <5> QED BY <3>2, <4>2, <5>1
      <4> QED BY <3>3, <4>1, <4>2
    <3> QED BY <3>4, <3>5
  <2> QED BY <1>3, <1>8, <2>1, <2>2
<1>15. ReachesOffset'
  <2> SUFFICES ASSUME reading' \notin mixed'
               PROVE  IF \E i \in 1 .. n + m : Text'[i][1] = reading'
                      THEN Text'[n + m] = <<reading', offset'>>
                      ELSE offset' = First(reading')
    BY <1>9, <1>11 DEF ReachesOffset
  <2>1. log \notin mixed' /\ reading' = log
    BY <1>6
  <2>2. CASE m = 0
    <3>1. offset' = offset /\ n + m = n
      BY <1>2, <1>4, <1>8, <2>2 DEF m
    <3>2. \A i \in 1 .. n : Text'[i] = Text[i]
      BY <1>10
    <3>3. CASE offset = First(log) /\ \A i \in 1 .. n : Text[i][1] # log
      BY <2>1, <3>1, <3>2, <3>3
    <3>4. CASE n > 0 /\ Text[n] = <<log, offset>>
      <4>1. n \in 1 .. n
        BY <1>8, <3>4
      <4> QED BY <2>1, <3>1, <3>2, <3>4, <4>1
    <3> QED BY <1>12, <2>1, <3>3, <3>4
  <2>3. CASE m # 0
    <3>1. n + m \in n + 1 .. n + m /\ n + m \in 1 .. n + m /\ n + m - n = m
      BY <1>3, <1>8, <2>3
    <3>2. Text'[n + m] = <<log, offset + (n + m - n)>>
      <4> PICK end \in n + 1 .. n + m : end = n + m
        BY <3>1
      <4>1. Text'[end] = <<log, offset + (end - n)>>
        BY <1>10
      <4> QED BY <1>3, <1>4, <1>8, <4>1
    <3>3. offset' = offset + (n + m - n)
      BY <1>2, <3>1 DEF m
    <3> QED BY <2>1, <3>1, <3>2, <3>3
  <2> QED BY <2>2, <2>3
<1>16. CellsBelowOffset'
  <2> SUFFICES ASSUME reading' \notin mixed', NEW i \in 1 .. n + m, Text'[i][1] = reading'
               PROVE  Text'[i][2] <= offset'
    BY <1>9 DEF CellsBelowOffset
  <2>1. log \notin mixed' /\ reading' = log
    BY <1>6
  <2>2. offset' = offset + m
    BY <1>2 DEF m
  <2>3. CASE i <= n
    <3>1. i \in 1 .. n /\ Text'[i] = Text[i]
      BY <1>3, <1>8, <1>10, <2>3
    <3>2. Text[i][2] <= offset /\ Text[i][2] \in Nat
      <4>1. Text[i] \in Cell
        BY <1>8, <3>1
      <4>2. Text[i][2] \in Nat
        BY <1>3, <4>1, CellParts
      <4> QED BY <1>13, <2>1, <3>1, <4>2
    <3> QED BY <1>3, <1>4, <2>2, <3>1, <3>2
  <2>4. CASE i > n
    <3>1. i \in n + 1 .. n + m /\ i - n <= m /\ i - n \in Nat
      BY <1>3, <1>8, <2>4
    <3>2. Text'[i][2] = offset + (i - n)
      BY <1>10, <3>1
    <3> QED BY <1>3, <1>4, <2>2, <3>1, <3>2
  <2> QED BY <1>3, <1>8, <2>3, <2>4
\* The last cell of the text ends a line, or is the cell at the offset.
<1>17. n > 0 =>
         \/ IsEnd(Text[n])
         \/ Text[n] = <<log, offset>>
         \/ {Text[n][1], log} \subseteq mixed'
  <2> SUFFICES ASSUME n > 0 PROVE \/ IsEnd(Text[n])
                                  \/ Text[n] = <<log, offset>>
                                  \/ {Text[n][1], log} \subseteq mixed'
    OBVIOUS
  <2>1. CASE partial = <<>>
    <3>1. Len(partial) = 0 /\ n = Len(out) /\ n \in 1 .. Len(out)
      BY <1>8, <2>1 DEF n
    <3>2. Text[n] = out[Len(out)] /\ out # <<>>
      BY <1>8, <3>1
    <3> QED BY <3>2 DEF IInv, TextInv, WholeLines
  <2>2. CASE partial # <<>>
    <3>1. /\ Len(partial) = 1 /\ partial[1][2] = offset /\ offset % 2 = 1
          /\ partial[1][1] = reading \/ {partial[1][1], reading} \subseteq mixed
      BY <2>2 DEF IInv, TextInv, HalfLine
    <3>2. n = Len(out) + 1 /\ Text[n] = partial[1]
      <4>1. 1 \in 1 .. Len(partial) /\ n = Len(out) + 1
        BY <1>8, <3>1 DEF n
      <4> QED BY <1>8, <4>1
    <3>3. Text[n] \in Cell
      BY <1>8
    <3>4. Text[n] = <<Text[n][1], offset>>
      BY <3>1, <3>2, <3>3, CellParts
    <3>5. offset # 0
      BY <3>1
    <3>6. reading' = reading
      BY <1>6, <3>5
    <3>7. CASE log \notin mixed'
      <4>1. reading = log
        BY <1>6, <3>6, <3>7
      <4>2. Text[n][1] = log
        BY <1>6, <3>1, <3>2, <3>7, <4>1
      <4> QED BY <3>4, <4>2
    <3>8. CASE log \in mixed'
      <4>1. reading \in mixed'
        BY <1>6, <3>6, <3>8
      <4>2. Text[n][1] \in mixed'
        BY <1>6, <3>1, <3>2, <4>1
      <4> QED BY <3>8, <4>2
    <3> QED BY <3>7, <3>8
  <2> QED BY <2>1, <2>2
<1>18. NoSplicedText'
  <2> SUFFICES ASSUME NEW i \in 1 .. Len(Text') - 1
               PROVE  \/ IsEnd(Text'[i])
                      \/ Text'[i + 1] = <<Text'[i][1], Text'[i][2] + 1>>
                      \/ {Text'[i][1], Text'[i + 1][1]} \subseteq mixed'
    BY DEF NoSplicedText
  <2>1. i \in 1 .. n + m - 1
    <3>1. Len(Text') = n + m
      BY <1>9
    <3> QED BY <1>3, <1>8, <3>1
  <2>2. CASE i < n
    <3>1. i \in 1 .. Len(Text) - 1 /\ i \in 1 .. n /\ i + 1 \in 1 .. n
      BY <1>8, <2>1, <2>2 DEF n
    <3>2. Text'[i] = Text[i] /\ Text'[i + 1] = Text[i + 1]
      BY <1>10, <3>1
    <3>3. \/ IsEnd(Text[i])
          \/ Text[i + 1] = <<Text[i][1], Text[i][2] + 1>>
          \/ {Text[i][1], Text[i + 1][1]} \subseteq mixed
      BY <3>1 DEF IInv, TextInv, NoSplicedText
    <3> QED BY <1>6, <3>2, <3>3
  <2>3. CASE i = n
    <3>1. n \in 1 .. n /\ n > 0 /\ n + 1 \in n + 1 .. n + m /\ n + 1 - n = 1
      BY <1>3, <1>8, <2>1, <2>3
    <3>2. Text'[i] = Text[n]
      BY <1>10, <2>3, <3>1
    <3>3. Text'[i + 1] = <<log, offset + 1>>
      <4> PICK next \in n + 1 .. n + m : next = n + 1 /\ next - n = 1
        BY <3>1
      <4>1. Text'[next] = <<log, offset + (next - n)>>
        BY <1>10
      <4> QED BY <1>3, <1>4, <1>8, <2>3, <4>1
    <3> QED BY <1>17, <3>1, <3>2, <3>3
  <2>4. CASE i > n
    <3>1. i \in n + 1 .. n + m /\ i + 1 \in n + 1 .. n + m
      BY <1>3, <1>8, <2>1, <2>4
    <3>2. offset + (i + 1 - n) = offset + (i - n) + 1
      BY <1>3, <1>4, <1>8, <3>1
    <3>3. Text'[i] = <<log, offset + (i - n)>>
      BY <1>10, <3>1
    <3>4. Text'[i + 1] = <<log, offset + (i + 1 - n)>>
      <4> PICK next \in n + 1 .. n + m : next = i + 1
        BY <3>1
      <4>1. Text'[next] = <<log, offset + (next - n)>>
        BY <1>10
      <4> QED BY <1>3, <1>4, <1>8, <4>1
    <3>5. Text'[i][1] = log /\ Text'[i][2] = offset + (i - n)
      BY <3>3
    <3> QED BY <3>2, <3>4, <3>5
  <2> QED BY <1>3, <1>8, <2>1, <2>2, <2>3, <2>4
<1>19. HalfLine'
  <2> SUFFICES ASSUME partial' # <<>> PROVE HalfLine'
    BY DEF HalfLine
  <2>1. /\ Len(partial') = 1 /\ offset' % 2 = 1 /\ partial'[1][2] = offset'
        /\ \/ partial' = partial /\ data = <<>>
           \/ partial'[1][1] = log
    BY <1>2
  <2>2. CASE partial' = partial /\ data = <<>>
    <3>1. offset' = offset
      BY <1>2, <1>4, <2>2
    <3>2. offset # 0
      BY <2>1, <3>1
    <3>3. reading' = reading
      BY <1>6, <3>2
    <3>4. partial[1][1] = reading \/ {partial[1][1], reading} \subseteq mixed
      BY <2>2 DEF IInv, TextInv, HalfLine
    <3> QED BY <1>6, <2>1, <2>2, <3>3, <3>4 DEF HalfLine
  <2>3. CASE partial'[1][1] = log
    BY <1>6, <2>1, <2>3 DEF HalfLine
  <2> QED BY <2>1, <2>2, <2>3
<1>20. TextInv'
  BY <1>2, <1>14, <1>15, <1>16, <1>18, <1>19 DEF TextInv
<1>21. TypeOK'
  <2>1. offset' \in 0 .. MaxLen
    <3>1. offset' = offset + m /\ (m = 0 \/ offset + m <= file.len)
      BY <1>2 DEF m
    <3>2. file.len \in 0 .. MaxLen
      BY <1>3 DEF file
    <3> QED BY <1>3, <1>4, <3>1, <3>2
  <2>2. reading' \in 0 .. MaxLogs /\ mixed' \subseteq 0 .. MaxLogs
    <3>1. log \in 0 .. MaxLogs
      BY <1>3 DEF log
    <3> QED BY <1>4, <1>6, <3>1
  <2> QED BY <1>1, <1>2, <2>1, <2>2 DEF IInv, TypeOK, env
<1>22. Touched' \subseteq Touched \cup {log}
  <2>1. \A i \in 1 .. n + m : Text'[i][1] \in Touched \cup {log}
    <3> SUFFICES ASSUME NEW i \in 1 .. n + m PROVE Text'[i][1] \in Touched \cup {log}
      OBVIOUS
    <3>1. CASE i <= n
      <4>1. i \in 1 .. n /\ Text'[i] = Text[i]
        BY <1>3, <1>8, <1>10, <3>1
      <4> QED BY <1>8, <4>1 DEF Touched
    <3>2. CASE i > n
      <4>1. i \in n + 1 .. n + m
        BY <1>3, <1>8, <3>2
      <4> QED BY <1>10, <4>1
    <3> QED BY <1>3, <1>8, <3>1, <3>2
  <2>2. joined'.log \in Touched /\ reading' \in Touched \cup {log}
    BY <1>1, <1>6 DEF Touched
  <2> QED BY <1>9, <2>1, <2>2 DEF Touched
<1>23. LogsAreBegun'
  <2>1. log \in 0 .. logs
    <3>1. files[Inode].log <= logs /\ files[Inode].log \in 1 .. MaxLogs /\ logs \in Nat
      BY <1>3, ConstantTypes DEF IInv, TypeOK, FilesInv, LogsAreBegun, log
    <3> QED BY <1>3, <3>1 DEF log
  <2>2. reading \in 0 .. logs
    BY DEF IInv, FilesInv, LogsAreBegun, Touched
  <2>3. Touched' \cup mixed' \subseteq 0 .. logs
    BY <1>6, <1>22, <2>1, <2>2 DEF IInv, FilesInv, LogsAreBegun
  <2> QED BY <1>1, <2>3 DEF IInv, FilesInv, LogsAreBegun, env
<1>24. LiveIsRead'
  <2>1. Live' \subseteq {path} \ {0}
    BY <1>1 DEF Live, env
  <2> SUFFICES ASSUME path # 0, files[path].log \in Touched', files[path].log \notin mixed'
               PROVE  files[path].log = reading' /\ offset' <= files[path].len
    BY <1>1, <2>1 DEF LiveIsRead, env
  <2>2. CASE Inode = path
    <3>1. log = files[path].log /\ file.len = files[path].len
      BY <2>2 DEF log, file
    <3>2. log \notin mixed' /\ reading' = log /\ (log = reading \/ offset = 0)
      BY <1>6, <3>1
    <3>3. offset <= file.len
      <4>1. CASE offset = 0
        BY <1>3, <4>1 DEF file
      <4>2. CASE log = reading
        <5>1. files[Inode].log \in Touched \ mixed
          BY <1>6, <3>2, <4>2 DEF Touched, log
        <5> QED BY <1>1, <5>1 DEF IInv, FilesInv, LiveIsRead, file
      <4> QED BY <3>2, <4>1, <4>2
    <3>4. offset' <= file.len
      <4>1. offset' = offset + m /\ (m = 0 \/ offset + m <= file.len)
        BY <1>2 DEF m
      <4> QED BY <1>4, <3>3, <4>1
    <3> QED BY <3>1, <3>2, <3>4
  <2>3. CASE Inode # path
    <3>1. tailer = "probe" /\ Inode = looked /\ looked \notin {0, path}
      BY <1>1, <2>3 DEF Inode
    <3>2. files[path].log # log
      BY <3>1 DEF IInv, FilesInv, LiveDiffer, log
    <3>3. files[path].log \in mixed \/ files[path].log \notin Touched
      BY <3>1 DEF IInv, FilesInv, NewIsUntouched
    <3> QED BY <1>6, <1>22, <3>2, <3>3
  <2> QED BY <2>2, <2>3
<1>25. NewIsUntouched'
  <2> SUFFICES ASSUME path # 0, tailer # "probe", known \notin {0, path}, files[path].log \notin mixed'
               PROVE  files[path].log \notin Touched'
    BY <1>1 DEF NewIsUntouched, env
  <2>1. looked = known /\ Inode = path
    BY <1>1 DEF IInv, FilesInv, LooksAtKnown, Inode
  <2>2. mixed' = mixed \cup {reading, log}
    BY <1>1, <2>1 DEF Swapped, log
  <2>3. log = files[path].log
    BY <2>1 DEF log
  <2> QED BY <2>2, <2>3
<1>26. LiveDiffer' /\ LooksAtKnown'
  BY <1>1 DEF LiveDiffer, LooksAtKnown
<1>27. UnknownIsUnread'
  BY <1>1 DEF IInv, FilesInv, LooksAtKnown, UnknownIsUnread
<1> QED BY <1>20, <1>21, <1>23, <1>24, <1>25, <1>26, <1>27 DEF IInv, FilesInv

LEMMA NextIInv == IInv /\ [Next]_vars => IInv'
BY WriteIInv, TruncateIInv, CreateIInv, OtherEnvIInv, JoinIInv, LookAtNewLogIInv, LookIInv, ReadIInv,
   ReadMissingIInv, NewRunIInv DEF Next, Poll

-----------------------------------------------------------------------------
\* Every reachable state satisfies the invariant.
THEOREM Invariant == Spec => []IInv
<1> QED
  BY InitIInv, NextIInv, PTL DEF Spec

\* Whatever the writer does between two system calls of a poll, a tailer hands on an
\* unbroken stretch of each log that was not replaced unnoticed.
THEOREM LogsAreReadUnbroken == Spec => []LogTailInv
<1>1. IInv => LogTailInv
  BY DEF IInv, TextInv, LogTailInv, Unbroken
<1> QED
  BY <1>1, Invariant, PTL

\* A line that is handed to a parser is of one log, and whole.
THEOREM LinesAreNotSpliced == Spec => []NoSplicedLine
<1>1. IInv => NoSplicedLine
  <2> SUFFICES ASSUME IInv, NEW i \in 1 .. Len(out) - 1
               PROVE  \/ IsEnd(out[i])
                      \/ out[i + 1] = <<out[i][1], out[i][2] + 1>>
                      \/ {out[i][1], out[i + 1][1]} \subseteq mixed
    BY DEF NoSplicedLine
  <2>1. /\ Len(out) \in Nat /\ Len(partial) \in Nat /\ Len(Text) = Len(out) + Len(partial)
        /\ \A k \in 1 .. Len(out) : Text[k] = out[k]
    BY OutIsPrefix DEF IInv
  <2>2. i \in 1 .. Len(Text) - 1 /\ i \in 1 .. Len(out) /\ i + 1 \in 1 .. Len(out)
    BY <2>1
  <2>3. Text[i] = out[i] /\ Text[i + 1] = out[i + 1]
    BY <2>1, <2>2
  <2> QED BY <2>2, <2>3 DEF IInv, TextInv, NoSplicedText
<1> QED
  BY <1>1, Invariant, PTL
=============================================================================
