---------------------------- MODULE RunStoreProofs ----------------------------
(***************************************************************************)
(* Proofs about RunStore, for every value of its constants.                *)
(***************************************************************************)
EXTENDS RunStore, TLAPS

\* Chunk k of the content s is a line of its own.
ParsesIn(s, k) == s[k].whole /\ (k > 1 => s[k - 1].whole)

\* One of the first last chunks of s is of event n, and tells of it: as a line
\* of its own, or as one that was torn.
KeptIn(s, n, last) ==
  \E k \in 1 .. last : s[k].id = n /\ (ParsesIn(s, k) \/ ~s[k].whole)

\* One of them is all of event n's line, whatever it was written behind.
CopyIn(s, n, last) == \E k \in 1 .. last : s[k].id = n /\ s[k].whole

\* Event n of run r was written, and is kept unless the run is in skew.
HeldIn(skew, r, s, n, last) ==
  /\ CopyIn(s, n, last)
  /\ r \in skew \/ KeptIn(s, n, last)

IsTorn(s) == s # <<>> /\ ~s[Len(s)].whole

\* A file that is yet to be created is empty, and one that is being written is
\* no other run's.
FilesApart ==
  /\ \A f \in Files : f > created => content[f] = <<>> /\ durable[f] = 0
  /\ writer # Unlocked =>
       /\ dir[writer.run] \in {0, writer.file}
       /\ \A r \in Run : r # writer.run => dir[r] # writer.file

\* What an upload has written so far is held, was written now, and has expired
\* if the file has lost its name.  It began with the oldest event the agent holds,
\* unless that was dropped, or the upload given up on.
UploadInv ==
  writer # Unlocked =>
    /\ writer.run \in skewed \/ writer.first = next[writer.run]
    /\ writer.first <= writer.last
    /\ writer.at \in writer.first .. writer.last + 1
    /\ writer.at > writer.first =>
         /\ content[writer.file] # <<>> /\ ~IsTorn(content[writer.file])
         /\ mtime[writer.file] = clock
    /\ \A n \in writer.first .. writer.at - 1 :
         /\ HeldIn(skewed, writer.run, content[writer.file], n, Len(content[writer.file]))
         /\ dir[writer.run] = 0 => [run |-> writer.run, id |-> n] \in expired

\* An upload that tore a chunk had kept the event with which it began, and with
\* which the next one begins, unless that is dropped or a late upload stored.
TornInv ==
  /\ \A r \in Run : dir[r] # 0 /\ IsTorn(content[dir[r]]) /\ r \notin skewed =>
       KeptIn(content[dir[r]], next[r], Len(content[dir[r]]))
  /\ writer # Unlocked /\ IsTorn(content[writer.file]) /\ writer.run \notin skewed =>
       KeptIn(content[writer.file], next[writer.run], Len(content[writer.file]))

\* What is synced ends with a whole line, and a line that is too long began
\* with a torn chunk.
ChunksInv ==
  \A f \in Files :
    /\ durable[f] # 0 => content[f][durable[f]].whole
    /\ \A k \in 1 .. Len(content[f]) :
         content[f][k].line > LineLimit => k > 1 /\ ~content[f][k - 1].whole

\* What was acknowledged and is not removed is held in what is synced, in a
\* file that was written no earlier.
AckedInv ==
  \A a \in acked :
    /\ \/ [run |-> a.run, id |-> a.id] \in deleted \cup expired
       \/ /\ dir[a.run] # 0
          /\ HeldIn(skewed, a.run, content[dir[a.run]], a.id, durable[dir[a.run]])
    /\ dir[a.run] # 0 => a.at <= mtime[dir[a.run]]

\* The file that the cleanup is about to remove was past when it looked.
CleanerInv == cleaner.doomed # {} => cleaner.seen + Retention < cleaner.start

\* The inductive invariant.
StoreInv ==
  /\ TypeOK
  /\ FilesApart
  /\ UploadInv
  /\ TornInv
  /\ ChunksInv
  /\ AckedInv
  /\ CleanerInv

-----------------------------------------------------------------------------
\* Sequences of chunks.

LEMMA ChunkFields ==
  ASSUME NEW c \in Chunk
  PROVE  c.id \in Events /\ c.whole \in BOOLEAN /\ c.line \in Nat
BY DEF Chunk

\* A chunk that is written comes after the others.
LEMMA ChunkAppended ==
  ASSUME NEW s \in Seq(Chunk), NEW c \in Chunk
  PROVE  /\ Append(s, c) \in Seq(Chunk)
         /\ Len(s) \in Nat /\ Len(Append(s, c)) = Len(s) + 1
         /\ Append(s, c)[Len(s) + 1] = c
         /\ \A k \in 1 .. Len(s) : Append(s, c)[k] = s[k]
         /\ Append(s, c) # <<>>
OBVIOUS

\* What is left of a file is what it began with.
LEMMA ChunksLeft ==
  ASSUME NEW s \in Seq(Chunk), NEW d \in 0 .. Len(s)
  PROVE  /\ SubSeq(s, 1, d) \in Seq(Chunk)
         /\ Len(SubSeq(s, 1, d)) = d
         /\ \A k \in 1 .. d : SubSeq(s, 1, d)[k] = s[k]
         /\ SubSeq(s, 1, d) # <<>> => d # 0
<1>1. Len(s) \in Nat /\ d \in Nat /\ d <= Len(s)
  OBVIOUS
<1>2. \A k \in 1 .. d : k \in 1 .. Len(s) /\ s[k] \in Chunk
  BY <1>1
<1>3. SubSeq(s, 1, d) \in Seq(Chunk) /\ Len(SubSeq(s, 1, d)) = d
  BY <1>1, <1>2
<1>4. \A k \in 1 .. d : SubSeq(s, 1, d)[k] = s[k]
  BY <1>1
<1>5. d = 0 => SubSeq(s, 1, d) = <<>>
  BY <1>3
<1> QED BY <1>3, <1>4, <1>5

\* What a beginning keeps is kept by whatever begins like it.
LEMMA KeptOn ==
  ASSUME NEW s, NEW t, NEW n, NEW d \in Nat, NEW m \in Nat, d <= m,
         \A k \in 1 .. d : t[k] = s[k],
         KeptIn(s, n, d)
  PROVE  KeptIn(t, n, m)
<1>1. PICK k \in 1 .. d : s[k].id = n /\ (ParsesIn(s, k) \/ ~s[k].whole)
  BY DEF KeptIn
<1>2. k \in 1 .. m /\ t[k] = s[k]
  BY <1>1
<1>3. k > 1 => k - 1 \in 1 .. d
  OBVIOUS
<1>4. ParsesIn(s, k) => ParsesIn(t, k)
  BY <1>2, <1>3 DEF ParsesIn
<1> QED BY <1>1, <1>2, <1>4 DEF KeptIn

\* What a beginning holds is held by whatever begins like it, however more is in skew.
LEMMA HeldOn ==
  ASSUME NEW skew, NEW more, skew \subseteq more, NEW r,
         NEW s, NEW t, NEW n, NEW d \in Nat, NEW m \in Nat, d <= m,
         \A k \in 1 .. d : t[k] = s[k],
         HeldIn(skew, r, s, n, d)
  PROVE  HeldIn(more, r, t, n, m)
<1>1. CopyIn(t, n, m)
  <2>1. PICK k \in 1 .. d : s[k].id = n /\ s[k].whole
    BY DEF HeldIn, CopyIn
  <2>2. k \in 1 .. m /\ t[k] = s[k]
    BY <2>1
  <2> QED BY <2>1, <2>2 DEF CopyIn
<1>2. r \in more \/ KeptIn(t, n, m)
  BY KeptOn DEF HeldIn
<1> QED BY <1>1, <1>2 DEF HeldIn

\* A whole chunk keeps its event, unless the chunk before it was torn.
LEMMA WholeIsKept ==
  ASSUME NEW s \in Seq(Chunk), NEW c \in Chunk, c.whole, ~IsTorn(s)
  PROVE  KeptIn(Append(s, c), c.id, Len(s) + 1)
<1> DEFINE t == Append(s, c)
<1>1. /\ Len(s) \in Nat /\ t[Len(s) + 1] = c
      /\ \A k \in 1 .. Len(s) : t[k] = s[k]
  BY ChunkAppended
<1> HIDE DEF t
<1>2. Len(s) # 0 => t[Len(s)].whole
  <2>1. Len(s) # 0 => s # <<>> /\ Len(s) \in 1 .. Len(s)
    BY <1>1
  <2> QED BY <2>1, <1>1 DEF IsTorn
<1>3. ParsesIn(t, Len(s) + 1)
  BY <1>1, <1>2 DEF ParsesIn
<1>4. KeptIn(t, c.id, Len(s) + 1)
  BY <1>1, <1>3 DEF KeptIn
<1> QED BY <1>4 DEF t

\* So does a torn one.
LEMMA TornIsKept ==
  ASSUME NEW s \in Seq(Chunk), NEW c \in Chunk, ~c.whole
  PROVE  KeptIn(Append(s, c), c.id, Len(s) + 1)
<1> DEFINE t == Append(s, c)
<1>1. Len(s) \in Nat /\ t[Len(s) + 1] = c
  BY ChunkAppended
<1> HIDE DEF t
<1>2. KeptIn(t, c.id, Len(s) + 1)
  BY <1>1 DEF KeptIn
<1> QED BY <1>2 DEF t

\* A whole chunk is a copy of its event.
LEMMA WholeIsCopy ==
  ASSUME NEW s \in Seq(Chunk), NEW c \in Chunk, c.whole
  PROVE  CopyIn(Append(s, c), c.id, Len(s) + 1)
<1> DEFINE t == Append(s, c)
<1>1. Len(s) \in Nat /\ t[Len(s) + 1] = c
  BY ChunkAppended
<1> HIDE DEF t
<1>2. CopyIn(t, c.id, Len(s) + 1)
  BY <1>1 DEF CopyIn
<1> QED BY <1>2 DEF t

\* An event that is held is among the file's.
LEMMA HeldIsIn ==
  ASSUME NEW s \in Seq(Chunk), NEW d \in 0 .. Len(s), NEW n, NEW skew, NEW r,
         HeldIn(skew, r, s, n, d)
  PROVE  n \in {c.id : c \in Range(s)} /\ n \in Events
<1>1. PICK k \in 1 .. d : s[k].id = n
  BY DEF HeldIn, CopyIn
<1>2. k \in DOMAIN s /\ s[k] \in Chunk
  BY <1>1
<1> QED BY <1>1, <1>2, ChunkFields DEF Range

-----------------------------------------------------------------------------
\* What is known of the variables.
LEMMA StoreTypes ==
  ASSUME TypeOK
  PROVE  /\ MaxEvents \in Nat /\ MaxFiles \in Nat /\ MaxTime \in Nat /\ MaxFaults \in Nat
         /\ Retention \in Nat /\ LineLimit \in Nat
         /\ \A n \in Events : LineSize[n] \in 1 .. LineLimit
         /\ clock \in 0 .. MaxTime /\ clock \in Nat
         /\ created \in 0 .. MaxFiles /\ created \in Nat
         /\ dir \in [Run -> 0 .. created]
         /\ \A r \in Run : dir[r] # 0 => dir[r] \in Files
         /\ content \in [Files -> Seq(Chunk)]
         /\ \A f \in Files : content[f] \in Seq(Chunk) /\ Len(content[f]) \in Nat
         /\ durable \in [Files -> Nat]
         /\ \A f \in Files : durable[f] \in 0 .. Len(content[f]) /\ durable[f] \in Nat
         /\ mtime \in [Files -> 0 .. clock]
         /\ \A f \in Files : mtime[f] \in Nat /\ mtime[f] <= clock
         /\ cleaner.start \in 0 .. clock /\ cleaner.start \in Nat /\ cleaner.awake \in BOOLEAN
         /\ cleaner.todo \subseteq Run /\ cleaner.doomed \subseteq Run
         /\ cleaner.seen \in 0 .. clock /\ cleaner.seen \in Nat
         /\ next \in [Run -> 1 .. MaxEvents + 1]
         /\ \A r \in Run : next[r] \in 1 .. MaxEvents + 1 /\ next[r] \in Nat
         /\ \A a \in acked : a.run \in Run /\ a.id \in Events /\ a.at \in Nat /\ a.at <= clock
         /\ faults \in 0 .. MaxFaults /\ faults \in Nat
<1>1. /\ MaxEvents \in Nat /\ MaxFiles \in Nat /\ MaxTime \in Nat /\ MaxFaults \in Nat
      /\ Retention \in Nat /\ LineLimit \in Nat
      /\ \A n \in Events : LineSize[n] \in 1 .. LineLimit
  BY RunStoreAssumption DEF RunStoreAssumption, Events
<1>2. /\ clock \in 0 .. MaxTime /\ clock \in Nat
      /\ created \in 0 .. MaxFiles /\ created \in Nat
      /\ dir \in [Run -> 0 .. created]
      /\ faults \in 0 .. MaxFaults /\ faults \in Nat
  BY <1>1 DEF TypeOK
<1>3. \A r \in Run : dir[r] # 0 => dir[r] \in Files
  BY <1>1, <1>2 DEF Files
<1>4. /\ content \in [Files -> Seq(Chunk)]
      /\ \A f \in Files : content[f] \in Seq(Chunk) /\ Len(content[f]) \in Nat
  BY DEF TypeOK
<1>5. durable \in [Files -> Nat]
      /\ \A f \in Files : durable[f] \in 0 .. Len(content[f]) /\ durable[f] \in Nat
  BY <1>4 DEF TypeOK
<1>6. /\ mtime \in [Files -> 0 .. clock]
      /\ \A f \in Files : mtime[f] \in Nat /\ mtime[f] <= clock
  BY <1>2 DEF TypeOK
<1>7. /\ cleaner.start \in 0 .. clock /\ cleaner.start \in Nat /\ cleaner.awake \in BOOLEAN
      /\ cleaner.todo \subseteq Run /\ cleaner.doomed \subseteq Run
      /\ cleaner.seen \in 0 .. clock /\ cleaner.seen \in Nat
  BY <1>2 DEF TypeOK, Cleanups
<1>8. /\ next \in [Run -> 1 .. MaxEvents + 1]
      /\ \A r \in Run : next[r] \in 1 .. MaxEvents + 1 /\ next[r] \in Nat
  BY <1>1 DEF TypeOK
<1>9. \A a \in acked : a.run \in Run /\ a.id \in Events /\ a.at \in Nat /\ a.at <= clock
  BY <1>2 DEF TypeOK
<1> QED BY <1>1, <1>2, <1>3, <1>4, <1>5, <1>6, <1>7, <1>8, <1>9

\* What is known of an upload under the lock.
LEMMA UploadTypes ==
  ASSUME TypeOK, writer # Unlocked
  PROVE  /\ writer \in Uploads
         /\ writer.run \in Run /\ writer.file \in 1 .. created /\ writer.file \in Files
         /\ writer.file # 0
         /\ writer.at \in 1 .. MaxEvents + 1 /\ writer.at \in Nat
         /\ writer.first \in Events /\ writer.first \in Nat
         /\ writer.last \in Events /\ writer.last \in Nat
<1>1. writer \in Uploads
  BY DEF TypeOK
<1>2. MaxEvents \in Nat /\ MaxFiles \in Nat /\ created \in 0 .. MaxFiles
  BY StoreTypes
<1> QED BY <1>1, <1>2 DEF Uploads, Files, Events

-----------------------------------------------------------------------------
\* The store is empty at first.
LEMMA StoreInit == Init => StoreInv
<1> SUFFICES ASSUME Init PROVE StoreInv
  OBVIOUS
<1>1. /\ MaxEvents \in Nat /\ MaxFiles \in Nat /\ MaxTime \in Nat /\ MaxFaults \in Nat
  BY RunStoreAssumption DEF RunStoreAssumption
<1>2. \A f \in Files : content[f] = <<>> /\ Len(content[f]) = 0 /\ durable[f] = 0
  BY DEF Init
<1>3. TypeOK
  <2>1. clock \in 0 .. MaxTime /\ created \in 0 .. MaxFiles /\ faults \in 0 .. MaxFaults
    BY <1>1 DEF Init
  <2>2. dir \in [Run -> 0 .. created] /\ \A r, q \in Run : dir[r] = dir[q] /\ dir[r] # 0 => r = q
    BY DEF Init
  <2>3. content \in [Files -> Seq(Chunk)]
    BY DEF Init
  <2>4. durable \in [Files -> Nat] /\ \A f \in Files : durable[f] <= Len(content[f])
    BY <1>2 DEF Init
  <2>5. mtime \in [Files -> 0 .. clock] /\ next \in [Run -> 1 .. MaxEvents + 1]
    BY <1>1 DEF Init
  <2>6. cleaner \in Cleanups
    BY DEF Init, Asleep, Cleanups
  <2>7. writer = Unlocked /\ acked = {} /\ deleted \cup expired = {} /\ late = {} /\ skewed = {}
    BY DEF Init
  <2> QED BY <2>1, <2>2, <2>3, <2>4, <2>5, <2>6, <2>7 DEF TypeOK
<1>4. FilesApart /\ UploadInv
  BY <1>2 DEF Init, FilesApart, UploadInv
<1>5. TornInv /\ ChunksInv /\ AckedInv /\ CleanerInv
  BY <1>2 DEF Init, Asleep, TornInv, ChunksInv, AckedInv, CleanerInv
<1> QED BY <1>3, <1>4, <1>5 DEF StoreInv

-----------------------------------------------------------------------------
\* Time passes while nothing is uploaded.
LEMMA AdvanceKeeps == ASSUME StoreInv, Advance PROVE StoreInv'
<1>1. /\ clock < MaxTime /\ writer = Unlocked /\ clock' = clock + 1
      /\ UNCHANGED <<dir, created, content, durable, mtime, writer, cleaner, next, late, acked,
                     deleted, expired, skewed, faults>>
  BY DEF Advance, fileVars, agentVars, historyVars
<1>2. TypeOK
  BY DEF StoreInv
<1>3. clock \in Nat /\ MaxTime \in Nat
  BY <1>2, StoreTypes
<1>4. TypeOK'
  <2>1. clock' \in 0 .. MaxTime /\ 0 .. clock \subseteq 0 .. clock'
    BY <1>1, <1>3
  <2>2. mtime \in [Files -> 0 .. clock']
    BY <1>2, <2>1 DEF TypeOK
  <2>3. cleaner \in Cleanups'
    BY <1>1, <1>2, <2>1 DEF TypeOK, Cleanups
  <2>4. acked \subseteq [run : Run, id : Events, at : 0 .. clock']
    <3>1. [run : Run, id : Events, at : 0 .. clock] \subseteq [run : Run, id : Events, at : 0 .. clock']
      BY <2>1
    <3> QED BY <1>2, <3>1 DEF TypeOK
  <2> QED BY <2>1, <2>2, <2>3, <2>4, <1>1, <1>2 DEF TypeOK, Uploads, Cleanups
<1>5. FilesApart' /\ UploadInv'
  BY <1>1 DEF StoreInv, FilesApart, UploadInv
<1>6. TornInv' /\ ChunksInv' /\ AckedInv' /\ CleanerInv'
  BY <1>1 DEF StoreInv, TornInv, ChunksInv, AckedInv, CleanerInv
<1> QED BY <1>4, <1>5, <1>6 DEF StoreInv

\* An upload ends with an error.
LEMMA SyncFailsKeeps == ASSUME StoreInv, SyncFails PROVE StoreInv'
<1>1. /\ faults < MaxFaults /\ faults' = faults + 1 /\ writer' = Unlocked
      /\ UNCHANGED <<clock, dir, created, content, durable, mtime, cleaner, next, late, acked,
                     deleted, expired, skewed>>
  BY DEF SyncFails, Fault, fileVars, agentVars, historyVars
<1>2. TypeOK
  BY DEF StoreInv
<1>3. TypeOK'
  <2>1. faults' \in 0 .. MaxFaults
    BY <1>1, <1>2, StoreTypes
  <2> QED BY <2>1, <1>1, <1>2 DEF TypeOK, Uploads, Cleanups
<1>4. FilesApart' /\ UploadInv'
  BY <1>1 DEF StoreInv, FilesApart, UploadInv
<1>5. TornInv' /\ ChunksInv' /\ AckedInv' /\ CleanerInv'
  BY <1>1 DEF StoreInv, TornInv, ChunksInv, AckedInv, CleanerInv
<1> QED BY <1>3, <1>4, <1>5 DEF StoreInv

\* The cleanup starts, looks at a file, or ends.
LEMMA CleanerKeeps ==
  ASSUME StoreInv, CleanStart \/ CleanEnd \/ \E r \in Run : CleanLook(r)
  PROVE  StoreInv'
<1>1. /\ cleaner' \in Cleanups
      /\ cleaner'.doomed # {} => cleaner'.seen + Retention < cleaner'.start
      /\ UNCHANGED <<clock, dir, created, content, durable, mtime, writer, next, late, acked,
                     deleted, expired, skewed, faults>>
  <2> USE DEF fileVars, agentVars, historyVars
  <2>1. TypeOK
    BY DEF StoreInv
  <2>2. CASE CleanStart
    <3>1. clock \in 0 .. clock /\ 0 \in 0 .. clock /\ {r \in Run : dir[r] # 0} \subseteq Run
      BY <2>1, StoreTypes
    <3>2. cleaner' = [start |-> clock, awake |-> TRUE,
                      todo |-> {r \in Run : dir[r] # 0}, doomed |-> {}, seen |-> 0]
      BY <2>2 DEF CleanStart
    <3>3. cleaner' \in Cleanups /\ cleaner'.doomed = {}
      BY <3>1, <3>2 DEF Cleanups
    <3> QED BY <3>3, <2>2 DEF CleanStart
  <2>3. CASE CleanEnd
    <3>1. 0 \in 0 .. clock
      BY <2>1, StoreTypes
    <3>2. cleaner' \in Cleanups /\ cleaner'.doomed = {}
      BY <3>1, <2>3 DEF CleanEnd, Asleep, Cleanups
    <3> QED BY <3>2, <2>3 DEF CleanEnd
  <2>4. CASE \E r \in Run : CleanLook(r)
    <3>1. PICK r \in Run : CleanLook(r)
      BY <2>4
    <3> DEFINE isPast == dir[r] # 0 /\ Past(dir[r], cleaner.start)
    <3>2. /\ cleaner \in Cleanups /\ 0 \in 0 .. clock
          /\ dir[r] # 0 => mtime[dir[r]] \in 0 .. clock
      BY <2>1, StoreTypes DEF TypeOK
    <3>3. cleaner' = [cleaner EXCEPT !.todo = @ \ {r},
                                     !.doomed = IF isPast THEN {r} ELSE {},
                                     !.seen = IF isPast THEN mtime[dir[r]] ELSE 0]
      BY <3>1 DEF CleanLook
    <3>4. isPast => dir[r] # 0 /\ mtime[dir[r]] + Retention < cleaner.start
      BY DEF Past
    <3> HIDE DEF isPast
    <3>5. /\ cleaner' \in Cleanups /\ cleaner'.start = cleaner.start
          /\ cleaner'.doomed = IF isPast THEN {r} ELSE {}
          /\ cleaner'.seen = IF isPast THEN mtime[dir[r]] ELSE 0
      BY <3>2, <3>3, <3>4 DEF Cleanups
    <3>6. cleaner'.doomed # {} => cleaner'.seen + Retention < cleaner'.start
      BY <3>4, <3>5
    <3> QED BY <3>1, <3>5, <3>6 DEF CleanLook
  <2> QED BY <2>2, <2>3, <2>4
<1>2. TypeOK'
  BY <1>1 DEF StoreInv, TypeOK, Uploads, Cleanups
<1>3. FilesApart' /\ UploadInv' /\ CleanerInv'
  BY <1>1 DEF StoreInv, FilesApart, UploadInv, CleanerInv
<1>4. TornInv' /\ ChunksInv' /\ AckedInv'
  BY <1>1 DEF StoreInv, TornInv, ChunksInv, AckedInv
<1> QED BY <1>2, <1>3, <1>4 DEF StoreInv

-----------------------------------------------------------------------------
\* A run of which an event is dropped is in skew: nothing more is known of the
\* event with which the next upload begins.
LEMMA DropKeeps == ASSUME StoreInv, NEW r \in Run, Drop(r) PROVE StoreInv'
<1>1. /\ next[r] <= MaxEvents
      /\ next' = [next EXCEPT ![r] = next[r] + 1]
      /\ skewed' = skewed \cup {r}
      /\ UNCHANGED <<clock, dir, created, content, durable, mtime, writer, cleaner, late, acked,
                     deleted, expired, faults>>
  BY DEF Drop, fileVars
<1>2. TypeOK
  BY DEF StoreInv
<1>3. /\ next \in [Run -> 1 .. MaxEvents + 1] /\ next[r] \in Nat /\ MaxEvents \in Nat
      /\ \A f \in Files : content[f] \in Seq(Chunk) /\ Len(content[f]) \in Nat
      /\ \A f \in Files : durable[f] \in Nat
      /\ \A q \in Run : dir[q] # 0 => dir[q] \in Files
      /\ \A a \in acked : a.run \in Run
  BY <1>2, StoreTypes
<1>4. next' \in [Run -> 1 .. MaxEvents + 1] /\ \A q \in Run : q # r => next'[q] = next[q]
  BY <1>1, <1>3
<1>5. \A q, s, n, d : HeldIn(skewed, q, s, n, d) => HeldIn(skewed', q, s, n, d)
  BY <1>1 DEF HeldIn
<1>6. TypeOK'
  BY <1>1, <1>2, <1>4 DEF TypeOK, Uploads, Cleanups
<1>7. FilesApart' /\ ChunksInv' /\ CleanerInv'
  BY <1>1 DEF StoreInv, FilesApart, ChunksInv, CleanerInv
<1>8. UploadInv'
  <2> SUFFICES ASSUME writer # Unlocked
               PROVE  /\ writer.run \in skewed' \/ writer.first = next'[writer.run]
                      /\ \A n \in writer.first .. writer.at - 1 :
                           HeldIn(skewed', writer.run, content[writer.file], n,
                                  Len(content[writer.file]))
    BY <1>1 DEF StoreInv, UploadInv
  <2>1. writer.run \in Run
    BY <1>2, UploadTypes
  <2>2. writer.run \in skewed \/ writer.first = next[writer.run]
    BY DEF StoreInv, UploadInv
  <2>3. writer.run \in skewed' \/ writer.first = next'[writer.run]
    BY <2>1, <2>2, <1>1, <1>4
  <2> QED BY <2>3, <1>5 DEF StoreInv, UploadInv
<1>9. TornInv'
  <2>1. writer # Unlocked => writer.run \in Run
    BY <1>2, UploadTypes
  <2>2. \A q \in Run : q \notin skewed' => q \notin skewed /\ next'[q] = next[q]
    BY <1>1, <1>4
  <2> QED BY <2>1, <2>2, <1>1 DEF StoreInv, TornInv
<1>10. AckedInv'
  BY <1>1, <1>5 DEF StoreInv, AckedInv
<1> QED BY <1>6, <1>7, <1>8, <1>9, <1>10 DEF StoreInv

\* The agent waits no longer, for an upload before the lock or under it.
LEMMA GiveUpKeeps ==
  ASSUME StoreInv, NEW r \in Run, NEW size \in 1 .. BatchLimit, GiveUp(r, size)
  PROVE  StoreInv'
<1> DEFINE u == [run |-> r, first |-> next[r], last |-> next[r] + size - 1]
<1>1. /\ next[r] + size - 1 <= MaxEvents
      /\ faults < MaxFaults /\ faults' = faults + 1
      /\ late' = late \cup {u}
      /\ UNCHANGED <<clock, dir, created, content, durable, mtime, writer, cleaner, next, acked,
                     deleted, expired, skewed>>
  BY DEF GiveUp, Fault, fileVars, historyVars
<1>2. TypeOK
  BY DEF StoreInv
<1>3. /\ next[r] \in 1 .. MaxEvents + 1 /\ MaxEvents \in Nat
      /\ faults \in 0 .. MaxFaults /\ MaxFaults \in Nat
      /\ size \in Nat /\ size >= 1
  BY <1>2, StoreTypes, RunStoreAssumption DEF RunStoreAssumption
<1>4. u \in GivenUp /\ u.first <= u.last
  BY <1>1, <1>3 DEF GivenUp, Events
<1> HIDE DEF u
<1>5. faults' \in 0 .. MaxFaults
  BY <1>1, <1>3
<1>6. TypeOK'
  BY <1>1, <1>2, <1>4, <1>5 DEF TypeOK, Uploads, Cleanups
<1>7. FilesApart' /\ UploadInv' /\ ChunksInv' /\ CleanerInv'
  BY <1>1 DEF StoreInv, FilesApart, UploadInv, ChunksInv, CleanerInv
<1>8. TornInv' /\ AckedInv'
  BY <1>1 DEF StoreInv, TornInv, AckedInv
<1> QED BY <1>6, <1>7, <1>8 DEF StoreInv

LEMMA StopWaitingKeeps == ASSUME StoreInv, StopWaiting PROVE StoreInv'
<1>1. /\ writer.isHeard /\ faults < MaxFaults /\ faults' = faults + 1
      /\ writer' = [writer EXCEPT !.isHeard = FALSE]
      /\ UNCHANGED <<clock, dir, created, content, durable, mtime, cleaner, next, late, acked,
                     deleted, expired, skewed>>
  BY DEF StopWaiting, Fault, fileVars, agentVars, historyVars
<1>2. TypeOK
  BY DEF StoreInv
<1>3. writer # Unlocked
  BY <1>1 DEF Unlocked
<1>4. writer \in Uploads
  BY <1>2, <1>3 DEF TypeOK
<1>5. /\ writer' \in Uploads /\ writer'.run = writer.run /\ writer'.file = writer.file
      /\ writer'.first = writer.first /\ writer'.at = writer.at /\ writer'.last = writer.last
  BY <1>1, <1>4 DEF Uploads
<1>6. faults' \in 0 .. MaxFaults
  BY <1>1, <1>2, StoreTypes
<1>7. TypeOK'
  BY <1>1, <1>2, <1>5, <1>6 DEF TypeOK, Uploads, Cleanups
<1>8. FilesApart' /\ UploadInv' /\ ChunksInv' /\ CleanerInv'
  BY <1>1, <1>3, <1>5 DEF StoreInv, FilesApart, UploadInv, ChunksInv, CleanerInv
<1>9. TornInv' /\ AckedInv'
  BY <1>1, <1>3, <1>5 DEF StoreInv, TornInv, AckedInv
<1> QED BY <1>7, <1>8, <1>9 DEF StoreInv

-----------------------------------------------------------------------------
\* The events of a file are events of its run.
LEMMA EventsTagged ==
  ASSUME TypeOK, NEW r \in Run, dir[r] # 0
  PROVE  /\ Tagged(r, EventsIn(dir[r])) \subseteq [run : Run, id : Events]
         /\ \A d \in 0 .. Len(content[dir[r]]) : \A n :
              HeldIn(skewed, r, content[dir[r]], n, d) => [run |-> r, id |-> n] \in Tagged(r, EventsIn(dir[r]))
<1>1. content[dir[r]] \in Seq(Chunk) /\ Len(content[dir[r]]) \in Nat
  BY StoreTypes
<1>2. EventsIn(dir[r]) \subseteq Events
  <2> SUFFICES ASSUME NEW c \in Range(content[dir[r]]) PROVE c.id \in Events
    BY DEF EventsIn
  <2>1. c \in Chunk
    BY <1>1 DEF Range
  <2> QED BY <2>1, ChunkFields
<1>3. ASSUME NEW d \in 0 .. Len(content[dir[r]]), NEW n, HeldIn(skewed, r, content[dir[r]], n, d)
      PROVE  n \in EventsIn(dir[r])
  BY <1>1, <1>3, HeldIsIn DEF EventsIn
<1> QED BY <1>2, <1>3 DEF Tagged

\* The events of a run whose file is removed are told as removed.
LEMMA DeleteKeeps == ASSUME StoreInv, NEW r \in Run, Delete(r) PROVE StoreInv'
<1>1. /\ writer = Unlocked /\ dir[r] # 0
      /\ dir' = [dir EXCEPT ![r] = 0]
      /\ deleted' = deleted \cup Tagged(r, EventsIn(dir[r]))
      /\ UNCHANGED <<clock, created, content, durable, mtime, writer, cleaner, next, late, acked,
                     expired, skewed, faults>>
  BY DEF Delete, agentVars
<1>2. TypeOK
  BY DEF StoreInv
<1>3. /\ dir \in [Run -> 0 .. created] /\ created \in Nat
      /\ \A f \in Files : durable[f] \in 0 .. Len(content[f])
      /\ \A q \in Run : dir[q] # 0 => dir[q] \in Files
  BY <1>2, StoreTypes
<1>4. dir' \in [Run -> 0 .. created] /\ \A q \in Run : dir'[q] = IF q = r THEN 0 ELSE dir[q]
  BY <1>1, <1>3
<1>5. /\ Tagged(r, EventsIn(dir[r])) \subseteq [run : Run, id : Events]
      /\ \A d \in 0 .. Len(content[dir[r]]) : \A n :
           HeldIn(skewed, r, content[dir[r]], n, d) => [run |-> r, id |-> n] \in Tagged(r, EventsIn(dir[r]))
  BY <1>1, <1>2, EventsTagged
<1>6. TypeOK'
  <2>1. deleted' \cup expired' \subseteq [run : Run, id : Events]
    BY <1>1, <1>2, <1>5 DEF TypeOK
  <2>2. \A q, p \in Run : dir'[q] = dir'[p] /\ dir'[q] # 0 => q = p
    BY <1>2, <1>4 DEF TypeOK
  <2> QED BY <2>1, <2>2, <1>1, <1>2, <1>4 DEF TypeOK, Uploads, Cleanups
<1>7. FilesApart' /\ UploadInv' /\ ChunksInv' /\ CleanerInv'
  BY <1>1 DEF StoreInv, FilesApart, UploadInv, ChunksInv, CleanerInv
<1>8. TornInv'
  BY <1>1, <1>4 DEF StoreInv, TornInv
<1>9. AckedInv'
  <2> SUFFICES ASSUME NEW a \in acked
               PROVE  /\ \/ [run |-> a.run, id |-> a.id] \in deleted' \cup expired
                         \/ dir'[a.run] # 0 /\ HeldIn(skewed, a.run, content[dir'[a.run]], a.id, durable[dir'[a.run]])
                      /\ dir'[a.run] # 0 => a.at <= mtime[dir'[a.run]]
    BY <1>1 DEF AckedInv
  <2>1. /\ \/ [run |-> a.run, id |-> a.id] \in deleted \cup expired
           \/ dir[a.run] # 0 /\ HeldIn(skewed, a.run, content[dir[a.run]], a.id, durable[dir[a.run]])
        /\ dir[a.run] # 0 => a.at <= mtime[dir[a.run]]
        /\ a.run \in Run
    BY <1>2, StoreTypes DEF StoreInv, AckedInv
  <2>2. CASE a.run = r
    <3>1. HeldIn(skewed, r, content[dir[r]], a.id, durable[dir[r]]) => [run |-> a.run, id |-> a.id] \in deleted'
      BY <2>2, <1>1, <1>3, <1>5
    <3> QED BY <3>1, <2>1, <2>2, <1>1, <1>4
  <2>3. CASE a.run # r
    BY <2>1, <2>3, <1>1, <1>4
  <2> QED BY <2>2, <2>3
<1> QED BY <1>6, <1>7, <1>8, <1>9 DEF StoreInv

\* So are those of an upload to a file that the cleanup removes under it.
LEMMA CleanRemoveKeeps == ASSUME StoreInv, NEW r \in Run, CleanRemove(r) PROVE StoreInv'
<1>1. /\ dir' = [dir EXCEPT ![r] = 0]
      /\ expired' = IF dir[r] = 0 THEN expired ELSE expired \cup Tagged(r, EventsIn(dir[r]))
      /\ cleaner' = [cleaner EXCEPT !.doomed = {}, !.seen = 0]
      /\ UNCHANGED <<clock, created, content, durable, mtime, writer, next, late, acked, deleted,
                     skewed, faults>>
  BY DEF CleanRemove, agentVars
<1>2. TypeOK
  BY DEF StoreInv
<1>3. /\ dir \in [Run -> 0 .. created] /\ created \in Nat
      /\ \A f \in Files : durable[f] \in 0 .. Len(content[f]) /\ Len(content[f]) \in Nat
      /\ \A q \in Run : dir[q] # 0 => dir[q] \in Files
  BY <1>2, StoreTypes
<1>4. dir' \in [Run -> 0 .. created] /\ \A q \in Run : dir'[q] = IF q = r THEN 0 ELSE dir[q]
  BY <1>1, <1>3
<1>5. dir[r] # 0 =>
        /\ Tagged(r, EventsIn(dir[r])) \subseteq [run : Run, id : Events]
        /\ \A d \in 0 .. Len(content[dir[r]]) : \A n :
             HeldIn(skewed, r, content[dir[r]], n, d) => [run |-> r, id |-> n] \in expired'
  BY <1>1, <1>2, EventsTagged
<1>6. expired \subseteq expired'
  BY <1>1
<1>7. TypeOK' /\ CleanerInv'
  <2>1. deleted' \cup expired' \subseteq [run : Run, id : Events]
    BY <1>1, <1>2, <1>5 DEF TypeOK
  <2>2. \A q, p \in Run : dir'[q] = dir'[p] /\ dir'[q] # 0 => q = p
    BY <1>2, <1>4 DEF TypeOK
  <2>3. cleaner' \in Cleanups /\ cleaner'.doomed = {}
    <3>1. cleaner \in Cleanups /\ 0 \in 0 .. clock
      BY <1>2, StoreTypes DEF TypeOK
    <3> QED BY <3>1, <1>1 DEF Cleanups
  <2>4. TypeOK'
    BY <2>1, <2>2, <2>3, <1>1, <1>2, <1>4 DEF TypeOK, Uploads, Cleanups
  <2> QED BY <2>3, <2>4 DEF CleanerInv
<1>8. FilesApart'
  <2>1. writer # Unlocked => writer.run \in Run /\ writer.file # 0
    BY <1>2, UploadTypes
  <2> QED BY <2>1, <1>1, <1>4 DEF StoreInv, FilesApart
<1>9. UploadInv'
  <2> SUFFICES ASSUME writer # Unlocked, NEW n \in writer.first .. writer.at - 1,
                      dir'[writer.run] = 0
               PROVE  [run |-> writer.run, id |-> n] \in expired'
    BY <1>1 DEF StoreInv, UploadInv
  <2>1. /\ HeldIn(skewed, writer.run, content[writer.file], n, Len(content[writer.file]))
        /\ dir[writer.run] = 0 => [run |-> writer.run, id |-> n] \in expired
    BY DEF StoreInv, UploadInv
  <2>2. dir[writer.run] \in {0, writer.file} /\ writer.run \in Run /\ writer.file \in Files
    BY <1>2, UploadTypes DEF StoreInv, FilesApart
  <2>3. CASE dir[writer.run] = 0
    BY <2>1, <2>3, <1>6
  <2>4. CASE dir[writer.run] # 0
    <3>1. writer.run = r /\ dir[r] = writer.file
      BY <2>2, <2>4, <1>4
    <3>2. Len(content[dir[r]]) \in 0 .. Len(content[dir[r]])
      BY <3>1, <2>2, <1>3
    <3> QED BY <3>1, <3>2, <2>1, <2>4, <1>5
  <2> QED BY <2>3, <2>4
<1>10. TornInv' /\ ChunksInv'
  BY <1>1, <1>4 DEF StoreInv, TornInv, ChunksInv
<1>11. AckedInv'
  <2> SUFFICES ASSUME NEW a \in acked
               PROVE  /\ \/ [run |-> a.run, id |-> a.id] \in deleted \cup expired'
                         \/ dir'[a.run] # 0 /\ HeldIn(skewed, a.run, content[dir'[a.run]], a.id, durable[dir'[a.run]])
                      /\ dir'[a.run] # 0 => a.at <= mtime[dir'[a.run]]
    BY <1>1 DEF AckedInv
  <2>1. /\ \/ [run |-> a.run, id |-> a.id] \in deleted \cup expired
           \/ dir[a.run] # 0 /\ HeldIn(skewed, a.run, content[dir[a.run]], a.id, durable[dir[a.run]])
        /\ dir[a.run] # 0 => a.at <= mtime[dir[a.run]]
        /\ a.run \in Run
    BY <1>2, StoreTypes DEF StoreInv, AckedInv
  <2>2. CASE a.run = r
    <3>1. dir[r] # 0 /\ HeldIn(skewed, r, content[dir[r]], a.id, durable[dir[r]])
            => [run |-> a.run, id |-> a.id] \in expired'
      BY <2>2, <1>3, <1>5
    <3> QED BY <3>1, <2>1, <2>2, <1>4, <1>6
  <2>3. CASE a.run # r
    BY <2>1, <2>3, <1>4, <1>6
  <2> QED BY <2>2, <2>3
<1> QED BY <1>7, <1>8, <1>9, <1>10, <1>11 DEF StoreInv

\* What a host forgets was not synced, and so not acknowledged.
LEMMA RestartKeeps == ASSUME StoreInv, NEW lossy \in SUBSET Files, Restart(lossy) PROVE StoreInv'
<1>1. /\ faults < MaxFaults /\ faults' = faults + 1
      /\ content' = [f \in Files |->
           IF f \in lossy THEN SubSeq(content[f], 1, durable[f]) ELSE content[f]]
      /\ writer' = Unlocked /\ cleaner' = Asleep
      /\ late' = {}
      /\ UNCHANGED <<clock, dir, created, durable, mtime, next, acked, deleted, expired, skewed>>
  BY DEF Restart, Fault, historyVars
<1>2. TypeOK
  BY DEF StoreInv
<1>3. /\ clock \in Nat
      /\ \A f \in Files : /\ content[f] \in Seq(Chunk) /\ Len(content[f]) \in Nat
                          /\ durable[f] \in 0 .. Len(content[f]) /\ durable[f] \in Nat
      /\ \A r \in Run : dir[r] # 0 => dir[r] \in Files
      /\ \A a \in acked : a.run \in Run
  BY <1>2, StoreTypes
<1>4. \A f \in Files : \/ content'[f] = content[f]
                       \/ content'[f] = SubSeq(content[f], 1, durable[f])
  BY <1>1
<1>5. \A f \in Files :
        /\ content'[f] \in Seq(Chunk)
        /\ Len(content'[f]) \in {Len(content[f]), durable[f]}
        /\ \A k \in 1 .. Len(content'[f]) : content'[f][k] = content[f][k]
        /\ content'[f] = content[f] \/ (content'[f] # <<>> => durable[f] # 0)
        /\ content'[f] = content[f] \/ Len(content'[f]) = durable[f]
  <2> SUFFICES ASSUME NEW f \in Files, content'[f] # content[f]
               PROVE  /\ content'[f] \in Seq(Chunk) /\ Len(content'[f]) = durable[f]
                      /\ \A k \in 1 .. durable[f] : content'[f][k] = content[f][k]
                      /\ content'[f] # <<>> => durable[f] # 0
    BY <1>3
  <2> DEFINE b == content[f] d == durable[f]
  <2>1. content'[f] = SubSeq(b, 1, d) /\ b \in Seq(Chunk) /\ d \in 0 .. Len(b)
    BY <1>3, <1>4
  <2> HIDE DEF b, d
  <2>2. /\ SubSeq(b, 1, d) \in Seq(Chunk) /\ Len(SubSeq(b, 1, d)) = d
        /\ \A k \in 1 .. d : SubSeq(b, 1, d)[k] = b[k]
        /\ SubSeq(b, 1, d) # <<>> => d # 0
    BY <2>1, ChunksLeft
  <2> QED BY <2>1, <2>2 DEF b, d
<1>6. TypeOK'
  <2>1. faults' \in 0 .. MaxFaults
    BY <1>1, <1>2, StoreTypes
  <2>2. content' \in [Files -> Seq(Chunk)]
    BY <1>1, <1>5
  <2>3. \A f \in Files : durable[f] <= Len(content'[f])
    BY <1>3, <1>5
  <2>4. cleaner' \in Cleanups
    BY <1>1, <1>3 DEF Asleep, Cleanups
  <2> QED BY <2>1, <2>2, <2>3, <2>4, <1>1, <1>2 DEF TypeOK, Uploads, Cleanups
<1>7. FilesApart' /\ UploadInv' /\ CleanerInv'
  <2>1. ASSUME NEW f \in Files, f > created PROVE content'[f] = <<>> /\ durable[f] = 0
    <3>1. content[f] = <<>> /\ durable[f] = 0
      BY <2>1 DEF StoreInv, FilesApart
    <3> QED BY <3>1, <1>5
  <2> QED BY <2>1, <1>1 DEF Asleep, FilesApart, UploadInv, CleanerInv
<1>8. ChunksInv'
  <2> SUFFICES ASSUME NEW f \in Files
               PROVE  /\ durable[f] # 0 => content'[f][durable[f]].whole
                      /\ \A k \in 1 .. Len(content'[f]) :
                           content'[f][k].line > LineLimit => k > 1 /\ ~content'[f][k - 1].whole
    BY <1>1 DEF ChunksInv
  <2>1. /\ durable[f] # 0 => content[f][durable[f]].whole
        /\ \A k \in 1 .. Len(content[f]) :
             content[f][k].line > LineLimit => k > 1 /\ ~content[f][k - 1].whole
    BY DEF StoreInv, ChunksInv
  <2>2. Len(content'[f]) \in Nat /\ durable[f] <= Len(content'[f]) /\ Len(content'[f]) <= Len(content[f])
    BY <1>3, <1>5
  <2>3. durable[f] # 0 => content'[f][durable[f]] = content[f][durable[f]]
    BY <2>2, <1>3, <1>5
  <2>4. ASSUME NEW k \in 1 .. Len(content'[f]), content'[f][k].line > LineLimit
        PROVE  k > 1 /\ ~content'[f][k - 1].whole
    <3>1. k \in 1 .. Len(content[f]) /\ content'[f][k] = content[f][k]
      BY <2>2, <1>3, <1>5
    <3>2. k > 1 /\ ~content[f][k - 1].whole
      BY <3>1, <2>1, <2>4
    <3>3. k - 1 \in 1 .. Len(content'[f])
      BY <3>2, <2>2
    <3> QED BY <3>2, <3>3, <1>5
  <2> QED BY <2>1, <2>3, <2>4
<1>9. TornInv'
  <2> SUFFICES ASSUME NEW r \in Run, dir[r] # 0, IsTorn(content'[dir[r]]), r \notin skewed
               PROVE  KeptIn(content'[dir[r]], next[r], Len(content'[dir[r]]))
    BY <1>1 DEF TornInv
  <2> DEFINE f == dir[r]
  <2>1. f \in Files
    BY <1>3
  <2>2. content'[f] = content[f]
    <3> SUFFICES ASSUME content'[f] # content[f] PROVE FALSE
      OBVIOUS
    <3>1. durable[f] # 0 /\ Len(content'[f]) = durable[f]
      BY <2>1, <1>5 DEF IsTorn
    <3>2. durable[f] \in 1 .. Len(content'[f])
      BY <3>1, <2>1, <1>3
    <3>3. content'[f][durable[f]] = content[f][durable[f]]
      BY <3>2, <2>1, <1>5
    <3>4. content[f][durable[f]].whole
      BY <3>1, <2>1 DEF StoreInv, ChunksInv
    <3> QED BY <3>1, <3>3, <3>4 DEF IsTorn
  <2> QED BY <2>2 DEF StoreInv, TornInv
<1>10. AckedInv'
  <2> SUFFICES ASSUME NEW a \in acked
               PROVE  /\ \/ [run |-> a.run, id |-> a.id] \in deleted \cup expired
                         \/ dir[a.run] # 0 /\ HeldIn(skewed, a.run, content'[dir[a.run]], a.id, durable[dir[a.run]])
                      /\ dir[a.run] # 0 => a.at <= mtime[dir[a.run]]
    BY <1>1 DEF AckedInv
  <2> DEFINE f == dir[a.run]
  <2>1. /\ \/ [run |-> a.run, id |-> a.id] \in deleted \cup expired
           \/ f # 0 /\ HeldIn(skewed, a.run, content[f], a.id, durable[f])
        /\ f # 0 => a.at <= mtime[f]
    BY DEF StoreInv, AckedInv
  <2>2. ASSUME f # 0, HeldIn(skewed, a.run, content[f], a.id, durable[f])
        PROVE  HeldIn(skewed, a.run, content'[f], a.id, durable[f])
    <3>1. f \in Files
      BY <2>2, <1>3
    <3>2. durable[f] \in Nat /\ \A k \in 1 .. durable[f] : k \in 1 .. Len(content'[f])
      BY <3>1, <1>3, <1>5
    <3>3. \A k \in 1 .. durable[f] : content'[f][k] = content[f][k]
      BY <3>1, <3>2, <1>5
    <3> DEFINE b == content[f] t == content'[f] d == durable[f]
    <3>4. d \in Nat /\ d <= d /\ (\A k \in 1 .. d : t[k] = b[k]) /\ HeldIn(skewed, a.run, b, a.id, d)
      BY <2>2, <3>2, <3>3
    <3> HIDE DEF f, b, t, d
    <3>5. HeldIn(skewed, a.run, t, a.id, d)
      BY <3>4, HeldOn
    <3> QED BY <3>5 DEF t, d
  <2> QED BY <2>1, <2>2
<1> QED BY <1>6, <1>7, <1>8, <1>9, <1>10 DEF StoreInv

-----------------------------------------------------------------------------
\* An upload begins in the run's file or in an empty one, with the oldest event the
\* agent holds unless the run is in skew.
LEMMA OpenFileKeeps ==
  ASSUME StoreInv, NEW r \in Run, NEW first \in Events, NEW last \in Events, first <= last,
         NEW isHeard \in BOOLEAN, OpenFile(r, first, last, isHeard),
         late' \subseteq late, skewed \subseteq skewed', skewed' \subseteq Run,
         r \in skewed' \/ first = next[r]
  PROVE  StoreInv'
<1> DEFINE f == IF dir[r] = 0 THEN created + 1 ELSE dir[r]
<1>1. /\ writer = Unlocked
      /\ f <= MaxFiles
      /\ dir' = [dir EXCEPT ![r] = f]
      /\ created' = IF dir[r] = 0 THEN f ELSE created
      /\ mtime' = IF dir[r] = 0 THEN [mtime EXCEPT ![f] = clock] ELSE mtime
      /\ writer' = [run |-> r, file |-> f, first |-> first, at |-> first, last |-> last,
                    isHeard |-> isHeard]
      /\ UNCHANGED <<clock, content, durable, cleaner, next, acked, deleted, expired, faults>>
  BY DEF OpenFile
<1>2. TypeOK
  BY DEF StoreInv
<1>3. /\ dir \in [Run -> 0 .. created] /\ created \in 0 .. MaxFiles /\ created \in Nat
      /\ MaxFiles \in Nat /\ MaxEvents \in Nat /\ clock \in Nat
      /\ \A q \in Run : dir[q] # 0 => dir[q] \in Files
      /\ mtime \in [Files -> 0 .. clock]
      /\ next[r] \in 1 .. MaxEvents + 1 /\ next[r] \in Nat
      /\ \A a \in acked : a.run \in Run /\ a.at \in Nat /\ a.at <= clock
      /\ \A q, p \in Run : dir[q] = dir[p] /\ dir[q] # 0 => q = p
  BY <1>2, StoreTypes DEF TypeOK
<1>4. /\ first \in Nat /\ last \in Nat /\ first \in 1 .. MaxEvents + 1
      /\ first \in first .. last + 1 /\ first .. first - 1 = {}
  BY <1>3 DEF Events
<1>5. f \in Files /\ f # 0 /\ f \in 1 .. created' /\ created' \in 0 .. MaxFiles /\ created <= created'
  BY <1>1, <1>3 DEF Files
<1>6. \A q \in Run : q # r => dir[q] # f
  <2>1. \A q \in Run : dir[q] # created + 1
    BY <1>3
  <2> QED BY <2>1, <1>3
<1>7. dir[r] = 0 => content[f] = <<>>
  BY <1>3, <1>5 DEF StoreInv, FilesApart
<1>8. dir[r] # 0 => f = dir[r]
  OBVIOUS
<1>9. mtime' \in [Files -> 0 .. clock] /\ (dir[r] = 0 => mtime'[f] = clock)
      /\ \A g \in Files : g # f \/ dir[r] # 0 => mtime'[g] = mtime[g]
  BY <1>1, <1>3, <1>5
<1>10. created' \in {created, f} /\ (created' = created \/ f = created + 1)
  BY <1>1
<1> HIDE DEF f
<1>11. \A q \in Run : dir'[q] = IF q = r THEN f ELSE dir[q]
  BY <1>1, <1>3
<1>12. /\ writer'.run = r /\ writer'.file = f /\ writer'.first = first /\ writer'.at = first
       /\ writer'.last = last
  BY <1>1
<1>13. \A q, s, n, d : HeldIn(skewed, q, s, n, d) => HeldIn(skewed', q, s, n, d)
  BY DEF HeldIn
<1>14. TypeOK'
  <2>1. dir' \in [Run -> 0 .. created']
    BY <1>1, <1>3, <1>5
  <2>2. \A q, p \in Run : dir'[q] = dir'[p] /\ dir'[q] # 0 => q = p
    BY <1>3, <1>6, <1>11
  <2>3. writer' \in Uploads'
    BY <1>1, <1>4, <1>5 DEF Uploads
  <2>4. cleaner' \in Cleanups' /\ late' \subseteq {u \in GivenUp : u.first <= u.last}
    BY <1>1, <1>2 DEF TypeOK, Cleanups
  <2> QED BY <2>1, <2>2, <2>3, <2>4, <1>1, <1>2, <1>5, <1>9 DEF TypeOK
<1>15. FilesApart'
  <2>1. \A g \in Files : g > created' => g > created
    BY <1>3, <1>5 DEF Files
  <2>2. \A g \in Files : g > created' => content[g] = <<>> /\ durable[g] = 0
    BY <2>1 DEF StoreInv, FilesApart
  <2> QED BY <2>2, <1>1, <1>6, <1>11, <1>12 DEF FilesApart
<1>16. UploadInv'
  <2>1. writer'.run \in skewed' \/ writer'.first = next'[writer'.run]
    BY <1>1, <1>12
  <2>2. ~(writer'.at > writer'.first)
    BY <1>4, <1>12
  <2>3. \A n \in writer'.first .. writer'.at - 1 : FALSE
    BY <1>4, <1>12
  <2> QED BY <2>1, <2>2, <2>3, <1>4, <1>12 DEF UploadInv
<1>17. ASSUME NEW q \in Run, IsTorn(content[dir'[q]]), dir'[q] # 0, q \notin skewed'
       PROVE  KeptIn(content[dir'[q]], next[q], Len(content[dir'[q]]))
  <2>1. dir'[q] = dir[q] /\ dir[q] # 0
    BY <1>7, <1>8, <1>11, <1>17 DEF IsTorn
  <2> QED BY <2>1, <1>17 DEF StoreInv, TornInv
<1>18. TornInv'
  <2>1. dir'[r] = f /\ f # 0
    BY <1>5, <1>11
  <2>2. IsTorn(content[f]) /\ r \notin skewed' => KeptIn(content[f], next[r], Len(content[f]))
    BY <2>1, <1>17
  <2> QED BY <2>2, <1>1, <1>12, <1>17 DEF TornInv
<1>19. ChunksInv' /\ CleanerInv'
  BY <1>1 DEF StoreInv, ChunksInv, CleanerInv
<1>20. AckedInv'
  <2> SUFFICES ASSUME NEW a \in acked
               PROVE  /\ \/ [run |-> a.run, id |-> a.id] \in deleted \cup expired
                         \/ dir'[a.run] # 0 /\ HeldIn(skewed', a.run, content[dir'[a.run]], a.id, durable[dir'[a.run]])
                      /\ dir'[a.run] # 0 => a.at <= mtime'[dir'[a.run]]
    BY <1>1 DEF AckedInv
  <2>1. /\ \/ [run |-> a.run, id |-> a.id] \in deleted \cup expired
           \/ dir[a.run] # 0 /\ HeldIn(skewed', a.run, content[dir[a.run]], a.id, durable[dir[a.run]])
        /\ dir[a.run] # 0 => a.at <= mtime[dir[a.run]]
        /\ a.run \in Run
    BY <1>3, <1>13 DEF StoreInv, AckedInv
  <2>2. CASE a.run = r /\ dir[r] = 0
    BY <2>1, <2>2, <1>3, <1>9, <1>11
  <2>3. CASE ~(a.run = r /\ dir[r] = 0)
    <3>1. dir'[a.run] = dir[a.run]
      BY <2>1, <2>3, <1>8, <1>11
    <3>2. dir[a.run] # 0 => mtime'[dir[a.run]] = mtime[dir[a.run]]
      BY <2>1, <2>3, <1>3, <1>6, <1>9
    <3> QED BY <2>1, <3>1, <3>2
  <2> QED BY <2>2, <2>3
<1> QED BY <1>14, <1>15, <1>16, <1>18, <1>19, <1>20 DEF StoreInv

LEMMA OpenKeeps ==
  ASSUME StoreInv, NEW r \in Run, NEW size \in 1 .. BatchLimit, Open(r, size)
  PROVE  StoreInv'
<1> DEFINE last == next[r] + size - 1
<1>1. /\ last <= MaxEvents /\ OpenFile(r, next[r], last, TRUE)
      /\ late' = late /\ skewed' = skewed
  BY DEF Open
<1>2. TypeOK
  BY DEF StoreInv
<1>3. /\ next[r] \in 1 .. MaxEvents + 1 /\ MaxEvents \in Nat /\ skewed \subseteq Run
      /\ size \in Nat /\ size >= 1
  BY <1>2, StoreTypes, RunStoreAssumption DEF TypeOK, RunStoreAssumption
<1>4. next[r] \in Events /\ last \in Events /\ next[r] <= last
  BY <1>1, <1>3 DEF Events
<1> HIDE DEF last
<1> QED BY <1>1, <1>3, <1>4, OpenFileKeeps

\* An upload the agent has given up on is stored: the run is in skew.
LEMMA OpenLateKeeps == ASSUME StoreInv, NEW u \in late, OpenLate(u) PROVE StoreInv'
<1>1. /\ OpenFile(u.run, u.first, u.last, FALSE)
      /\ late' = late \ {u} /\ skewed' = skewed \cup {u.run}
  BY DEF OpenLate
<1>2. TypeOK
  BY DEF StoreInv
<1>3. u \in GivenUp /\ u.first <= u.last /\ skewed \subseteq Run
  BY <1>2 DEF TypeOK
<1>4. /\ u.run \in Run /\ u.first \in Events /\ u.last \in Events
      /\ skewed' \subseteq Run /\ skewed \subseteq skewed' /\ u.run \in skewed'
  BY <1>1, <1>3 DEF GivenUp
<1> QED BY <1>1, <1>3, <1>4, OpenFileKeeps

-----------------------------------------------------------------------------
\* What a write does to the file that was opened, and to no other.
LEMMA WriteEffect ==
  ASSUME StoreInv, Writing, NEW isWhole \in BOOLEAN, NEW size \in 0 .. LineLimit,
         Written(isWhole, size)
  PROVE  /\ writer # Unlocked
         /\ content' \in [Files -> Seq(Chunk)]
         /\ mtime' \in [Files -> 0 .. clock]
         /\ mtime'[writer.file] = clock /\ \A f \in Files : mtime'[f] >= mtime[f]
         /\ \A f \in Files : f # writer.file => content'[f] = content[f]
         /\ \A f \in Files : Len(content[f]) <= Len(content'[f])
         /\ \A f \in Files : \A k \in 1 .. Len(content[f]) : content'[f][k] = content[f][k]
         /\ \E c \in Chunk : /\ c.id = writer.at /\ c.whole = isWhole
                             /\ c.line > LineLimit => IsTorn(content[writer.file])
                             /\ content'[writer.file] = Append(content[writer.file], c)
         /\ expired \subseteq expired' /\ expired' \subseteq [run : Run, id : Events]
         /\ dir[writer.run] = 0 => [run |-> writer.run, id |-> writer.at] \in expired'
<1> DEFINE f == writer.file
           c == [id |-> writer.at, whole |-> isWhole, line |-> Unended(content[f]) + size]
<1>1. /\ content' = [content EXCEPT ![f] = Append(content[f], c)]
      /\ mtime' = [mtime EXCEPT ![f] = clock]
      /\ expired' = IF dir[writer.run] = f THEN expired ELSE expired \cup Tagged(writer.run, {writer.at})
  BY DEF Written
<1>2. TypeOK
  BY DEF StoreInv
<1>3. writer # Unlocked
  BY DEF Writing, Unlocked
<1>4. /\ writer.run \in Run /\ f \in Files /\ f # 0 /\ writer.at \in 1 .. MaxEvents + 1
      /\ writer.last \in Events
  BY <1>2, <1>3, UploadTypes
<1>5. writer.at \in Events
  <2>1. MaxEvents \in Nat
    BY <1>2, StoreTypes
  <2> QED BY <2>1, <1>4 DEF Writing, Events
<1>6. /\ c \in Chunk /\ c.id = writer.at /\ c.whole = isWhole
      /\ c.line > LineLimit => IsTorn(content[f])
  <2>1. /\ content[f] \in Seq(Chunk) /\ Len(content[f]) \in Nat
        /\ LineLimit \in Nat /\ size \in Nat /\ size <= LineLimit
    BY <1>2, <1>4, StoreTypes
  <2>2. Unended(content[f]) \in Nat /\ (Unended(content[f]) = 0 \/ IsTorn(content[f]))
    <3>1. CASE content[f] = <<>> \/ content[f][Len(content[f])].whole
      BY <3>1 DEF Unended
    <3>2. CASE content[f] # <<>> /\ ~content[f][Len(content[f])].whole
      <4>1. Len(content[f]) \in 1 .. Len(content[f])
        BY <3>2, <2>1
      <4>2. content[f][Len(content[f])] \in Chunk
        BY <4>1, <2>1
      <4> QED BY <3>2, <4>2, ChunkFields DEF Unended, IsTorn
    <3> QED BY <3>1, <3>2
  <2>3. c.line = Unended(content[f]) + size
    OBVIOUS
  <2>4. c.line \in Nat /\ (c.line > LineLimit => IsTorn(content[f]))
    BY <2>1, <2>2, <2>3
  <2> QED BY <2>1, <2>2, <2>4, <1>5 DEF Chunk
<1> HIDE DEF c
<1>7. /\ content \in [Files -> Seq(Chunk)] /\ clock \in Nat /\ mtime \in [Files -> 0 .. clock]
      /\ \A g \in Files : content[g] \in Seq(Chunk) /\ Len(content[g]) \in Nat
      /\ \A g \in Files : mtime[g] \in Nat /\ mtime[g] <= clock
  BY <1>2, StoreTypes
<1>8. /\ Append(content[f], c) \in Seq(Chunk)
      /\ Len(Append(content[f], c)) = Len(content[f]) + 1
      /\ \A k \in 1 .. Len(content[f]) : Append(content[f], c)[k] = content[f][k]
  BY <1>4, <1>6, <1>7, ChunkAppended
<1>9. /\ content'[f] = Append(content[f], c)
      /\ \A g \in Files : g # f => content'[g] = content[g]
      /\ content' \in [Files -> Seq(Chunk)]
  BY <1>1, <1>4, <1>7, <1>8
<1>10. \A g \in Files : /\ Len(content[g]) <= Len(content'[g])
                        /\ \A k \in 1 .. Len(content[g]) : content'[g][k] = content[g][k]
  <2> SUFFICES ASSUME NEW g \in Files
               PROVE  /\ Len(content[g]) <= Len(content'[g])
                      /\ \A k \in 1 .. Len(content[g]) : content'[g][k] = content[g][k]
    OBVIOUS
  <2>1. CASE g = f
    <3>1. Len(content[f]) \in Nat /\ Len(content'[f]) = Len(content[f]) + 1
      BY <1>4, <1>7, <1>8, <1>9
    <3>2. \A k \in 1 .. Len(content[f]) : content'[f][k] = content[f][k]
      BY <1>8, <1>9
    <3>3. Len(content[f]) <= Len(content'[f])
      BY <3>1
    <3> QED BY <3>2, <3>3, <2>1
  <2>2. CASE g # f
    <3>1. content'[g] = content[g] /\ Len(content[g]) \in Nat
      BY <2>2, <1>7, <1>9
    <3> QED BY <3>1
  <2> QED BY <2>1, <2>2
<1>11. /\ mtime' \in [Files -> 0 .. clock] /\ mtime'[f] = clock
       /\ \A g \in Files : mtime'[g] >= mtime[g]
  BY <1>1, <1>4, <1>7
<1>12. /\ expired \subseteq expired' /\ expired' \subseteq [run : Run, id : Events]
       /\ dir[writer.run] = 0 => [run |-> writer.run, id |-> writer.at] \in expired'
  BY <1>1, <1>2, <1>4, <1>5 DEF TypeOK, Tagged
<1> QED BY <1>3, <1>6, <1>9, <1>10, <1>11, <1>12

\* What a write leaves of the invariant, whole or torn.
LEMMA WriteKeeps ==
  ASSUME StoreInv, Writing, NEW isWhole \in BOOLEAN, NEW size \in 0 .. LineLimit,
         Written(isWhole, size),
         UNCHANGED <<clock, dir, created, durable, cleaner, next, late, acked, deleted, skewed>>,
         faults' \in 0 .. MaxFaults,
         writer' \in Uploads
                       \cup {Unlocked},
         writer' # Unlocked => writer'.run = writer.run /\ writer'.file = writer.file
  PROVE  /\ TypeOK' /\ FilesApart' /\ ChunksInv' /\ AckedInv' /\ CleanerInv'
         /\ \A n : KeptIn(content[writer.file], n, Len(content[writer.file]))
              => KeptIn(content'[writer.file], n, Len(content'[writer.file]))
         /\ \A n : HeldIn(skewed, writer.run, content[writer.file], n, Len(content[writer.file]))
              => HeldIn(skewed, writer.run, content'[writer.file], n, Len(content'[writer.file]))
<1>1. /\ writer # Unlocked
      /\ content' \in [Files -> Seq(Chunk)]
      /\ mtime' \in [Files -> 0 .. clock]
      /\ mtime'[writer.file] = clock /\ \A f \in Files : mtime'[f] >= mtime[f]
      /\ \A f \in Files : f # writer.file => content'[f] = content[f]
      /\ \A f \in Files : Len(content[f]) <= Len(content'[f])
      /\ \A f \in Files : \A k \in 1 .. Len(content[f]) : content'[f][k] = content[f][k]
      /\ expired \subseteq expired' /\ expired' \subseteq [run : Run, id : Events]
  BY WriteEffect
<1>2. PICK c \in Chunk : /\ c.id = writer.at /\ c.whole = isWhole
                         /\ c.line > LineLimit => IsTorn(content[writer.file])
                         /\ content'[writer.file] = Append(content[writer.file], c)
  BY WriteEffect
<1>3. TypeOK
  BY DEF StoreInv
<1>4. /\ writer.file \in 1 .. created /\ writer.file \in Files /\ created \in Nat
      /\ \A f \in Files : content[f] \in Seq(Chunk) /\ Len(content[f]) \in Nat
      /\ \A f \in Files : durable[f] \in 0 .. Len(content[f]) /\ durable[f] \in Nat
      /\ \A r \in Run : dir[r] # 0 => dir[r] \in Files
      /\ \A f \in Files : mtime[f] \in Nat
      /\ \A a \in acked : a.run \in Run /\ a.at \in Nat
  BY <1>1, <1>3, StoreTypes, UploadTypes
<1>5. \A f \in Files : content'[f] \in Seq(Chunk) /\ Len(content'[f]) \in Nat /\ mtime'[f] \in Int
  BY <1>1
<1>6. TypeOK'
  <2>1. ASSUME NEW f \in Files PROVE durable[f] <= Len(content'[f])
    <3>1. durable[f] <= Len(content[f]) /\ Len(content[f]) <= Len(content'[f])
      BY <1>1, <1>4
    <3>2. durable[f] \in Nat /\ Len(content[f]) \in Nat /\ Len(content'[f]) \in Nat
      BY <1>4, <1>5
    <3> QED BY <3>1, <3>2
  <2>2. deleted \cup expired' \subseteq [run : Run, id : Events]
    BY <1>1, <1>3 DEF TypeOK
  <2> QED BY <2>1, <2>2, <1>1, <1>3 DEF TypeOK, Uploads, Cleanups
<1>7. FilesApart'
  <2>1. \A f \in Files : f > created => f # writer.file
    BY <1>4
  <2>2. \A f \in Files : f > created => content'[f] = <<>> /\ durable[f] = 0
    BY <2>1, <1>1 DEF StoreInv, FilesApart
  <2> QED BY <2>2, <1>1 DEF StoreInv, FilesApart
<1>8. ChunksInv'
  <2> SUFFICES ASSUME NEW f \in Files
               PROVE  /\ durable[f] # 0 => content'[f][durable[f]].whole
                      /\ \A k \in 1 .. Len(content'[f]) :
                           content'[f][k].line > LineLimit => k > 1 /\ ~content'[f][k - 1].whole
    BY DEF ChunksInv
  <2>1. /\ durable[f] # 0 => content[f][durable[f]].whole
        /\ \A k \in 1 .. Len(content[f]) :
             content[f][k].line > LineLimit => k > 1 /\ ~content[f][k - 1].whole
    BY DEF StoreInv, ChunksInv
  <2>2. durable[f] # 0 => content'[f][durable[f]] = content[f][durable[f]]
    BY <1>1, <1>4
  <2>3. CASE f # writer.file
    BY <2>1, <2>2, <2>3, <1>1
  <2>4. CASE f = writer.file
    <3>1. /\ Len(content'[f]) = Len(content[f]) + 1
          /\ content'[f][Len(content[f]) + 1] = c
      BY <2>4, <1>2, <1>4, ChunkAppended
    <3>2. ASSUME NEW k \in 1 .. Len(content'[f]), content'[f][k].line > LineLimit
          PROVE  k > 1 /\ ~content'[f][k - 1].whole
      <4>1. CASE k = Len(content[f]) + 1
        <5>1. IsTorn(content[f])
          BY <4>1, <2>4, <3>1, <3>2, <1>2
        <5>2. k - 1 = Len(content[f]) /\ k - 1 \in 1 .. Len(content[f])
          BY <4>1, <5>1, <1>4 DEF IsTorn
        <5>3. ~content[f][k - 1].whole
          BY <5>1, <5>2 DEF IsTorn
        <5>4. content'[f][k - 1] = content[f][k - 1]
          BY <5>2, <1>1
        <5>5. k > 1
          BY <5>2, <1>4
        <5> QED BY <5>3, <5>4, <5>5
      <4>2. CASE k # Len(content[f]) + 1
        <5>1. k \in 1 .. Len(content[f])
          BY <4>2, <3>1, <1>4
        <5>2. k > 1 /\ ~content[f][k - 1].whole
          BY <5>1, <3>2, <2>1, <1>1
        <5>3. k - 1 \in 1 .. Len(content[f])
          BY <5>1, <5>2, <1>4
        <5> QED BY <5>2, <5>3, <1>1
      <4> QED BY <4>1, <4>2
    <3> QED BY <3>2, <2>1, <2>2
  <2> QED BY <2>3, <2>4
<1>9. \A f \in Files : \A n, r, d, m :
        d \in 0 .. Len(content[f]) /\ m \in Nat /\ d <= m =>
          /\ KeptIn(content[f], n, d) => KeptIn(content'[f], n, m)
          /\ HeldIn(skewed, r, content[f], n, d) => HeldIn(skewed, r, content'[f], n, m)
  <2> SUFFICES ASSUME NEW f \in Files, NEW n, NEW r, NEW d \in 0 .. Len(content[f]), NEW m \in Nat,
                      d <= m
               PROVE  /\ KeptIn(content[f], n, d) => KeptIn(content'[f], n, m)
                      /\ HeldIn(skewed, r, content[f], n, d) => HeldIn(skewed, r, content'[f], n, m)
    OBVIOUS
  <2> DEFINE b == content[f] t == content'[f]
  <2>1. d \in Nat /\ (\A k \in 1 .. d : t[k] = b[k])
    BY <1>1, <1>4
  <2> HIDE DEF b, t
  <2>2. KeptIn(b, n, d) => KeptIn(t, n, m)
    BY <2>1, KeptOn
  <2>3. HeldIn(skewed, r, b, n, d) => HeldIn(skewed, r, t, n, m)
    BY <2>1, HeldOn
  <2> QED BY <2>2, <2>3 DEF b, t
<1>10. AckedInv'
  <2> SUFFICES ASSUME NEW a \in acked
               PROVE  /\ \/ [run |-> a.run, id |-> a.id] \in deleted \cup expired'
                         \/ dir[a.run] # 0 /\ HeldIn(skewed, a.run, content'[dir[a.run]], a.id, durable[dir[a.run]])
                      /\ dir[a.run] # 0 => a.at <= mtime'[dir[a.run]]
    BY DEF AckedInv
  <2>1. /\ \/ [run |-> a.run, id |-> a.id] \in deleted \cup expired
           \/ dir[a.run] # 0 /\ HeldIn(skewed, a.run, content[dir[a.run]], a.id, durable[dir[a.run]])
        /\ dir[a.run] # 0 => a.at <= mtime[dir[a.run]]
    BY DEF StoreInv, AckedInv
  <2>2. dir[a.run] # 0 => dir[a.run] \in Files
    BY <1>4
  <2>3. dir[a.run] # 0 => a.at <= mtime'[dir[a.run]]
    BY <2>1, <2>2, <1>1, <1>4, <1>5
  <2>4. dir[a.run] # 0 /\ HeldIn(skewed, a.run, content[dir[a.run]], a.id, durable[dir[a.run]])
          => HeldIn(skewed, a.run, content'[dir[a.run]], a.id, durable[dir[a.run]])
    <3> SUFFICES ASSUME dir[a.run] # 0, HeldIn(skewed, a.run, content[dir[a.run]], a.id, durable[dir[a.run]])
                 PROVE  HeldIn(skewed, a.run, content'[dir[a.run]], a.id, durable[dir[a.run]])
      OBVIOUS
    <3>1. PICK g \in Files : g = dir[a.run]
      BY <2>2
    <3>2. PICK d \in 0 .. Len(content[g]) : d = durable[g]
      BY <1>4
    <3>3. d \in Nat /\ d <= d
      BY <3>2, <1>4
    <3> QED BY <3>1, <3>2, <3>3, <1>9
  <2> QED BY <2>1, <2>3, <2>4, <1>1
<1>11. \A n :
        /\ KeptIn(content[writer.file], n, Len(content[writer.file]))
             => KeptIn(content'[writer.file], n, Len(content'[writer.file]))
        /\ HeldIn(skewed, writer.run, content[writer.file], n, Len(content[writer.file]))
             => HeldIn(skewed, writer.run, content'[writer.file], n, Len(content'[writer.file]))
  <2>1. PICK d \in Nat : d = Len(content[writer.file])
    BY <1>4
  <2>2. PICK m \in Nat : m = Len(content'[writer.file])
    BY <1>4, <1>5
  <2>3. d <= m /\ d \in 0 .. Len(content[writer.file])
    BY <2>1, <2>2, <1>1, <1>4
  <2> QED BY <2>1, <2>2, <2>3, <1>4, <1>9
<1>12. CleanerInv'
  BY DEF StoreInv, CleanerInv
<1> QED BY <1>6, <1>7, <1>8, <1>10, <1>11, <1>12

\* Whole, it is a copy of its event, and keeps it: only the first of an upload can
\* follow a torn chunk, and the upload that tore it had kept that one.
LEMMA EncodeKeeps == ASSUME StoreInv, Encode PROVE StoreInv'
<1> DEFINE size == LineSize[writer.at]
           f == writer.file
           r == writer.run
<1>1. /\ Writing /\ Written(TRUE, size)
      /\ writer' = [writer EXCEPT !.at = writer.at + 1]
      /\ UNCHANGED <<clock, dir, created, durable, cleaner, next, late, acked, deleted, skewed,
                     faults>>
  BY DEF Encode, agentVars
<1>2. TypeOK /\ writer # Unlocked
  BY <1>1 DEF StoreInv, Writing, Unlocked
<1>3. /\ writer \in Uploads
      /\ r \in Run /\ f \in Files /\ f # 0 /\ writer.at \in Nat /\ writer.at \in 1 .. MaxEvents + 1
      /\ writer.first \in Nat /\ writer.last \in Events /\ writer.last \in Nat
      /\ MaxEvents \in Nat /\ next[r] \in Nat
      /\ content[f] \in Seq(Chunk) /\ Len(content[f]) \in Nat
      /\ \A q \in Run : dir[q] # 0 => dir[q] \in Files
      /\ faults \in 0 .. MaxFaults
  BY <1>2, UploadTypes, StoreTypes
<1>4. writer.at <= writer.last /\ writer.at \in Events
  BY <1>1, <1>3 DEF Writing, Events
<1>5. size \in 0 .. LineLimit
  BY <1>2, <1>4, StoreTypes
<1> HIDE DEF size
<1>6. /\ content' \in [Files -> Seq(Chunk)]
      /\ mtime'[f] = clock
      /\ \A g \in Files : g # f => content'[g] = content[g]
      /\ \E c \in Chunk : /\ c.id = writer.at /\ c.whole = TRUE
                          /\ content'[f] = Append(content[f], c)
      /\ expired \subseteq expired'
      /\ dir[r] = 0 => [run |-> r, id |-> writer.at] \in expired'
  BY <1>1, <1>5, WriteEffect
<1>7. PICK c \in Chunk : c.id = writer.at /\ c.whole /\ content'[f] = Append(content[f], c)
  BY <1>6
<1>8. /\ writer' \in Uploads
      /\ writer'.run = r /\ writer'.file = f /\ writer'.first = writer.first
      /\ writer'.at = writer.at + 1 /\ writer'.last = writer.last
  <2>1. writer.at + 1 \in 1 .. MaxEvents + 1
    BY <1>3, <1>4 DEF Events
  <2> QED BY <2>1, <1>1, <1>3 DEF Uploads
<1>9. /\ r \in skewed \/ writer.first = next[r]
      /\ writer.first <= writer.last
      /\ writer.at \in writer.first .. writer.last + 1
      /\ writer.at > writer.first => ~IsTorn(content[f])
      /\ \A n \in writer.first .. writer.at - 1 :
           /\ HeldIn(skewed, r, content[f], n, Len(content[f]))
           /\ dir[r] = 0 => [run |-> r, id |-> n] \in expired
  BY <1>2 DEF StoreInv, UploadInv
<1>10. IsTorn(content[f]) /\ r \notin skewed => KeptIn(content[f], next[r], Len(content[f]))
  BY <1>2 DEF StoreInv, TornInv
<1>11. /\ TypeOK' /\ FilesApart' /\ ChunksInv' /\ AckedInv' /\ CleanerInv'
       /\ \A n : KeptIn(content[f], n, Len(content[f])) => KeptIn(content'[f], n, Len(content'[f]))
       /\ \A n : HeldIn(skewed, r, content[f], n, Len(content[f]))
                   => HeldIn(skewed, r, content'[f], n, Len(content'[f]))
  BY <1>1, <1>3, <1>5, <1>8, WriteKeeps
<1>12. /\ Len(content'[f]) = Len(content[f]) + 1
       /\ content'[f][Len(content[f]) + 1] = c
       /\ content'[f] # <<>>
  <2> DEFINE b == content[f]
  <2>1. b \in Seq(Chunk) /\ content'[f] = Append(b, c)
    BY <1>3, <1>7
  <2> HIDE DEF b
  <2>2. Len(Append(b, c)) = Len(b) + 1 /\ Append(b, c)[Len(b) + 1] = c /\ Append(b, c) # <<>>
    BY <2>1, ChunkAppended
  <2> QED BY <2>1, <2>2 DEF b
<1>13. ~IsTorn(content'[f])
  BY <1>7, <1>12 DEF IsTorn
<1>14. HeldIn(skewed, r, content'[f], writer.at, Len(content'[f]))
  <2>1. CopyIn(content'[f], writer.at, Len(content'[f]))
    BY <1>3, <1>7, <1>12, WholeIsCopy
  <2>2. ASSUME r \notin skewed PROVE KeptIn(content'[f], writer.at, Len(content'[f]))
    <3>1. CASE IsTorn(content[f])
      <4>1. writer.at = next[r]
        BY <3>1, <2>2, <1>3, <1>9
      <4> QED BY <4>1, <3>1, <2>2, <1>10, <1>11
    <3>2. CASE ~IsTorn(content[f])
      BY <3>2, <1>3, <1>7, <1>12, WholeIsKept
    <3> QED BY <3>1, <3>2
  <2> QED BY <2>1, <2>2 DEF HeldIn
<1>15. UploadInv'
  <2>1. \A n \in writer.first .. writer.at :
          /\ HeldIn(skewed, r, content'[f], n, Len(content'[f]))
          /\ dir[r] = 0 => [run |-> r, id |-> n] \in expired'
    <3> SUFFICES ASSUME NEW n \in writer.first .. writer.at
                 PROVE  /\ HeldIn(skewed, r, content'[f], n, Len(content'[f]))
                        /\ dir[r] = 0 => [run |-> r, id |-> n] \in expired'
      OBVIOUS
    <3>1. CASE n = writer.at
      BY <3>1, <1>6, <1>14
    <3>2. CASE n # writer.at
      <4>1. n \in writer.first .. writer.at - 1
        BY <3>2, <1>3
      <4> QED BY <4>1, <1>6, <1>9, <1>11
    <3> QED BY <3>1, <3>2
  <2>2. writer.at + 1 \in writer.first .. writer.last + 1 /\ (writer.at + 1) - 1 = writer.at
    BY <1>3, <1>4, <1>9
  <2>3. UNCHANGED <<clock, dir, next, skewed>>
    BY <1>1
  <2> HIDE DEF f, r
  <2> QED BY <2>1, <2>2, <2>3, <1>6, <1>8, <1>9, <1>12, <1>13 DEF UploadInv
<1>16. TornInv'
  <2>1. ASSUME NEW q \in Run, dir[q] # 0, IsTorn(content'[dir[q]]), q \notin skewed
        PROVE  KeptIn(content'[dir[q]], next[q], Len(content'[dir[q]]))
    <3>1. dir[q] # f /\ dir[q] \in Files
      BY <2>1, <1>3, <1>13
    <3>2. content'[dir[q]] = content[dir[q]]
      BY <3>1, <1>6
    <3> QED BY <3>2, <2>1 DEF StoreInv, TornInv
  <2>2. ~IsTorn(content'[writer'.file])
    BY <1>8, <1>13
  <2> QED BY <2>1, <2>2, <1>1 DEF TornInv
<1> QED BY <1>11, <1>15, <1>16 DEF StoreInv

\* A write that fails ends the upload; what it tore is the event the next upload
\* begins with, or comes after it, unless the run is in skew.
LEMMA EncodeFailsKeeps ==
  ASSUME StoreInv, NEW size \in 0 .. LineLimit, EncodeFails(size)
  PROVE  StoreInv'
<1>1. /\ Writing /\ faults < MaxFaults /\ faults' = faults + 1
      /\ IF size > 0 THEN Written(FALSE, size) ELSE UNCHANGED <<content, mtime, expired>>
      /\ writer' = Unlocked
      /\ UNCHANGED <<clock, dir, created, durable, cleaner, next, late, acked, deleted, skewed>>
  BY DEF EncodeFails, Fault, agentVars
<1>2. TypeOK /\ writer # Unlocked
  BY <1>1 DEF StoreInv, Writing, Unlocked
<1>3. faults' \in 0 .. MaxFaults
  BY <1>1, <1>2, StoreTypes
<1>4. CASE ~(size > 0)
  <2>1. UNCHANGED <<content, mtime, expired>>
    BY <1>1, <1>4
  <2>2. TypeOK'
    BY <2>1, <1>1, <1>2, <1>3 DEF TypeOK, Uploads, Cleanups
  <2>3. FilesApart' /\ UploadInv' /\ CleanerInv'
    BY <2>1, <1>1 DEF StoreInv, FilesApart, UploadInv, CleanerInv
  <2>4. TornInv' /\ ChunksInv' /\ AckedInv'
    BY <2>1, <1>1 DEF StoreInv, TornInv, ChunksInv, AckedInv
  <2> QED BY <2>2, <2>3, <2>4 DEF StoreInv
<1>5. CASE size > 0
  <2> DEFINE f == writer.file
             r == writer.run
  <2>1. FALSE \in BOOLEAN /\ Written(FALSE, size)
    BY <1>1, <1>5
  <2>2. /\ \A g \in Files : g # f => content'[g] = content[g]
        /\ \E c \in Chunk : /\ c.id = writer.at /\ c.whole = FALSE
                            /\ content'[f] = Append(content[f], c)
    BY <2>1, <1>1, WriteEffect
  <2>3. PICK c \in Chunk : c.id = writer.at /\ ~c.whole /\ content'[f] = Append(content[f], c)
    BY <2>2
  <2>4. /\ r \in Run /\ f \in Files /\ f # 0 /\ writer.at \in Nat /\ next[r] \in Nat
        /\ writer.first \in Nat
        /\ content[f] \in Seq(Chunk) /\ Len(content[f]) \in Nat
        /\ \A q \in Run : dir[q] # 0 => dir[q] \in Files
    BY <1>2, UploadTypes, StoreTypes
  <2>5. /\ TypeOK' /\ FilesApart' /\ ChunksInv' /\ AckedInv' /\ CleanerInv'
        /\ \A n : KeptIn(content[f], n, Len(content[f])) => KeptIn(content'[f], n, Len(content'[f]))
    <3>1. writer' \in Uploads \cup {Unlocked} /\ ~(writer' # Unlocked)
      BY <1>1
    <3> QED BY <3>1, <2>1, <1>1, <1>3, WriteKeeps
  <2>6. UploadInv'
    BY <1>1 DEF UploadInv
  <2>7. Len(content'[f]) = Len(content[f]) + 1
    BY <2>3, <2>4, ChunkAppended
  <2>8. ASSUME r \notin skewed PROVE KeptIn(content'[f], next[r], Len(content'[f]))
    <3>1. /\ writer.first = next[r]
          /\ writer.at \in writer.first .. writer.last + 1
          /\ \A n \in writer.first .. writer.at - 1 : HeldIn(skewed, r, content[f], n, Len(content[f]))
      BY <2>8, <1>2 DEF StoreInv, UploadInv
    <3>2. CASE writer.at = next[r]
      BY <3>2, <2>3, <2>4, <2>7, TornIsKept
    <3>3. CASE writer.at # next[r]
      <4>1. next[r] \in writer.first .. writer.at - 1
        BY <3>1, <3>3, <2>4
      <4>2. KeptIn(content[f], next[r], Len(content[f]))
        BY <4>1, <3>1, <2>8 DEF HeldIn
      <4> QED BY <4>2, <2>5
    <3> QED BY <3>2, <3>3
  <2>9. TornInv'
    <3> SUFFICES ASSUME NEW q \in Run, dir[q] # 0, IsTorn(content'[dir[q]]), q \notin skewed
                 PROVE  KeptIn(content'[dir[q]], next[q], Len(content'[dir[q]]))
      BY <1>1 DEF TornInv
    <3>1. CASE dir[q] = f
      <4>1. q = r
        BY <3>1, <1>2 DEF StoreInv, FilesApart
      <4> QED BY <3>1, <4>1, <2>8
    <3>2. CASE dir[q] # f
      <4>1. content'[dir[q]] = content[dir[q]]
        BY <3>2, <2>2, <2>4
      <4> QED BY <4>1 DEF StoreInv, TornInv
    <3> QED BY <3>1, <3>2
  <2> QED BY <2>5, <2>6, <2>9 DEF StoreInv
<1> QED BY <1>4, <1>5

\* What is acknowledged has been synced.
LEMMA FinishKeeps == ASSUME StoreInv, Finish PROVE StoreInv'
<1> DEFINE f == writer.file
           r == writer.run
           new == {[run |-> r, id |-> n, at |-> clock] : n \in writer.first .. writer.last}
<1>1. /\ writer # Unlocked /\ ~(writer.at <= writer.last)
      /\ acked' = acked \cup new
      /\ next' = IF writer.isHeard THEN [next EXCEPT ![r] = writer.last + 1] ELSE next
      /\ writer' = Unlocked
      /\ durable' = [durable EXCEPT ![f] = Len(content[f])]
      /\ UNCHANGED <<clock, dir, created, content, mtime, cleaner, late, deleted, expired, skewed,
                     faults>>
  BY DEF Finish, Acknowledge, Writing
<1>2. TypeOK
  BY DEF StoreInv
<1>3. /\ r \in Run /\ f \in Files /\ f # 0 /\ writer.at \in Nat /\ next[r] \in Nat
      /\ f \in 1 .. created /\ created \in Nat
      /\ writer.first \in Nat /\ writer.first \in Events
      /\ writer.last \in Nat /\ writer.last \in Events /\ MaxEvents \in Nat
      /\ next \in [Run -> 1 .. MaxEvents + 1] /\ next[r] \in 1 .. MaxEvents + 1
      /\ durable \in [Files -> Nat]
      /\ clock \in Nat
      /\ \A g \in Files : durable[g] \in 0 .. Len(content[g]) /\ durable[g] \in Nat
      /\ \A g \in Files : content[g] \in Seq(Chunk) /\ Len(content[g]) \in Nat
      /\ \A q \in Run : dir[q] # 0 => dir[q] \in Files
      /\ \A a \in acked : a.run \in Run
  BY <1>1, <1>2, UploadTypes, StoreTypes
<1>4. /\ writer.first <= writer.last
      /\ writer.at \in writer.first .. writer.last + 1
      /\ writer.at > writer.first =>
           content[f] # <<>> /\ ~IsTorn(content[f]) /\ mtime[f] = clock
      /\ \A n \in writer.first .. writer.at - 1 :
           /\ HeldIn(skewed, r, content[f], n, Len(content[f]))
           /\ dir[r] = 0 => [run |-> r, id |-> n] \in expired
  BY <1>1 DEF StoreInv, UploadInv
<1>5. dir[r] \in {0, f} /\ \A q \in Run : q # r => dir[q] # f
  BY <1>1 DEF StoreInv, FilesApart
<1> HIDE DEF f, r, new
<1>6. writer.at = writer.last + 1 /\ writer.at - 1 = writer.last /\ writer.at > writer.first
  <2>1. \A at, last, first \in Nat :
          first <= last /\ at \in first .. last + 1 /\ ~(at <= last)
            => at = last + 1 /\ at - 1 = last /\ at > first
    OBVIOUS
  <2> QED BY <2>1, <1>1, <1>3, <1>4
<1>7. \A g \in Files : durable'[g] = IF g = f THEN Len(content[f]) ELSE durable[g]
  BY <1>1, <1>3
<1>8. next' \in [Run -> 1 .. MaxEvents + 1] /\ \A q \in Run : q # r => next'[q] = next[q]
  <2>1. writer.last + 1 \in 1 .. MaxEvents + 1
    BY <1>3 DEF Events
  <2>2. \/ next' = next
        \/ next' = [next EXCEPT ![r] = writer.last + 1]
    BY <1>1
  <2>3. r \in Run /\ next \in [Run -> 1 .. MaxEvents + 1]
    BY <1>3
  <2> QED BY <2>1, <2>2, <2>3
<1>9. ~IsTorn(content[f]) /\ content[f] # <<>> /\ mtime[f] = clock
  BY <1>4, <1>6
<1>10. TypeOK'
  <2>1. durable' \in [Files -> Nat] /\ \A g \in Files : durable'[g] <= Len(content[g])
    BY <1>1, <1>3, <1>7
  <2>2. acked' \subseteq [run : Run, id : Events, at : 0 .. clock]
    <3>1. \A n \in writer.first .. writer.last : n \in Events
      BY <1>3 DEF Events
    <3>2. new \subseteq [run : Run, id : Events, at : 0 .. clock]
      BY <3>1, <1>3 DEF new
    <3> QED BY <3>2, <1>1, <1>2 DEF TypeOK
  <2> QED BY <2>1, <2>2, <1>1, <1>2, <1>8 DEF TypeOK, Uploads, Cleanups
<1>11. FilesApart' /\ UploadInv' /\ CleanerInv'
  <2>1. \A g \in Files : g > created => g # f
    BY <1>3
  <2>2. \A g \in Files : g > created => content[g] = <<>> /\ durable'[g] = 0
    BY <2>1, <1>7 DEF StoreInv, FilesApart
  <2> QED BY <2>2, <1>1 DEF StoreInv, FilesApart, UploadInv, CleanerInv
<1>12. TornInv'
  <2> SUFFICES ASSUME NEW q \in Run, dir[q] # 0, IsTorn(content[dir[q]]), q \notin skewed
               PROVE  KeptIn(content[dir[q]], next'[q], Len(content[dir[q]]))
    BY <1>1 DEF TornInv
  <2>1. q # r
    BY <1>5, <1>9
  <2> QED BY <2>1, <1>8 DEF StoreInv, TornInv
<1>13. ChunksInv'
  <2> SUFFICES ASSUME NEW g \in Files, durable'[g] # 0 PROVE content[g][durable'[g]].whole
    BY <1>1 DEF StoreInv, ChunksInv
  <2>1. CASE g = f
    BY <2>1, <1>7, <1>9 DEF IsTorn
  <2>2. CASE g # f
    BY <2>2, <1>7 DEF StoreInv, ChunksInv
  <2> QED BY <2>1, <2>2
<1>14. AckedInv'
  <2> DEFINE IsHeld(q, n, d) == HeldIn(skewed, q, content[dir[q]], n, d)
  <2> SUFFICES ASSUME NEW a \in acked'
               PROVE  /\ \/ [run |-> a.run, id |-> a.id] \in deleted \cup expired
                         \/ dir[a.run] # 0 /\ IsHeld(a.run, a.id, durable'[dir[a.run]])
                      /\ dir[a.run] # 0 => a.at <= mtime[dir[a.run]]
    BY <1>1 DEF AckedInv
  <2>1. CASE a \in acked
    <3>1. /\ \/ [run |-> a.run, id |-> a.id] \in deleted \cup expired
             \/ dir[a.run] # 0 /\ IsHeld(a.run, a.id, durable[dir[a.run]])
          /\ dir[a.run] # 0 => a.at <= mtime[dir[a.run]]
      BY <2>1 DEF StoreInv, AckedInv
    <3>2. ASSUME dir[a.run] # 0, IsHeld(a.run, a.id, durable[dir[a.run]])
          PROVE  IsHeld(a.run, a.id, durable'[dir[a.run]])
      <4>1. dir[a.run] \in Files
        BY <2>1, <3>2, <1>3
      <4>2. CASE dir[a.run] # f
        BY <4>1, <4>2, <3>2, <1>7
      <4>3. CASE dir[a.run] = f
        <5> DEFINE b == content[f] d == durable[f] m == Len(content[f])
        <5>1. /\ d \in Nat /\ m \in Nat /\ d <= m
              /\ HeldIn(skewed, a.run, b, a.id, d) /\ \A k \in 1 .. d : b[k] = b[k]
          BY <4>3, <3>2, <1>3
        <5> HIDE DEF b, d, m
        <5>2. HeldIn(skewed, a.run, b, a.id, m)
          BY <5>1, HeldOn
        <5>3. durable'[dir[a.run]] = m
          BY <4>3, <1>3, <1>7 DEF m
        <5> QED BY <5>2, <5>3, <4>3 DEF b
      <4> QED BY <4>2, <4>3
    <3> QED BY <3>1, <3>2
  <2>2. CASE a \in new
    <3>1. PICK n \in writer.first .. writer.last : a = [run |-> r, id |-> n, at |-> clock]
      BY <2>2 DEF new
    <3>2. a.run = r /\ a.id = n /\ a.at = clock
      BY <3>1
    <3>3. /\ HeldIn(skewed, r, content[f], n, Len(content[f]))
          /\ dir[r] = 0 => [run |-> r, id |-> n] \in expired
      BY <1>4, <1>6
    <3>4. dir[r] # 0 => dir[r] = f /\ durable'[f] = Len(content[f])
      BY <1>3, <1>5, <1>7
    <3>5. dir[r] # 0 => a.at <= mtime[dir[r]]
      BY <3>2, <3>4, <1>3, <1>9
    <3> QED BY <3>2, <3>3, <3>4, <3>5
  <2> QED BY <2>1, <2>2, <1>1
<1> QED BY <1>10, <1>11, <1>12, <1>13, <1>14 DEF StoreInv

-----------------------------------------------------------------------------
\* Every step keeps the invariant.
LEMMA StoreNext == StoreInv /\ [Next]_vars => StoreInv'
<1> SUFFICES ASSUME StoreInv, [Next]_vars PROVE StoreInv'
  OBVIOUS
<1>1. CASE Advance
  BY <1>1, AdvanceKeeps
<1>2. CASE Agent
  BY <1>2, DropKeeps, GiveUpKeeps, StopWaitingKeeps DEF Agent
<1>3. CASE Ingest
  BY <1>3, OpenKeeps, OpenLateKeeps, EncodeKeeps, EncodeFailsKeeps, FinishKeeps, SyncFailsKeeps
     DEF Ingest
<1>4. CASE \E r \in Run : Delete(r)
  BY <1>4, DeleteKeeps
<1>5. CASE Cleanup
  BY <1>5, CleanerKeeps, CleanRemoveKeeps DEF Cleanup
<1>6. CASE \E lossy \in SUBSET Files : Restart(lossy)
  BY <1>6, RestartKeeps
<1>7. CASE UNCHANGED vars
  <2>1. UNCHANGED <<clock, dir, created, content, durable, mtime, writer, cleaner, next, late,
                    acked, deleted, expired, skewed, faults>>
    BY <1>7 DEF vars, fileVars, agentVars, historyVars
  <2>2. TypeOK'
    BY <2>1 DEF StoreInv, TypeOK, Uploads, Cleanups
  <2>3. FilesApart' /\ UploadInv' /\ CleanerInv'
    BY <2>1 DEF StoreInv, FilesApart, UploadInv, CleanerInv
  <2>4. TornInv' /\ ChunksInv' /\ AckedInv'
    BY <2>1 DEF StoreInv, TornInv, ChunksInv, AckedInv
  <2> QED BY <2>2, <2>3, <2>4 DEF StoreInv
<1> QED BY <1>1, <1>2, <1>3, <1>4, <1>5, <1>6, <1>7 DEF Next

\* What is held is read, or was written behind a torn chunk and is the one that was
\* torn or of a run in skew - unless a line that began with a torn chunk is too long.
LEMMA HeldIsRead == StoreInv => AckedIsReadable
<1> SUFFICES ASSUME StoreInv, NEW a \in acked,
                    [run |-> a.run, id |-> a.id] \notin deleted \cup expired,
                    a.id \notin Named(a.run)
             PROVE  /\ dir[a.run] # 0
                    /\ \/ /\ IsSpoiled(dir[a.run], a.id)
                          /\ TornIn(dir[a.run], a.id) \/ a.run \in skewed
                       \/ TearIsTooLong(dir[a.run])
  BY DEF AckedIsReadable
<1> DEFINE f == dir[a.run]
<1>1. TypeOK
  BY DEF StoreInv
<1>2. /\ f # 0 /\ CopyIn(content[f], a.id, durable[f])
      /\ a.run \in skewed \/ KeptIn(content[f], a.id, durable[f])
  BY DEF StoreInv, AckedInv, HeldIn
<1>3. f \in Files /\ content[f] \in Seq(Chunk) /\ durable[f] \in 0 .. Len(content[f])
  BY <1>1, <1>2, StoreTypes
<1>4. /\ Len(content[f]) \in Nat /\ DOMAIN content[f] = 1 .. Len(content[f])
      /\ \A k \in 1 .. durable[f] : k \in DOMAIN content[f]
  BY <1>3
<1>5. CASE \E k \in DOMAIN content[f] : IsTooLong(f, k)
  <2>1. PICK k \in DOMAIN content[f] : content[f][k].line > LineLimit
    BY <1>5 DEF IsTooLong
  <2>2. IsBehindTear(f, k)
    BY <2>1, <1>3, <1>4 DEF StoreInv, ChunksInv, IsBehindTear
  <2> QED BY <2>1, <2>2, <1>2 DEF TearIsTooLong, IsTooLong
<1>6. CASE ~\E k \in DOMAIN content[f] : IsTooLong(f, k)
  <2>1. ASSUME NEW k \in DOMAIN content[f], content[f][k].id = a.id
        PROVE  ~Parses(f, k)
    <3>1. Parses(f, k) => a.id \in ReadRun(f)
      BY <2>1, <1>6 DEF ReadRun
    <3> QED BY <3>1, <1>2 DEF Named
  <2>2. IsSpoiled(f, a.id)
    <3>1. PICK k \in 1 .. durable[f] : content[f][k].id = a.id /\ content[f][k].whole
      BY <1>2 DEF CopyIn
    <3> QED BY <3>1, <2>1, <1>4 DEF Parses, IsSpoiled
  <2>3. TornIn(f, a.id) \/ a.run \in skewed
    <3> SUFFICES ASSUME KeptIn(content[f], a.id, durable[f]) PROVE TornIn(f, a.id)
      BY <1>2
    <3>1. PICK k \in 1 .. durable[f] :
            content[f][k].id = a.id /\ (ParsesIn(content[f], k) \/ ~content[f][k].whole)
      BY DEF KeptIn
    <3>2. k \in DOMAIN content[f] /\ ~Parses(f, k)
      BY <3>1, <2>1, <1>4
    <3>3. ~content[f][k].whole
      BY <3>1, <3>2 DEF Parses, ParsesIn, IsBehindTear
    <3>4. content[f][k] \in Range(content[f])
      BY <3>2 DEF Range
    <3> QED BY <3>1, <3>3, <3>4 DEF TornIn
  <2> QED BY <2>2, <2>3, <1>2
<1> QED BY <1>5, <1>6

-----------------------------------------------------------------------------
\* What was acknowledged can be read back until it is removed, whatever fails,
\* stops or is forgotten, but for the event behind a torn one and for a line that
\* grew too long behind it; for any number of runs, events, files and faults.
THEOREM AcknowledgedIsStored == Spec => []RunStoreInv
<1>1. StoreInv => RunStoreInv
  BY HeldIsRead DEF StoreInv, RunStoreInv
<1> QED BY <1>1, StoreInit, StoreNext, PTL DEF Spec

\* Where a name goes in a step of the cleanup, the cleanup removes it.
LEMMA RemovedByCleanup ==
  ASSUME StoreInv, Next, NEW r \in Run, dir[r] # 0, dir'[r] = 0, cleaner' # cleaner
  PROVE  CleanRemove(r)
<1>1. TypeOK
  BY DEF StoreInv
<1>2. dir \in [Run -> 0 .. created] /\ created \in Nat
  BY <1>1, StoreTypes
<1>3. CASE Advance \/ Agent \/ Ingest \/ \E q \in Run : Delete(q)
  <2>1. UNCHANGED cleaner
    BY <1>3 DEF Advance, Agent, Drop, GiveUp, StopWaiting, Ingest, Open, OpenLate, OpenFile,
                Encode, EncodeFails, Finish, Acknowledge, SyncFails, Delete
  <2> QED BY <2>1
<1>4. CASE Cleanup
  <2>1. CASE CleanStart \/ CleanEnd \/ \E q \in Run : CleanLook(q)
    <3>1. UNCHANGED dir
      BY <2>1 DEF CleanStart, CleanEnd, CleanLook, fileVars
    <3> QED BY <3>1
  <2>2. CASE \E q \in Run : CleanRemove(q)
    <3>1. PICK q \in Run : CleanRemove(q)
      BY <2>2
    <3>2. dir' = [dir EXCEPT ![q] = 0]
      BY <3>1 DEF CleanRemove
    <3>3. q = r
      BY <3>2, <1>2
    <3> QED BY <3>1, <3>3
  <2> QED BY <2>1, <2>2, <1>4 DEF Cleanup
<1>5. CASE \E lossy \in SUBSET Files : Restart(lossy)
  <2>1. UNCHANGED dir
    BY <1>5 DEF Restart
  <2> QED BY <2>1
<1> QED BY <1>3, <1>4, <1>5 DEF Next

\* The cleanup takes no event that was acknowledged within the retention period but
\* from a file with a later modification time than the one it saw: what it saw was
\* past when it started, and the file of a young event no longer is.
THEOREM YoungEventsAreKept == Spec => OnlyARaceTakesYoungEvents
<1> DEFINE Step == \A a \in acked :
                     (/\ Young(a)
                      /\ a.id \in Named(a.run)
                      /\ dir'[a.run] = 0
                      /\ cleaner' # cleaner)
                     => mtime[dir[a.run]] > cleaner.seen
<1>1. StoreInv /\ Next => Step
  <2> SUFFICES ASSUME StoreInv, Next, NEW a \in acked, Young(a), a.id \in Named(a.run),
                      dir'[a.run] = 0, cleaner' # cleaner
               PROVE  mtime[dir[a.run]] > cleaner.seen
    OBVIOUS
  <2>1. TypeOK
    BY DEF StoreInv
  <2>2. dir[a.run] # 0 /\ a.run \in Run
    BY <2>1, StoreTypes DEF Named
  <2>3. a.at <= mtime[dir[a.run]] /\ dir[a.run] \in Files
    BY <2>1, <2>2, StoreTypes DEF StoreInv, AckedInv
  <2>4. CleanRemove(a.run)
    BY <2>2, RemovedByCleanup
  <2>5. cleaner.seen + Retention < cleaner.start
    BY <2>4 DEF CleanRemove, StoreInv, CleanerInv
  <2>6. /\ a.at \in Nat /\ mtime[dir[a.run]] \in Nat /\ Retention \in Nat
        /\ cleaner.start \in Nat /\ cleaner.start <= clock /\ clock \in Nat
        /\ cleaner.seen \in Nat
    <3>1. a.at \in Nat /\ mtime[dir[a.run]] \in Nat
      BY <2>1, <2>3, StoreTypes
    <3>2. cleaner \in Cleanups /\ clock \in Nat /\ Retention \in Nat
      BY <2>1, StoreTypes DEF TypeOK
    <3> QED BY <3>1, <3>2 DEF Cleanups
  <2>7. clock <= a.at + Retention
    BY DEF Young
  <2> QED BY <2>3, <2>5, <2>6, <2>7
<1> HIDE DEF Step
<1>2. StoreInv /\ [Next]_vars => [Step]_vars
  BY <1>1
<1>3. Spec => [][Step]_vars
  BY <1>2, StoreInit, StoreNext, PTL DEF Spec
<1> QED BY <1>3 DEF Step, OnlyARaceTakesYoungEvents
=============================================================================
