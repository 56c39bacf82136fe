------------------------------- MODULE LogTail -------------------------------
(***************************************************************************)
(* How the agent follows a file that another program writes: pollGameLog,  *)
(* pollLauncherLog, pollProbe and pollProtonLog, once a second each.  They *)
(* are one algorithm with different answers to four questions, so a        *)
(* behaviour of this module is one of the four, chosen at the start.       *)
(*                                                                         *)
(* A log is a file's content from one creation or truncation to the next.  *)
(* Its k-th cell is <<log, k>>, a piece of a line, and every second cell   *)
(* ends a line.  A file is therefore known by its log and its length.      *)
(* A poll is two steps, the look at the file (os.Stat, or open and fstat)  *)
(* and the read: the file's writer may act between them.                   *)
(***************************************************************************)
EXTENDS Integers, Sequences, FiniteSetsExt

CONSTANTS
  Tailers, \* of "game", "launcher", "probe" and "proton"
  Inodes,  \* what os.SameFile compares; reused once a file is removed
  Chunk,   \* cells of one read: 4 MiB, 1 MiB or maxProtonReadBytes
  MaxLen,   \* bound: cells of a log
  MaxLogs, \* bound: logs
  MaxFills, \* bound: times the upload queue fills up
  MaxRuns  \* bound: runs the game log begins

ASSUME LogTailAssumption ==
  /\ Tailers \subseteq {"game", "launcher", "probe", "proton"}
  /\ Inodes \subseteq Nat \ {0} /\ 1 \in Inodes
  /\ {Chunk, MaxLogs} \subseteq Nat \ {0}
  /\ {MaxLen, MaxFills, MaxRuns} \subseteq Nat

VARIABLES
  tailer,  \* whose file it is
  files,   \* [Inodes -> [log, len]]
  path,    \* the inode at the configured path, 0 if there is none
  recent,  \* the file was written to less than 30 seconds ago
  room,    \* len(a.pending) < maxPendingEvents - maxEvents
  fills,   \* times the queue filled up
  runs,    \* runs the game log began
  logs,    \* logs begun
  looked,  \* the inode of a look whose read is to come, 0 if none
  known,   \* knownFile, launcherFile, protonFile; of probeKnown the file opened first
  offset,
  partial, \* the cells of a line that is not complete
  out,     \* the cells of all complete lines handed to the parser in this run
  reading, \* history: the log that offset counts in, 0 if none
  joined,  \* history: the log first seen, and where its reading began
  mixed    \* history: logs that were replaced or truncated and nothing told the tailer

env  == <<tailer, files, path, recent, room, fills, runs, logs>>
tail == <<looked, known, offset, partial, out, reading, joined, mixed>>
vars == <<env, tail>>

IsEnd(cell) == cell[2] % 2 = 0
Cells(file) == [k \in 1 .. file.len |-> <<file.log, k>>]

-----------------------------------------------------------------------------
(* The writer: the game, the launcher, an instrumented Proton.             *)

Write ==
  /\ path # 0
  /\ files[path].len < MaxLen
  /\ files' = [files EXCEPT ![path].len = @ + 1]
  /\ recent' = TRUE
  /\ UNCHANGED <<tailer, path, room, fills, runs, logs, tail>>

Truncate ==
  /\ path # 0
  /\ logs < MaxLogs
  /\ files' = [files EXCEPT ![path] = [log |-> logs + 1, len |-> 0]]
  /\ logs' = logs + 1
  /\ recent' = TRUE
  /\ UNCHANGED <<tailer, path, room, fills, runs, tail>>

\* The log is renamed or removed: a descriptor that is open still reads it.
Remove ==
  /\ path # 0
  /\ logs < MaxLogs
  /\ path' = 0
  /\ UNCHANGED <<tailer, files, recent, room, fills, runs, logs, tail>>

\* A new file has any inode, but that of the file pollProbe has open.
Create ==
  /\ path = 0
  /\ logs < MaxLogs
  /\ \E i \in Inodes \ (IF tailer = "probe" THEN {looked} ELSE {}) :
       /\ path' = i
       /\ files' = [files EXCEPT ![i] = [log |-> logs + 1, len |-> 0]]
  /\ logs' = logs + 1
  /\ recent' = TRUE
  /\ UNCHANGED <<tailer, room, fills, runs, tail>>

\* 30 seconds pass without a write.  Nobody asks while the tailer knows the file.
Age ==
  /\ recent
  /\ known = 0 \/ (tailer = "proton" /\ runs < MaxRuns)
  /\ recent' = FALSE
  /\ UNCHANGED <<tailer, files, path, room, fills, runs, logs, tail>>

\* The upload queue fills up, and the server takes it again.
Fill ==
  /\ tailer = "proton" /\ room /\ fills < MaxFills
  /\ room' = FALSE
  /\ fills' = fills + 1
  /\ UNCHANGED <<tailer, files, path, recent, runs, logs, tail>>

Drain ==
  /\ ~room
  /\ room' = TRUE
  /\ UNCHANGED <<tailer, files, path, recent, fills, runs, logs, tail>>

-----------------------------------------------------------------------------
(* What the four polls do differently.                                     *)

\* A log that is old when it is first seen is joined at its end; the probe file always is.
JoinsAtEnd == tailer = "probe" \/ ~recent

\* pollProbe compares sizes only: another file at its path is not told from the first.
Replaced(inode) == tailer # "probe" /\ inode # known

-----------------------------------------------------------------------------
(* The poll.                                                               *)

\* Mutant of NothingNew: a single new cell is not enough.
NothingNewYet(len) == tailer # "probe" /\ len <= offset + 1

\* pollProbe does not ask, and reads nothing then.
NothingNew(len) == tailer # "probe" /\ len = offset

\* The first look at a file.
Join ==
  /\ path # 0 /\ known = 0 /\ looked = 0 /\ room
  /\ known' = path
  /\ offset' = IF JoinsAtEnd THEN files[path].len ELSE 0
  /\ reading' = files[path].log
  /\ joined' = [log |-> reading', at |-> offset']
  /\ looked' = IF offset' = files[path].len THEN 0 ELSE path
  /\ UNCHANGED <<partial, out, mixed, env>>

\* Mutant of StartOver: the new log is joined at its end.
StartOverAtEnd ==
  /\ offset' = files[path].len
  /\ partial' = <<>>

\* Mutant of StartOver: the incomplete line of the old log is kept.
StartOverKeepingPartial ==
  /\ offset' = 0
  /\ partial' = partial

StartOver ==
  /\ offset' = 0
  /\ partial' = <<>>

\* A look that finds another file, or one shorter than what was read of it.
LookAtNewLog ==
  /\ path # 0 /\ known # 0 /\ looked = 0 /\ room
  /\ Replaced(path) \/ files[path].len < offset
  /\ known' = path
  /\ StartOver
  /\ reading' = files[path].log
  /\ looked' = IF tailer # "probe" /\ files[path].len = 0 THEN 0 ELSE path
  /\ UNCHANGED <<out, joined, mixed, env>>

\* History: the file goes on in a log that nothing tells from the one before: it has the
\* inode (which pollProbe does not compare) and is as long.  That does not matter while
\* nothing was read.
Continue(inode, log) ==
  /\ reading' = IF offset = 0 THEN log ELSE reading
  /\ mixed' = IF offset # 0 /\ log # reading /\ (tailer = "probe" \/ inode = known)
              THEN mixed \cup {reading, log} ELSE mixed

Look ==
  /\ path # 0 /\ known # 0 /\ looked = 0 /\ room
  /\ ~Replaced(path) /\ files[path].len >= offset
  /\ Continue(path, files[path].log)
  /\ looked' = IF NothingNew(files[path].len) THEN 0 ELSE path
  /\ UNCHANGED <<known, offset, partial, out, joined, env>>

\* History: another file came to the path between the look and the read.
Swapped(log) == reading' = reading /\ mixed' = mixed \cup {reading, log}

\* Mutant of Advance: a read that ends early counts for a whole one.
AdvanceByChunk(data) == offset + Chunk

Advance(data) == offset + Len(data)

\* How much of a text is complete lines.
Complete(text) == Max({0} \cup {i \in DOMAIN text : IsEnd(text[i])})

\* pollProbe reads the file it looked at; the others open the path again.
Read ==
  LET inode == IF tailer = "probe" THEN looked ELSE path
      data  == SubSeq(Cells(files[inode]), offset + 1, Min({files[inode].len, offset + Chunk}))
      text  == partial \o data
  IN /\ looked # 0
     /\ inode # 0
     /\ offset' = Advance(data)
     /\ out' = out \o SubSeq(text, 1, Complete(text))
     /\ partial' = SubSeq(text, Complete(text) + 1, Len(text))
     /\ IF inode = looked THEN Continue(inode, files[inode].log) ELSE Swapped(files[inode].log)
     /\ looked' = 0
     /\ UNCHANGED <<known, joined, env>>

\* os.Open fails: the file was removed after the look.
ReadMissing ==
  /\ looked # 0
  /\ tailer # "probe" /\ path = 0
  /\ looked' = 0
  /\ UNCHANGED <<known, offset, partial, out, reading, joined, mixed, env>>

\* os.Stat or os.Open says that there is no file, or pollProtonLog that there is no room.
NoLook == looked = 0 /\ (path = 0 \/ ~room) /\ UNCHANGED vars

\* startRun for the game log: the Proton log is read again for the new run, from its
\* beginning if it is recent.  There is one thread, so no poll is under way.
NewRun ==
  /\ tailer = "proton" /\ looked = 0 /\ runs < MaxRuns
  /\ runs' = runs + 1
  /\ known' = 0 /\ offset' = 0 /\ partial' = <<>>
  /\ out' = <<>>
  /\ reading' = 0
  /\ joined' = [log |-> 0, at |-> 0]
  /\ mixed' = {}
  /\ UNCHANGED <<looked, tailer, files, path, recent, room, fills, logs>>

Poll == Join \/ LookAtNewLog \/ Look \/ Read \/ ReadMissing \/ NoLook

Init ==
  /\ tailer \in Tailers
  /\ files \in [Inodes -> [log : {1}, len : 0 .. MaxLen]]
  /\ \A i \in Inodes : i # 1 => files[i].len = 0
  /\ path \in {0, 1}
  /\ recent \in BOOLEAN
  /\ room = TRUE /\ fills = 0 /\ runs = 0
  /\ logs = 1
  /\ looked = 0 /\ known = 0 /\ offset = 0
  /\ partial = <<>> /\ out = <<>>
  /\ reading = 0 /\ joined = [log |-> 0, at |-> 0] /\ mixed = {}

Next == Write \/ Truncate \/ Remove \/ Create \/ Age \/ Fill \/ Drain \/ NewRun \/ Poll

\* monitor polls every second; the queue drains while the server answers.
Spec == Init /\ [][Next]_vars /\ WF_vars(Poll) /\ WF_vars(Drain)

-----------------------------------------------------------------------------
(* Properties.                                                             *)

Cell == (1 .. MaxLogs) \X (1 .. MaxLen)

\* Types.
TypeOK ==
  /\ tailer \in Tailers
  /\ files \in [Inodes -> [log : 1 .. MaxLogs, len : 0 .. MaxLen]]
  /\ {path, looked, known} \subseteq Inodes \cup {0}
  /\ {recent, room} \subseteq BOOLEAN
  /\ fills \in 0 .. MaxFills /\ runs \in 0 .. MaxRuns /\ logs \in 1 .. MaxLogs
  /\ offset \in 0 .. MaxLen
  /\ joined \in [log : 0 .. MaxLogs, at : 0 .. MaxLen]
  /\ partial \in Seq(Cell) /\ out \in Seq(Cell)
  /\ reading \in 0 .. MaxLogs /\ mixed \subseteq 0 .. MaxLogs

\* What was handed on, and the incomplete line behind it.
Text == out \o partial

First(log) == IF log = joined.log THEN joined.at ELSE 0

\* What was handed on of a log, and the incomplete line behind it, is an unbroken stretch
\* of it: chunks, incomplete lines and interrupted polls repeat nothing, skip nothing and
\* swap nothing.  It begins at the log's first cell, but for the log that was old when the
\* tailer first saw it, and goes as far as the offset.
FollowsOn ==
  \A i \in DOMAIN Text :
    Text[i][1] \notin mixed =>
      /\ \/ Text[i][2] = First(Text[i][1]) + 1
         \/ i > 1 /\ Text[i - 1] = <<Text[i][1], Text[i][2] - 1>>
      /\ \A j \in DOMAIN Text : Text[j] = Text[i] => j = i

ReachesOffset ==
  reading \notin mixed =>
    IF \E i \in DOMAIN Text : Text[i][1] = reading
    THEN Text[Len(Text)] = <<reading, offset>>
    ELSE offset = First(reading)

Unbroken == FollowsOn /\ ReachesOffset

\* The invariant of the tailer: types, and that it reads each log without a break.
LogTailInv == TypeOK /\ Unbroken

\* A line handed to a parser is of one log and no piece of it is missing, even when the log
\* was replaced in the middle of a line; only a log replaced unnoticed can be spliced to the
\* one before it.
NoSplicedLine ==
  \A i \in 1 .. Len(out) - 1 :
    \/ IsEnd(out[i])
    \/ out[i + 1] = <<out[i][1], out[i][2] + 1>>
    \/ {out[i][1], out[i + 1][1]} \subseteq mixed

\* What is written is handed on in the end, up to the last complete line, over as many
\* polls as the chunks take, and also when the queue was full for a time.
CaughtUp ==
  path # 0 =>
    \/ files[path].log \in mixed
    \/ files[path].log = reading /\ offset = files[path].len

EverythingIsRead == <>[]CaughtUp
=============================================================================
