----------------------------- MODULE EngineIni -----------------------------
(***************************************************************************)
(* The game's Engine.ini: install.sh appends a block of settings to it and *)
(* uninstall.sh cuts the block out again, each by writing a temporary file *)
(* with sed and moving it over Engine.ini.  The game and the player edit   *)
(* the file at any time, between the steps of a script as well, and a      *)
(* script may die between any two steps.                                   *)
(*                                                                         *)
(* The file is a sequence of lines <<what, n>>: the block's first, middle  *)
(* and last line, empty lines, and settings, of which n is the edit that   *)
(* wrote them.  The last line may lack its newline.                        *)
(*                                                                         *)
(* Init, Next, Spec and TypeOK have Ini in front of their names, so that   *)
(* InstallationProofs can extend this module next to AgentUpdate.          *)
(***************************************************************************)
EXTENDS Integers, SequencesExt

CONSTANTS
  MaxScripts, \* bound: runs of the two scripts
  MaxEdits,   \* bound: edits of the game and the player
  MaxDeaths   \* bound: scripts that die

ASSUME EngineIniAssumption == {MaxScripts, MaxEdits, MaxDeaths} \subseteq Nat

VARIABLES
  file,    \* [exists, lines, ends]: whether the last line has its newline
  created, \* the marker engine-ini-created is there
  script,  \* the script that runs and where it is, with its temporary file
  last,    \* history: the script that was the last to end, if nothing was edited since
  ours,    \* history: the file is the one install.sh created
  orphan,  \* history: an edit took away the first line of a block
  scripts, edits, deaths

bounds == <<scripts, edits, deaths>>
iniVars == <<file, created, script, last, ours, orphan, bounds>>

Begin == <<"BEGIN", 0>>
Body  == <<"[Core.Log]", 0>>
End   == <<"END", 0>>
Empty == <<"", 0>>
Block == <<Begin, Body, End>>
Setting(n) == <<"setting", n>>

\* The lines at some places of a file, in their order.
Kept(lines, places) ==
  LET kept[n \in 0 .. Len(lines)] ==
        IF n = 0 THEN <<>>
        ELSE IF n \in places THEN Append(kept[n - 1], lines[n]) ELSE kept[n - 1]
  IN  kept[Len(lines)]

IsSetting(line) == line \notin {Begin, Body, End, Empty}
Settings(lines) == Kept(lines, {i \in DOMAIN lines : IsSetting(lines[i])})

NoFile == [exists |-> FALSE, lines |-> <<>>, ends |-> TRUE]
NoScript   == [name |-> "none", at |-> "idle", temporary |-> NoFile, raced |-> FALSE, enclosed |-> FALSE]

\* sed's range: from a first line to the next last line, or to the end of the file.
InBlock(lines, i) ==
  \E j \in 1 .. i : lines[j] = Begin /\ \A k \in j .. i - 1 : lines[k] # End

\* Mutant of Cut: all that follows the block is cut, too.
CutToEnd(f) ==
  [f EXCEPT !.lines = Kept(f.lines, {i \in DOMAIN f.lines : \A j \in 1 .. i : f.lines[j] # Begin})]

\* Mutant of Cut: the file as it is.
CutNothing(f) == f

Cut(f) ==
  [f EXCEPT !.lines = Kept(f.lines, {i \in DOMAIN f.lines : ~InBlock(f.lines, i)}),
            !.ends  = f.ends \/ InBlock(f.lines, Len(f.lines))]

\* Mutant of AppendBlock: no empty line in front of the block, whose first line then continues
\* a last line that lacks its newline.
AppendAtOnce(f) ==
  [f EXCEPT !.lines = IF f.ends THEN f.lines \o Block ELSE Front(f.lines) \o Tail(Block),
            !.ends = TRUE]

\* cat >>: the empty line in front of the block ends a last line that lacks its newline.
AppendBlock(f) ==
  [f EXCEPT !.lines = f.lines \o (IF f.ends THEN <<Empty>> ELSE <<>>) \o Block, !.ends = TRUE]

-----------------------------------------------------------------------------
(* The scripts.                                                            *)

IniInit ==
  /\ file \in {NoFile, [exists |-> TRUE, lines |-> <<>>, ends |-> TRUE],
               [exists |-> TRUE, lines |-> <<Setting(0)>>, ends |-> TRUE]}
  /\ created = FALSE
  /\ script = NoScript
  /\ last = "none"
  /\ ours = FALSE
  /\ orphan = FALSE
  /\ scripts = 0 /\ edits = 0 /\ deaths = 0

At(place) == script.at = place
Goes(place) == script' = [script EXCEPT !.at = place]

\* Either script looks whether there is a file.
Begins(name, missing) ==
  /\ At("idle")
  /\ scripts < MaxScripts
  /\ scripts' = scripts + 1
  /\ script' = [NoScript EXCEPT !.name = name, !.at = IF file.exists THEN "read" ELSE missing]
  /\ last' = "none"
  /\ UNCHANGED <<file, created, ours, orphan, edits, deaths>>

InstallBegins   == Begins("install", "create")
UninstallBegins == Begins("uninstall", "finish")
CreateFile ==
  /\ At("create")
  /\ file' = [NoFile EXCEPT !.exists = TRUE]
  /\ ours' = TRUE
  /\ Goes("mark")
  /\ UNCHANGED <<created, last, orphan, bounds>>

Mark ==
  /\ At("mark")
  /\ created' = TRUE
  /\ Goes("read")
  /\ UNCHANGED <<file, last, ours, orphan, bounds>>

\* Mutant of ReadFile: the script goes on without a file.
ReadAnyway ==
  /\ At("read")
  /\ script' = [script EXCEPT !.at = "replace", !.temporary = AppendBlock(Cut(file))]
  /\ UNCHANGED <<file, created, last, ours, orphan, bounds>>

\* sed, and for install.sh cat: a file that is gone by now ends the script.
ReadFile ==
  /\ At("read")
  /\ script' =
       IF ~file.exists THEN NoScript
       ELSE [script EXCEPT
               !.at = "replace",
               !.raced = FALSE,
               !.temporary = IF script.name = "install" THEN AppendBlock(Cut(file)) ELSE Cut(file),
               !.enclosed = \E i \in DOMAIN file.lines :
                              IsSetting(file.lines[i]) /\ InBlock(file.lines, i)]
  /\ UNCHANGED <<file, created, last, ours, orphan, bounds>>

\* mv
Replace ==
  /\ At("replace")
  /\ file' = script.temporary
  /\ IF script.name = "install"
     THEN script' = NoScript /\ last' = "install"
     ELSE script' = [script EXCEPT !.at = "check", !.raced = FALSE] /\ UNCHANGED last
  /\ UNCHANGED <<created, ours, orphan, bounds>>

\* Mutant of IsToGo: only a file without any line goes.
IsToGoIfNoLine == created /\ file.lines = <<>>

IsToGo == created /\ \A i \in DOMAIN file.lines : file.lines[i] = Empty

Check ==
  /\ At("check")
  /\ script' = [script EXCEPT !.at = IF IsToGo THEN "remove" ELSE "finish", !.raced = FALSE]
  /\ UNCHANGED <<file, created, last, ours, orphan, bounds>>

RemoveFile ==
  /\ At("remove")
  /\ file' = NoFile
  /\ Goes("finish")
  /\ UNCHANGED <<created, last, ours, orphan, bounds>>

Finish ==
  /\ At("finish")
  /\ created' = FALSE
  /\ script' = NoScript
  /\ last' = "uninstall"
  /\ ours' = FALSE
  /\ UNCHANGED <<file, orphan, bounds>>

Dies ==
  /\ ~At("idle")
  /\ deaths < MaxDeaths
  /\ deaths' = deaths + 1
  /\ script' = NoScript
  /\ UNCHANGED <<file, created, last, ours, orphan, scripts, edits>>

-----------------------------------------------------------------------------
(* The game and the player.                                                *)

Edited(lines, ends) ==
  /\ edits < MaxEdits
  /\ edits' = edits + 1
  /\ file' = [exists |-> TRUE, lines |-> lines, ends |-> ends]
  /\ script' = [script EXCEPT !.raced = ~At("idle")]
  /\ last' = "none"
  /\ ours' = (ours /\ file.exists)
  /\ UNCHANGED <<created, scripts, deaths>>

Insert ==
  \E i \in 1 .. Len(file.lines) + 1, ends \in BOOLEAN :
    /\ Edited(InsertAt(file.lines, i, Setting(edits')), ends)
    /\ UNCHANGED orphan

DeleteLine ==
  \E i \in DOMAIN file.lines, ends \in BOOLEAN :
    /\ Edited(RemoveAt(file.lines, i), ends \/ Len(file.lines) = 1)
    /\ orphan' = (orphan \/ file.lines[i] = Begin)

DeleteFile ==
  /\ file.exists
  /\ edits < MaxEdits
  /\ edits' = edits + 1
  /\ file' = NoFile
  /\ script' = [script EXCEPT !.raced = ~At("idle")]
  /\ last' = "none"
  /\ UNCHANGED <<created, ours, orphan, scripts, deaths>>

Scripts ==
  \/ InstallBegins \/ UninstallBegins \/ CreateFile \/ Mark \/ ReadFile \/ Replace
  \/ Check \/ RemoveFile \/ Finish \/ Dies

IniNext == Scripts \/ Insert \/ DeleteLine \/ DeleteFile

IniSpec == IniInit /\ [][IniNext]_iniVars

-----------------------------------------------------------------------------
(* Properties.                                                             *)

Lines == {Begin, Body, End, Empty} \cup {Setting(n) : n \in 0 .. MaxEdits}

\* Types; a file that is not there has no lines.
IniTypeOK ==
  /\ \A f \in {file, script.temporary} : f \in [exists : BOOLEAN, lines : Seq(Lines), ends : BOOLEAN]
  /\ ~file.exists => file = NoFile
  /\ script.name \in {"none", "install", "uninstall"}
  /\ script.at \in {"idle", "create", "mark", "read", "replace", "check", "remove", "finish"}
  /\ last \in {"none", "install", "uninstall"}
  /\ {created, ours, orphan, script.raced, script.enclosed} \subseteq BOOLEAN

\* "Other game settings are preserved" (Collector/README.md:257) by both scripts, wherever
\* they die and however often they run, with two exceptions: an edit between a script's
\* look at the file and its replacement or removal is undone, and a setting inside a block,
\* or behind one that lost its last line, is cut with it.
SettingsPreserved ==
  [][edits' = edits /\ Settings(file'.lines) # Settings(file.lines)
       => script.raced \/ script.enclosed]_iniVars

\* An installation ends with the block switched on, once and at the end of the file, also
\* over earlier blocks that are damaged.
OneBlock ==
  last = "install" =>
    /\ file.exists
    /\ IsSuffix(Block, file.lines)
    /\ Cardinality({i \in DOMAIN file.lines : file.lines[i] = Begin}) = 1

\* The invariant of the file: types, and what an installation leaves.
EngineIniInv == IniTypeOK /\ OneBlock

\* When uninstall.sh ends, nothing of a block is left, unless somebody took away a block's
\* first line, and of a file that install.sh created nothing at all, unless it has settings
\* when the script looks or a script died.
LeavesNoTrace ==
  [][At("finish") /\ last' = "uninstall" =>
       /\ \A i \in DOMAIN file.lines :
            /\ file.lines[i] # Begin
            /\ file.lines[i] \in {Body, End} => orphan
       /\ ours /\ deaths = 0 /\ file.exists => Settings(file.lines) # <<>> \/ orphan \/ script.raced]_iniVars
=============================================================================
