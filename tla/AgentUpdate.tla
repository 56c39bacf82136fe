----------------------------- MODULE AgentUpdate -----------------------------
(***************************************************************************)
(* The agent's executable: updateAgent, which replaces it from within, and *)
(* install.sh, which replaces it from without, while the collector may be  *)
(* redeployed with another release between any two of their requests.      *)
(*                                                                         *)
(* A release is a binary with the manifest that CI built and signed for    *)
(* it; Corrupt stands for any bytes that are no release.  verifyUpdate and *)
(* the installer's checksum and signature tests accept a binary exactly    *)
(* when it is the release the manifest at hand describes.  updateAgent     *)
(* writes a temporary file and renames it over the executable; install(1)  *)
(* removes the executable and writes a new one in place.  uninstall.sh     *)
(* stops the service, if it can, and removes executable, configuration and *)
(* unit.  systemd starts an agent that is gone as long as these are there. *)
(***************************************************************************)
EXTENDS Integers

CONSTANTS
  Release,     \* the releases; the agent's version tells them apart
  Corrupt,     \* a binary that is none of them
  NoBinary,    \* nothing: no process, no file, no download
  MaxDeploys,  \* bound: redeployments of the collector
  MaxRemovals, \* bound: runs of uninstall.sh
  MaxFaults    \* bound: failed requests, writes and execs, and deaths

ASSUME AgentUpdateAssumption ==
  /\ Corrupt \notin Release
  /\ NoBinary \notin Release \cup {Corrupt}
  /\ {MaxDeploys, MaxRemovals, MaxFaults} \subseteq Nat

VARIABLES
  deployed,  \* the release the collector serves
  disk,      \* the executable file: what it holds and whether all of it
  running,   \* the release the agent's process runs
  agent,     \* where updateAgent is, its manifest and the binary it fetched
  installer, \* the same for install.sh
  enabled,   \* the unit and config.json are there and the unit is enabled
  removing,  \* uninstall.sh has come past the service
  deploys,   \* redeployments so far
  removals,  \* runs of uninstall.sh so far
  faults     \* failures so far

boundVars   == <<deploys, removals, faults>>
serviceVars == <<enabled, removing>>
vars == <<deployed, disk, running, agent, installer, serviceVars, boundVars>>

Idle == [at |-> "idle", manifest |-> NoBinary, binary |-> NoBinary]

Fault ==
  /\ faults < MaxFaults
  /\ faults' = faults + 1

Init ==
  /\ deployed \in Release
  /\ disk = [binary |-> NoBinary, whole |-> FALSE]
  /\ running = NoBinary
  /\ agent = Idle
  /\ installer = Idle
  /\ enabled = FALSE
  /\ removing = FALSE
  /\ deploys = 0
  /\ removals = 0
  /\ faults = 0

Deploy ==
  /\ deploys < MaxDeploys
  /\ deploys' = deploys + 1
  /\ deployed' \in Release
  /\ UNCHANGED <<disk, running, agent, installer, serviceVars, removals, faults>>

\* The two requests, each answered with what is deployed by then; a body that
\* arrives damaged is a failure.
Manifest == [at |-> "manifest", manifest |-> deployed, binary |-> NoBinary]

Binary(job, isDamaged) ==
  [at |-> "binary", manifest |-> job.manifest,
   binary |-> IF isDamaged THEN Corrupt ELSE deployed]

\* Mutant of Genuine: nothing is checked.
Unchecked(job) == TRUE

\* verifyUpdate, and the tests in install.sh.
Genuine(job) == job.binary = job.manifest

-----------------------------------------------------------------------------
\* updateAgent, at startup and every six hours.

\* Mutant of CheckManifest: after a failure no update is tried again.
CheckManifestOnce ==
  /\ running # NoBinary
  /\ agent = Idle
  /\ faults = 0
  /\ agent' = IF deployed = running THEN Idle ELSE Manifest
  /\ UNCHANGED <<deployed, disk, running, installer, serviceVars, boundVars>>

\* An agent of the deployed release is done.
CheckManifest ==
  /\ running # NoBinary
  /\ agent = Idle
  /\ agent' = IF deployed = running THEN Idle ELSE Manifest
  /\ UNCHANGED <<deployed, disk, running, installer, serviceVars, boundVars>>

FetchBinary(isDamaged) ==
  /\ agent.at = "manifest"
  /\ agent' = Binary(agent, isDamaged)
  /\ IF isDamaged THEN Fault ELSE UNCHANGED faults
  /\ UNCHANGED <<deployed, disk, running, installer, serviceVars, removals, deploys>>

VerifyUpdate ==
  /\ agent.at = "binary"
  /\ agent' = IF Genuine(agent) THEN [agent EXCEPT !.at = "verified"] ELSE Idle
  /\ UNCHANGED <<deployed, disk, running, installer, serviceVars, boundVars>>

\* Mutant of WriteTemporary: the executable is written in place.
WriteInPlace ==
  /\ agent.at = "verified"
  /\ agent' = [agent EXCEPT !.at = "written"]
  /\ disk' = [binary |-> agent.binary, whole |-> FALSE]
  /\ UNCHANGED <<deployed, running, installer, serviceVars, boundVars>>

WriteTemporary ==
  /\ agent.at = "verified"
  /\ agent' = [agent EXCEPT !.at = "written"]
  /\ UNCHANGED <<deployed, disk, running, installer, serviceVars, boundVars>>

Rename ==
  /\ agent.at = "written"
  /\ disk' = [binary |-> agent.binary, whole |-> TRUE]
  /\ agent' = [agent EXCEPT !.at = "renamed"]
  /\ UNCHANGED <<deployed, running, installer, serviceVars, boundVars>>

\* syscall.Exec runs what the executable holds by now.  A new agent without a
\* configuration exits.
Exec ==
  /\ agent.at = "renamed"
  /\ disk.whole
  /\ running' = IF enabled THEN disk.binary ELSE NoBinary
  /\ agent' = Idle
  /\ UNCHANGED <<deployed, disk, installer, serviceVars, boundVars>>

\* Any error of updateAgent, one of exec included: the old process goes on.
UpdateFails ==
  /\ agent # Idle
  /\ IF agent.at = "renamed" /\ ~disk.whole THEN UNCHANGED faults ELSE Fault
  /\ agent' = Idle
  /\ UNCHANGED <<deployed, disk, running, installer, serviceVars, removals, deploys>>

\* Mutant of AgentDies: an update outlives its process.
AgentDiesMidway ==
  /\ running # NoBinary
  /\ Fault
  /\ running' = NoBinary
  /\ UNCHANGED <<deployed, disk, agent, installer, serviceVars, removals, deploys>>

AgentDies ==
  /\ running # NoBinary
  /\ Fault
  /\ running' = NoBinary
  /\ agent' = Idle
  /\ UNCHANGED <<deployed, disk, installer, serviceVars, removals, deploys>>

\* systemd starts the agent again.
AgentStarts ==
  /\ enabled
  /\ running = NoBinary
  /\ disk.whole
  /\ running' = disk.binary
  /\ UNCHANGED <<deployed, disk, agent, installer, serviceVars, boundVars>>

-----------------------------------------------------------------------------
\* install.sh

Install ==
  /\ installer = Idle
  /\ ~removing
  /\ installer' = Manifest
  /\ UNCHANGED <<deployed, disk, running, agent, serviceVars, boundVars>>

Download(isDamaged) ==
  /\ installer.at = "manifest"
  /\ installer' = Binary(installer, isDamaged)
  /\ IF isDamaged THEN Fault ELSE UNCHANGED faults
  /\ UNCHANGED <<deployed, disk, running, agent, serviceVars, removals, deploys>>

VerifyDownload ==
  /\ installer.at = "binary"
  /\ installer' = IF Genuine(installer) THEN [installer EXCEPT !.at = "verified"] ELSE Idle
  /\ UNCHANGED <<deployed, disk, running, agent, serviceVars, boundVars>>

Copy ==
  /\ installer.at = "verified"
  /\ disk' = [binary |-> installer.binary, whole |-> FALSE]
  /\ installer' = [installer EXCEPT !.at = "copying"]
  /\ UNCHANGED <<deployed, running, agent, serviceVars, boundVars>>

\* If the agent has renamed another file over it, the rest of the copy goes to
\* a file without a name.
CopyEnds ==
  /\ installer.at = "copying"
  /\ disk' = [disk EXCEPT !.whole = TRUE]
  /\ installer' = [installer EXCEPT !.at = "copied"]
  /\ UNCHANGED <<deployed, running, agent, serviceVars, boundVars>>

\* systemctl --user enable and restart
RestartAgent ==
  /\ installer.at = "copied"
  /\ running' = disk.binary
  /\ agent' = Idle
  /\ enabled' = TRUE
  /\ installer' = Idle
  /\ UNCHANGED <<deployed, disk, removing, boundVars>>

InstallDies ==
  /\ installer # Idle
  /\ Fault
  /\ installer' = Idle
  /\ UNCHANGED <<deployed, disk, running, agent, serviceVars, removals, deploys>>

-----------------------------------------------------------------------------
\* uninstall.sh.  The player runs one script at a time.

\* Mutant of StopService: the agent is left to end by itself.
DisableOnly(isStopped) ==
  /\ installer = Idle /\ ~removing
  /\ removals < MaxRemovals
  /\ removals' = removals + 1
  /\ removing' = TRUE
  /\ IF isStopped THEN enabled' = FALSE /\ UNCHANGED faults ELSE Fault /\ UNCHANGED enabled
  /\ UNCHANGED <<deployed, disk, running, agent, installer, deploys>>

\* systemctl --user disable --now, whose failure is ignored.
StopService(isStopped) ==
  /\ installer = Idle /\ ~removing
  /\ removals < MaxRemovals
  /\ removals' = removals + 1
  /\ removing' = TRUE
  /\ IF isStopped
     THEN enabled' = FALSE /\ running' = NoBinary /\ agent' = Idle /\ UNCHANGED faults
     ELSE Fault /\ UNCHANGED <<enabled, running, agent>>
  /\ UNCHANGED <<deployed, disk, installer, deploys>>

\* rm -f of executable, configuration and unit: a process that has them goes on.
RemoveBinary ==
  /\ removing
  /\ disk' = [binary |-> NoBinary, whole |-> FALSE]
  /\ enabled' = FALSE
  /\ removing' = FALSE
  /\ UNCHANGED <<deployed, running, agent, installer, boundVars>>

RemovalDies ==
  /\ removing
  /\ Fault
  /\ removing' = FALSE
  /\ UNCHANGED <<deployed, disk, running, agent, installer, enabled, deploys, removals>>

-----------------------------------------------------------------------------
Update ==
  \/ \E isDamaged \in BOOLEAN : FetchBinary(isDamaged)
  \/ VerifyUpdate \/ WriteTemporary \/ Rename \/ Exec \/ UpdateFails

Installation ==
  \/ \E isDamaged \in BOOLEAN : Download(isDamaged)
  \/ VerifyDownload \/ Copy \/ CopyEnds \/ RestartAgent

Next ==
  \/ Deploy
  \/ CheckManifest \/ Update \/ AgentDies \/ AgentStarts
  \/ Install \/ Installation \/ InstallDies
  \/ (\E isStopped \in BOOLEAN : StopService(isStopped)) \/ RemoveBinary \/ RemovalDies

Spec == Init /\ [][Next]_vars

\* The six-hour timer goes on, an update and an installation that were begun
\* end, and systemd restarts the agent.
FairSpec ==
  /\ Spec
  /\ WF_vars(CheckManifest)
  /\ WF_vars(Update)
  /\ WF_vars(AgentStarts)
  /\ WF_vars(Installation)

-----------------------------------------------------------------------------
(***************************************************************************)
(* Properties.                                                             *)
(***************************************************************************)

Job(places) ==
  [at : places, manifest : Release \cup {NoBinary},
   binary : Release \cup {Corrupt, NoBinary}]

\* Every variable has its type, and only an update of a running agent is under
\* way.
TypeOK ==
  /\ deployed \in Release
  /\ disk \in [binary : Release \cup {Corrupt, NoBinary}, whole : BOOLEAN]
  /\ running \in Release \cup {Corrupt, NoBinary}
  /\ agent \in Job({"idle", "manifest", "binary", "verified", "written", "renamed"})
  /\ installer \in Job({"idle", "manifest", "binary", "verified", "copying", "copied"})
  /\ running = NoBinary => agent = Idle
  /\ {enabled, removing} \subseteq BOOLEAN
  /\ removals \in 0 .. MaxRemovals
  /\ deploys \in 0 .. MaxDeploys
  /\ faults \in 0 .. MaxFaults

\* Nothing but a release CI signed is ever run, or left as the executable,
\* however the collector is redeployed between the requests for a manifest and
\* a binary and whatever arrives.
OnlyReleases ==
  /\ running \in Release \cup {NoBinary}
  /\ disk.whole => disk.binary \in Release

\* The agent's death and its update never break or remove a complete executable; only
\* install.sh does, and uninstall.sh, which means to.
OnlyInstallBreaks ==
  [][disk.whole /\ ~disk'.whole =>
       \/ installer.at = "verified" /\ installer'.at = "copying"
       \/ removing /\ ~removing']_vars

\* The invariant of the executable: types, and that what runs is a release.
UpdateInv == TypeOK /\ OnlyReleases

\* An agent without its service.
Orphaned == ~enabled /\ running # NoBinary

\* uninstall.sh leaves no agent behind, unless systemctl failed to stop it, which goes
\* unnoticed; and what it removed comes back by install.sh only, or by the update of such
\* an agent, which still knows its path.
StaysRemoved ==
  /\ [](Orphaned => faults > 0)
  /\ [][disk.binary = NoBinary /\ disk'.binary # NoBinary => installer # Idle \/ Orphaned]_vars

\* Once redeployments, removals and failures cease, the agent of an enabled service runs
\* the deployed release, unless an installation died while it copied.
Converges ==
  <>[](enabled => running = deployed \/ (running = NoBinary /\ ~disk.whole))
=============================================================================
