------------------------- MODULE InstallationProofs -------------------------
(***************************************************************************)
(* Proofs about what install.sh, uninstall.sh and the updater do to the    *)
(* device, for every value of the constants: AgentUpdate for the           *)
(* executable, EngineIni for the game's Engine.ini.                        *)
(***************************************************************************)
EXTENDS AgentUpdate, EngineIni, WellFoundedInduction, FiniteSetTheorems, TLAPS

Binaries == Release \cup {Corrupt, NoBinary}
AgentPlaces == {"idle", "manifest", "binary", "verified", "written", "renamed"}
InstallerPlaces == {"idle", "manifest", "binary", "verified", "copying", "copied"}

\* A job that is not idle has the manifest of a release, and one whose binary
\* was accepted has that release's binary.
Sound(job) ==
  /\ job.at = "idle" => job = Idle
  /\ job.at # "idle" => job.manifest \in Release
  /\ job.at \notin {"idle", "manifest", "binary"} => job.binary = job.manifest

\* What install.sh is copying or has copied is a release, even if an update has
\* renamed another one over it; an enabled unit has an executable.
SoundDisk ==
  /\ installer.at \in {"copying", "copied"} => disk.binary \in Release
  /\ enabled => disk.binary # NoBinary

\* The scripts exclude each other, and while nothing fails an agent runs with
\* its service only.
SoundService ==
  /\ installer # Idle => ~removing
  /\ faults = 0 => (running # NoBinary => enabled)
  /\ faults = 0 => (removing => running = NoBinary /\ ~enabled)

\* The inductive invariant.
ExecutableInv ==
  /\ UpdateInv
  /\ Sound(agent)
  /\ Sound(installer)
  /\ SoundDisk
  /\ SoundService

-----------------------------------------------------------------------------
\* What is known of the variables.
LEMMA UpdateTypes ==
  ASSUME TypeOK
  PROVE  /\ deployed \in Release
         /\ disk.binary \in Binaries /\ disk.whole \in BOOLEAN
         /\ disk \in [binary : Binaries, whole : BOOLEAN]
         /\ running \in Binaries
         /\ agent \in Job(AgentPlaces)
         /\ installer \in Job(InstallerPlaces)
         /\ running = NoBinary => agent = Idle
         /\ enabled \in BOOLEAN /\ removing \in BOOLEAN
         /\ removals \in 0 .. MaxRemovals
         /\ deploys \in 0 .. MaxDeploys
         /\ faults \in 0 .. MaxFaults
         /\ faults \in Nat
         /\ MaxRemovals \in Nat /\ MaxDeploys \in Nat /\ MaxFaults \in Nat
         /\ Corrupt \notin Release /\ NoBinary \notin Release
<1>1. disk \in [binary : Binaries, whole : BOOLEAN]
  BY DEF TypeOK, Binaries
<1>2. MaxRemovals \in Nat /\ MaxDeploys \in Nat /\ MaxFaults \in Nat
  BY AgentUpdateAssumption DEF AgentUpdateAssumption
<1>3. Corrupt \notin Release /\ NoBinary \notin Release
  BY AgentUpdateAssumption DEF AgentUpdateAssumption
<1>4. faults \in 0 .. MaxFaults /\ faults \in Nat
  BY <1>2 DEF TypeOK
<1> QED BY <1>1, <1>2, <1>3, <1>4 DEF TypeOK, Binaries, AgentPlaces, InstallerPlaces

\* Nothing is under way in Idle.
LEMMA IdleJob ==
  /\ Idle.at = "idle" /\ Idle.manifest = NoBinary /\ Idle.binary = NoBinary
  /\ Sound(Idle)
  /\ \A P : "idle" \in P => Idle \in Job(P)
BY DEF Idle, Sound, Job

\* A request for a manifest is answered with the deployed release's.
LEMMA ManifestJob ==
  ASSUME deployed \in Release
  PROVE  /\ Manifest.at = "manifest" /\ Manifest # Idle
         /\ Sound(Manifest)
         /\ \A P : "manifest" \in P => Manifest \in Job(P)
BY DEF Manifest, Idle, Sound, Job

\* A job that goes on to a place keeps its manifest and its binary.
LEMMA JobMoves ==
  ASSUME NEW P, NEW job \in Job(P), NEW p \in P
  PROVE  /\ [job EXCEPT !.at = p] \in Job(P)
         /\ [job EXCEPT !.at = p].at = p
         /\ [job EXCEPT !.at = p].manifest = job.manifest
         /\ [job EXCEPT !.at = p].binary = job.binary
BY DEF Job

\* A sound job whose binary was accepted stays sound wherever it goes.
LEMMA JobStaysSound ==
  ASSUME NEW P, NEW job \in Job(P), Sound(job), NEW p \in P, p # "idle", job.at # "idle",
         job.binary = job.manifest
  PROVE  Sound([job EXCEPT !.at = p]) /\ [job EXCEPT !.at = p] # Idle
<1> DEFINE r == [job EXCEPT !.at = p]
<1>1. r.at = p /\ r.manifest = job.manifest /\ r.binary = job.binary
  BY JobMoves
<1> HIDE DEF r
<1>2. Sound(r) /\ r # Idle
  BY <1>1, IdleJob DEF Sound
<1> QED BY <1>2 DEF r

\* A request for a binary is answered with one, after which nothing is accepted yet.
LEMMA BinaryJob ==
  ASSUME NEW P, NEW job \in Job(P), Sound(job), job.at = "manifest", "binary" \in P,
         deployed \in Release, NEW isDamaged \in BOOLEAN
  PROVE  /\ Binary(job, isDamaged) \in Job(P)
         /\ Binary(job, isDamaged).at = "binary"
         /\ Sound(Binary(job, isDamaged))
         /\ Binary(job, isDamaged) # Idle
<1>1. job.manifest \in Release
  BY DEF Sound
<1>2. /\ Binary(job, isDamaged).at = "binary"
      /\ Binary(job, isDamaged).manifest = job.manifest
  BY DEF Binary
<1>3. Binary(job, isDamaged) \in Job(P)
  BY <1>1 DEF Binary, Job
<1> QED BY <1>1, <1>2, <1>3, IdleJob DEF Sound

-----------------------------------------------------------------------------
\* Nothing is installed at first.
LEMMA ExecutableInit == Init => ExecutableInv
<1> SUFFICES ASSUME Init PROVE ExecutableInv
  OBVIOUS
<1>1. TypeOK
  <2>1. agent \in Job(AgentPlaces) /\ installer \in Job(InstallerPlaces)
    BY IdleJob DEF Init, AgentPlaces, InstallerPlaces
  <2>2. MaxRemovals \in Nat /\ MaxDeploys \in Nat /\ MaxFaults \in Nat
    BY AgentUpdateAssumption DEF AgentUpdateAssumption
  <2>3. disk \in [binary : Binaries, whole : BOOLEAN]
    BY DEF Init, Binaries
  <2>4. agent = Idle /\ {enabled, removing} \subseteq BOOLEAN
    BY DEF Init
  <2>5. removals \in 0 .. MaxRemovals /\ deploys \in 0 .. MaxDeploys /\ faults \in 0 .. MaxFaults
    BY <2>2 DEF Init
  <2>6. deployed \in Release /\ running \in Binaries
    BY DEF Init, Binaries
  <2> QED BY <2>1, <2>3, <2>4, <2>5, <2>6 DEF TypeOK, AgentPlaces, InstallerPlaces, Binaries
<1>2. OnlyReleases
  BY DEF Init, OnlyReleases
<1>3. Sound(agent) /\ Sound(installer)
  BY IdleJob DEF Init
<1>4. SoundDisk /\ SoundService
  BY IdleJob DEF Init, SoundDisk, SoundService
<1> QED BY <1>1, <1>2, <1>3, <1>4 DEF ExecutableInv, UpdateInv

-----------------------------------------------------------------------------
\* Failures are counted up to their bound.
LEMMA FaultEffect ==
  ASSUME TypeOK, Fault
  PROVE  faults' \in 0 .. MaxFaults /\ faults' # 0
BY UpdateTypes DEF Fault

\* A step of updateAgent that leaves the executable alone.
LEMMA AgentMoves ==
  ASSUME ExecutableInv, agent' \in Job(AgentPlaces), Sound(agent'),
         running # NoBinary \/ agent' = Idle,
         UNCHANGED <<deployed, disk, running, installer, enabled, removing, deploys, removals>>,
         faults' \in 0 .. MaxFaults, faults' = 0 => faults = 0
  PROVE  ExecutableInv'
<1>1. TypeOK'
  BY DEF ExecutableInv, UpdateInv, TypeOK, AgentPlaces, InstallerPlaces
<1>2. OnlyReleases' /\ Sound(installer')
  BY DEF ExecutableInv, UpdateInv, OnlyReleases
<1>3. SoundDisk' /\ SoundService'
  BY DEF ExecutableInv, SoundDisk, SoundService
<1> QED BY <1>1, <1>2, <1>3 DEF ExecutableInv, UpdateInv

\* A step of install.sh that leaves the executable and the service alone.
LEMMA InstallerMoves ==
  ASSUME ExecutableInv, installer' \in Job(InstallerPlaces), Sound(installer'),
         installer' # Idle => ~removing,
         installer'.at \notin {"copying", "copied"},
         UNCHANGED <<deployed, disk, running, agent, enabled, removing, deploys, removals>>,
         faults' \in 0 .. MaxFaults, faults' = 0 => faults = 0
  PROVE  ExecutableInv'
<1>1. TypeOK'
  BY DEF ExecutableInv, UpdateInv, TypeOK, AgentPlaces, InstallerPlaces
<1>2. OnlyReleases' /\ Sound(agent')
  BY DEF ExecutableInv, UpdateInv, OnlyReleases
<1>3. SoundDisk' /\ SoundService'
  BY DEF ExecutableInv, SoundDisk, SoundService
<1> QED BY <1>1, <1>2, <1>3 DEF ExecutableInv, UpdateInv

\* Of another release, the manifest is asked for.
LEMMA CheckManifestStep ==
  ASSUME ExecutableInv, CheckManifest
  PROVE  ExecutableInv'
<1>1. TypeOK /\ faults \in 0 .. MaxFaults
  BY UpdateTypes DEF ExecutableInv, UpdateInv
<1>2. /\ running # NoBinary /\ agent' \in {Idle, Manifest}
      /\ UNCHANGED <<deployed, disk, running, installer, enabled, removing, deploys, removals, faults>>
  BY DEF CheckManifest, serviceVars, boundVars
<1>3. Idle \in Job(AgentPlaces) /\ Manifest \in Job(AgentPlaces) /\ Sound(Idle) /\ Sound(Manifest)
  BY <1>1, UpdateTypes, IdleJob, ManifestJob DEF AgentPlaces
<1>4. agent' \in Job(AgentPlaces) /\ Sound(agent')
  BY <1>2, <1>3
<1> QED BY <1>1, <1>2, <1>4, AgentMoves

\* A binary arrives, of whatever is deployed by then.
LEMMA FetchBinaryStep ==
  ASSUME ExecutableInv, NEW isDamaged \in BOOLEAN, FetchBinary(isDamaged)
  PROVE  ExecutableInv'
<1>1. TypeOK /\ Sound(agent)
  BY DEF ExecutableInv, UpdateInv
<1>2. /\ agent.at = "manifest" /\ agent' = Binary(agent, isDamaged)
      /\ Fault \/ UNCHANGED faults
      /\ UNCHANGED <<deployed, disk, running, installer, enabled, removing, deploys, removals>>
  BY DEF FetchBinary, serviceVars
<1>3. agent' \in Job(AgentPlaces) /\ Sound(agent')
  BY <1>1, <1>2, UpdateTypes, BinaryJob DEF AgentPlaces
<1>4. faults' \in 0 .. MaxFaults /\ (faults' = 0 => faults = 0)
  BY <1>1, <1>2, UpdateTypes, FaultEffect
<1>5. running # NoBinary
  BY <1>1, <1>2, UpdateTypes, IdleJob
<1> QED BY <1>2, <1>3, <1>4, <1>5, AgentMoves

\* A binary that is not the one the manifest describes ends the update.
LEMMA VerifyUpdateStep ==
  ASSUME ExecutableInv, VerifyUpdate
  PROVE  ExecutableInv'
<1>1. TypeOK /\ Sound(agent) /\ agent \in Job(AgentPlaces) /\ faults \in 0 .. MaxFaults
  BY UpdateTypes DEF ExecutableInv, UpdateInv
<1>2. /\ agent.at = "binary"
      /\ agent' = IF agent.binary = agent.manifest THEN [agent EXCEPT !.at = "verified"] ELSE Idle
      /\ UNCHANGED <<deployed, disk, running, installer, enabled, removing, deploys, removals, faults>>
  BY DEF VerifyUpdate, Genuine, serviceVars, boundVars
<1>3. "verified" \in AgentPlaces
  BY DEF AgentPlaces
<1>4. agent' \in Job(AgentPlaces) /\ Sound(agent')
  <2>1. CASE agent.binary = agent.manifest
    BY <1>1, <1>2, <1>3, <2>1, JobMoves, JobStaysSound
  <2>2. CASE agent.binary # agent.manifest
    BY <1>2, <2>2, IdleJob DEF AgentPlaces
  <2> QED BY <2>1, <2>2
<1>5. running # NoBinary
  BY <1>1, <1>2, UpdateTypes, IdleJob
<1> QED BY <1>1, <1>2, <1>4, <1>5, AgentMoves

\* The temporary file is no executable yet.
LEMMA WriteTemporaryStep ==
  ASSUME ExecutableInv, WriteTemporary
  PROVE  ExecutableInv'
<1>1. TypeOK /\ Sound(agent) /\ agent \in Job(AgentPlaces) /\ faults \in 0 .. MaxFaults
  BY UpdateTypes DEF ExecutableInv, UpdateInv
<1>2. /\ agent.at = "verified" /\ agent' = [agent EXCEPT !.at = "written"]
      /\ UNCHANGED <<deployed, disk, running, installer, enabled, removing, deploys, removals, faults>>
  BY DEF WriteTemporary, serviceVars, boundVars
<1>3. agent.binary = agent.manifest /\ "written" \in AgentPlaces
  BY <1>1, <1>2 DEF Sound, AgentPlaces
<1>4. agent' \in Job(AgentPlaces) /\ Sound(agent')
  BY <1>1, <1>2, <1>3, JobMoves, JobStaysSound
<1>5. running # NoBinary
  BY <1>1, <1>2, UpdateTypes, IdleJob
<1> QED BY <1>1, <1>2, <1>4, <1>5, AgentMoves

\* A failed update leaves everything but itself as it was.
LEMMA UpdateFailsStep ==
  ASSUME ExecutableInv, UpdateFails
  PROVE  ExecutableInv'
<1>1. TypeOK
  BY DEF ExecutableInv, UpdateInv
<1>2. /\ agent' = Idle
      /\ Fault \/ UNCHANGED faults
      /\ UNCHANGED <<deployed, disk, running, installer, enabled, removing, deploys, removals>>
  BY DEF UpdateFails, serviceVars
<1>3. agent' \in Job(AgentPlaces) /\ Sound(agent')
  BY <1>2, IdleJob DEF AgentPlaces
<1>4. faults' \in 0 .. MaxFaults /\ (faults' = 0 => faults = 0)
  BY <1>1, <1>2, UpdateTypes, FaultEffect
<1> QED BY <1>2, <1>3, <1>4, AgentMoves

\* The rename puts a whole release where the executable was.
LEMMA RenameStep ==
  ASSUME ExecutableInv, Rename
  PROVE  ExecutableInv'
<1>1. TypeOK /\ Sound(agent) /\ agent \in Job(AgentPlaces)
  BY UpdateTypes DEF ExecutableInv, UpdateInv
<1>2. /\ agent.at = "written" /\ agent' = [agent EXCEPT !.at = "renamed"]
      /\ disk' = [binary |-> agent.binary, whole |-> TRUE]
      /\ UNCHANGED <<deployed, running, installer, enabled, removing, deploys, removals, faults>>
  BY DEF Rename, serviceVars, boundVars
<1>3. agent.binary = agent.manifest /\ agent.binary \in Release /\ "renamed" \in AgentPlaces
  BY <1>1, <1>2 DEF Sound, AgentPlaces
<1>4. agent' \in Job(AgentPlaces) /\ Sound(agent')
  BY <1>1, <1>2, <1>3, JobMoves, JobStaysSound
<1>5. /\ disk'.binary \in Release /\ disk'.whole = TRUE
      /\ disk' \in [binary : Binaries, whole : BOOLEAN]
  BY <1>2, <1>3 DEF Binaries
<1>6. running # NoBinary
  BY <1>1, <1>2, UpdateTypes, IdleJob
<1>7. TypeOK'
  BY <1>1, <1>2, <1>4, <1>5, <1>6 DEF TypeOK, AgentPlaces, InstallerPlaces, Binaries
<1>8. OnlyReleases' /\ Sound(installer')
  BY <1>2, <1>5 DEF ExecutableInv, UpdateInv, OnlyReleases
<1>9. SoundDisk' /\ SoundService'
  BY <1>1, <1>2, <1>5, UpdateTypes DEF ExecutableInv, SoundDisk, SoundService
<1> QED BY <1>4, <1>7, <1>8, <1>9 DEF ExecutableInv, UpdateInv

\* The process that an exec, a restart or a start leaves runs the executable.
LEMMA RunsExecutable ==
  ASSUME ExecutableInv, NEW b \in {disk.binary, NoBinary},
         disk.whole \/ installer.at = "copied" \/ b = NoBinary
  PROVE  b \in Release \cup {NoBinary}
BY DEF ExecutableInv, UpdateInv, OnlyReleases, SoundDisk

\* Exec, death, start and the restart by systemctl: the process changes, and
\* with it ends the update.
LEMMA ProcessChanges ==
  ASSUME ExecutableInv, running' \in Release \cup {NoBinary}, agent' = Idle,
         UNCHANGED <<deployed, disk, removing, deploys, removals>>,
         \/ UNCHANGED <<installer, enabled>>
         \/ installer' = Idle /\ enabled' = TRUE /\ installer.at = "copied",
         faults' \in 0 .. MaxFaults, faults' = 0 => faults = 0,
         running' # NoBinary => enabled'
  PROVE  ExecutableInv'
<1>1. TypeOK /\ SoundDisk /\ SoundService /\ Sound(installer) /\ OnlyReleases
  BY DEF ExecutableInv, UpdateInv
<1>2. /\ Idle \in Job(AgentPlaces) /\ Idle \in Job(InstallerPlaces)
      /\ Sound(Idle) /\ Idle.at = "idle"
  BY IdleJob DEF AgentPlaces, InstallerPlaces
<1>3. installer' \in Job(InstallerPlaces) /\ Sound(installer') /\ enabled' \in BOOLEAN
  BY <1>1, <1>2, UpdateTypes
<1>4. running' \in Binaries
  BY DEF Binaries
<1>5. TypeOK'
  BY <1>1, <1>2, <1>3, <1>4 DEF TypeOK, AgentPlaces, InstallerPlaces, Binaries
<1>6. OnlyReleases'
  BY <1>1 DEF OnlyReleases
<1>7. SoundDisk'
  <2>1. CASE UNCHANGED <<installer, enabled>>
    BY <1>1, <2>1 DEF SoundDisk
  <2>2. CASE installer' = Idle /\ enabled' = TRUE /\ installer.at = "copied"
    BY <1>1, <1>2, <2>2, UpdateTypes DEF SoundDisk
  <2> QED BY <2>1, <2>2
<1>8. SoundService'
  <2>1. installer' # Idle => ~removing
    BY <1>1 DEF SoundService
  <2>2. ASSUME faults' = 0, removing
        PROVE  running' = NoBinary /\ ~enabled'
    <3>1. installer = Idle /\ ~enabled /\ installer.at = "idle"
      BY <1>1, <1>2, <2>2 DEF SoundService
    <3>2. ~enabled'
      BY <3>1
    <3> QED BY <3>2
  <2> QED BY <2>1, <2>2 DEF SoundService
<1> QED BY <1>2, <1>3, <1>5, <1>6, <1>7, <1>8 DEF ExecutableInv, UpdateInv

\* A redeployment changes what is served, and nothing on the device.
LEMMA DeployStep ==
  ASSUME ExecutableInv, Deploy
  PROVE  ExecutableInv'
<1>1. /\ deployed' \in Release /\ deploys < MaxDeploys /\ deploys' = deploys + 1
      /\ UNCHANGED <<disk, running, agent, installer, enabled, removing, removals, faults>>
  BY DEF Deploy, serviceVars
<1>2. TypeOK
  BY DEF ExecutableInv, UpdateInv
<1>3. deploys' \in 0 .. MaxDeploys
  BY <1>1, <1>2, UpdateTypes
<1>4. TypeOK'
  BY <1>1, <1>2, <1>3 DEF TypeOK, AgentPlaces, InstallerPlaces
<1>5. OnlyReleases' /\ Sound(agent') /\ Sound(installer')
  BY <1>1 DEF ExecutableInv, UpdateInv, OnlyReleases
<1>6. SoundDisk' /\ SoundService'
  BY <1>1 DEF ExecutableInv, SoundDisk, SoundService
<1> QED BY <1>4, <1>5, <1>6 DEF ExecutableInv, UpdateInv

\* An agent whose configuration is gone does not go on after an exec.
LEMMA ExecStep ==
  ASSUME ExecutableInv, Exec
  PROVE  ExecutableInv'
<1>1. /\ disk.whole /\ running' = (IF enabled THEN disk.binary ELSE NoBinary)
      /\ agent' = Idle
      /\ UNCHANGED <<deployed, disk, installer, enabled, removing, deploys, removals, faults>>
  BY DEF Exec, serviceVars, boundVars
<1>2. running' \in Release \cup {NoBinary}
  BY <1>1, RunsExecutable
<1>3. faults' \in 0 .. MaxFaults
  BY <1>1, UpdateTypes DEF ExecutableInv, UpdateInv
<1>4. running' # NoBinary => enabled'
  BY <1>1
<1> QED BY <1>1, <1>2, <1>3, <1>4, ProcessChanges

\* An update does not outlive its process.
LEMMA AgentDiesStep ==
  ASSUME ExecutableInv, AgentDies
  PROVE  ExecutableInv'
<1>1. /\ running' = NoBinary /\ agent' = Idle /\ Fault
      /\ UNCHANGED <<deployed, disk, installer, enabled, removing, deploys, removals>>
  BY DEF AgentDies, serviceVars
<1>2. faults' \in 0 .. MaxFaults /\ faults' # 0
  BY <1>1, FaultEffect DEF ExecutableInv, UpdateInv
<1> QED BY <1>1, <1>2, ProcessChanges

\* systemd starts a whole executable only: execve of a file being written fails.
LEMMA AgentStartsStep ==
  ASSUME ExecutableInv, AgentStarts
  PROVE  ExecutableInv'
<1>1. /\ enabled /\ running = NoBinary /\ disk.whole /\ running' = disk.binary
      /\ UNCHANGED <<deployed, disk, agent, installer, enabled, removing, deploys, removals, faults>>
  BY DEF AgentStarts, serviceVars, boundVars
<1>2. running' \in Release \cup {NoBinary}
  BY <1>1, RunsExecutable
<1>3. agent' = Idle /\ faults' \in 0 .. MaxFaults
  BY <1>1, UpdateTypes DEF ExecutableInv, UpdateInv
<1> QED BY <1>1, <1>2, <1>3, ProcessChanges

-----------------------------------------------------------------------------
\* install.sh begins.
LEMMA InstallStep ==
  ASSUME ExecutableInv, Install
  PROVE  ExecutableInv'
<1>1. TypeOK /\ faults \in 0 .. MaxFaults
  BY UpdateTypes DEF ExecutableInv, UpdateInv
<1>2. /\ ~removing /\ installer' = Manifest
      /\ UNCHANGED <<deployed, disk, running, agent, enabled, removing, deploys, removals, faults>>
  BY DEF Install, serviceVars, boundVars
<1>3. Manifest.at = "manifest" /\ Manifest \in Job(InstallerPlaces) /\ Sound(Manifest)
  BY <1>1, UpdateTypes, ManifestJob DEF InstallerPlaces
<1> QED BY <1>1, <1>2, <1>3, InstallerMoves

\* What arrives is what is deployed by then.
LEMMA DownloadStep ==
  ASSUME ExecutableInv, NEW isDamaged \in BOOLEAN, Download(isDamaged)
  PROVE  ExecutableInv'
<1>1. TypeOK /\ Sound(installer)
  BY DEF ExecutableInv, UpdateInv
<1>2. /\ installer.at = "manifest" /\ installer' = Binary(installer, isDamaged)
      /\ Fault \/ UNCHANGED faults
      /\ UNCHANGED <<deployed, disk, running, agent, enabled, removing, deploys, removals>>
  BY DEF Download, serviceVars
<1>3. installer' \in Job(InstallerPlaces) /\ Sound(installer') /\ installer'.at = "binary"
  BY <1>1, <1>2, UpdateTypes, BinaryJob DEF InstallerPlaces
<1>4. faults' \in 0 .. MaxFaults /\ (faults' = 0 => faults = 0)
  BY <1>1, <1>2, UpdateTypes, FaultEffect
<1>5. ~removing
  BY <1>2, IdleJob DEF ExecutableInv, SoundService
<1> QED BY <1>2, <1>3, <1>4, <1>5, InstallerMoves

\* A binary that is not the one the manifest describes ends the installation.
LEMMA VerifyDownloadStep ==
  ASSUME ExecutableInv, VerifyDownload
  PROVE  ExecutableInv'
<1>1. /\ TypeOK /\ Sound(installer) /\ installer \in Job(InstallerPlaces)
      /\ faults \in 0 .. MaxFaults
  BY UpdateTypes DEF ExecutableInv, UpdateInv
<1>2. /\ installer.at = "binary"
      /\ installer' = IF installer.binary = installer.manifest
                      THEN [installer EXCEPT !.at = "verified"] ELSE Idle
      /\ UNCHANGED <<deployed, disk, running, agent, enabled, removing, deploys, removals, faults>>
  BY DEF VerifyDownload, Genuine, serviceVars, boundVars
<1>3. "verified" \in InstallerPlaces
  BY DEF InstallerPlaces
<1>4. /\ installer' \in Job(InstallerPlaces) /\ Sound(installer')
      /\ installer'.at \in {"verified", "idle"}
  <2>1. CASE installer.binary = installer.manifest
    BY <1>1, <1>2, <1>3, <2>1, JobMoves, JobStaysSound
  <2>2. CASE installer.binary # installer.manifest
    BY <1>2, <2>2, IdleJob DEF InstallerPlaces
  <2> QED BY <2>1, <2>2
<1>5. ~removing
  BY <1>2, IdleJob DEF ExecutableInv, SoundService
<1> QED BY <1>1, <1>2, <1>4, <1>5, InstallerMoves

\* An installation that ends early changes nothing else.
LEMMA InstallDiesStep ==
  ASSUME ExecutableInv, InstallDies
  PROVE  ExecutableInv'
<1>1. /\ installer' = Idle /\ Fault
      /\ UNCHANGED <<deployed, disk, running, agent, enabled, removing, deploys, removals>>
  BY DEF InstallDies, serviceVars
<1>2. faults' \in 0 .. MaxFaults /\ faults' # 0
  BY <1>1, FaultEffect DEF ExecutableInv, UpdateInv
<1>3. Idle.at = "idle" /\ Idle \in Job(InstallerPlaces) /\ Sound(Idle)
  BY IdleJob DEF InstallerPlaces
<1> QED BY <1>1, <1>2, <1>3, InstallerMoves

\* install.sh's copy and the end of it: the executable is a release from the
\* first byte to the last.
LEMMA CopyStep ==
  ASSUME ExecutableInv, Copy \/ CopyEnds
  PROVE  ExecutableInv'
<1>1. /\ TypeOK /\ Sound(installer) /\ installer \in Job(InstallerPlaces)
      /\ OnlyReleases /\ SoundDisk /\ SoundService
  BY UpdateTypes DEF ExecutableInv, UpdateInv
<1>2. UNCHANGED <<deployed, running, agent, enabled, removing, deploys, removals, faults>>
  BY DEF Copy, CopyEnds, serviceVars, boundVars
<1>3. /\ installer.at \in {"verified", "copying"} /\ installer.binary = installer.manifest
      /\ installer.binary \in Release /\ installer # Idle
  BY <1>1, IdleJob DEF Copy, CopyEnds, Sound
<1>4. PICK p \in {"copying", "copied"} : installer' = [installer EXCEPT !.at = p]
  BY DEF Copy, CopyEnds
<1>5. p \in InstallerPlaces /\ p # "idle" /\ installer.at # "idle"
  BY <1>3 DEF InstallerPlaces
<1>6. installer' \in Job(InstallerPlaces) /\ Sound(installer')
  BY <1>1, <1>3, <1>4, <1>5, JobMoves, JobStaysSound
<1>7. disk' \in [binary : Release, whole : BOOLEAN]
  <2>1. CASE Copy
    BY <1>3, <2>1 DEF Copy
  <2>2. CASE CopyEnds
    <3>1. disk.binary \in Release /\ disk \in [binary : Binaries, whole : BOOLEAN]
      BY <1>1, <2>2, UpdateTypes DEF CopyEnds, SoundDisk
    <3>2. disk' = [disk EXCEPT !.whole = TRUE]
      BY <2>2 DEF CopyEnds
    <3> QED BY <3>1, <3>2
  <2> QED BY <2>1, <2>2
<1>8. disk'.binary \in Release /\ disk'.binary # NoBinary
  BY <1>1, <1>7, UpdateTypes
<1>9. TypeOK'
  <2>1. disk' \in [binary : Binaries, whole : BOOLEAN]
    BY <1>7 DEF Binaries
  <2> QED BY <1>1, <1>2, <1>6, <2>1 DEF TypeOK, AgentPlaces, InstallerPlaces, Binaries
<1>10. OnlyReleases' /\ Sound(agent')
  BY <1>1, <1>2, <1>8 DEF ExecutableInv, OnlyReleases
<1>11. SoundDisk' /\ SoundService'
  BY <1>1, <1>2, <1>3, <1>8 DEF SoundDisk, SoundService
<1> QED BY <1>6, <1>9, <1>10, <1>11 DEF ExecutableInv, UpdateInv

\* The service is enabled and restarted with what was copied, or renamed over it.
LEMMA RestartAgentStep ==
  ASSUME ExecutableInv, RestartAgent
  PROVE  ExecutableInv'
<1>1. /\ installer.at = "copied" /\ running' = disk.binary /\ agent' = Idle
      /\ enabled' = TRUE /\ installer' = Idle
      /\ UNCHANGED <<deployed, disk, removing, deploys, removals, faults>>
  BY DEF RestartAgent, boundVars
<1>2. running' \in Release \cup {NoBinary}
  BY <1>1, RunsExecutable
<1>3. faults' \in 0 .. MaxFaults
  BY <1>1, UpdateTypes DEF ExecutableInv, UpdateInv
<1> QED BY <1>1, <1>2, <1>3, ProcessChanges

-----------------------------------------------------------------------------
\* uninstall.sh begins: the agent is stopped with its service, or that failed.
LEMMA StopServiceStep ==
  ASSUME ExecutableInv, NEW isStopped \in BOOLEAN, StopService(isStopped)
  PROVE  ExecutableInv'
<1>1. TypeOK /\ OnlyReleases /\ SoundDisk /\ SoundService
  BY DEF ExecutableInv, UpdateInv
<1>2. /\ installer = Idle /\ removals < MaxRemovals /\ removals' = removals + 1
      /\ removing' = TRUE
      /\ UNCHANGED <<deployed, disk, installer, deploys>>
  BY DEF StopService
<1>3. removals' \in 0 .. MaxRemovals /\ faults \in 0 .. MaxFaults
  BY <1>1, <1>2, UpdateTypes
<1>4. CASE isStopped
  <2>1. enabled' = FALSE /\ running' = NoBinary /\ agent' = Idle /\ faults' = faults
    BY <1>4 DEF StopService
  <2>2. Idle \in Job(AgentPlaces) /\ Sound(Idle)
    BY IdleJob DEF AgentPlaces
  <2>3. TypeOK'
    BY <1>1, <1>2, <1>3, <2>1, <2>2 DEF TypeOK, AgentPlaces, InstallerPlaces
  <2>4. OnlyReleases' /\ SoundDisk'
    BY <1>1, <1>2, <2>1 DEF OnlyReleases, SoundDisk
  <2>5. SoundService'
    BY <1>2, <2>1 DEF SoundService
  <2> QED BY <1>2, <2>1, <2>2, <2>3, <2>4, <2>5 DEF ExecutableInv, UpdateInv
<1>5. CASE ~isStopped
  <2>1. UNCHANGED <<enabled, running, agent>> /\ Fault
    BY <1>5 DEF StopService
  <2>2. faults' \in 0 .. MaxFaults /\ faults' # 0
    BY <1>1, <2>1, FaultEffect
  <2>3. TypeOK'
    BY <1>1, <1>2, <1>3, <2>1, <2>2 DEF TypeOK, AgentPlaces, InstallerPlaces
  <2>4. OnlyReleases' /\ SoundDisk'
    BY <1>1, <1>2, <2>1 DEF OnlyReleases, SoundDisk
  <2>5. SoundService'
    BY <1>2, <2>2 DEF SoundService
  <2> QED BY <1>2, <2>1, <2>3, <2>4, <2>5 DEF ExecutableInv, UpdateInv
<1> QED BY <1>4, <1>5

\* The files are removed: there is no installation under way that could miss them.
LEMMA RemoveBinaryStep ==
  ASSUME ExecutableInv, RemoveBinary
  PROVE  ExecutableInv'
<1>1. TypeOK /\ OnlyReleases /\ SoundService
  BY DEF ExecutableInv, UpdateInv
<1>2. /\ removing /\ disk' = [binary |-> NoBinary, whole |-> FALSE]
      /\ enabled' = FALSE /\ removing' = FALSE
      /\ UNCHANGED <<deployed, running, agent, installer, deploys, removals, faults>>
  BY DEF RemoveBinary, boundVars
<1>3. disk' \in [binary : Binaries, whole : BOOLEAN] /\ disk'.whole = FALSE
  BY <1>2 DEF Binaries
<1>4. TypeOK'
  BY <1>1, <1>2, <1>3 DEF TypeOK, AgentPlaces, InstallerPlaces, Binaries
<1>5. OnlyReleases'
  BY <1>1, <1>2, <1>3 DEF OnlyReleases
<1>6. installer = Idle
  BY <1>1, <1>2 DEF SoundService
<1>7. SoundDisk' /\ SoundService'
  BY <1>1, <1>2, <1>6, IdleJob DEF SoundDisk, SoundService
<1> QED BY <1>2, <1>4, <1>5, <1>7 DEF ExecutableInv, UpdateInv

\* uninstall.sh dies before it removes anything.
LEMMA RemovalDiesStep ==
  ASSUME ExecutableInv, RemovalDies
  PROVE  ExecutableInv'
<1>1. /\ removing' = FALSE /\ Fault
      /\ UNCHANGED <<deployed, disk, running, agent, installer, enabled, deploys, removals>>
  BY DEF RemovalDies
<1>2. TypeOK /\ OnlyReleases /\ SoundDisk /\ SoundService
  BY DEF ExecutableInv, UpdateInv
<1>3. faults' \in 0 .. MaxFaults /\ faults' # 0
  BY <1>1, <1>2, FaultEffect
<1>4. TypeOK'
  BY <1>1, <1>2, <1>3 DEF TypeOK, AgentPlaces, InstallerPlaces
<1>5. OnlyReleases' /\ SoundDisk' /\ SoundService'
  BY <1>1, <1>2, <1>3 DEF OnlyReleases, SoundDisk, SoundService
<1> QED BY <1>1, <1>4, <1>5 DEF ExecutableInv, UpdateInv

-----------------------------------------------------------------------------
\* Every step keeps the invariant.
LEMMA ExecutableNext == ExecutableInv /\ [Next]_vars => ExecutableInv'
<1> SUFFICES ASSUME ExecutableInv, [Next]_vars
             PROVE  ExecutableInv'
  OBVIOUS
<1>1. CASE Deploy
  BY <1>1, DeployStep
<1>2. CASE CheckManifest
  BY <1>2, CheckManifestStep
<1>3. CASE Update
  BY <1>3, FetchBinaryStep, VerifyUpdateStep, WriteTemporaryStep, RenameStep, ExecStep,
     UpdateFailsStep DEF Update
<1>4. CASE AgentDies
  BY <1>4, AgentDiesStep
<1>5. CASE AgentStarts
  BY <1>5, AgentStartsStep
<1>6. CASE Install
  BY <1>6, InstallStep
<1>7. CASE Installation
  BY <1>7, DownloadStep, VerifyDownloadStep, CopyStep, RestartAgentStep DEF Installation
<1>8. CASE InstallDies
  BY <1>8, InstallDiesStep
<1>9. CASE \E isStopped \in BOOLEAN : StopService(isStopped)
  BY <1>9, StopServiceStep
<1>10. CASE RemoveBinary
  BY <1>10, RemoveBinaryStep
<1>11. CASE RemovalDies
  BY <1>11, RemovalDiesStep
<1>12. CASE UNCHANGED vars
  <2>1. UNCHANGED <<deployed, disk, running, agent, installer, enabled, removing,
                    deploys, removals, faults>>
    BY <1>12 DEF vars, serviceVars, boundVars
  <2>2. /\ agent \in Job(AgentPlaces) /\ Sound(agent) /\ faults \in 0 .. MaxFaults
        /\ running # NoBinary \/ agent = Idle
    BY UpdateTypes DEF ExecutableInv, UpdateInv
  <2> QED BY <2>1, <2>2, AgentMoves
<1> QED BY <1>1, <1>2, <1>3, <1>4, <1>5, <1>6, <1>7, <1>8, <1>9, <1>10, <1>11, <1>12 DEF Next

\* The inductive invariant holds throughout.
LEMMA ExecutableAlways == Spec => []ExecutableInv
BY ExecutableInit, ExecutableNext, PTL DEF Spec

\* Nothing but a release CI signed is ever run, or left as the executable.
THEOREM OnlyReleasesRun == Spec => []UpdateInv
<1>1. ExecutableInv => UpdateInv
  BY DEF ExecutableInv
<1> QED BY <1>1, ExecutableAlways, PTL

\* The agent's update and death never break or remove a whole executable.
THEOREM UpdateNeverBreaks == Spec => OnlyInstallBreaks
<1>1. ExecutableInv /\ [Next]_vars =>
        [disk.whole /\ ~disk'.whole =>
           \/ installer.at = "verified" /\ installer'.at = "copying"
           \/ removing /\ ~removing']_vars
  <2> SUFFICES ASSUME ExecutableInv, [Next]_vars, disk.whole, ~disk'.whole
               PROVE  \/ installer.at = "verified" /\ installer'.at = "copying"
                      \/ removing /\ ~removing'
    OBVIOUS
  <2>1. disk' # disk
    OBVIOUS
  <2>2. Rename \/ Copy \/ CopyEnds \/ RemoveBinary
    BY <2>1 DEF Next, Update, Installation, Deploy, CheckManifest, FetchBinary, VerifyUpdate,
                WriteTemporary, Exec, UpdateFails, AgentDies, AgentStarts, Install, Download,
                VerifyDownload, RestartAgent, InstallDies, StopService, RemovalDies, vars
  <2>3. CASE Rename
    BY <2>3 DEF Rename
  <2>4. CASE Copy
    <3>1. installer \in Job(InstallerPlaces) /\ "copying" \in InstallerPlaces
      BY UpdateTypes DEF ExecutableInv, UpdateInv, InstallerPlaces
    <3> QED BY <2>4, <3>1, JobMoves DEF Copy
  <2>5. CASE CopyEnds
    <3>1. disk \in [binary : Binaries, whole : BOOLEAN]
      BY UpdateTypes DEF ExecutableInv, UpdateInv
    <3> QED BY <2>5, <3>1 DEF CopyEnds
  <2>6. CASE RemoveBinary
    BY <2>6 DEF RemoveBinary
  <2> QED BY <2>2, <2>3, <2>4, <2>5, <2>6
<1> QED BY <1>1, ExecutableAlways, PTL DEF Spec, OnlyInstallBreaks

\* uninstall.sh leaves no agent behind unless stopping it failed, and nothing but
\* install.sh or the update of such an agent brings back what it removed.
THEOREM UninstallLasts == Spec => StaysRemoved
<1>1. ExecutableInv => (Orphaned => faults > 0)
  <2> SUFFICES ASSUME ExecutableInv, Orphaned
               PROVE  faults > 0
    OBVIOUS
  <2>1. faults # 0
    BY DEF ExecutableInv, SoundService, Orphaned
  <2>2. faults \in Nat
    BY UpdateTypes DEF ExecutableInv, UpdateInv
  <2> QED BY <2>1, <2>2
<1>2. ExecutableInv /\ [Next]_vars =>
        [disk.binary = NoBinary /\ disk'.binary # NoBinary => installer # Idle \/ Orphaned]_vars
  <2> SUFFICES ASSUME ExecutableInv, [Next]_vars, disk.binary = NoBinary,
                      disk'.binary # NoBinary
               PROVE  installer # Idle \/ Orphaned
    OBVIOUS
  <2>1. disk' # disk
    OBVIOUS
  <2>2. Rename \/ Copy \/ CopyEnds \/ RemoveBinary
    BY <2>1 DEF Next, Update, Installation, Deploy, CheckManifest, FetchBinary, VerifyUpdate,
                WriteTemporary, Exec, UpdateFails, AgentDies, AgentStarts, Install, Download,
                VerifyDownload, RestartAgent, InstallDies, StopService, RemovalDies, vars
  <2>3. CASE Rename
    <3>1. running # NoBinary
      BY <2>3, UpdateTypes, IdleJob DEF Rename, ExecutableInv, UpdateInv
    <3>2. ~enabled
      BY DEF ExecutableInv, SoundDisk
    <3> QED BY <3>1, <3>2 DEF Orphaned
  <2>4. CASE Copy \/ CopyEnds
    BY <2>4, IdleJob DEF Copy, CopyEnds
  <2>5. CASE RemoveBinary
    BY <2>5 DEF RemoveBinary
  <2> QED BY <2>2, <2>3, <2>4, <2>5
<1> QED BY <1>1, <1>2, ExecutableAlways, PTL DEF Spec, StaysRemoved
-----------------------------------------------------------------------------
(* Engine.ini: induction.                                                  *)

\* The natural numbers are well-founded.
LEMMA NatOrder == IsWellFoundedOn({ss \in Nat \X Nat : ss[1] < ss[2]}, Nat)
BY NatLessThanWellFounded DEF OpToRel

\* Induction over the numbers up to a bound.
LEMMA UpTo ==
  ASSUME NEW n \in Nat, NEW S, 0 \in S, \A k \in 1 .. n : k - 1 \in S => k \in S
  PROVE  0 .. n \subseteq S
<1> SUFFICES ASSUME (0 .. n) \ S # {} PROVE FALSE
  OBVIOUS
<1> DEFINE Less == {ss \in Nat \X Nat : ss[1] < ss[2]}
<1>1. PICK k \in (0 .. n) \ S : \A j \in (0 .. n) \ S : <<j, k>> \notin Less
  <2>1. IsWellFoundedOn(Less, Nat) /\ (0 .. n) \ S \subseteq Nat
    BY NatOrder
  <2> HIDE DEF Less
  <2> QED BY <2>1, WFMin
<1>2. k \in 1 .. n /\ k - 1 \in 0 .. n /\ k - 1 < k
  BY <1>1
<1>3. k - 1 \notin S
  BY <1>1, <1>2
<1>4. <<k - 1, k>> \in Less
  BY <1>2
<1> QED BY <1>1, <1>2, <1>3, <1>4

-----------------------------------------------------------------------------
(* Engine.ini: the lines that are kept.                                    *)

\* kept[n]: what is kept of the first n lines.
KeptBy(kept, lines, places) ==
  /\ kept[0] = <<>>
  /\ \A n \in 1 .. Len(lines) :
       kept[n] = IF n \in places THEN Append(kept[n - 1], lines[n]) ELSE kept[n - 1]
  /\ kept[Len(lines)] = Kept(lines, places)

\* Kept goes through the lines one by one.
LEMMA KeptSteps ==
  ASSUME NEW T, NEW lines \in Seq(T), NEW places
  PROVE  \E kept : KeptBy(kept, lines, places)
<1> DEFINE KeepSteps(m, f) ==
             [n \in 0 .. m |->
                IF n = 0 THEN <<>>
                ELSE IF n \in places THEN Append(f[n - 1], lines[n]) ELSE f[n - 1]]
           S == {m \in 0 .. Len(lines) : \E f : f = KeepSteps(m, f)}
<1>0. Len(lines) \in Nat
  OBVIOUS
<1>1. 0 \in S
  <2> DEFINE f == [n \in 0 .. 0 |-> <<>>]
  <2>1. f = KeepSteps(0, f)
    OBVIOUS
  <2>2. 0 \in 0 .. Len(lines)
    BY <1>0
  <2> HIDE DEF f, KeepSteps
  <2> QED BY <2>1, <2>2
<1>2. ASSUME NEW k \in 1 .. Len(lines), k - 1 \in S PROVE k \in S
  <2>1. PICK f : f = KeepSteps(k - 1, f)
    BY <1>2
  <2> DEFINE next == IF k \in places THEN Append(f[k - 1], lines[k]) ELSE f[k - 1]
             new == [n \in 0 .. k |-> IF n = k THEN next ELSE f[n]]
  <2>2. \A n \in 0 .. (k - 1) : f[n] = IF n = 0 THEN <<>>
                                      ELSE IF n \in places THEN Append(f[n - 1], lines[n]) ELSE f[n - 1]
    BY <2>1, <1>0
  <2>3. ASSUME NEW n \in 0 .. k PROVE new[n] = KeepSteps(k, new)[n]
    <3>1. CASE n = k
      BY <3>1, <1>0
    <3>2. CASE n # k
      <4>1. n \in 0 .. (k - 1) /\ new[n] = f[n] /\ (n # 0 => new[n - 1] = f[n - 1])
        BY <3>2, <1>0
      <4> HIDE DEF new
      <4> QED BY <4>1, <2>2
    <3> QED BY <3>1, <3>2
  <2>4. new = KeepSteps(k, new)
    <3>1. new = [n \in 0 .. k |-> new[n]] /\ KeepSteps(k, new) = [n \in 0 .. k |-> KeepSteps(k, new)[n]]
      OBVIOUS
    <3> HIDE DEF new, KeepSteps
    <3> QED BY <2>3, <3>1
  <2>5. k \in 0 .. Len(lines)
    BY <1>0
  <2> HIDE DEF new, KeepSteps
  <2> QED BY <2>4, <2>5
<1>3. Len(lines) \in S
  <2> HIDE DEF S
  <2>1. 0 .. Len(lines) \subseteq S
    BY <1>0, <1>1, <1>2, UpTo
  <2> QED BY <1>0, <2>1
<1> DEFINE g == CHOOSE f : f = KeepSteps(Len(lines), f)
<1>4. g = KeepSteps(Len(lines), g)
  BY <1>3
<1>5. Kept(lines, places) = g[Len(lines)]
  BY DEF Kept
<1>6. \A n \in 0 .. Len(lines) : g[n] = IF n = 0 THEN <<>>
                                       ELSE IF n \in places THEN Append(g[n - 1], lines[n]) ELSE g[n - 1]
  <2> HIDE DEF g
  <2> QED BY <1>4
<1> HIDE DEF g, KeepSteps
<1>7. KeptBy(g, lines, places)
  BY <1>0, <1>5, <1>6 DEF KeptBy
<1> QED BY <1>7

\* The lines at some places.
LinesAt(lines, places) == {lines[i] : i \in places \cap (1 .. Len(lines))}

\* What is kept consists of lines at those places.
LEMMA KeptLines ==
  ASSUME NEW T, NEW lines \in Seq(T), NEW places, NEW kept, KeptBy(kept, lines, places)
  PROVE  /\ \A n \in 0 .. Len(lines) : kept[n] \in Seq(LinesAt(lines, places))
         /\ Kept(lines, places) \in Seq(LinesAt(lines, places))
<1> DEFINE S == {n \in 0 .. Len(lines) : kept[n] \in Seq(LinesAt(lines, places))}
<1>0. Len(lines) \in Nat
  OBVIOUS
<1>1. 0 \in S
  <2>1. kept[0] = <<>> /\ <<>> \in Seq(LinesAt(lines, places)) /\ 0 \in 0 .. Len(lines)
    BY <1>0 DEF KeptBy
  <2> QED BY <2>1
<1>2. ASSUME NEW k \in 1 .. Len(lines), k - 1 \in S PROVE k \in S
  <2>1. kept[k - 1] \in Seq(LinesAt(lines, places)) /\ k \in 0 .. Len(lines)
    BY <1>0, <1>2
  <2>2. k \in places => lines[k] \in LinesAt(lines, places)
    BY DEF LinesAt
  <2>3. kept[k] = IF k \in places THEN Append(kept[k - 1], lines[k]) ELSE kept[k - 1]
    BY DEF KeptBy
  <2>4. kept[k] \in Seq(LinesAt(lines, places))
    <3>1. CASE k \in places
      BY <2>1, <2>2, <2>3, <3>1
    <3>2. CASE k \notin places
      BY <2>1, <2>3, <3>2
    <3> QED BY <3>1, <3>2
  <2> QED BY <2>1, <2>4
<1>3. 0 .. Len(lines) \subseteq S
  <2> HIDE DEF S
  <2> QED BY <1>0, <1>1, <1>2, UpTo
<1>4. \A n \in 0 .. Len(lines) : kept[n] \in Seq(LinesAt(lines, places))
  BY <1>3
<1>5. Len(lines) \in 0 .. Len(lines)
  BY <1>0
<1> QED BY <1>4, <1>5 DEF KeptBy

SettingPlaces(lines) == {i \in DOMAIN lines : IsSetting(lines[i])}

\* The settings are kept in the order of the lines.
LEMMA SettingsAppend ==
  ASSUME NEW T, NEW lines \in Seq(T), NEW x \in T
  PROVE  Settings(Append(lines, x))
           = IF IsSetting(x) THEN Append(Settings(lines), x) ELSE Settings(lines)
<1> DEFINE more == Append(lines, x)
           m == Len(lines)
<1>0. /\ m \in Nat /\ more \in Seq(T) /\ Len(more) = m + 1 /\ more[m + 1] = x
      /\ \A n \in 1 .. m : more[n] = lines[n]
      /\ DOMAIN lines = 1 .. m /\ DOMAIN more = 1 .. (m + 1)
  OBVIOUS
<1> HIDE DEF more
<1>1. PICK a : KeptBy(a, lines, SettingPlaces(lines))
  BY KeptSteps
<1>2. PICK b : KeptBy(b, more, SettingPlaces(more))
  BY <1>0, KeptSteps
<1> DEFINE S == {n \in 0 .. m : a[n] = b[n]}
<1>3. 0 \in S
  BY <1>0, <1>1, <1>2 DEF KeptBy
<1>4. ASSUME NEW k \in 1 .. m, k - 1 \in S PROVE k \in S
  <2>1. k \in SettingPlaces(lines) <=> k \in SettingPlaces(more)
    BY <1>0 DEF SettingPlaces
  <2>2. a[k] = IF k \in SettingPlaces(lines) THEN Append(a[k - 1], lines[k]) ELSE a[k - 1]
    BY <1>1 DEF KeptBy
  <2>3. b[k] = IF k \in SettingPlaces(more) THEN Append(b[k - 1], more[k]) ELSE b[k - 1]
    BY <1>0, <1>2 DEF KeptBy
  <2>4. a[k - 1] = b[k - 1] /\ k \in 0 .. m /\ more[k] = lines[k]
    BY <1>0, <1>4
  <2> QED BY <2>1, <2>2, <2>3, <2>4
<1>5. a[m] = b[m]
  <2>1. 0 .. m \subseteq S
    <3> HIDE DEF S, m
    <3> QED BY <1>0, <1>3, <1>4, UpTo
  <2> QED BY <1>0, <2>1
<1>6. b[m + 1] = IF m + 1 \in SettingPlaces(more) THEN Append(b[m], x) ELSE b[m]
  <2>1. m + 1 \in 1 .. Len(more) /\ (m + 1) - 1 = m
    BY <1>0
  <2> QED BY <1>0, <1>2, <2>1 DEF KeptBy
<1>7. m + 1 \in SettingPlaces(more) <=> IsSetting(x)
  BY <1>0 DEF SettingPlaces
<1>8. a[m] = Settings(lines) /\ b[m + 1] = Settings(more)
  BY <1>0, <1>1, <1>2 DEF KeptBy, Settings, SettingPlaces
<1> QED BY <1>5, <1>6, <1>7, <1>8 DEF more

\* An empty file has no settings.
LEMMA SettingsOfNothing == Settings(<<>>) = <<>>
<1>1. <<>> \in Seq({}) /\ Len(<<>>) = 0
  OBVIOUS
<1>2. PICK a : KeptBy(a, <<>>, SettingPlaces(<<>>))
  BY <1>1, KeptSteps
<1> QED BY <1>1, <1>2 DEF KeptBy, Settings, SettingPlaces

\* What keeps all settings changes none.
LEMMA SettingsKept ==
  ASSUME NEW T, NEW lines \in Seq(T), NEW places, SettingPlaces(lines) \subseteq places
  PROVE  Settings(Kept(lines, places)) = Settings(lines)
<1> DEFINE m == Len(lines)
<1>0. m \in Nat /\ DOMAIN lines = 1 .. m /\ \A n \in 1 .. m : lines[n] \in T
  OBVIOUS
<1>1. PICK a : KeptBy(a, lines, SettingPlaces(lines))
  BY KeptSteps
<1>2. PICK b : KeptBy(b, lines, places)
  BY KeptSteps
<1>3. \A n \in 0 .. m : b[n] \in Seq(T)
  <2>1. \A n \in 0 .. m : b[n] \in Seq(LinesAt(lines, places))
    BY <1>2, KeptLines
  <2>2. LinesAt(lines, places) \subseteq T
    BY <1>0 DEF LinesAt
  <2> QED BY <2>1, <2>2
<1> DEFINE S == {n \in 0 .. m : Settings(b[n]) = a[n]}
<1>4. 0 \in S
  <2>1. b[0] = <<>> /\ a[0] = <<>> /\ 0 \in 0 .. m
    BY <1>0, <1>1, <1>2 DEF KeptBy
  <2> QED BY <2>1, SettingsOfNothing
<1>5. ASSUME NEW k \in 1 .. m, k - 1 \in S PROVE k \in S
  <2>1. a[k] = IF k \in SettingPlaces(lines) THEN Append(a[k - 1], lines[k]) ELSE a[k - 1]
    BY <1>1 DEF KeptBy
  <2>2. b[k] = IF k \in places THEN Append(b[k - 1], lines[k]) ELSE b[k - 1]
    BY <1>2 DEF KeptBy
  <2>3. /\ Settings(b[k - 1]) = a[k - 1] /\ k \in 0 .. m /\ k - 1 \in 0 .. m
        /\ lines[k] \in T /\ b[k - 1] \in Seq(T)
    BY <1>0, <1>3, <1>5
  <2>4. IsSetting(lines[k]) <=> k \in SettingPlaces(lines)
    BY <1>0 DEF SettingPlaces
  <2>5. Settings(Append(b[k - 1], lines[k]))
          = IF IsSetting(lines[k]) THEN Append(Settings(b[k - 1]), lines[k]) ELSE Settings(b[k - 1])
    BY <2>3, SettingsAppend
  <2>6. Settings(b[k]) = a[k]
    <3>1. CASE k \in places
      BY <2>1, <2>2, <2>3, <2>4, <2>5, <3>1
    <3>2. CASE k \notin places
      BY <2>1, <2>2, <2>3, <2>4, <3>2
    <3> QED BY <3>1, <3>2
  <2> QED BY <2>3, <2>6
<1>6. Settings(b[m]) = a[m]
  <2>1. 0 .. m \subseteq S
    <3> HIDE DEF S, m
    <3> QED BY <1>0, <1>4, <1>5, UpTo
  <2> QED BY <1>0, <2>1
<1> QED BY <1>1, <1>2, <1>6 DEF KeptBy, Settings, SettingPlaces

\* There are none where no line is one,
LEMMA SettingsNone ==
  ASSUME NEW T, NEW lines \in Seq(T), SettingPlaces(lines) = {}
  PROVE  Settings(lines) = <<>>
<1>1. PICK a : KeptBy(a, lines, SettingPlaces(lines))
  BY KeptSteps
<1>2. Kept(lines, SettingPlaces(lines)) \in Seq(LinesAt(lines, SettingPlaces(lines)))
  BY <1>1, KeptLines
<1>3. LinesAt(lines, SettingPlaces(lines)) = {}
  BY DEF LinesAt
<1>4. Kept(lines, SettingPlaces(lines)) = <<>>
  BY <1>2, <1>3
<1> QED BY <1>4 DEF Settings, SettingPlaces

\* and some where a line is one.
LEMMA SettingsSome ==
  ASSUME NEW T, NEW lines \in Seq(T), NEW i \in SettingPlaces(lines)
  PROVE  Settings(lines) # <<>>
<1> DEFINE m == Len(lines)
<1>0. m \in Nat /\ DOMAIN lines = 1 .. m /\ i \in 1 .. m
  BY DEF SettingPlaces
<1>1. PICK a : KeptBy(a, lines, SettingPlaces(lines))
  BY KeptSteps
<1>2. \A n \in 0 .. m : a[n] \in Seq(LinesAt(lines, SettingPlaces(lines)))
  BY <1>1, KeptLines
<1> DEFINE S == {n \in 0 .. m : n >= i => a[n] # <<>>}
<1>3. 0 \in S
  BY <1>0
<1>4. ASSUME NEW k \in 1 .. m, k - 1 \in S PROVE k \in S
  <2>1. a[k] = IF k \in SettingPlaces(lines) THEN Append(a[k - 1], lines[k]) ELSE a[k - 1]
    BY <1>1 DEF KeptBy
  <2>2. k - 1 \in 0 .. m /\ k \in 0 .. m
    BY <1>0
  <2>3. Append(a[k - 1], lines[k]) # <<>>
    <3>1. a[k - 1] \in Seq(LinesAt(lines, SettingPlaces(lines)))
      BY <1>2, <2>2
    <3>2. Len(Append(a[k - 1], lines[k])) = Len(a[k - 1]) + 1 /\ Len(a[k - 1]) \in Nat
      BY <3>1
    <3>3. Len(<<>>) = 0
      OBVIOUS
    <3>4. Len(Append(a[k - 1], lines[k])) # Len(<<>>)
      BY <3>2, <3>3
    <3> QED BY <3>4, Zenon
  <2>4. CASE k = i
    BY <2>1, <2>2, <2>3, <2>4
  <2>5. CASE k # i
    <3>1. k >= i => k - 1 >= i
      BY <1>0, <2>5
    <3>2. k - 1 >= i => a[k - 1] # <<>>
      BY <1>4
    <3>3. k >= i => a[k] # <<>>
      BY <2>1, <2>3, <3>1, <3>2
    <3> QED BY <2>2, <3>3
  <2> QED BY <2>4, <2>5
<1>5. a[m] # <<>>
  <2>1. 0 .. m \subseteq S
    <3> HIDE DEF S, m
    <3> QED BY <1>0, <1>3, <1>4, UpTo
  <2> QED BY <1>0, <2>1
<1> QED BY <1>1, <1>5 DEF KeptBy, Settings, SettingPlaces

-----------------------------------------------------------------------------
(* Engine.ini: cutting and appending.                                      *)

File == [exists : BOOLEAN, lines : Seq(Lines), ends : BOOLEAN]

NoBegin(lines) == \A i \in DOMAIN lines : lines[i] # Begin
Clean(lines)   == \A i \in DOMAIN lines : lines[i] \notin {Begin, Body, End}

\* The lines of a block are behind a first line.
Covered(lines) == \A i \in DOMAIN lines : lines[i] \in {Body, End} => InBlock(lines, i)

Encloses(lines) == \E i \in DOMAIN lines : IsSetting(lines[i]) /\ InBlock(lines, i)

FirstLines(lines)  == {i \in DOMAIN lines : lines[i] = Begin}
WithBlock(f) == f.exists /\ IsSuffix(Block, f.lines) /\ Cardinality(FirstLines(f.lines)) = 1

\* The lines of a block, empty ones and settings differ.
LEMMA LineFacts ==
  /\ Begin \in Lines /\ Body \in Lines /\ End \in Lines /\ Empty \in Lines
  /\ ~IsSetting(Begin) /\ ~IsSetting(Body) /\ ~IsSetting(End) /\ ~IsSetting(Empty)
  /\ Begin # Body /\ Begin # End /\ Begin # Empty /\ Body # End /\ Body # Empty /\ End # Empty
  /\ \A n : IsSetting(Setting(n)) /\ Setting(n) \notin {Begin, Body, End, Empty}
BY DEF Lines, IsSetting, Begin, Body, End, Empty, Setting

\* What an EXCEPT of lines and ends is.
LEMMA OtherLines ==
  ASSUME NEW f \in File, NEW lines, NEW ends
  PROVE  [f EXCEPT !.lines = lines, !.ends = ends] = [exists |-> f.exists, lines |-> lines, ends |-> ends]
<1> DEFINE a == [f EXCEPT !.lines = lines, !.ends = ends]
           b == [exists |-> f.exists, lines |-> lines, ends |-> ends]
<1>1. DOMAIN f = {"exists", "lines", "ends"}
  BY DEF File
<1>2. a = [field \in DOMAIN f |-> IF field = "ends" THEN ends ELSE IF field = "lines" THEN lines ELSE f[field]]
  OBVIOUS
<1>3. b = [field \in {"exists", "lines", "ends"} |->
             IF field = "ends" THEN ends ELSE IF field = "lines" THEN lines ELSE f[field]]
  OBVIOUS
<1> HIDE DEF a, b
<1>4. a = b
  BY <1>1, <1>2, <1>3
<1> QED BY <1>4 DEF a, b

\* sed leaves no first line of a block, no line of one if each is behind a first line, and all
\* settings if none is in a block.
LEMMA CutFile ==
  ASSUME NEW f \in File
  PROVE  /\ Cut(f) \in File /\ Cut(f).exists = f.exists
         /\ NoBegin(Cut(f).lines)
         /\ Covered(f.lines) => Clean(Cut(f).lines)
         /\ ~Encloses(f.lines) => Settings(Cut(f).lines) = Settings(f.lines)
<1> DEFINE places == {i \in DOMAIN f.lines : ~InBlock(f.lines, i)}
           lines  == Kept(f.lines, places)
<1>1. f.lines \in Seq(Lines) /\ DOMAIN f.lines = 1 .. Len(f.lines) /\ Len(f.lines) \in Nat
  BY DEF File
<1>2. Cut(f).lines = lines /\ Cut(f).exists = f.exists
  BY DEF Cut, File
<1>3. lines \in Seq(LinesAt(f.lines, places))
  <2> HIDE DEF places
  <2>1. PICK a : KeptBy(a, f.lines, places)
    BY <1>1, KeptSteps
  <2> QED BY <1>1, <2>1, KeptLines
<1>4. LinesAt(f.lines, places) \subseteq Lines
  BY <1>1 DEF LinesAt
<1>5. Cut(f) \in File
  <2>1. lines \in Seq(Lines)
    <3> HIDE DEF lines, places
    <3> QED BY <1>3, <1>4
  <2> HIDE DEF lines
  <2>2. Cut(f) = [exists |-> f.exists, lines |-> lines, ends |-> f.ends \/ InBlock(f.lines, Len(f.lines))]
    BY OtherLines DEF Cut, lines
  <2>3. f.exists \in BOOLEAN /\ (f.ends \/ InBlock(f.lines, Len(f.lines))) \in BOOLEAN
    BY DEF File
  <2> QED BY <2>1, <2>2, <2>3 DEF File
<1>6. \A i \in DOMAIN lines : lines[i] \in LinesAt(f.lines, places)
  <2> HIDE DEF lines, places
  <2> QED BY <1>3
<1>7. ASSUME NEW x \in LinesAt(f.lines, places) PROVE x # Begin
  <2>1. PICK i \in places : x = f.lines[i] /\ i \in 1 .. Len(f.lines)
    BY DEF LinesAt
  <2> SUFFICES ASSUME x = Begin PROVE FALSE
    OBVIOUS
  <2>2. InBlock(f.lines, i)
    <3>1. i \in 1 .. i /\ i .. (i - 1) = {}
      BY <2>1
    <3> QED BY <2>1, <3>1 DEF InBlock
  <2> QED BY <2>1, <2>2
<1>8. NoBegin(lines)
  <2> HIDE DEF lines, places
  <2> QED BY <1>6, <1>7 DEF NoBegin
<1>9. ASSUME Covered(f.lines) PROVE Clean(lines)
  <2>1. ASSUME NEW x \in LinesAt(f.lines, places) PROVE x \notin {Begin, Body, End}
    BY <1>1, <1>7, <1>9 DEF LinesAt, Covered
  <2> HIDE DEF lines, places
  <2> QED BY <1>6, <2>1 DEF Clean
<1>10. ASSUME ~Encloses(f.lines) PROVE Settings(lines) = Settings(f.lines)
  <2>1. SettingPlaces(f.lines) \subseteq places
    BY <1>10 DEF SettingPlaces, Encloses
  <2> HIDE DEF places
  <2> QED BY <1>1, <2>1, SettingsKept
<1> HIDE DEF lines
<1> QED BY <1>2, <1>5, <1>8, <1>9, <1>10

\* cat adds no setting, and its block is the only one of a file that was cut.
LEMMA AppendedBlock ==
  ASSUME NEW f \in File, f.exists, NoBegin(f.lines)
  PROVE  /\ AppendBlock(f) \in File /\ WithBlock(AppendBlock(f))
         /\ Clean(f.lines) => Covered(AppendBlock(f).lines)
         /\ Settings(AppendBlock(f).lines) = Settings(f.lines)
<1> DEFINE gap == IF f.ends THEN <<Empty>> ELSE <<>>
           x == f.lines \o gap
           y == x \o Block
           n == Len(x)
<1>1. f.lines \in Seq(Lines) /\ x \in Seq(Lines) /\ n \in Nat
  BY LineFacts DEF File
<1>2. /\ \A i \in 1 .. n : x[i] \in {f.lines[k] : k \in DOMAIN f.lines} \cup {Empty}
      /\ DOMAIN x = 1 .. n
  BY LineFacts DEF File
<1>3. Settings(x) = Settings(f.lines)
  <2>1. CASE f.ends
    <3>1. x = Append(f.lines, Empty)
      BY <1>1, <2>1
    <3>2. Settings(Append(f.lines, Empty)) = Settings(f.lines)
      BY <1>1, LineFacts, SettingsAppend
    <3> QED BY <3>1, <3>2
  <2>2. CASE ~f.ends
    <3>1. x = f.lines
      BY <1>1, <2>2
    <3> QED BY <3>1
  <2> QED BY <2>1, <2>2
<1>4. NoBegin(x) /\ (Clean(f.lines) => Clean(x))
  BY <1>2, LineFacts DEF NoBegin, Clean
<1> HIDE DEF gap, x
<1>5. /\ y \in Seq(Lines) /\ Len(y) = n + 3 /\ DOMAIN y = 1 .. (n + 3)
      /\ y[n + 1] = Begin /\ y[n + 2] = Body /\ y[n + 3] = End
      /\ \A i \in 1 .. n : y[i] = x[i]
  BY <1>1, LineFacts DEF Block
<1>6. Settings(y) = Settings(x)
  <2>1. y = Append(Append(Append(x, Begin), Body), End)
    BY <1>1, LineFacts DEF Block
  <2>2. Append(x, Begin) \in Seq(Lines) /\ Append(Append(x, Begin), Body) \in Seq(Lines)
    BY <1>1, LineFacts
  <2>3. /\ Settings(Append(x, Begin)) = Settings(x)
        /\ Settings(Append(Append(x, Begin), Body)) = Settings(Append(x, Begin))
        /\ Settings(Append(Append(Append(x, Begin), Body), End)) = Settings(Append(Append(x, Begin), Body))
    BY <1>1, <2>2, LineFacts, SettingsAppend
  <2> QED BY <2>1, <2>3
<1> HIDE DEF y
<1>7. AppendBlock(f) = [exists |-> f.exists, lines |-> y, ends |-> TRUE]
  BY OtherLines DEF AppendBlock, y, x, gap
<1>8. Cardinality(FirstLines(y)) = 1
  <2>1. FirstLines(y) = {n + 1}
    <3>1. \A i \in 1 .. n : y[i] # Begin
      BY <1>2, <1>4, <1>5 DEF NoBegin
    <3>2. \A i \in 1 .. (n + 3) : i \in 1 .. n \/ i = n + 1 \/ i = n + 2 \/ i = n + 3
      BY <1>1
    <3>3. y[n + 2] # Begin /\ y[n + 3] # Begin /\ n + 1 \in 1 .. (n + 3)
      BY <1>1, <1>5, LineFacts
    <3> QED BY <1>5, <3>1, <3>2, <3>3 DEF FirstLines
  <2> QED BY <2>1, FS_Singleton
<1>9. IsSuffix(Block, y)
  <2>1. Len(Block) = 3 /\ Block[1] = Begin /\ Block[2] = Body /\ Block[3] = End
    BY DEF Block
  <2>2. /\ Len(Reverse(Block)) = 3
        /\ Reverse(Block)[1] = End /\ Reverse(Block)[2] = Body /\ Reverse(Block)[3] = Begin
    BY <2>1 DEF Reverse
  <2>3. /\ Len(Reverse(y)) = n + 3
        /\ Reverse(y)[1] = End /\ Reverse(y)[2] = Body /\ Reverse(y)[3] = Begin
    <3>1. Reverse(y) = [i \in 1 .. (n + 3) |-> y[((n + 3) - i) + 1]]
      BY <1>5 DEF Reverse
    <3>2. n + 3 \in Nat /\ 1 \in 1 .. (n + 3) /\ 2 \in 1 .. (n + 3) /\ 3 \in 1 .. (n + 3)
      BY <1>1
    <3>3. ((n + 3) - 1) + 1 = n + 3 /\ ((n + 3) - 2) + 1 = n + 2 /\ ((n + 3) - 3) + 1 = n + 1
      BY <1>1
    <3>4. Len(Reverse(y)) = n + 3
      BY <3>1, <3>2
    <3> QED BY <1>5, <3>1, <3>2, <3>3, <3>4
  <2>4. SubSeq(Reverse(Block), 1, 3) = SubSeq(Reverse(y), 1, 3)
    <3>1. Reverse(Block) \in Seq(Lines) /\ Reverse(y) \in Seq(Lines)
      BY <1>1, <1>5, <2>1, LineFacts DEF Reverse, Block
    <3> QED BY <1>1, <2>2, <2>3, <3>1
  <2> QED BY <1>1, <2>2, <2>3, <2>4 DEF IsSuffix, IsPrefix
<1>10. ASSUME Clean(f.lines) PROVE Covered(y)
  <2> SUFFICES ASSUME NEW i \in DOMAIN y, y[i] \in {Body, End} PROVE InBlock(y, i)
    BY DEF Covered
  <2>1. i \in 1 .. (n + 3) /\ ~ (i \in 1 .. n) /\ i # n + 1
    BY <1>2, <1>4, <1>5, <1>10, LineFacts DEF Clean
  <2>2. n + 1 \in 1 .. i /\ \A k \in (n + 1) .. (i - 1) : y[k] # End
    BY <1>1, <1>5, <2>1, LineFacts
  <2> QED BY <1>5, <2>2 DEF InBlock
<1> QED BY <1>3, <1>5, <1>6, <1>7, <1>8, <1>9, <1>10 DEF File, WithBlock

-----------------------------------------------------------------------------
(* Engine.ini: edits.                                                      *)

\* Two files' lines, one behind the other.
LEMMA JoinedLines ==
  ASSUME NEW T, NEW a \in Seq(T), NEW b \in Seq(T)
  PROVE  /\ a \o b \in Seq(T) /\ Len(a \o b) = Len(a) + Len(b)
         /\ \A k \in 1 .. Len(a) : (a \o b)[k] = a[k]
         /\ \A k \in 1 .. Len(b) : (a \o b)[Len(a) + k] = b[k]
OBVIOUS

\* An edit that writes a setting leaves a block's lines behind its first line.
LEMMA InsertedLine ==
  ASSUME NEW lines \in Seq(Lines), NEW i \in 1 .. Len(lines) + 1, NEW x \in Lines, IsSetting(x)
  PROVE  /\ InsertAt(lines, i, x) \in Seq(Lines)
         /\ Covered(lines) => Covered(InsertAt(lines, i, x))
         /\ NoBegin(lines) => NoBegin(InsertAt(lines, i, x))
         /\ Clean(lines) => Clean(InsertAt(lines, i, x))
<1> DEFINE m == Len(lines)
           y == InsertAt(lines, i, x)
<1>0. m \in Nat /\ i \in Int /\ 1 <= i /\ i <= m + 1 /\ DOMAIN lines = 1 .. m
  OBVIOUS
<1>1. /\ y \in Seq(Lines) /\ Len(y) = m + 1 /\ DOMAIN y = 1 .. (m + 1)
      /\ \A n \in 1 .. (m + 1) : y[n] = IF n < i THEN lines[n] ELSE IF n = i THEN x ELSE lines[n - 1]
  <2> DEFINE a == SubSeq(lines, 1, i - 1)
             b == SubSeq(lines, i, m)
  <2>1. a \in Seq(Lines) /\ Len(a) = i - 1 /\ \A n \in 1 .. (i - 1) : a[n] = lines[n]
    BY <1>0
  <2>2. b \in Seq(Lines) /\ Len(b) = m - i + 1 /\ \A n \in 1 .. (m - i + 1) : b[n] = lines[i + n - 1]
    BY <1>0
  <2>3. y = a \o <<x>> \o b
    BY DEF InsertAt
  <2> HIDE DEF a, b, y
  <2>4. y \in Seq(Lines) /\ Len(y) = m + 1 /\ DOMAIN y = 1 .. (m + 1)
    <3>1. a \o <<x>> \in Seq(Lines) /\ Len(a \o <<x>>) = i
      BY <1>0, <2>1
    <3>2. y \in Seq(Lines) /\ Len(y) = i + (m - i + 1)
      <4>1. y \in Seq(Lines) /\ Len(y) = Len(a \o <<x>>) + Len(b)
        BY <2>2, <2>3, <3>1, JoinedLines, Zenon
      <4> QED BY <2>2, <3>1, <4>1, Zenon
    <3>3. i + (m - i + 1) = m + 1
      BY <1>0
    <3> QED BY <3>2, <3>3
  <2>5. ASSUME NEW n \in 1 .. (m + 1)
        PROVE  y[n] = IF n < i THEN lines[n] ELSE IF n = i THEN x ELSE lines[n - 1]
    <3>1. CASE n < i
      BY <1>0, <2>1, <2>2, <2>3, <3>1
    <3>2. CASE n = i
      BY <1>0, <2>1, <2>2, <2>3, <3>2
    <3>3. CASE n > i
      <4>1. y[n] = b[n - i]
        <5>1. a \o <<x>> \in Seq(Lines) /\ Len(a \o <<x>>) = i
          BY <1>0, <2>1
        <5>2. n - i \in 1 .. Len(b) /\ i + (n - i) = n
          BY <1>0, <2>2, <3>3
        <5>3. y[i + (n - i)] = b[n - i]
          BY <2>2, <2>3, <5>1, <5>2, JoinedLines
        <5> QED BY <5>2, <5>3
      <4>2. n - i \in 1 .. (m - i + 1) /\ i + (n - i) - 1 = n - 1
        BY <1>0, <3>3
      <4> QED BY <1>0, <2>2, <3>3, <4>1, <4>2
    <3> QED BY <1>0, <3>1, <3>2, <3>3
  <2> QED BY <2>4, <2>5
<1> HIDE DEF y
<1>2. x \notin {Begin, Body, End}
  BY DEF IsSetting
<1>3. ASSUME Covered(lines) PROVE Covered(y)
  <2> SUFFICES ASSUME NEW n \in 1 .. (m + 1), y[n] \in {Body, End} PROVE InBlock(y, n)
    BY <1>1 DEF Covered
  <2> DEFINE old == IF n < i THEN n ELSE n - 1
  <2>1. n # i /\ old \in 1 .. m /\ y[n] = lines[old]
    BY <1>0, <1>1, <1>2
  <2>2. PICK j \in 1 .. old : lines[j] = Begin /\ \A k \in j .. (old - 1) : lines[k] # End
    BY <1>0, <1>3, <2>1 DEF Covered, InBlock
  <2> DEFINE q == IF j < i THEN j ELSE j + 1
  <2>3. q \in 1 .. n /\ q \in 1 .. (m + 1) /\ y[q] = Begin
    BY <1>0, <1>1, <2>1, <2>2
  <2>4. ASSUME NEW k \in q .. (n - 1) PROVE y[k] # End
    <3>1. k \in 1 .. (m + 1)
      BY <1>0, <2>3
    <3>2. CASE k < i
      BY <1>0, <1>1, <2>1, <2>2, <3>1, <3>2
    <3>3. CASE k = i
      BY <1>0, <1>1, <1>2, <3>1, <3>3
    <3>4. CASE k > i
      <4>1. k - 1 \in j .. (old - 1) /\ y[k] = lines[k - 1]
        BY <1>0, <1>1, <2>1, <2>2, <3>1, <3>4
      <4> QED BY <2>2, <4>1
    <3> QED BY <1>0, <3>1, <3>2, <3>3, <3>4
  <2> HIDE DEF q, old
  <2> QED BY <2>3, <2>4 DEF InBlock
<1>4. ASSUME NEW n \in 1 .. (m + 1) PROVE y[n] = x \/ \E k \in 1 .. m : y[n] = lines[k]
  BY <1>0, <1>1
<1>5. NoBegin(lines) => NoBegin(y)
  BY <1>0, <1>1, <1>2, <1>4 DEF NoBegin
<1>6. Clean(lines) => Clean(y)
  BY <1>0, <1>1, <1>2, <1>4 DEF Clean
<1> QED BY <1>1, <1>3, <1>5, <1>6 DEF y

\* Nor does one that deletes another line than a first one.
LEMMA DeletedLine ==
  ASSUME NEW lines \in Seq(Lines), NEW i \in DOMAIN lines
  PROVE  /\ RemoveAt(lines, i) \in Seq(Lines)
         /\ Covered(lines) /\ lines[i] # Begin => Covered(RemoveAt(lines, i))
         /\ NoBegin(lines) => NoBegin(RemoveAt(lines, i))
         /\ Clean(lines) => Clean(RemoveAt(lines, i))
<1> DEFINE m == Len(lines)
           y == RemoveAt(lines, i)
<1>0. m \in Nat /\ i \in Int /\ 1 <= i /\ i <= m /\ DOMAIN lines = 1 .. m
  OBVIOUS
<1>1. /\ y \in Seq(Lines) /\ DOMAIN y = 1 .. (m - 1)
      /\ \A n \in 1 .. (m - 1) : y[n] = IF n < i THEN lines[n] ELSE lines[n + 1]
  <2> DEFINE a == SubSeq(lines, 1, i - 1)
             b == SubSeq(lines, i + 1, m)
  <2>1. a \in Seq(Lines) /\ Len(a) = i - 1 /\ \A n \in 1 .. (i - 1) : a[n] = lines[n]
    BY <1>0
  <2>2. b \in Seq(Lines) /\ Len(b) = m - i /\ \A n \in 1 .. (m - i) : b[n] = lines[i + n]
    BY <1>0
  <2>3. y = a \o b
    BY DEF RemoveAt
  <2> HIDE DEF a, b, y
  <2>4. y \in Seq(Lines) /\ DOMAIN y = 1 .. (m - 1)
    <3>1. y \in Seq(Lines) /\ Len(y) = (i - 1) + (m - i)
      <4>1. y \in Seq(Lines) /\ Len(y) = Len(a) + Len(b)
        BY <2>1, <2>2, <2>3, JoinedLines, Zenon
      <4> QED BY <2>1, <2>2, <4>1, Zenon
    <3>2. (i - 1) + (m - i) = m - 1
      BY <1>0
    <3> QED BY <3>1, <3>2
  <2>5. ASSUME NEW n \in 1 .. (m - 1) PROVE y[n] = IF n < i THEN lines[n] ELSE lines[n + 1]
    <3>1. CASE n < i
      BY <1>0, <2>1, <2>2, <2>3, <3>1
    <3>2. CASE n >= i
      <4>1. y[n] = b[n - i + 1]
        BY <1>0, <2>1, <2>2, <2>3, <3>2
      <4>2. n - i + 1 \in 1 .. (m - i) /\ i + (n - i + 1) = n + 1
        BY <1>0, <3>2
      <4>3. b[n - i + 1] = lines[n + 1]
        BY <2>2, <4>2
      <4>4. ~ (n < i)
        BY <1>0, <3>2
      <4> QED BY <4>1, <4>3, <4>4
    <3> QED BY <1>0, <3>1, <3>2
  <2> QED BY <2>4, <2>5
<1> HIDE DEF y
<1>3. ASSUME Covered(lines), lines[i] # Begin PROVE Covered(y)
  <2> SUFFICES ASSUME NEW n \in 1 .. (m - 1), y[n] \in {Body, End} PROVE InBlock(y, n)
    BY <1>1 DEF Covered
  <2> DEFINE old == IF n < i THEN n ELSE n + 1
  <2>1. old \in 1 .. m /\ y[n] = lines[old]
    BY <1>0, <1>1
  <2>2. PICK j \in 1 .. old : lines[j] = Begin /\ \A k \in j .. (old - 1) : lines[k] # End
    BY <1>0, <1>3, <2>1 DEF Covered, InBlock
  <2>3. j # old /\ j # i
    BY <1>0, <1>3, <2>1, <2>2, LineFacts
  <2> DEFINE q == IF j < i THEN j ELSE j - 1
  <2>4. q \in 1 .. n /\ y[q] = Begin
    BY <1>0, <1>1, <2>1, <2>2, <2>3
  <2>5. ASSUME NEW k \in q .. (n - 1) PROVE y[k] # End
    <3>1. k \in 1 .. (m - 1)
      BY <1>0, <2>2, <2>3, <2>4
    <3>2. CASE k < i
      BY <1>0, <1>1, <2>1, <2>2, <2>3, <3>1, <3>2
    <3>3. CASE k >= i
      <4>1. k + 1 \in j .. (old - 1) /\ y[k] = lines[k + 1]
        BY <1>0, <1>1, <2>1, <2>2, <2>3, <3>1, <3>3
      <4> QED BY <2>2, <4>1
    <3> QED BY <1>0, <3>1, <3>2, <3>3
  <2> HIDE DEF q, old
  <2> QED BY <2>4, <2>5 DEF InBlock
<1>4. ASSUME NEW n \in 1 .. (m - 1) PROVE \E k \in 1 .. m : y[n] = lines[k]
  BY <1>0, <1>1
<1>5. NoBegin(lines) => NoBegin(y)
  BY <1>0, <1>1, <1>4 DEF NoBegin
<1>6. Clean(lines) => Clean(y)
  BY <1>0, <1>1, <1>4 DEF Clean
<1> QED BY <1>1, <1>3, <1>5, <1>6 DEF y
-----------------------------------------------------------------------------
(* Engine.ini: the inductive invariant.                                    *)

IniPlaces == {"idle", "create", "mark", "read", "replace", "check", "remove", "finish"}

ScriptState == [name : {"none", "install", "uninstall"}, at : IniPlaces, temporary : File,
                raced : BOOLEAN, enclosed : BOOLEAN]

IniTypes ==
  /\ script \in ScriptState
  /\ file \in File
  /\ ~file.exists => file = NoFile
  /\ created \in BOOLEAN /\ ours \in BOOLEAN /\ orphan \in BOOLEAN
  /\ last \in {"none", "install", "uninstall"}
  /\ edits \in 0 .. MaxEdits /\ deaths \in Nat

\* Unless somebody took away a first line, a block's lines are behind one.
FileIsSound ==
  /\ orphan \/ Covered(file.lines)
  /\ last = "install" => WithBlock(file)
  /\ At("idle") \/ last = "none"

\* The temporary file has one block or none, and the settings of the file that it is to
\* replace unless that was edited.
TemporaryIsSound ==
  At("replace") =>
    /\ script.temporary.exists
    /\ script.name = "install" => WithBlock(script.temporary)
    /\ script.name # "install" => NoBegin(script.temporary.lines)
    /\ script.name # "install" => orphan \/ Clean(script.temporary.lines)
    /\ orphan \/ Covered(script.temporary.lines)
    /\ script.raced \/ script.enclosed \/ Settings(script.temporary.lines) = Settings(file.lines)

\* What a script has seen of the file stays true until it is edited.
ScriptIsSound ==
  /\ At("check") \/ At("remove") \/ At("finish") =>
       NoBegin(file.lines) /\ (orphan \/ Clean(file.lines))
  /\ At("create") => script.raced \/ ~file.exists
  /\ At("remove") => script.raced \/ \A i \in DOMAIN file.lines : file.lines[i] = Empty
  /\ At("finish") => script.raced \/ ~file.exists \/ ~IsToGo
  /\ ours /\ deaths = 0 => created \/ At("mark")

IniInv == IniTypes /\ FileIsSound /\ TemporaryIsSound /\ ScriptIsSound

-----------------------------------------------------------------------------
(* Engine.ini: one lemma for each action.                                  *)

\* Where there is no file there are no lines, and no script runs in NoScript.
LEMMA NoFileFacts ==
  /\ NoFile \in File /\ NoScript \in ScriptState /\ ~NoFile.exists /\ NoFile.lines = <<>> /\ NoFile.ends
  /\ Covered(<<>>) /\ NoBegin(<<>>) /\ Clean(<<>>)
<1>1. <<>> \in Seq(Lines) /\ DOMAIN <<>> = {}
  OBVIOUS
<1>2. NoFile \in File /\ ~NoFile.exists /\ NoFile.lines = <<>> /\ NoFile.ends
  BY <1>1 DEF NoFile, File
<1>3. NoScript \in ScriptState
  BY <1>2 DEF NoScript, ScriptState, IniPlaces
<1> QED BY <1>1, <1>2, <1>3 DEF Covered, NoBegin, Clean

\* Without lines of a block, none is without a first line.
LEMMA CleanIsCovered ==
  ASSUME NEW lines, Clean(lines)
  PROVE  Covered(lines)
BY DEF Clean, Covered

\* The types of a script's fields.
LEMMA ScriptFields ==
  ASSUME NEW s \in ScriptState
  PROVE  /\ s.name \in {"none", "install", "uninstall"} /\ s.at \in IniPlaces
         /\ s.temporary \in File /\ s.raced \in BOOLEAN /\ s.enclosed \in BOOLEAN
BY DEF ScriptState

\* NoScript is at no place of a script.
LEMMA AtIdle == NoScript.at = "idle"
BY DEF NoScript

\* A script goes on, and changes nothing that another place knows of.
LEMMA GoesFields ==
  ASSUME script \in ScriptState, NEW place \in IniPlaces, Goes(place)
  PROVE  /\ script' \in ScriptState /\ script'.at = place
         /\ script'.raced = script.raced /\ script'.name = script.name
BY DEF ScriptState, Goes

\* An edit is seen by a script that is not idle.
LEMMA ScriptRaces ==
  ASSUME script \in ScriptState, script' = [script EXCEPT !.raced = ~At("idle")]
  PROVE  /\ script' \in ScriptState /\ script'.at = script.at /\ (At("idle") \/ script'.raced)
         /\ script'.name = script.name /\ script'.temporary = script.temporary
<1>1. (~At("idle")) \in BOOLEAN
  BY DEF At
<1> DEFINE r == ~At("idle")
<1> HIDE DEF r
<1>2. script' = [script EXCEPT !.raced = r] /\ r \in BOOLEAN
  BY <1>1 DEF r
<1>3. /\ script' \in ScriptState /\ script'.at = script.at /\ script'.raced = r
      /\ script'.name = script.name /\ script'.temporary = script.temporary
  BY <1>2 DEF ScriptState
<1> QED BY <1>3 DEF r

\* At first there is no block, no script and no edit.
LEMMA IniStarts ==
  ASSUME EngineIniAssumption, IniInit
  PROVE  IniInv
<1>1. 0 \in 0 .. MaxEdits /\ 0 \in Nat
  BY DEF EngineIniAssumption
<1>2. <<>> \in Seq(Lines) /\ <<Setting(0)>> \in Seq(Lines)
  <2>1. Setting(0) \in Lines
    BY <1>1 DEF Lines
  <2> QED BY <2>1
<1>3. file \in File /\ file.lines \in {<<>>, <<Setting(0)>>} /\ (~file.exists => file = NoFile)
  <2>1. CASE file = NoFile
    BY <2>1, NoFileFacts
  <2>2. ASSUME NEW lines \in {<<>>, <<Setting(0)>>}, file = [exists |-> TRUE, lines |-> lines, ends |-> TRUE]
        PROVE  file \in File /\ file.lines = lines /\ file.exists
    BY <1>2, <2>2 DEF File
  <2> QED BY <2>1, <2>2 DEF IniInit
<1>4. Clean(file.lines)
  <2>1. \A i \in DOMAIN <<Setting(0)>> : <<Setting(0)>>[i] = Setting(0)
    OBVIOUS
  <2> QED BY <1>3, <2>1, NoFileFacts, LineFacts DEF Clean
<1>5. IniTypes
  BY <1>1, <1>3, NoFileFacts DEF IniInit, IniTypes
<1> QED BY <1>4, <1>5, CleanIsCovered, AtIdle DEF IniInit, IniInv, FileIsSound, TemporaryIsSound, ScriptIsSound, At

\* A script that finds no file finds nothing to cut.
LEMMA BeginsKeeps ==
  ASSUME IniInv, NEW name \in {"install", "uninstall"}, NEW missing \in {"create", "finish"},
         Begins(name, missing)
  PROVE  IniInv'
<1> DEFINE place == IF file.exists THEN "read" ELSE missing
<1>1. /\ script' \in ScriptState /\ script'.at = place /\ script'.name = name
      /\ place \in {"read", "create", "finish"} /\ (place # "read" => ~file.exists)
  BY NoFileFacts, ScriptFields DEF Begins, ScriptState, IniPlaces, NoScript
<1>2. IniTypes'
  BY <1>1 DEF IniInv, IniTypes, Begins
<1>3. FileIsSound'
  BY <1>1 DEF IniInv, FileIsSound, Begins, At
<1>4. TemporaryIsSound'
  BY <1>1 DEF TemporaryIsSound, At
<1>5. ScriptIsSound'
  <2>1. ~file.exists => NoBegin(file.lines) /\ Clean(file.lines)
    BY NoFileFacts DEF IniInv, IniTypes
  <2>2. script.at = "idle"
    BY DEF Begins, At
  <2> QED BY <1>1, <2>1, <2>2 DEF IniInv, ScriptIsSound, Begins, At
<1> QED BY <1>2, <1>3, <1>4, <1>5 DEF IniInv

\* The file is created where the script found none, or over one that came since, which is
\* raced.
LEMMA CreateFileKeeps ==
  ASSUME IniInv, CreateFile
  PROVE  IniInv'
<1>1. script' \in ScriptState /\ script'.at = "mark" /\ At("create")
  BY GoesFields DEF IniInv, IniTypes, CreateFile, IniPlaces
<1>2. file' \in File /\ file'.exists /\ file'.lines = <<>>
  BY NoFileFacts DEF CreateFile, NoFile, File
<1>3. IniTypes'
  BY <1>1, <1>2 DEF IniInv, IniTypes, CreateFile, bounds
<1>4. FileIsSound'
  BY <1>1, <1>2, NoFileFacts DEF IniInv, FileIsSound, CreateFile, At
<1>5. TemporaryIsSound'
  BY <1>1 DEF TemporaryIsSound, At
<1>6. ScriptIsSound'
  BY <1>1 DEF IniInv, ScriptIsSound, At
<1> QED BY <1>3, <1>4, <1>5, <1>6 DEF IniInv

\* The marker is there from now on.
LEMMA MarkKeeps ==
  ASSUME IniInv, Mark
  PROVE  IniInv'
<1>1. script' \in ScriptState /\ script'.at = "read" /\ At("mark")
  BY GoesFields DEF IniInv, IniTypes, Mark, IniPlaces
<1>3. IniTypes'
  BY <1>1 DEF IniInv, IniTypes, Mark, bounds
<1>4. FileIsSound'
  BY <1>1 DEF IniInv, FileIsSound, Mark, At
<1>5. TemporaryIsSound'
  BY <1>1 DEF TemporaryIsSound, At
<1>6. ScriptIsSound'
  BY <1>1 DEF IniInv, ScriptIsSound, At, Mark
<1> QED BY <1>3, <1>4, <1>5, <1>6 DEF IniInv

\* The temporary file is the file, cut, and with install.sh's block.
LEMMA ReadFileKeeps ==
  ASSUME IniInv, ReadFile
  PROVE  IniInv'
<1>0. At("read") /\ script \in ScriptState /\ file \in File
  BY DEF IniInv, IniTypes, ReadFile
<1>1. CASE ~file.exists
  <2>1. script' = NoScript /\ script'.at = "idle"
    BY <1>1, AtIdle DEF ReadFile
  <2>2. IniTypes'
    BY <2>1, NoFileFacts DEF IniInv, IniTypes, ReadFile, bounds
  <2>3. FileIsSound'
    BY <2>1 DEF IniInv, FileIsSound, ReadFile, At
  <2>4. TemporaryIsSound' /\ ScriptIsSound'
    BY <1>0, <2>1 DEF IniInv, TemporaryIsSound, ScriptIsSound, ReadFile, At, bounds
  <2> QED BY <2>2, <2>3, <2>4 DEF IniInv
<1>2. CASE file.exists
  <2> DEFINE new == IF script.name = "install" THEN AppendBlock(Cut(file)) ELSE Cut(file)
  <2>1. /\ Cut(file) \in File /\ Cut(file).exists /\ NoBegin(Cut(file).lines)
        /\ orphan \/ Clean(Cut(file).lines)
        /\ Encloses(file.lines) \/ Settings(Cut(file).lines) = Settings(file.lines)
    BY <1>0, <1>2, CutFile DEF IniInv, FileIsSound
  <2>2. /\ AppendBlock(Cut(file)) \in File /\ WithBlock(AppendBlock(Cut(file)))
        /\ AppendBlock(Cut(file)).exists
        /\ orphan \/ Covered(AppendBlock(Cut(file)).lines)
        /\ Settings(AppendBlock(Cut(file)).lines) = Settings(Cut(file).lines)
    BY <2>1, AppendedBlock DEF WithBlock
  <2>3. /\ new \in File /\ new.exists
        /\ script.name = "install" => WithBlock(new)
        /\ script.name # "install" => NoBegin(new.lines) /\ (orphan \/ Clean(new.lines))
        /\ orphan \/ Covered(new.lines)
        /\ Encloses(file.lines) \/ Settings(new.lines) = Settings(file.lines)
    BY <2>1, <2>2, CleanIsCovered
  <2> HIDE DEF new
  <2>4. script' = [script EXCEPT !.at = "replace", !.raced = FALSE, !.temporary = new,
                                 !.enclosed = Encloses(file.lines)]
    BY <1>2 DEF ReadFile, new, Encloses
  <2>5. Encloses(file.lines) \in BOOLEAN
    BY DEF Encloses
  <2>6. /\ script' \in ScriptState /\ script'.at = "replace" /\ script'.name = script.name
        /\ script'.temporary = new /\ script'.enclosed = Encloses(file.lines)
    <3> DEFINE e == Encloses(file.lines)
    <3> HIDE DEF e
    <3> QED BY <1>0, <2>3, <2>4, <2>5 DEF ScriptState, IniPlaces, e
  <2>7. IniTypes'
    BY <2>6 DEF IniInv, IniTypes, ReadFile, bounds
  <2>8. FileIsSound'
    BY <1>0, <2>6 DEF IniInv, FileIsSound, ReadFile, At
  <2>9. TemporaryIsSound'
    <3>1. UNCHANGED <<file, orphan>>
      BY DEF ReadFile
    <3> QED BY <2>3, <2>6, <3>1 DEF TemporaryIsSound
  <2>10. ScriptIsSound'
    BY <1>0, <2>6 DEF IniInv, ScriptIsSound, ReadFile, At, bounds
  <2> QED BY <2>7, <2>8, <2>9, <2>10 DEF IniInv
<1> QED BY <1>1, <1>2

\* What was said of the temporary file holds of the file from now on.
LEMMA ReplaceKeeps ==
  ASSUME IniInv, Replace
  PROVE  IniInv'
<1>0. /\ script \in ScriptState /\ At("replace") /\ file' = script.temporary /\ UNCHANGED <<created, ours, orphan, bounds>>
      /\ file' \in File /\ file'.exists /\ (orphan \/ Covered(file'.lines))
      /\ script.name = "install" => WithBlock(file')
      /\ script.name # "install" => NoBegin(file'.lines) /\ (orphan \/ Clean(file'.lines))
  BY ScriptFields DEF IniInv, IniTypes, TemporaryIsSound, Replace
<1>1. CASE script.name = "install"
  <2>1. script' = NoScript /\ script'.at = "idle" /\ last' = "install"
    BY <1>1, AtIdle DEF Replace
  <2>2. IniTypes'
    BY <1>0, <2>1, NoFileFacts DEF IniInv, IniTypes, bounds
  <2>3. FileIsSound'
    BY <1>0, <1>1, <2>1 DEF FileIsSound, At
  <2>4. TemporaryIsSound' /\ ScriptIsSound'
    BY <1>0, <2>1 DEF IniInv, TemporaryIsSound, ScriptIsSound, At, bounds
  <2> QED BY <2>2, <2>3, <2>4 DEF IniInv
<1>2. CASE script.name # "install"
  <2>1. script' \in ScriptState /\ script'.at = "check" /\ last' = last
    BY <1>0, <1>2 DEF Replace, ScriptState, IniPlaces
  <2>2. IniTypes'
    BY <1>0, <2>1 DEF IniInv, IniTypes, bounds
  <2>3. FileIsSound'
    BY <1>0, <2>1 DEF IniInv, FileIsSound, At
  <2>4. TemporaryIsSound' /\ ScriptIsSound'
    BY <1>0, <1>2, <2>1 DEF IniInv, TemporaryIsSound, ScriptIsSound, At, bounds
  <2> QED BY <2>2, <2>3, <2>4 DEF IniInv
<1> QED BY <1>1, <1>2

\* The script goes on by what it sees.
LEMMA CheckKeeps ==
  ASSUME IniInv, Check
  PROVE  IniInv'
<1>0. At("check") /\ script \in ScriptState /\ UNCHANGED <<file, created, last, ours, orphan, edits, deaths>>
  BY DEF IniInv, IniTypes, Check, bounds
<1> DEFINE place == IF IsToGo THEN "remove" ELSE "finish"
<1>1. script' \in ScriptState /\ script'.at = place /\ place \in {"remove", "finish"}
  BY <1>0 DEF Check, ScriptState, IniPlaces
<1> HIDE DEF place
<1>2. IniTypes'
  BY <1>0, <1>1 DEF IniInv, IniTypes
<1>3. FileIsSound'
  BY <1>0, <1>1 DEF IniInv, FileIsSound, At
<1>4. TemporaryIsSound'
  BY <1>1 DEF TemporaryIsSound, At
<1>5. ScriptIsSound'
  <2>1. /\ place = "remove" => \A i \in DOMAIN file.lines : file.lines[i] = Empty
        /\ place = "finish" => ~IsToGo
    BY DEF place, IsToGo
  <2>2. IsToGo' <=> IsToGo
    BY <1>0 DEF IsToGo
  <2> QED BY <1>0, <1>1, <2>1, <2>2 DEF IniInv, ScriptIsSound, At
<1> QED BY <1>2, <1>3, <1>4, <1>5 DEF IniInv

\* Nothing is left, but the marker.
LEMMA RemoveFileKeeps ==
  ASSUME IniInv, RemoveFile
  PROVE  IniInv'
<1>1. script' \in ScriptState /\ script'.at = "finish" /\ At("remove")
  BY GoesFields DEF IniInv, IniTypes, RemoveFile, IniPlaces
<1>2. IniTypes'
  BY <1>1, NoFileFacts DEF IniInv, IniTypes, RemoveFile, bounds
<1>3. FileIsSound'
  BY <1>1, NoFileFacts DEF IniInv, FileIsSound, RemoveFile, At
<1>4. TemporaryIsSound'
  BY <1>1 DEF TemporaryIsSound, At
<1>5. ScriptIsSound'
  BY <1>1, NoFileFacts DEF IniInv, ScriptIsSound, RemoveFile, At, bounds
<1> QED BY <1>2, <1>3, <1>4, <1>5 DEF IniInv

\* The marker goes, and what the script had seen is forgotten.
LEMMA FinishKeeps ==
  ASSUME IniInv, Finish
  PROVE  IniInv'
<1>1. script' = NoScript /\ script'.at = "idle" /\ At("finish")
  BY AtIdle DEF Finish
<1>2. IniTypes'
  BY <1>1, NoFileFacts DEF IniInv, IniTypes, Finish, bounds
<1>3. FileIsSound'
  BY <1>1 DEF IniInv, FileIsSound, Finish, At
<1>4. TemporaryIsSound' /\ ScriptIsSound'
  BY <1>1 DEF TemporaryIsSound, ScriptIsSound, Finish, At
<1> QED BY <1>2, <1>3, <1>4 DEF IniInv

\* A script that dies leaves the file as it is, and maybe no marker.
LEMMA DiesKeeps ==
  ASSUME IniInv, Dies
  PROVE  IniInv'
<1>1. script' = NoScript /\ script'.at = "idle" /\ deaths' # 0 /\ deaths' \in Nat
  BY AtIdle DEF IniInv, IniTypes, Dies
<1>2. IniTypes'
  BY <1>1, NoFileFacts DEF IniInv, IniTypes, Dies
<1>3. FileIsSound'
  BY <1>1 DEF IniInv, FileIsSound, Dies, At
<1>4. TemporaryIsSound' /\ ScriptIsSound'
  BY <1>1 DEF TemporaryIsSound, ScriptIsSound, Dies, At
<1> QED BY <1>2, <1>3, <1>4 DEF IniInv

\* An edit that leaves a block's lines behind its first one, unless it takes that away.
LEMMA EditedKeeps ==
  ASSUME EngineIniAssumption, IniInv, NEW lines \in Seq(Lines), NEW ends \in BOOLEAN,
         Edited(lines, ends), orphan' \in BOOLEAN, orphan => orphan',
         orphan' \/ Covered(lines),
         NoBegin(file.lines) => NoBegin(lines), Clean(file.lines) => Clean(lines)
  PROVE  IniInv'
<1>1. /\ script' \in ScriptState /\ script'.at = script.at /\ (At("idle") \/ script'.raced)
      /\ script'.name = script.name /\ script'.temporary = script.temporary
  BY Zenon, ScriptRaces DEF IniInv, IniTypes, Edited, At
<1>2. /\ file' \in File /\ file'.exists /\ file'.lines = lines
      /\ last' = "none" /\ ours' = (ours /\ file.exists) /\ UNCHANGED <<created, deaths>>
  BY DEF Edited, File
<1>3. edits' \in 0 .. MaxEdits
  BY DEF IniInv, IniTypes, Edited, EngineIniAssumption
<1>4. IniTypes'
  BY <1>1, <1>2, <1>3 DEF IniInv, IniTypes
<1>5. FileIsSound'
  BY <1>2 DEF FileIsSound
<1>6. TemporaryIsSound'
  BY <1>1 DEF IniInv, TemporaryIsSound, At
<1>7. ScriptIsSound'
  BY <1>1, <1>2 DEF IniInv, ScriptIsSound, At
<1> QED BY <1>4, <1>5, <1>6, <1>7 DEF IniInv

\* A setting of the game or the player takes no block apart.
LEMMA InsertKeeps ==
  ASSUME EngineIniAssumption, IniInv, Insert
  PROVE  IniInv'
<1>1. PICK i \in 1 .. Len(file.lines) + 1, ends \in BOOLEAN :
        Edited(InsertAt(file.lines, i, Setting(edits')), ends) /\ orphan' = orphan
  BY DEF Insert
<1>2. file.lines \in Seq(Lines) /\ orphan \in BOOLEAN
  BY DEF IniInv, IniTypes, File
<1>3. Setting(edits') \in Lines /\ IsSetting(Setting(edits'))
  <2>1. edits' \in 0 .. MaxEdits
    BY <1>1 DEF IniInv, IniTypes, Edited, EngineIniAssumption
  <2> QED BY <2>1, LineFacts DEF Lines
<1> DEFINE lines == InsertAt(file.lines, i, Setting(edits'))
<1>4. /\ lines \in Seq(Lines) /\ (Covered(file.lines) => Covered(lines))
      /\ (NoBegin(file.lines) => NoBegin(lines)) /\ (Clean(file.lines) => Clean(lines))
  BY <1>2, <1>3, InsertedLine
<1> HIDE DEF lines
<1>5. Edited(lines, ends)
  BY <1>1 DEF lines
<1>6. orphan' \/ Covered(lines)
  BY <1>1, <1>4 DEF IniInv, FileIsSound
<1> QED BY <1>1, <1>2, <1>4, <1>5, <1>6, EditedKeeps

\* Only the deletion of a first line does, which is orphan.
LEMMA DeleteLineKeeps ==
  ASSUME EngineIniAssumption, IniInv, DeleteLine
  PROVE  IniInv'
<1>1. PICK i \in DOMAIN file.lines, ends \in BOOLEAN :
        /\ Edited(RemoveAt(file.lines, i), ends \/ Len(file.lines) = 1)
        /\ orphan' = (orphan \/ file.lines[i] = Begin)
  BY DEF DeleteLine
<1>2. file.lines \in Seq(Lines) /\ orphan \in BOOLEAN
  BY DEF IniInv, IniTypes, File
<1> DEFINE lines == RemoveAt(file.lines, i)
           newEnds == ends \/ Len(file.lines) = 1
<1>3. /\ lines \in Seq(Lines) /\ (Covered(file.lines) /\ file.lines[i] # Begin => Covered(lines))
      /\ (NoBegin(file.lines) => NoBegin(lines)) /\ (Clean(file.lines) => Clean(lines))
  BY <1>2, DeletedLine
<1>4. newEnds \in BOOLEAN
  OBVIOUS
<1> HIDE DEF lines, newEnds
<1>5. Edited(lines, newEnds)
  BY <1>1 DEF lines, newEnds
<1>6. orphan' \/ Covered(lines)
  BY <1>1, <1>3 DEF IniInv, FileIsSound
<1>7. orphan' \in BOOLEAN /\ (orphan => orphan')
  BY <1>1
<1> QED BY <1>3, <1>4, <1>5, <1>6, <1>7, EditedKeeps

\* The file goes with all blocks; what the marker says stays.
LEMMA DeleteFileKeeps ==
  ASSUME EngineIniAssumption, IniInv, DeleteFile
  PROVE  IniInv'
<1>1. /\ script' \in ScriptState /\ script'.at = script.at /\ (At("idle") \/ script'.raced)
      /\ script'.name = script.name /\ script'.temporary = script.temporary
  BY Zenon, ScriptRaces DEF IniInv, IniTypes, DeleteFile, At
<1>2. file' = NoFile /\ last' = "none" /\ UNCHANGED <<created, ours, orphan, deaths>>
  BY DEF DeleteFile
<1>3. edits' \in 0 .. MaxEdits
  BY DEF IniInv, IniTypes, DeleteFile, EngineIniAssumption
<1>4. IniTypes'
  BY <1>1, <1>2, <1>3, NoFileFacts DEF IniInv, IniTypes
<1>5. FileIsSound'
  BY <1>2, NoFileFacts DEF FileIsSound
<1>6. TemporaryIsSound'
  BY <1>1, <1>2 DEF IniInv, TemporaryIsSound, At
<1>7. ScriptIsSound'
  BY <1>1, <1>2, NoFileFacts DEF IniInv, ScriptIsSound, At
<1> QED BY <1>4, <1>5, <1>6, <1>7 DEF IniInv

\* A stutter keeps the invariant.
LEMMA UnchangedKeeps ==
  ASSUME IniInv, UNCHANGED iniVars
  PROVE  IniInv'
BY DEF IniInv, IniTypes, FileIsSound, TemporaryIsSound, ScriptIsSound, At, IsToGo, iniVars, bounds

\* Every step keeps the invariant.
LEMMA IniSteps ==
  ASSUME EngineIniAssumption, IniInv, [IniNext]_iniVars
  PROVE  IniInv'
<1>1. CASE InstallBegins
  BY <1>1, BeginsKeeps DEF InstallBegins
<1>2. CASE UninstallBegins
  BY <1>2, BeginsKeeps DEF UninstallBegins
<1> QED BY <1>1, <1>2, CreateFileKeeps, MarkKeeps, ReadFileKeeps, ReplaceKeeps, CheckKeeps,
           RemoveFileKeeps, FinishKeeps, DiesKeeps, InsertKeeps, DeleteLineKeeps,
           DeleteFileKeeps, UnchangedKeeps DEF IniNext, Scripts

\* The inductive invariant holds throughout.
LEMMA IniIsSound == ASSUME EngineIniAssumption PROVE IniSpec => []IniInv
<1>1. IniInit => IniInv
  BY IniStarts
<1>2. IniInv /\ [IniNext]_iniVars => IniInv'
  BY IniSteps
<1> QED BY <1>1, <1>2, PTL DEF IniSpec

-----------------------------------------------------------------------------
(* Engine.ini: the properties.                                             *)

\* Wherever the scripts die and whatever is edited between their steps, an installation
\* leaves one block, at the end of the file.
THEOREM InstallationsLeaveOneBlock ==
  ASSUME EngineIniAssumption PROVE IniSpec => []EngineIniInv
<1>1. IniInv => EngineIniInv
  <2> SUFFICES ASSUME IniInv PROVE EngineIniInv
    OBVIOUS
  <2>1. IniTypeOK
    <3>1. \A f \in {file, script.temporary} : f \in [exists : BOOLEAN, lines : Seq(Lines), ends : BOOLEAN]
      BY ScriptFields DEF IniInv, IniTypes, File
    <3>2. script.name \in {"none", "install", "uninstall"} /\ script.at \in IniPlaces
      BY ScriptFields DEF IniInv, IniTypes
    <3>3. {created, ours, orphan, script.raced, script.enclosed} \subseteq BOOLEAN
      BY ScriptFields DEF IniInv, IniTypes
    <3> QED BY <3>1, <3>2, <3>3 DEF IniTypeOK, IniInv, IniTypes, IniPlaces
  <2>2. OneBlock
    BY DEF OneBlock, IniInv, FileIsSound, WithBlock, FirstLines
  <2> QED BY <2>1, <2>2 DEF EngineIniInv
<1> QED BY <1>1, IniIsSound, PTL

\* A script that changes the settings replaces a file that was edited since it looked at it,
\* or cuts a setting that stands inside a block.
THEOREM GameSettingsArePreserved ==
  ASSUME EngineIniAssumption PROVE IniSpec => SettingsPreserved
<1> DEFINE P == edits' = edits /\ Settings(file'.lines) # Settings(file.lines)
                  => script.raced \/ script.enclosed
<1>1. IniInv /\ [IniNext]_iniVars => [P]_iniVars
  <2> SUFFICES ASSUME IniInv, IniNext, edits' = edits,
                      Settings(file'.lines) # Settings(file.lines)
               PROVE  script.raced \/ script.enclosed
    OBVIOUS
  <2>1. file' # file /\ edits \in Nat
    BY DEF IniInv, IniTypes, EngineIniAssumption
  <2>2. CASE CreateFile
    <3>1. file'.lines = <<>>
      BY <2>2, NoFileFacts DEF CreateFile, NoFile
    <3>2. script.raced \/ ~file.exists
      BY <2>2 DEF IniInv, ScriptIsSound, CreateFile
    <3> QED BY <3>1, <3>2, NoFileFacts DEF IniInv, IniTypes
  <2>3. CASE Replace
    BY <2>3 DEF IniInv, TemporaryIsSound, Replace
  <2>4. CASE RemoveFile
    <3>1. file'.lines = <<>>
      BY <2>4, NoFileFacts DEF RemoveFile
    <3>2. (\A i \in DOMAIN file.lines : file.lines[i] = Empty) => SettingPlaces(file.lines) = {}
      BY LineFacts DEF SettingPlaces
    <3>3. file.lines \in Seq(Lines)
      BY DEF IniInv, IniTypes, File
    <3>4. (\A i \in DOMAIN file.lines : file.lines[i] = Empty) => Settings(file.lines) = <<>>
      BY <3>2, <3>3, SettingsNone
    <3> QED BY <2>4, <3>1, <3>4, SettingsOfNothing DEF IniInv, ScriptIsSound, RemoveFile
  <2>5. ~(Insert \/ DeleteLine \/ DeleteFile)
    BY <2>1 DEF Insert, DeleteLine, DeleteFile, Edited
  <2>6. ~(InstallBegins \/ UninstallBegins \/ Mark \/ ReadFile \/ Check \/ Finish \/ Dies)
    BY <2>1 DEF InstallBegins, UninstallBegins, Begins, Mark, ReadFile, Check, Finish, Dies
  <2> QED BY <2>2, <2>3, <2>4, <2>5, <2>6 DEF IniNext, Scripts
<1> QED BY <1>1, IniIsSound, PTL DEF IniSpec, SettingsPreserved

\* Where uninstall.sh ends, no line of a block is left, nor, if it has no settings, the file
\* that install.sh created.
THEOREM UninstallationsLeaveNoTrace ==
  ASSUME EngineIniAssumption PROVE IniSpec => LeavesNoTrace
<1> DEFINE P == At("finish") /\ last' = "uninstall" =>
                  /\ \A i \in DOMAIN file.lines :
                       /\ file.lines[i] # Begin
                       /\ file.lines[i] \in {Body, End} => orphan
                  /\ ours /\ deaths = 0 /\ file.exists => Settings(file.lines) # <<>> \/ orphan \/ script.raced
<1>1. IniInv => P
  <2> SUFFICES ASSUME IniInv, At("finish") PROVE P
    OBVIOUS
  <2>1. NoBegin(file.lines) /\ (orphan \/ Clean(file.lines))
    BY DEF IniInv, ScriptIsSound
  <2>2. ASSUME ours, deaths = 0, file.exists, ~orphan, ~script.raced PROVE Settings(file.lines) # <<>>
    <3>1. ~At("mark")
      BY DEF At
    <3>2. ~IsToGo /\ created
      BY <2>2, <3>1 DEF IniInv, ScriptIsSound
    <3>3. PICK i \in DOMAIN file.lines : file.lines[i] # Empty
      BY <3>2 DEF IsToGo
    <3>4. i \in SettingPlaces(file.lines)
      BY <2>1, <2>2, <3>3 DEF SettingPlaces, IsSetting, Clean
    <3>5. file.lines \in Seq(Lines)
      BY DEF IniInv, IniTypes, File
    <3> QED BY <3>4, <3>5, SettingsSome
  <2> QED BY <2>1, <2>2 DEF NoBegin, Clean
<1>2. IniInv /\ [IniNext]_iniVars => [P]_iniVars
  BY <1>1
<1> QED BY <1>2, IniIsSound, PTL DEF IniSpec, LeavesNoTrace
=============================================================================
