---------------------------- MODULE PlatformProbe ----------------------------
(***************************************************************************)
(* The Windows helper, which asks the machine about its platform security  *)
(* through the game's Proton runtime, and the agent that runs it, reads    *)
(* the file it leaves and makes a report of it.                            *)
(*                                                                         *)
(* A machine is what Windows' calls answer.  A part of the result whose    *)
(* call is missing is absent: its fields are zero.  The agent's time limit *)
(* kills the launcher it started, not the helper behind it, which goes on  *)
(* and may write its file at any later time.                               *)
(***************************************************************************)
EXTENDS Events, Sequences

CONSTANTS
  Machines,   \* the machines, each with its answers
  Versions,   \* versions of the Proton runtime the player may configure
  MaxAttempts \* bound: runs of the helper

Uint8  == 0 .. 255
Uint16 == {n \in Nat : n <= 65535}
Uint32 == 0 .. CodeLimit - 1

\* A structure of the SMBIOS table: the helper's walk leaves out one whose header is short.
Structure == [type : Uint8, length : 4 .. 255, strings : Nat, bytes : Nat]

\* What the calls answer; modulus is that of an RSA public key, 0 for any other blob.
Machine ==
  [apis     : SUBSET {"ntdll", "ncrypt", "kernel32"},
   dma      : [status : Uint32, length : Nat, policy : BOOLEAN],
   provider : Uint32,
   ek       : [status : Uint32, length : Nat, modulus : Nat],
   cpu      : [status : Uint32, architecture : Uint16, level : Uint16, processors : Uint16],
   firmware : [status : Uint32, length : Nat, smbios : Nat, structures : Seq(Structure)],
   volume   : [opens : BOOLEAN, status : Uint32, extents : Nat, disk : Nat, atZero : BOOLEAN],
   drive    : [opens : BOOLEAN, status : Uint32, size : Nat, bus : Nat, offsets : 0 .. 15]]

\* steamProtonRuntimeAt finds no runtime without a version.
ASSUME PlatformProbeAssumption ==
  /\ MaxAttempts \in Nat
  /\ Machines \subseteq Machine
  /\ Versions \cap {Absent, Overlong} = {}

VARIABLES
  machine,  \* the machine's answers, which do not change
  proton,   \* the version in the prefix's config_info
  pc,       \* "idle", "waiting" for the launcher, or "done" (a.platformProbeDone)
  launched, \* launched[a]: the version attempt a runs under, and whether an earlier helper was late
  helper,   \* helper[a]: attempt a's helper is "probing", "writing" its file, or "ended"
  file,     \* platform-probe.exe.result.json: who writes it, whether it is whole, who has it open
  report,   \* a.platformProbe: its events, the attempt that made it, and the one whose file it is
  refused   \* the last attempt's file was whole, and was refused

vars == <<machine, proton, pc, launched, helper, file, report, refused>>

Attempts == 1 .. MaxAttempts
Attempt  == Len(launched)

NoFile   == [writer |-> 0, whole |-> FALSE, open |-> {}]
NoReport == [attempt |-> 0, from |-> 0, events |-> <<>>]

\* The helper of an attempt that was given up is still there.
IsHelperLate == \E a \in DOMAIN helper : helper[a] # "ended"

-----------------------------------------------------------------------------
(* The helper's calls.                                                     *)

ProbeDMA(m) ==
  IF "ntdll" \notin m.apis
  THEN [available |-> FALSE, status |-> 0, length |-> 0, policy |-> {}]
  ELSE [available |-> TRUE, status |-> m.dma.status, length |-> m.dma.length,
        policy |-> IF m.dma.status = 0 THEN {m.dma.policy} ELSE {}]

\* A public key is told when its blob fits the buffer and is an RSA key's.
IsRsaPublic(m) ==
  /\ m.provider = 0
  /\ m.ek.status = 0
  /\ m.ek.length \in 24 .. 1024
  /\ m.ek.modulus # 0

ProbePlatformProvider(m) ==
  LET isOpen == "ncrypt" \in m.apis /\ m.provider = 0
      isKey  == isOpen /\ IsRsaPublic(m)
  IN  [available |-> "ncrypt" \in m.apis,
       status    |-> IF "ncrypt" \in m.apis THEN m.provider ELSE 0,
       ekStatus  |-> IF isOpen THEN m.ek.status ELSE 0,
       ekLength  |-> IF isOpen THEN m.ek.length ELSE 0,
       ekKind    |-> IF isKey THEN "rsa_public" ELSE Absent,
       ekBits    |-> IF isKey THEN 8 * m.ek.modulus ELSE 0]

\* Mutant of ProbeCPU: the buffer is read whatever the status.
ProbeCPUUnchecked(m) ==
  [available    |-> "ntdll" \in m.apis,
   status       |-> IF "ntdll" \in m.apis THEN m.cpu.status ELSE 0,
   architecture |-> m.cpu.architecture, level |-> m.cpu.level, processors |-> m.cpu.processors]

ProbeCPU(m) ==
  LET isKnown == "ntdll" \in m.apis /\ m.cpu.status = 0
  IN  [available    |-> "ntdll" \in m.apis,
       status       |-> IF "ntdll" \in m.apis THEN m.cpu.status ELSE 0,
       architecture |-> IF isKnown THEN m.cpu.architecture ELSE 0,
       level        |-> IF isKnown THEN m.cpu.level ELSE 0,
       processors   |-> IF isKnown THEN m.cpu.processors ELSE 0]

BufferSize == 65536

\* The structures of the table, when the lengths in front of it fit the buffer.
ProbeRSMB(m) ==
  LET isRead  == "ntdll" \in m.apis /\ m.firmware.status = 0
      isTable == isRead /\ m.firmware.length \in 8 .. BufferSize - 16
      isWhole == isTable /\ m.firmware.smbios <= m.firmware.length - 8
  IN  [available  |-> "ntdll" \in m.apis,
       status     |-> IF "ntdll" \in m.apis THEN m.firmware.status ELSE 0,
       length     |-> IF isRead THEN m.firmware.length ELSE 0,
       smbios     |-> IF isTable THEN m.firmware.smbios ELSE 0,
       structures |-> IF isWhole THEN m.firmware.structures ELSE <<>>]

ProbeVolume(m) ==
  LET isOpen  == "kernel32" \in m.apis /\ m.volume.opens
      isKnown == isOpen /\ m.volume.status = 0
  IN  [available |-> isOpen,
       status    |-> IF isOpen THEN m.volume.status ELSE 0,
       extents   |-> IF isKnown THEN m.volume.extents ELSE 0,
       disk      |-> IF isKnown THEN m.volume.disk ELSE 0,
       atZero    |-> isKnown /\ m.volume.atZero]

ProbeDrive(m) ==
  LET isOpen  == "kernel32" \in m.apis /\ m.drive.opens
      isKnown == isOpen /\ m.drive.status = 0
  IN  [available |-> isOpen,
       status    |-> IF isOpen THEN m.drive.status ELSE 0,
       size      |-> IF isKnown THEN m.drive.size ELSE 0,
       bus       |-> IF isKnown THEN m.drive.bus ELSE 0,
       offsets   |-> IF isKnown THEN m.drive.offsets ELSE 0]

Result(m) ==
  [dma |-> ProbeDMA(m), tpm |-> ProbePlatformProvider(m), cpu |-> ProbeCPU(m),
   rsmb |-> ProbeRSMB(m), volume |-> ProbeVolume(m), drive |-> ProbeDrive(m)]

-----------------------------------------------------------------------------
(* The agent's parser.                                                     *)

MaxStructures == 64
MaxStrings    == 64

WithinBounds(r) ==
  /\ r.dma.length <= 1
  /\ r.tpm.ekLength <= 1024
  /\ r.tpm.ekBits <= 16384
  /\ r.cpu.processors <= 256
  /\ r.rsmb.length <= 65536
  /\ r.rsmb.smbios <= 65536
  /\ Len(r.rsmb.structures) <= MaxStructures
  /\ r.volume.extents <= 64
  /\ r.volume.disk <= 65535
  /\ r.drive.size <= 65536
  /\ r.drive.bus <= 127
  /\ \A i \in DOMAIN r.rsmb.structures :
       LET s == r.rsmb.structures[i]
       IN  s.length >= 4 /\ s.strings <= MaxStrings /\ s.bytes <= 4096

Probe(state, name) == [NewEvent("platform_probe", state) EXCEPT !.name = name]

When(condition, events) == IF condition THEN events ELSE <<>>

\* Architecture of the number Windows gives.
Architecture(n) ==
  CASE n = 0 -> "x86" [] n = 9 -> "amd64" [] n = 12 -> "arm64" [] OTHER -> "unknown"

RuntimeEvent(version) == [Probe("runtime", "proton") EXCEPT !.version = version]

ApiEvent(name, isAvailable) == [Probe("api", name) EXCEPT !.result = {isAvailable}]

DmaGuardEvent(d) ==
  [Probe("dma_guard", "NtQuerySystemInformation") EXCEPT
    !.status = d.status, !.size = d.length, !.success = {d.status = 0}, !.result = d.policy]

ProviderEvent(t) ==
  [Probe("platform_provider", "NCryptOpenStorageProvider") EXCEPT
    !.status = t.status, !.success = {t.status = 0}]

EkpubEvent(t) ==
  [Probe("pcp_ekpub", "NCryptGetProperty") EXCEPT
    !.status = t.ekStatus, !.size = t.ekLength, !.code = t.ekBits,
    !.version = t.ekKind, !.success = {t.ekStatus = 0}]

CpuEvent(c) ==
  [Probe("cpu_information", "NtQuerySystemInformation") EXCEPT
    !.status = c.status, !.code = c.level, !.size = c.processors,
    !.version = Architecture(c.architecture), !.success = {c.status = 0}]

RsmbEvent(b) ==
  [Probe("rsmb", "RSMB") EXCEPT
    !.status = b.status, !.size = b.length, !.parameters = Len(b.structures),
    !.success = {b.status = 0}]

StructureEvent(s) ==
  [Probe("rsmb_structure", "type_") EXCEPT
    !.code = s.type, !.size = s.length, !.length = s.bytes, !.parameters = s.strings]

VolumeEvent(v) ==
  [Probe("volume_extents", "c_to_physicaldrive") EXCEPT
    !.status = v.status, !.code = v.disk, !.size = v.extents, !.success = {v.status = 0},
    !.result = IF v.status = 0 THEN {v.atZero} ELSE {}]

DriveEvent(d) ==
  [Probe("storage_descriptor", "physicaldrive0") EXCEPT
    !.status = d.status, !.code = d.bus, !.flags = d.offsets, !.size = d.size,
    !.success = {d.status = 0}]

ProbeEvents(r, version) ==
  <<RuntimeEvent(version), ApiEvent("ntdll", r.dma.available)>>
  \o When(r.dma.available, <<DmaGuardEvent(r.dma)>>)
  \o <<ApiEvent("ncrypt", r.tpm.available)>>
  \o When(r.tpm.available, <<ProviderEvent(r.tpm)>>)
  \o When(r.tpm.available /\ r.tpm.status = 0, <<EkpubEvent(r.tpm)>>)
  \o When(r.cpu.available, <<CpuEvent(r.cpu)>>)
  \o When(r.rsmb.available, <<RsmbEvent(r.rsmb)>>)
  \o When(r.rsmb.available /\ r.rsmb.status = 0,
          [i \in DOMAIN r.rsmb.structures |-> StructureEvent(r.rsmb.structures[i])])
  \o When(r.volume.available, <<VolumeEvent(r.volume)>>)
  \o When(r.drive.available, <<DriveEvent(r.drive)>>)

\* parseWindowsPlatformProbeOutput succeeds.
IsAccepted(r, version) ==
  /\ WithinBounds(r)
  /\ LET events == ProbeEvents(r, version)
     IN  \A i \in DOMAIN events : ValidateEvent(events[i])

-----------------------------------------------------------------------------
(* The helper's process, and the agent that waits for its launcher.        *)

Init ==
  /\ machine \in Machines
  /\ proton \in Versions
  /\ pc = "idle"
  /\ launched = <<>>
  /\ helper = <<>>
  /\ file = NoFile
  /\ report = NoReport
  /\ refused = FALSE

\* The player configures another runtime.
SwitchProton(version) ==
  /\ version # proton
  /\ proton' = version
  /\ UNCHANGED <<machine, pc, launched, helper, file, report, refused>>

\* Mutant of StartHelper: a runtime without a version is taken.
StartHelperUnversioned ==
  /\ pc = "idle"
  /\ Attempt < MaxAttempts
  /\ file' = NoFile
  /\ launched' = Append(launched, [version |-> Absent, late |-> IsHelperLate])
  /\ helper' = Append(helper, "probing")
  /\ pc' = "waiting"
  /\ UNCHANGED <<machine, proton, report, refused>>

\* Mutant of StartHelper: what an earlier attempt left stays.
StartHelperOverOld ==
  /\ pc = "idle"
  /\ Attempt < MaxAttempts
  /\ launched' = Append(launched, [version |-> proton, late |-> IsHelperLate])
  /\ helper' = Append(helper, "probing")
  /\ pc' = "waiting"
  /\ UNCHANGED <<machine, proton, file, report, refused>>

\* The helper goes in place, what an earlier attempt left goes away, and the
\* launcher starts.
StartHelper ==
  /\ pc = "idle"
  /\ Attempt < MaxAttempts
  /\ file' = NoFile
  /\ launched' = Append(launched, [version |-> proton, late |-> IsHelperLate])
  /\ helper' = Append(helper, "probing")
  /\ pc' = "waiting"
  /\ UNCHANGED <<machine, proton, report, refused>>

\* The helper's file is there, and empty: a late helper's is cut.
CreateResult(a) ==
  /\ helper[a] = "probing"
  /\ helper' = [helper EXCEPT ![a] = "writing"]
  /\ file' = [writer |-> a, whole |-> FALSE, open |-> file.open \cup {a}]
  /\ UNCHANGED <<machine, proton, pc, launched, report, refused>>

\* The helper ends.  What it writes is lost when its file was removed meanwhile.
WriteResult(a) ==
  /\ helper[a] = "writing"
  /\ helper' = [helper EXCEPT ![a] = "ended"]
  /\ file' = IF a \in file.open THEN [writer |-> a, whole |-> TRUE, open |-> file.open] ELSE file
  /\ UNCHANGED <<machine, proton, pc, launched, report, refused>>

\* The helper ends without a file: it cannot write one, or the runtime fails.
HelperFails(a) ==
  /\ helper[a] = "probing"
  /\ helper' = [helper EXCEPT ![a] = "ended"]
  /\ UNCHANGED <<machine, proton, pc, launched, file, report, refused>>

\* The launcher has returned: the file is read, parsed and removed.
ReadResult ==
  /\ pc = "waiting"
  /\ helper[Attempt] = "ended"
  /\ file' = NoFile
  /\ IF file.whole /\ IsAccepted(Result(machine), launched[Attempt].version)
     THEN /\ pc' = "done"
          /\ report' = [attempt |-> Attempt, from |-> file.writer,
                        events |-> ProbeEvents(Result(machine), launched[Attempt].version)]
          /\ refused' = FALSE
     ELSE /\ pc' = "idle"
          /\ refused' = file.whole
          /\ UNCHANGED report
  /\ UNCHANGED <<machine, proton, launched, helper>>

\* After 45 seconds the launcher is killed, and what there is of the file removed.
TimeOut ==
  /\ pc = "waiting"
  /\ file' = NoFile
  /\ pc' = "idle"
  /\ refused' = FALSE
  /\ UNCHANGED <<machine, proton, launched, helper, report>>

\* The agent sees a game stop: the helper is wanted again.
GameStops ==
  /\ pc = "done"
  /\ pc' = "idle"
  /\ UNCHANGED <<machine, proton, launched, helper, file, report, refused>>

Next ==
  \/ \E version \in Versions : SwitchProton(version)
  \/ \E a \in DOMAIN helper : CreateResult(a) \/ WriteResult(a) \/ HelperFails(a)
  \/ StartHelper \/ ReadResult \/ TimeOut \/ GameStops

Spec == Init /\ [][Next]_vars

-----------------------------------------------------------------------------
(* Properties.                                                             *)

\* The types of the variables.
TypeOK ==
  /\ machine \in Machines
  /\ proton \in Versions
  /\ pc \in {"idle", "waiting", "done"}
  /\ Attempt \in 0 .. MaxAttempts
  /\ launched \in Seq([version : Versions, late : BOOLEAN])
  /\ helper \in Seq({"probing", "writing", "ended"})
  /\ Len(helper) = Attempt
  /\ file \in [writer : 0 .. Attempt, whole : BOOLEAN, open : SUBSET (1 .. Attempt)]
  /\ report.attempt \in 0 .. Attempt
  /\ report.from \in 0 .. Attempt
  /\ refused \in BOOLEAN

Reported == {report.events[i] : i \in DOMAIN report.events}

\* What the calls of this machine are, by the state of their event.
Called ==
  {"runtime"}
  \cup (IF "ntdll" \in machine.apis THEN {"dma_guard", "cpu_information", "rsmb"} ELSE {})
  \cup (IF "ncrypt" \in machine.apis THEN {"platform_provider"} ELSE {})
  \cup (IF "ncrypt" \in machine.apis /\ machine.provider = 0 THEN {"pcp_ekpub"} ELSE {})
  \cup (IF "kernel32" \in machine.apis /\ machine.volume.opens THEN {"volume_extents"} ELSE {})
  \cup (IF "kernel32" \in machine.apis /\ machine.drive.opens THEN {"storage_descriptor"} ELSE {})

\* A report tells of each call the helper could make, and of no other; and
\* about a call that failed it tells its status and nothing the call might have
\* left behind (but the length that DMA Guard and the EK return even then).
ReportTellsEachCall ==
  report # NoReport =>
    /\ Called = {e.state : e \in Reported} \ {"api", "rsmb_structure"}
    /\ \A e \in Reported :
         e.success = {FALSE} =>
           /\ e.code = 0 /\ e.flags = 0 /\ e.parameters = 0 /\ e.result = {}
           /\ e.size = 0 \/ e.state \in {"dma_guard", "pcp_ekpub"}

\* A report is made of the file of its own attempt, unless the helper of an
\* earlier attempt was still running when the attempt began.
ReportIsOfItsAttempt ==
  report # NoReport /\ report.from # report.attempt => launched[report.attempt].late

HasSmallTable(r) ==
  /\ Len(r.rsmb.structures) <= MaxParameters
  /\ \A i \in DOMAIN r.rsmb.structures : r.rsmb.structures[i].strings <= MaxParameters

\* A result within the agent's own bounds is refused for one reason only: it
\* counts more than 16 SMBIOS structures, or strings of one, which validateEvent's
\* common bound on Parameters forbids.
RefusedOnlyForCounts ==
  refused /\ WithinBounds(Result(machine)) => ~HasSmallTable(Result(machine))

\* Violated: the helper "also records CPU family/revision/topology, RSMB
\* version/length and per-structure type/size/string-count metadata"
\* (Collector/README.md:43).  A result within the parser's bounds, which allow 64
\* structures and 64 strings, is refused as a whole beyond 16.
BoundedIsRecorded == ~(refused /\ WithinBounds(Result(machine)))
=============================================================================
