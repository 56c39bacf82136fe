------------------------- MODULE PlatformProbeProofs -------------------------
(***************************************************************************)
(* Proofs about PlatformProbe.  The agent checks a result twice: its       *)
(* fields against the parser's bounds, and the events made of them against *)
(* the server's contract.  The lemmas go through the events and show that, *)
(* but for two counts, the first check implies the second.                 *)
(***************************************************************************)
EXTENDS PlatformProbe, TLAPS

\* The limits of the common check are beyond those of the probes.
LEMMA Limits == CodeLimit \in Nat /\ CodeLimit > 65536 /\ LengthLimit \in Nat
  BY EventsAssumption DEF EventsAssumption

LEMMA Uint16Bound == ASSUME NEW n \in Uint16 PROVE n \in Nat /\ n <= 65535
  BY DEF Uint16

\* The answers about the processor.
LEMMA CpuType ==
  ASSUME NEW m \in Machine
  PROVE  m.cpu.status \in Uint32 /\ m.cpu.level \in Uint16 /\ m.cpu.processors \in Uint16
  BY DEF Machine

\* The answers about the endorsement key.
LEMMA EkType ==
  ASSUME NEW m \in Machine
  PROVE  m.ek.status \in Uint32 /\ m.ek.length \in Nat /\ m.ek.modulus \in Nat
  BY DEF Machine

\* The answers about the drive.
LEMMA DriveType ==
  ASSUME NEW m \in Machine
  PROVE  m.drive.status \in Uint32 /\ m.drive.size \in Nat /\ m.drive.bus \in Nat /\ m.drive.offsets \in 0 .. 15
  BY DEF Machine

LEMMA ZeroIsUint32 == 0 \in Uint32
  BY Limits DEF Uint32

LEMMA RuntimeValid ==
  ASSUME NEW version \in Versions
  PROVE  ValidateEvent(RuntimeEvent(version))
<1> DEFINE e == RuntimeEvent(version)
<1>1. version # Absent /\ version # Overlong
  BY PlatformProbeAssumption DEF PlatformProbeAssumption
<1>2. e.type = "platform_probe" /\ e.state = "runtime" /\ e.name = "proton" /\ e.version = version
  BY DEF RuntimeEvent, Probe, NewEvent
<1>3. e.success = {} /\ e.result = {} /\ e.traced = FALSE /\ e.payload = NoPayload /\ e.digest = NoPayload
  BY DEF RuntimeEvent, Probe, NewEvent
<1>4. NumbersInRange(e)
  BY Limits DEF RuntimeEvent, Probe, NewEvent, NumbersInRange, MaxParameters
<1> HIDE DEF e
<1>5. IsRuntime(e) /\ FieldsAreSafe(e)
  BY <1>1, <1>2, <1>3 DEF IsRuntime, FieldsAreSafe, Absent, Overlong
<1>6. ValidateEvent(e)
  BY <1>2, <1>3, <1>4, <1>5 DEF ValidateEvent, IsPlatformProbe
<1> QED
  BY <1>6 DEF e

LEMMA ApiValid ==
  ASSUME NEW name \in {"ntdll", "ncrypt"}, NEW isAvailable \in BOOLEAN
  PROVE  ValidateEvent(ApiEvent(name, isAvailable))
  BY Limits
  DEF ApiEvent, Probe, NewEvent, NoPayload, ValidateEvent, FieldsAreSafe, Absent, Overlong, NumbersInRange,
      MaxParameters, IsPlatformProbe, IsApi

LEMMA DmaGuardValid ==
  ASSUME NEW m \in Machine, ProbeDMA(m).available, ProbeDMA(m).length <= 1
  PROVE  ValidateEvent(DmaGuardEvent(ProbeDMA(m)))
<1> DEFINE d == ProbeDMA(m)
<1>1. d.status \in Uint32 /\ d.length \in Nat /\ d.length <= 1
  BY DEF ProbeDMA, Machine
<1>2. (d.policy = {}) <=> (d.status # 0)
  BY DEF ProbeDMA, Machine
<1> HIDE DEF d
<1>3. ValidateEvent(DmaGuardEvent(d))
  BY <1>1, <1>2, Limits
  DEF DmaGuardEvent, Probe, NewEvent, NoPayload, ValidateEvent, FieldsAreSafe, Absent, Overlong,
      NumbersInRange, MaxParameters, IsPlatformProbe, IsDmaGuard, SuccessIsStatus, ResultIfSuccess, Uint32
<1> QED
  BY <1>3 DEF d

LEMMA ProviderValid ==
  ASSUME NEW m \in Machine, ProbePlatformProvider(m).available
  PROVE  ValidateEvent(ProviderEvent(ProbePlatformProvider(m)))
<1> DEFINE t == ProbePlatformProvider(m)
<1>1. t.status \in Uint32
  BY DEF ProbePlatformProvider, Machine
<1> HIDE DEF t
<1>2. ValidateEvent(ProviderEvent(t))
  BY <1>1, Limits
  DEF ProviderEvent, Probe, NewEvent, NoPayload, ValidateEvent, FieldsAreSafe, Absent, Overlong,
      NumbersInRange, MaxParameters, IsPlatformProbe, IsPlatformProvider, SuccessIsStatus, Uint32
<1> QED
  BY <1>2 DEF t

LEMMA EkpubValid ==
  ASSUME NEW m \in Machine, ProbePlatformProvider(m).available, ProbePlatformProvider(m).status = 0,
         ProbePlatformProvider(m).ekLength <= 1024, ProbePlatformProvider(m).ekBits <= 16384
  PROVE  ValidateEvent(EkpubEvent(ProbePlatformProvider(m)))
<1> DEFINE t == ProbePlatformProvider(m)
<1>1. t.ekStatus \in Uint32 /\ t.ekLength \in Nat /\ t.ekLength <= 1024
  <2>1. t.ekStatus = 0 \/ t.ekStatus = m.ek.status
    BY DEF ProbePlatformProvider
  <2>2. t.ekLength = 0 \/ t.ekLength = m.ek.length
    BY DEF ProbePlatformProvider
  <2>3. t.ekLength <= 1024
    OBVIOUS
  <2> HIDE DEF t
  <2> QED
    BY <2>1, <2>2, <2>3, EkType, ZeroIsUint32
<1>2. t.ekBits \in Nat /\ t.ekBits <= 16384
  <2>1. t.ekBits = 0 \/ t.ekBits = 8 * m.ek.modulus
    BY DEF ProbePlatformProvider
  <2>2. t.ekBits <= 16384
    OBVIOUS
  <2> HIDE DEF t
  <2> QED
    BY <2>1, <2>2, EkType
<1>3. t.ekKind = Absent \/ t.ekKind = "rsa_public"
  BY DEF ProbePlatformProvider
<1>3a. t.ekStatus # 0 => t.ekKind = Absent /\ t.ekBits = 0
  BY DEF ProbePlatformProvider, IsRsaPublic
<1> HIDE DEF t
<1> DEFINE e == EkpubEvent(t)
<1>4. e.type = "platform_probe" /\ e.state = "pcp_ekpub" /\ e.name = "NCryptGetProperty" /\ e.version = t.ekKind
  BY DEF EkpubEvent, Probe, NewEvent
<1>5. e.status = t.ekStatus /\ e.size = t.ekLength /\ e.code = t.ekBits /\ e.success = {t.ekStatus = 0}
  BY DEF EkpubEvent, Probe, NewEvent
<1>6. e.traced = FALSE /\ e.payload = NoPayload /\ e.digest = NoPayload
      /\ e.length = 0 /\ e.flags = 0 /\ e.parameters = 0
  BY DEF EkpubEvent, Probe, NewEvent
<1> HIDE DEF e
<1>7. e.version \in {Absent, "rsa_public"} /\ e.version # Overlong
  BY <1>3, <1>4 DEF Absent, Overlong
<1>7a. e.status # 0 => e.version = Absent /\ e.code = 0
  BY <1>3a, <1>4, <1>5
<1>7b. IsPcpEkpub(e)
  BY <1>1, <1>2, <1>4, <1>5, <1>7, <1>7a DEF IsPcpEkpub, SuccessIsStatus
<1>8. NumbersInRange(e)
  BY <1>1, <1>2, <1>5, <1>6, Limits DEF NumbersInRange, MaxParameters, Uint32
<1>9. FieldsAreSafe(e)
  BY <1>4, <1>7 DEF FieldsAreSafe, Absent, Overlong
<1>10. ValidateEvent(e)
  BY <1>4, <1>6, <1>7b, <1>8, <1>9 DEF ValidateEvent, IsPlatformProbe
<1> QED
  BY <1>10 DEF e, t

LEMMA CpuValid ==
  ASSUME NEW m \in Machine, ProbeCPU(m).available, ProbeCPU(m).processors <= 256
  PROVE  ValidateEvent(CpuEvent(ProbeCPU(m)))
<1> DEFINE c == ProbeCPU(m)
           e == CpuEvent(c)
<1>1. c.status \in Uint32 /\ c.level \in Nat /\ c.level <= 65535
      /\ c.processors \in Nat /\ c.processors <= 256
  <2>1. c.status \in Uint32
    BY CpuType DEF ProbeCPU
  <2>2. c.level = 0 \/ c.level = m.cpu.level
    BY DEF ProbeCPU
  <2>3. c.processors = 0 \/ c.processors = m.cpu.processors
    BY DEF ProbeCPU
  <2> HIDE DEF c
  <2>4. c.level \in Nat /\ c.level <= 65535 /\ c.processors \in Nat
    BY <2>2, <2>3, CpuType, Uint16Bound
  <2> QED
    BY <2>1, <2>4 DEF c
<1>2. Architecture(c.architecture) \in {"x86", "amd64", "arm64", "unknown"}
  BY DEF Architecture
<1>3. e.type = "platform_probe" /\ e.state = "cpu_information" /\ e.name = "NtQuerySystemInformation"
      /\ e.version = Architecture(c.architecture)
  BY DEF CpuEvent, Probe, NewEvent
<1>4. e.status = c.status /\ e.size = c.processors /\ e.code = c.level /\ e.success = {c.status = 0}
  BY DEF CpuEvent, Probe, NewEvent
<1>5. e.traced = FALSE /\ e.payload = NoPayload /\ e.digest = NoPayload
      /\ e.length = 0 /\ e.flags = 0 /\ e.parameters = 0
  BY DEF CpuEvent, Probe, NewEvent
<1> HIDE DEF c, e
<1>5a. e.version \in {Absent, "x86", "amd64", "arm64", "unknown"} /\ e.version # Overlong
  BY <1>2, <1>3 DEF Absent, Overlong
<1>6. IsCpuInformation(e)
  BY <1>1, <1>3, <1>4, <1>5, <1>5a DEF IsCpuInformation, SuccessIsStatus
<1>7. NumbersInRange(e)
  BY <1>1, <1>4, <1>5, Limits DEF NumbersInRange, MaxParameters, Uint32
<1>8. FieldsAreSafe(e)
  BY <1>3, <1>5a DEF FieldsAreSafe, Absent, Overlong
<1>9. ValidateEvent(e)
  BY <1>3, <1>5, <1>6, <1>7, <1>8 DEF ValidateEvent, IsPlatformProbe
<1> QED
  BY <1>9 DEF c, e

\* The answers about the firmware's table and the drives.
LEMMA FirmwareType ==
  ASSUME NEW m \in Machine
  PROVE  /\ m.firmware.status \in Uint32
         /\ m.firmware.length \in Nat
         /\ m.firmware.structures \in Seq(Structure)
         /\ m.volume.status \in Uint32
         /\ m.volume.extents \in Nat
         /\ m.volume.disk \in Nat
  BY DEF Machine

LEMMA RsmbValid ==
  ASSUME NEW m \in Machine, ProbeRSMB(m).available, ProbeRSMB(m).length <= 65536,
         Len(ProbeRSMB(m).structures) <= MaxParameters
  PROVE  ValidateEvent(RsmbEvent(ProbeRSMB(m)))
<1> DEFINE b == ProbeRSMB(m)
           n == Len(b.structures)
           e == RsmbEvent(b)
<1>1. b.status \in Uint32 /\ b.length \in Nat /\ b.length <= 65536
  <2>1. b.status = 0 \/ b.status = m.firmware.status
    BY DEF ProbeRSMB
  <2>2. b.length = 0 \/ b.length = m.firmware.length
    BY DEF ProbeRSMB
  <2> HIDE DEF b
  <2>3. b.status \in Uint32 /\ b.length \in Nat
    BY <2>1, <2>2, FirmwareType, Limits DEF Uint32
  <2> QED
    BY <2>3 DEF b
<1>2. b.structures = <<>> \/ b.structures = m.firmware.structures
  BY DEF ProbeRSMB
<1>3. n \in Nat /\ n <= 16
  <2>1. n <= 16
    BY DEF MaxParameters
  <2>2. n \in Nat
    BY <1>2, FirmwareType
  <2> QED
    BY <2>1, <2>2
<1>4. e.type = "platform_probe" /\ e.state = "rsmb" /\ e.name = "RSMB" /\ e.version = Absent
  BY DEF RsmbEvent, Probe, NewEvent
<1>5. e.status = b.status /\ e.size = b.length /\ e.parameters = n /\ e.success = {b.status = 0}
  BY DEF RsmbEvent, Probe, NewEvent
<1>6. e.traced = FALSE /\ e.payload = NoPayload /\ e.digest = NoPayload
      /\ e.code = 0 /\ e.length = 0 /\ e.flags = 0
  BY DEF RsmbEvent, Probe, NewEvent
<1> HIDE DEF b, n, e
<1>7. IsRsmb(e)
  BY <1>1, <1>3, <1>4, <1>5, <1>6 DEF IsRsmb, SuccessIsStatus
<1>8. NumbersInRange(e)
  BY <1>1, <1>3, <1>5, <1>6, Limits DEF NumbersInRange, MaxParameters, Uint32
<1>9. FieldsAreSafe(e)
  BY <1>4 DEF FieldsAreSafe, Absent, Overlong
<1>10. ValidateEvent(e)
  BY <1>4, <1>6, <1>7, <1>8, <1>9 DEF ValidateEvent, IsPlatformProbe
<1> QED
  BY <1>10 DEF b, e

LEMMA StructureValid ==
  ASSUME NEW s \in Structure, s.strings <= MaxParameters, s.bytes <= 4096
  PROVE  ValidateEvent(StructureEvent(s))
<1>1. s.type \in 0 .. 255 /\ s.length \in 4 .. 255 /\ s.strings \in Nat /\ s.bytes \in Nat
  BY DEF Structure, Uint8
<1>2. LengthLimit >= 4096
  BY EventsAssumption DEF EventsAssumption
<1> QED
  BY <1>1, <1>2, Limits
  DEF StructureEvent, Probe, NewEvent, NoPayload, ValidateEvent, FieldsAreSafe, Absent, Overlong,
      NumbersInRange, MaxParameters, IsPlatformProbe, IsRsmbStructure

LEMMA VolumeValid ==
  ASSUME NEW m \in Machine, ProbeVolume(m).available,
         ProbeVolume(m).extents <= 64, ProbeVolume(m).disk <= 65535
  PROVE  ValidateEvent(VolumeEvent(ProbeVolume(m)))
<1> DEFINE v == ProbeVolume(m)
<1>1. v.status \in Uint32 /\ v.extents \in Nat /\ v.disk \in Nat /\ v.extents <= 64 /\ v.disk <= 65535
  <2>1. v.status = 0 \/ v.status = m.volume.status
    BY DEF ProbeVolume
  <2>2. v.extents = 0 \/ v.extents = m.volume.extents
    BY DEF ProbeVolume
  <2>3. v.disk = 0 \/ v.disk = m.volume.disk
    BY DEF ProbeVolume
  <2> HIDE DEF v
  <2>4. v.status \in Uint32 /\ v.extents \in Nat /\ v.disk \in Nat
    BY <2>1, <2>2, <2>3, FirmwareType, Limits DEF Uint32
  <2> QED
    BY <2>4 DEF v
<1> HIDE DEF v
<1>2. ValidateEvent(VolumeEvent(v))
  BY <1>1, Limits
  DEF VolumeEvent, Probe, NewEvent, NoPayload, ValidateEvent, FieldsAreSafe, Absent, Overlong,
      NumbersInRange, MaxParameters, IsPlatformProbe, IsVolumeExtents, SuccessIsStatus,
      ResultIfSuccess, Uint32
<1> QED
  BY <1>2 DEF v

LEMMA DriveValid ==
  ASSUME NEW m \in Machine, ProbeDrive(m).available,
         ProbeDrive(m).size <= 65536, ProbeDrive(m).bus <= 127
  PROVE  ValidateEvent(DriveEvent(ProbeDrive(m)))
<1> DEFINE d == ProbeDrive(m)
<1>1. d.status \in Uint32 /\ d.size \in Nat /\ d.bus \in Nat /\ d.offsets \in 0 .. 15
      /\ d.size <= 65536 /\ d.bus <= 127
  <2>1. d.status = 0 \/ d.status = m.drive.status
    BY DEF ProbeDrive
  <2>2. d.size = 0 \/ d.size = m.drive.size
    BY DEF ProbeDrive
  <2>3. d.bus = 0 \/ d.bus = m.drive.bus
    BY DEF ProbeDrive
  <2>4. d.offsets = 0 \/ d.offsets = m.drive.offsets
    BY DEF ProbeDrive
  <2>5. d.size <= 65536 /\ d.bus <= 127
    OBVIOUS
  <2> HIDE DEF d
  <2> QED
    BY <2>1, <2>2, <2>3, <2>4, <2>5, DriveType, ZeroIsUint32
<1> HIDE DEF d
<1>2. ValidateEvent(DriveEvent(d))
  BY <1>1, Limits
  DEF DriveEvent, Probe, NewEvent, NoPayload, ValidateEvent, FieldsAreSafe, Absent, Overlong,
      NumbersInRange, MaxParameters, IsPlatformProbe, IsStorageDescriptor, SuccessIsStatus, Uint32
<1> QED
  BY <1>2 DEF d

LEMMA Concatenation ==
  ASSUME NEW T, NEW s \in Seq(T), NEW t \in Seq(T)
  PROVE  s \o t \in Seq(T)
  OBVIOUS

\* Of a result, ProbeEvents makes events of a set all of which are valid.
LEMMA WhenInSeq ==
  ASSUME NEW T, NEW condition \in BOOLEAN, NEW s, condition => s \in Seq(T)
  PROVE  When(condition, s) \in Seq(T)
<1>1. <<>> \in Seq(T)
  OBVIOUS
<1> QED
  BY <1>1 DEF When

LEMMA WhenValid ==
  ASSUME NEW T, NEW condition \in BOOLEAN, NEW e, condition => e \in T
  PROVE  When(condition, <<e>>) \in Seq(T)
<1>1. condition => <<e>> \in Seq(T)
  OBVIOUS
<1> DEFINE s == <<e>>
<1> HIDE DEF s
<1>2. When(condition, s) \in Seq(T)
  BY <1>1, WhenInSeq DEF s
<1> QED
  BY <1>2 DEF s

\* The parser's bounds are stricter than the server's contract, but for two counts.
LEMMA SmallIsAccepted ==
  ASSUME NEW m \in Machine, NEW version \in Versions,
         WithinBounds(Result(m)), HasSmallTable(Result(m))
  PROVE  IsAccepted(Result(m), version)
<1> DEFINE r == Result(m)
           structures == r.rsmb.structures
           Made == {RuntimeEvent(version), ApiEvent("ntdll", r.dma.available), DmaGuardEvent(r.dma),
                    ApiEvent("ncrypt", r.tpm.available), ProviderEvent(r.tpm), EkpubEvent(r.tpm),
                    CpuEvent(r.cpu), RsmbEvent(r.rsmb), VolumeEvent(r.volume), DriveEvent(r.drive)}
                   \cup {StructureEvent(structures[i]) : i \in DOMAIN structures}
           T == {e \in Made : ValidateEvent(e)}
<1>1. /\ r.dma = ProbeDMA(m) /\ r.tpm = ProbePlatformProvider(m) /\ r.cpu = ProbeCPU(m)
      /\ r.rsmb = ProbeRSMB(m) /\ r.volume = ProbeVolume(m) /\ r.drive = ProbeDrive(m)
  BY DEF Result
<1>2. /\ r.dma.available \in BOOLEAN /\ r.tpm.available \in BOOLEAN /\ r.cpu.available \in BOOLEAN
      /\ r.rsmb.available \in BOOLEAN /\ r.volume.available \in BOOLEAN /\ r.drive.available \in BOOLEAN
  BY <1>1 DEF ProbeDMA, ProbePlatformProvider, ProbeCPU, ProbeRSMB, ProbeVolume, ProbeDrive, Machine
<1> HIDE DEF r
<1>3. WithinBounds(r) /\ HasSmallTable(r)
  BY DEF r
<1>4. RuntimeEvent(version) \in T
  BY RuntimeValid
<1>5. ApiEvent("ntdll", r.dma.available) \in T /\ ApiEvent("ncrypt", r.tpm.available) \in T
  BY <1>2, ApiValid
<1>6. r.dma.available => DmaGuardEvent(r.dma) \in T
  BY <1>1, <1>3, DmaGuardValid DEF WithinBounds
<1>7. r.tpm.available => ProviderEvent(r.tpm) \in T
  BY <1>1, ProviderValid
<1>8. r.tpm.available /\ r.tpm.status = 0 => EkpubEvent(r.tpm) \in T
  BY <1>1, <1>3, EkpubValid DEF WithinBounds
<1>9. r.cpu.available => CpuEvent(r.cpu) \in T
  BY <1>1, <1>3, CpuValid DEF WithinBounds
<1>10. r.rsmb.available => RsmbEvent(r.rsmb) \in T
  BY <1>1, <1>3, RsmbValid DEF WithinBounds, HasSmallTable
<1>11. r.volume.available => VolumeEvent(r.volume) \in T
  BY <1>1, <1>3, VolumeValid DEF WithinBounds
<1>12. r.drive.available => DriveEvent(r.drive) \in T
  BY <1>1, <1>3, DriveValid DEF WithinBounds
<1>13. [i \in DOMAIN structures |-> StructureEvent(structures[i])] \in Seq(T)
  <2>1. structures \in Seq(Structure)
    <3>1. structures = <<>> \/ structures = m.firmware.structures
      BY <1>1 DEF ProbeRSMB
    <3>2. <<>> \in Seq(Structure) /\ m.firmware.structures \in Seq(Structure)
      BY FirmwareType
    <3> HIDE DEF structures
    <3> QED
      BY <3>1, <3>2
  <2>2. ASSUME NEW i \in DOMAIN structures
        PROVE  StructureEvent(structures[i]) \in T
    <3>1. structures[i] \in Structure
      BY <2>1
    <3>2. structures[i].strings <= MaxParameters /\ structures[i].bytes <= 4096
      BY <1>3 DEF WithinBounds, HasSmallTable
    <3> QED
      BY <3>1, <3>2, StructureValid
  <2> HIDE DEF structures, T
  <2> QED
    BY <2>1, <2>2
<1> HIDE DEF T, structures
<1>14. ProbeEvents(r, version) \in Seq(T)
  <2> DEFINE s1 == <<RuntimeEvent(version), ApiEvent("ntdll", r.dma.available)>>
             s2 == When(r.dma.available, <<DmaGuardEvent(r.dma)>>)
             s3 == <<ApiEvent("ncrypt", r.tpm.available)>>
             s4 == When(r.tpm.available, <<ProviderEvent(r.tpm)>>)
             s5 == When(r.tpm.available /\ r.tpm.status = 0, <<EkpubEvent(r.tpm)>>)
             s6 == When(r.cpu.available, <<CpuEvent(r.cpu)>>)
             s7 == When(r.rsmb.available, <<RsmbEvent(r.rsmb)>>)
             s8 == When(r.rsmb.available /\ r.rsmb.status = 0,
                        [i \in DOMAIN structures |-> StructureEvent(structures[i])])
             s9 == When(r.volume.available, <<VolumeEvent(r.volume)>>)
             s10 == When(r.drive.available, <<DriveEvent(r.drive)>>)
  <2>1. s1 \in Seq(T) /\ s3 \in Seq(T)
    BY <1>4, <1>5
  <2>2. s2 \in Seq(T) /\ s4 \in Seq(T) /\ s5 \in Seq(T)
    BY <1>2, <1>6, <1>7, <1>8, WhenValid
  <2>3. s6 \in Seq(T) /\ s7 \in Seq(T) /\ s9 \in Seq(T) /\ s10 \in Seq(T)
    BY <1>2, <1>9, <1>10, <1>11, <1>12, WhenValid
  <2>4. s8 \in Seq(T)
    BY <1>2, <1>13, WhenInSeq
  <2>5. ProbeEvents(r, version) = s1 \o s2 \o s3 \o s4 \o s5 \o s6 \o s7 \o s8 \o s9 \o s10
    BY DEF ProbeEvents, structures
  <2> HIDE DEF s1, s2, s3, s4, s5, s6, s7, s8, s9, s10
  <2>6. s1 \o s2 \o s3 \o s4 \o s5 \in Seq(T)
    BY <2>1, <2>2, Concatenation
  <2>7. (s1 \o s2 \o s3 \o s4 \o s5) \o s6 \o s7 \o s8 \o s9 \o s10 \in Seq(T)
    BY <2>3, <2>4, <2>6, Concatenation
  <2> QED
    BY <2>5, <2>7
<1>15. \A i \in DOMAIN ProbeEvents(r, version) : ValidateEvent(ProbeEvents(r, version)[i])
  BY <1>14 DEF T
<1> QED
  BY <1>3, <1>15 DEF IsAccepted, r

-----------------------------------------------------------------------------
\* The invariant.  A report keeps the attempt that made it, and an attempt that
\* can meet the file of an earlier one began while that one's helper was there.
WaitsForAttempt == pc = "waiting" => Attempt # 0

FileHasWriter == file.whole => file.writer # 0

ReportHasAttempt == report # NoReport => report.attempt # 0

LateIsKnown ==
  pc = "waiting" =>
    \A a \in 1 .. Attempt - 1 :
      helper[a] # "ended" \/ file.writer = a => launched[Attempt].late

IInv ==
  /\ TypeOK
  /\ WaitsForAttempt
  /\ FileHasWriter
  /\ ReportHasAttempt
  /\ LateIsKnown
  /\ ReportIsOfItsAttempt
  /\ RefusedOnlyForCounts

LEMMA ConstantTypes == MaxAttempts \in Nat /\ Machines \subseteq Machine
<1>1. MaxAttempts \in Nat
  BY PlatformProbeAssumption DEF PlatformProbeAssumption
<1>2. Machines \subseteq Machine
  BY PlatformProbeAssumption DEF PlatformProbeAssumption
<1> QED
  BY <1>1, <1>2

LEMMA InitIInv == Init => IInv
<1> SUFFICES ASSUME Init PROVE IInv
  OBVIOUS
<1>1. Attempt = 0 /\ launched = <<>> /\ helper = <<>>
  BY DEF Init, Attempt
<1>2. launched \in Seq([version : Versions, late : BOOLEAN]) /\ helper \in Seq({"probing", "writing", "ended"})
  BY <1>1
<1>3. Len(helper) = Attempt /\ Attempt \in 0 .. MaxAttempts
  BY <1>1, ConstantTypes
<1>4. file \in [writer : 0 .. Attempt, whole : BOOLEAN, open : SUBSET (1 .. Attempt)]
  BY <1>1 DEF Init, NoFile
<1>5. report.attempt \in 0 .. Attempt /\ report.from \in 0 .. Attempt /\ report.events = <<>>
  BY <1>1 DEF Init, NoReport
<1>6. TypeOK
  BY <1>2, <1>3, <1>4, <1>5 DEF Init, TypeOK
<1> QED
  BY <1>6
  DEF Init, IInv, WaitsForAttempt, FileHasWriter, ReportHasAttempt, LateIsKnown, ReportIsOfItsAttempt,
      RefusedOnlyForCounts, NoFile

\* The agent reads what was written: the events are valid, and a refusal has its reason.
LEMMA ReadResultIInv == IInv /\ ReadResult => IInv'
<1> SUFFICES ASSUME IInv, ReadResult PROVE IInv'
  OBVIOUS
<1> DEFINE n == Attempt
           version == launched[n].version
           events == ProbeEvents(Result(machine), version)
<1>1. n \in 1 .. MaxAttempts /\ n' = n /\ machine \in Machine /\ version \in Versions
  <2>1. n \in 1 .. MaxAttempts
    BY ConstantTypes DEF IInv, TypeOK, WaitsForAttempt, ReadResult
  <2>2. n' = n /\ machine \in Machine
    BY ConstantTypes DEF IInv, TypeOK, ReadResult, Attempt
  <2>3. launched[n] \in [version : Versions, late : BOOLEAN]
    <3> DEFINE Starts == [version : Versions, late : BOOLEAN]
    <3>1. launched \in Seq(Starts)
      BY DEF IInv, TypeOK
    <3>2. n \in 1 .. Len(launched)
      BY <2>1, ConstantTypes DEF Attempt
    <3> HIDE DEF n, Starts
    <3>3. launched[n] \in Starts
      BY <3>1, <3>2
    <3> QED
      BY <3>3 DEF Starts
  <2> QED
    BY <2>1, <2>2, <2>3
<1>2. CASE file.whole /\ IsAccepted(Result(machine), version)
  <2>1. report' = [attempt |-> n, from |-> file.writer, events |-> events] /\ pc' = "done" /\ refused' = FALSE
    BY <1>2 DEF ReadResult
  <2>2. TypeOK'
    <3>1. report'.attempt \in 0 .. n /\ report'.from \in 0 .. n
      BY <1>1, <2>1 DEF IInv, TypeOK
    <3>2. file' \in [writer : 0 .. n, whole : BOOLEAN, open : SUBSET (1 .. n)]
      BY <1>1 DEF ReadResult, NoFile
    <3> HIDE DEF n
    <3>3. /\ machine' \in Machines /\ proton' \in Versions /\ n \in 0 .. MaxAttempts
          /\ launched' \in Seq([version : Versions, late : BOOLEAN])
          /\ helper' \in Seq({"probing", "writing", "ended"}) /\ Len(helper') = n
      BY DEF ReadResult, IInv, TypeOK, n
    <3> QED
      BY <1>1, <2>1, <3>1, <3>2, <3>3 DEF TypeOK, n
  <2>3. ReportIsOfItsAttempt'
    <3>1. report'.attempt = n /\ report'.from = file.writer /\ launched' = launched
      BY <2>1 DEF ReadResult
    <3>2. file.writer \in 1 .. n
      BY <1>1, <1>2 DEF IInv, TypeOK, FileHasWriter
    <3>3. file.writer # n => launched[n].late
      BY <1>1, <3>2 DEF ReadResult, IInv, LateIsKnown
    <3> QED
      BY <3>1, <3>3 DEF ReportIsOfItsAttempt
  <2>4. WaitsForAttempt' /\ LateIsKnown' /\ RefusedOnlyForCounts'
    BY <2>1 DEF WaitsForAttempt, LateIsKnown, RefusedOnlyForCounts
  <2>5. FileHasWriter' /\ ReportHasAttempt'
    BY <1>1, <2>1 DEF ReadResult, FileHasWriter, ReportHasAttempt, NoFile
  <2> QED
    BY <2>2, <2>3, <2>4, <2>5 DEF IInv
<1>3. CASE ~(file.whole /\ IsAccepted(Result(machine), version))
  <2>1. report' = report /\ pc' = "idle" /\ refused' = file.whole
    BY <1>3 DEF ReadResult
  <2>2. TypeOK'
    BY <1>1, <2>1 DEF ReadResult, IInv, TypeOK, NoFile, Attempt
  <2>3. RefusedOnlyForCounts'
    <3>1. machine' = machine
      BY DEF ReadResult
    <3>2. refused' => ~(WithinBounds(Result(machine)) /\ HasSmallTable(Result(machine)))
      BY <1>1, <1>3, <2>1, SmallIsAccepted
    <3> QED
      BY <3>1, <3>2 DEF RefusedOnlyForCounts
  <2>4. ReportIsOfItsAttempt' /\ ReportHasAttempt'
    BY <2>1 DEF ReadResult, IInv, ReportIsOfItsAttempt, ReportHasAttempt
  <2>5. WaitsForAttempt' /\ LateIsKnown' /\ FileHasWriter'
    BY <2>1 DEF ReadResult, WaitsForAttempt, LateIsKnown, FileHasWriter, NoFile
  <2> QED
    BY <2>2, <2>3, <2>4, <2>5 DEF IInv
<1> QED
  BY <1>2, <1>3

\* An attempt begins, and finds out whether an earlier helper is late.
LEMMA StartHelperIInv == IInv /\ StartHelper => IInv'
<1> SUFFICES ASSUME IInv, StartHelper PROVE IInv'
  OBVIOUS
<1> DEFINE n == Attempt
           start == [version |-> proton, late |-> IsHelperLate]
<1>1. /\ n \in Nat /\ n < MaxAttempts /\ MaxAttempts \in Nat
      /\ launched \in Seq([version : Versions, late : BOOLEAN])
      /\ helper \in Seq({"probing", "writing", "ended"}) /\ Len(helper) = n /\ n = Len(launched)
  BY PlatformProbeAssumption DEF PlatformProbeAssumption, IInv, TypeOK, StartHelper, Attempt
<1>2. start \in [version : Versions, late : BOOLEAN]
  BY DEF IInv, TypeOK, IsHelperLate
<1> HIDE DEF start
<1>3. launched' = Append(launched, start) /\ helper' = Append(helper, "probing")
  BY DEF StartHelper, start
<1>4. n' = n + 1 /\ Len(helper') = n + 1
  BY <1>1, <1>3 DEF Attempt
<1>5. \A a \in 1 .. n : launched'[a] = launched[a] /\ helper'[a] = helper[a]
  BY <1>1, <1>3
<1>6. launched'[n + 1] = start
  BY <1>1, <1>3
<1>7. TypeOK'
  <2>1. launched' \in Seq([version : Versions, late : BOOLEAN])
    BY <1>1, <1>2, <1>3
  <2>2. helper' \in Seq({"probing", "writing", "ended"})
    BY <1>1, <1>3
  <2> HIDE DEF n
  <2>3. report'.attempt \in 0 .. n + 1 /\ report'.from \in 0 .. n + 1
    BY <1>1 DEF StartHelper, IInv, TypeOK, n
  <2>4. file' \in [writer : 0 .. n + 1, whole : BOOLEAN, open : SUBSET (1 .. n + 1)]
    BY <1>1 DEF StartHelper, NoFile
  <2>5. machine' \in Machines /\ proton' \in Versions /\ pc' = "waiting" /\ refused' \in BOOLEAN
    BY DEF StartHelper, IInv, TypeOK
  <2> QED
    BY <1>1, <1>4, <2>1, <2>2, <2>3, <2>4, <2>5 DEF TypeOK, n
<1>8. LateIsKnown'
  <2> SUFFICES ASSUME NEW a \in 1 .. n, helper'[a] # "ended" \/ file'.writer = a
               PROVE  launched'[n + 1].late
    BY <1>1, <1>4 DEF LateIsKnown
  <2>1. file'.writer = 0
    BY DEF StartHelper, NoFile
  <2>2. helper[a] # "ended" /\ a \in DOMAIN helper
    BY <1>1, <1>5, <2>1
  <2>3. IsHelperLate
    BY <2>2 DEF IsHelperLate
  <2> QED
    BY <1>6, <2>3 DEF start
<1>9. ReportIsOfItsAttempt'
  <2>1. report' = report
    BY DEF StartHelper
  <2>2. report # NoReport => report.attempt \in 1 .. n
    BY <1>1 DEF IInv, TypeOK, ReportHasAttempt
  <2> QED
    BY <1>5, <2>1, <2>2 DEF IInv, ReportIsOfItsAttempt
<1>10. WaitsForAttempt' /\ FileHasWriter' /\ ReportHasAttempt'
  BY <1>1, <1>4 DEF StartHelper, IInv, WaitsForAttempt, FileHasWriter, ReportHasAttempt, NoFile
<1>11. RefusedOnlyForCounts'
  BY DEF StartHelper, IInv, RefusedOnlyForCounts
<1> QED
  BY <1>7, <1>8, <1>9, <1>10, <1>11 DEF IInv

\* A helper, of this attempt or a late one, goes on.
LEMMA HelperIInv ==
  ASSUME IInv, NEW a \in DOMAIN helper, CreateResult(a) \/ WriteResult(a) \/ HelperFails(a)
  PROVE  IInv'
<1> DEFINE n == Attempt
           Stages == {"probing", "writing", "ended"}
<1>1. helper \in Seq(Stages) /\ Len(helper) = n /\ n \in Nat /\ a \in 1 .. n
  BY DEF IInv, TypeOK
<1>2. /\ launched' = launched /\ n' = n /\ report' = report /\ refused' = refused
      /\ machine' = machine /\ proton' = proton /\ pc' = pc
  BY DEF CreateResult, WriteResult, HelperFails, Attempt
<1>3. helper[a] # "ended" /\ \E stage \in Stages : helper' = [helper EXCEPT ![a] = stage]
  BY DEF CreateResult, WriteResult, HelperFails
<1>4. helper' \in Seq(Stages) /\ Len(helper') = n
  BY <1>1, <1>3
<1>5. file' \in [writer : 0 .. n, whole : BOOLEAN, open : SUBSET (1 .. n)] /\ (file'.writer = file.writer \/ file'.writer = a)
  <2> DEFINE Files == [writer : 0 .. n, whole : BOOLEAN, open : SUBSET (1 .. n)]
  <2>1. file \in Files
    BY DEF IInv, TypeOK
  <2> HIDE DEF n
  <2>2. file.open \in SUBSET (1 .. n) /\ a \in 0 .. n
    BY <1>1, <2>1
  <2>3. \A whole \in BOOLEAN, holders \in SUBSET (1 .. n) :
          [writer |-> a, whole |-> whole, open |-> holders] \in Files
    BY <2>2
  <2> DEFINE holders == file.open \cup {a}
  <2>4. holders \in SUBSET (1 .. n)
    BY <1>1, <2>2
  <2>5. CASE CreateResult(a)
    <3>1. file' = [writer |-> a, whole |-> FALSE, open |-> holders]
      BY <2>5 DEF CreateResult
    <3>2. file' \in Files
      BY <2>3, <2>4, <3>1
    <3> QED
      BY <3>1, <3>2
  <2>6. CASE WriteResult(a) \/ HelperFails(a)
    <3>1. file' = file \/ file' = [writer |-> a, whole |-> TRUE, open |-> file.open]
      BY <2>6 DEF WriteResult, HelperFails
    <3>2. [writer |-> a, whole |-> TRUE, open |-> file.open] \in Files
      BY <2>2, <2>3
    <3> HIDE DEF Files
    <3>3. file' \in Files
      BY <2>1, <3>1, <3>2
    <3>4. file'.writer = file.writer \/ file'.writer = a
      BY <3>1
    <3> QED
      BY <3>3, <3>4 DEF Files
  <2> QED
    BY <2>5, <2>6
<1>6. FileHasWriter'
  BY <1>1 DEF IInv, FileHasWriter, TypeOK, CreateResult, WriteResult, HelperFails
<1>7. LateIsKnown'
  <2> SUFFICES ASSUME pc = "waiting", NEW b \in 1 .. n - 1, helper'[b] # "ended" \/ file'.writer = b
               PROVE  launched[n].late
    BY <1>2 DEF LateIsKnown
  <2>1. helper[b] # "ended" \/ file.writer = b
    BY <1>1, <1>3, <1>5
  <2> QED
    BY <2>1 DEF IInv, LateIsKnown
<1>8. TypeOK'
  BY <1>1, <1>2, <1>4, <1>5 DEF IInv, TypeOK
<1>9. WaitsForAttempt' /\ ReportHasAttempt' /\ ReportIsOfItsAttempt'
  BY <1>2 DEF IInv, WaitsForAttempt, ReportHasAttempt, ReportIsOfItsAttempt
<1>10. RefusedOnlyForCounts'
  BY <1>2 DEF IInv, RefusedOnlyForCounts
<1> QED
  BY <1>6, <1>7, <1>8, <1>9, <1>10 DEF IInv

\* The steps that leave launched, helper, report and the answers alone.
LEMMA OtherIInv ==
  ASSUME IInv, \/ \E version \in Versions : SwitchProton(version)
               \/ TimeOut \/ GameStops \/ UNCHANGED vars
  PROVE  IInv'
<1>1. /\ launched' = launched /\ helper' = helper /\ report' = report /\ machine' = machine
      /\ Attempt' = Attempt
  BY DEF SwitchProton, TimeOut, GameStops, vars, Attempt
<1>2. /\ proton' \in Versions /\ pc' \in {"idle", "waiting", "done"} /\ (pc' = "waiting" => pc = "waiting")
      /\ refused' \in BOOLEAN /\ (refused' => refused) /\ (file' = file \/ file' = NoFile)
  <2>1. CASE \E version \in Versions : SwitchProton(version)
    BY <2>1 DEF IInv, TypeOK, SwitchProton
  <2>2. CASE TimeOut
    BY <2>2 DEF IInv, TypeOK, TimeOut
  <2>3. CASE GameStops
    BY <2>3 DEF IInv, TypeOK, GameStops
  <2>4. CASE UNCHANGED vars
    BY <2>4 DEF IInv, TypeOK, vars
  <2> QED
    BY <2>1, <2>2, <2>3, <2>4
<1>3. Attempt \in Nat /\ file' \in [writer : 0 .. Attempt, whole : BOOLEAN, open : SUBSET (1 .. Attempt)]
  <2>1. Attempt \in Nat /\ file \in [writer : 0 .. Attempt, whole : BOOLEAN, open : SUBSET (1 .. Attempt)]
    BY DEF IInv, TypeOK
  <2>2. NoFile \in [writer : 0 .. Attempt, whole : BOOLEAN, open : SUBSET (1 .. Attempt)]
    BY <2>1 DEF NoFile
  <2> QED
    BY <1>2, <2>1, <2>2
<1>4. TypeOK'
  BY <1>1, <1>2, <1>3 DEF IInv, TypeOK
<1>5. LateIsKnown' /\ FileHasWriter'
  BY <1>1, <1>2, <1>3 DEF IInv, LateIsKnown, FileHasWriter, NoFile
<1>6. WaitsForAttempt' /\ ReportHasAttempt' /\ ReportIsOfItsAttempt'
  BY <1>1, <1>2 DEF IInv, WaitsForAttempt, ReportHasAttempt, ReportIsOfItsAttempt
<1>7. RefusedOnlyForCounts'
  BY <1>1, <1>2 DEF IInv, RefusedOnlyForCounts
<1> QED
  BY <1>4, <1>5, <1>6, <1>7 DEF IInv

LEMMA NextIInv == IInv /\ [Next]_vars => IInv'
  BY ReadResultIInv, StartHelperIInv, HelperIInv, OtherIInv DEF Next

-----------------------------------------------------------------------------
\* The elements of a sequence, of a concatenation, and of what is there on a condition.
Elements(s) == {s[i] : i \in DOMAIN s}

LEMMA ConcatElements ==
  ASSUME NEW T, NEW s \in Seq(T), NEW t \in Seq(T)
  PROVE  Elements(s \o t) = Elements(s) \cup Elements(t)
<1>1. DOMAIN s = 1 .. Len(s) /\ DOMAIN t = 1 .. Len(t) /\ Len(s) \in Nat /\ Len(t) \in Nat
  OBVIOUS
<1>2. DOMAIN (s \o t) = 1 .. Len(s) + Len(t)
  OBVIOUS
<1>3. \A i \in 1 .. Len(s) : (s \o t)[i] = s[i]
  OBVIOUS
<1>4. \A i \in 1 .. Len(t) : (s \o t)[Len(s) + i] = t[i]
  OBVIOUS
<1> DEFINE u == s \o t
<1>5. u = s \o t
  OBVIOUS
<1> HIDE DEF u
<1>6. Elements(u) \subseteq Elements(s) \cup Elements(t)
  <2> SUFFICES ASSUME NEW i \in 1 .. Len(s) + Len(t)
               PROVE  u[i] \in Elements(s) \cup Elements(t)
    BY <1>2, <1>5 DEF Elements
  <2>1. CASE i <= Len(s)
    <3>1. i \in 1 .. Len(s)
      BY <1>1, <2>1
    <3> QED BY <1>1, <1>3, <1>5, <3>1 DEF Elements
  <2>2. CASE i > Len(s)
    <3>1. i - Len(s) \in 1 .. Len(t) /\ Len(s) + (i - Len(s)) = i
      BY <1>1, <2>2
    <3>2. u[i] = t[i - Len(s)]
      BY <1>4, <1>5, <3>1
    <3> QED BY <1>1, <3>1, <3>2 DEF Elements
  <2> QED BY <1>1, <2>1, <2>2
<1>7. Elements(s) \subseteq Elements(u)
  <2> SUFFICES ASSUME NEW i \in 1 .. Len(s)
               PROVE  s[i] \in Elements(u)
    BY <1>1 DEF Elements
  <2>1. i \in 1 .. Len(s) + Len(t)
    BY <1>1
  <2> QED BY <1>2, <1>3, <1>5, <2>1 DEF Elements
<1>8. Elements(t) \subseteq Elements(u)
  <2> SUFFICES ASSUME NEW i \in 1 .. Len(t)
               PROVE  t[i] \in Elements(u)
    BY <1>1 DEF Elements
  <2>1. Len(s) + i \in 1 .. Len(s) + Len(t)
    BY <1>1
  <2> QED BY <1>2, <1>4, <1>5, <2>1 DEF Elements
<1> QED BY <1>5, <1>6, <1>7, <1>8

LEMMA WhenElements ==
  ASSUME NEW condition \in BOOLEAN, NEW s
  PROVE  Elements(When(condition, s)) = IF condition THEN Elements(s) ELSE {}
<1>1. Elements(<<>>) = {}
  BY DEF Elements
<1> QED BY <1>1 DEF When

LEMMA SingleElements ==
  ASSUME NEW e
  PROVE  Elements(<<e>>) = {e}
BY DEF Elements

\* The events of a result, one by one.
LEMMA EventsOfResult ==
  ASSUME NEW r, NEW version,
         /\ r.dma.available \in BOOLEAN /\ r.tpm.available \in BOOLEAN /\ r.cpu.available \in BOOLEAN
         /\ r.rsmb.available \in BOOLEAN /\ r.volume.available \in BOOLEAN
         /\ r.drive.available \in BOOLEAN,
         r.rsmb.structures \in Seq(Structure)
  PROVE  \A e : e \in Elements(ProbeEvents(r, version)) <=>
           \/ e = RuntimeEvent(version)
           \/ e = ApiEvent("ntdll", r.dma.available)
           \/ r.dma.available /\ e = DmaGuardEvent(r.dma)
           \/ e = ApiEvent("ncrypt", r.tpm.available)
           \/ r.tpm.available /\ e = ProviderEvent(r.tpm)
           \/ r.tpm.available /\ r.tpm.status = 0 /\ e = EkpubEvent(r.tpm)
           \/ r.cpu.available /\ e = CpuEvent(r.cpu)
           \/ r.rsmb.available /\ e = RsmbEvent(r.rsmb)
           \/ /\ r.rsmb.available /\ r.rsmb.status = 0
              /\ \E i \in DOMAIN r.rsmb.structures : e = StructureEvent(r.rsmb.structures[i])
           \/ r.volume.available /\ e = VolumeEvent(r.volume)
           \/ r.drive.available /\ e = DriveEvent(r.drive)
<1> DEFINE structures == r.rsmb.structures
           all == [i \in DOMAIN structures |-> StructureEvent(structures[i])]
           T == {RuntimeEvent(version), ApiEvent("ntdll", r.dma.available), DmaGuardEvent(r.dma),
                 ApiEvent("ncrypt", r.tpm.available), ProviderEvent(r.tpm), EkpubEvent(r.tpm),
                 CpuEvent(r.cpu), RsmbEvent(r.rsmb), VolumeEvent(r.volume), DriveEvent(r.drive)}
                \cup {StructureEvent(structures[i]) : i \in DOMAIN structures}
           s0 == <<RuntimeEvent(version)>>
           s1 == <<ApiEvent("ntdll", r.dma.available)>>
           s2 == When(r.dma.available, <<DmaGuardEvent(r.dma)>>)
           s3 == <<ApiEvent("ncrypt", r.tpm.available)>>
           s4 == When(r.tpm.available, <<ProviderEvent(r.tpm)>>)
           s5 == When(r.tpm.available /\ r.tpm.status = 0, <<EkpubEvent(r.tpm)>>)
           s6 == When(r.cpu.available, <<CpuEvent(r.cpu)>>)
           s7 == When(r.rsmb.available, <<RsmbEvent(r.rsmb)>>)
           s8 == When(r.rsmb.available /\ r.rsmb.status = 0, all)
           s9 == When(r.volume.available, <<VolumeEvent(r.volume)>>)
           s10 == When(r.drive.available, <<DriveEvent(r.drive)>>)
<1>1. all \in Seq(T) /\ DOMAIN all = DOMAIN structures
  <2>1. \A i \in DOMAIN structures : StructureEvent(structures[i]) \in T
    OBVIOUS
  <2> HIDE DEF T, structures
  <2>2. structures \in Seq(Structure)
    BY DEF structures
  <2> QED BY <2>1, <2>2
<1>2. /\ s0 \in Seq(T) /\ s1 \in Seq(T) /\ s2 \in Seq(T) /\ s3 \in Seq(T) /\ s4 \in Seq(T)
      /\ s5 \in Seq(T) /\ s6 \in Seq(T) /\ s7 \in Seq(T) /\ s9 \in Seq(T) /\ s10 \in Seq(T)
  <2>1. s0 \in Seq(T) /\ s1 \in Seq(T) /\ s3 \in Seq(T)
    OBVIOUS
  <2>2. s2 \in Seq(T) /\ s4 \in Seq(T) /\ s5 \in Seq(T)
    BY WhenValid
  <2>3. s6 \in Seq(T) /\ s7 \in Seq(T)
    BY WhenValid
  <2>4. s9 \in Seq(T) /\ s10 \in Seq(T)
    BY WhenValid
  <2> QED BY <2>1, <2>2, <2>3, <2>4
<1>3. s8 \in Seq(T)
  BY <1>1, WhenInSeq
<1>4. Elements(all) = {StructureEvent(structures[i]) : i \in DOMAIN structures}
  BY DEF Elements
<1>5. ProbeEvents(r, version) = s0 \o s1 \o s2 \o s3 \o s4 \o s5 \o s6 \o s7 \o s8 \o s9 \o s10
  <2>1. <<RuntimeEvent(version), ApiEvent("ntdll", r.dma.available)>> = s0 \o s1
    OBVIOUS
  <2> QED BY <2>1 DEF ProbeEvents
<1>6. /\ Elements(s0) = {RuntimeEvent(version)}
      /\ Elements(s1) = {ApiEvent("ntdll", r.dma.available)}
      /\ Elements(s2) = IF r.dma.available THEN {DmaGuardEvent(r.dma)} ELSE {}
      /\ Elements(s3) = {ApiEvent("ncrypt", r.tpm.available)}
      /\ Elements(s4) = IF r.tpm.available THEN {ProviderEvent(r.tpm)} ELSE {}
      /\ Elements(s5) = IF r.tpm.available /\ r.tpm.status = 0 THEN {EkpubEvent(r.tpm)} ELSE {}
      /\ Elements(s6) = IF r.cpu.available THEN {CpuEvent(r.cpu)} ELSE {}
      /\ Elements(s7) = IF r.rsmb.available THEN {RsmbEvent(r.rsmb)} ELSE {}
      /\ Elements(s9) = IF r.volume.available THEN {VolumeEvent(r.volume)} ELSE {}
      /\ Elements(s10) = IF r.drive.available THEN {DriveEvent(r.drive)} ELSE {}
  BY SingleElements, WhenElements
<1>7. Elements(s8) = IF r.rsmb.available /\ r.rsmb.status = 0 THEN Elements(all) ELSE {}
  BY WhenElements
<1>8. Elements(ProbeEvents(r, version)) =
        Elements(s0) \cup Elements(s1) \cup Elements(s2) \cup Elements(s3) \cup Elements(s4)
        \cup Elements(s5) \cup Elements(s6) \cup Elements(s7) \cup Elements(s8)
        \cup Elements(s9) \cup Elements(s10)
  <2> HIDE DEF T, s0, s1, s2, s3, s4, s5, s6, s7, s8, s9, s10
  <2> DEFINE t1 == s0 \o s1
             t2 == t1 \o s2
             t3 == t2 \o s3
             t4 == t3 \o s4
             t5 == t4 \o s5
             t6 == t5 \o s6
             t7 == t6 \o s7
             t8 == t7 \o s8
             t9 == t8 \o s9
             t10 == t9 \o s10
  <2>1. ProbeEvents(r, version) = t10
    BY <1>5
  <2>2. t1 \in Seq(T) /\ Elements(t1) = Elements(s0) \cup Elements(s1)
    BY <1>2, ConcatElements, Concatenation
  <2> HIDE DEF t1
  <2>3. t2 \in Seq(T) /\ Elements(t2) = Elements(t1) \cup Elements(s2)
    BY <1>2, <2>2, ConcatElements, Concatenation
  <2> HIDE DEF t2
  <2>4. t3 \in Seq(T) /\ Elements(t3) = Elements(t2) \cup Elements(s3)
    BY <1>2, <2>3, ConcatElements, Concatenation
  <2> HIDE DEF t3
  <2>5. t4 \in Seq(T) /\ Elements(t4) = Elements(t3) \cup Elements(s4)
    BY <1>2, <2>4, ConcatElements, Concatenation
  <2> HIDE DEF t4
  <2>6. t5 \in Seq(T) /\ Elements(t5) = Elements(t4) \cup Elements(s5)
    BY <1>2, <2>5, ConcatElements, Concatenation
  <2> HIDE DEF t5
  <2>7. t6 \in Seq(T) /\ Elements(t6) = Elements(t5) \cup Elements(s6)
    BY <1>2, <2>6, ConcatElements, Concatenation
  <2> HIDE DEF t6
  <2>8. t7 \in Seq(T) /\ Elements(t7) = Elements(t6) \cup Elements(s7)
    BY <1>2, <2>7, ConcatElements, Concatenation
  <2> HIDE DEF t7
  <2>9. t8 \in Seq(T) /\ Elements(t8) = Elements(t7) \cup Elements(s8)
    BY <1>3, <2>8, ConcatElements, Concatenation
  <2> HIDE DEF t8
  <2>10. t9 \in Seq(T) /\ Elements(t9) = Elements(t8) \cup Elements(s9)
    BY <1>2, <2>9, ConcatElements, Concatenation
  <2> HIDE DEF t9
  <2>11. Elements(t10) = Elements(t9) \cup Elements(s10)
    BY <1>2, <2>10, ConcatElements
  <2> HIDE DEF t10
  <2> QED BY <2>1, <2>2, <2>3, <2>4, <2>5, <2>6, <2>7, <2>8, <2>9, <2>10, <2>11
<1> HIDE DEF s0, s1, s2, s3, s4, s5, s6, s7, s8, s9, s10, all
<1> QED BY <1>4, <1>6, <1>7, <1>8

-----------------------------------------------------------------------------
\* What an event tells of a call that failed: its status, and a length at most.
TellsOnlyStatus(e) ==
  e.success = {FALSE} =>
    /\ e.code = 0 /\ e.flags = 0 /\ e.parameters = 0 /\ e.result = {}
    /\ e.size = 0 \/ e.state \in {"dma_guard", "pcp_ekpub"}

\* The state of each event.
LEMMA EventStates ==
  /\ \A version : RuntimeEvent(version).state = "runtime"
  /\ \A name, isAvailable : ApiEvent(name, isAvailable).state = "api"
  /\ \A d : DmaGuardEvent(d).state = "dma_guard"
  /\ \A t : ProviderEvent(t).state = "platform_provider" /\ EkpubEvent(t).state = "pcp_ekpub"
  /\ \A c : CpuEvent(c).state = "cpu_information"
  /\ \A b : RsmbEvent(b).state = "rsmb"
  /\ \A s : StructureEvent(s).state = "rsmb_structure"
  /\ \A v : VolumeEvent(v).state = "volume_extents"
  /\ \A d : DriveEvent(d).state = "storage_descriptor"
BY DEF Probe, NewEvent, RuntimeEvent, ApiEvent, DmaGuardEvent, ProviderEvent, EkpubEvent, CpuEvent,
       RsmbEvent, StructureEvent, VolumeEvent, DriveEvent

\* An event that says nothing of success tells of no call that failed.
LEMMA NoCallFailed ==
  /\ \A version : TellsOnlyStatus(RuntimeEvent(version))
  /\ \A name, isAvailable : TellsOnlyStatus(ApiEvent(name, isAvailable))
  /\ \A s : TellsOnlyStatus(StructureEvent(s))
BY DEF TellsOnlyStatus, Probe, NewEvent, RuntimeEvent, ApiEvent, StructureEvent

LEMMA DmaGuardTells == ASSUME NEW m PROVE TellsOnlyStatus(DmaGuardEvent(ProbeDMA(m)))
<1> DEFINE d == ProbeDMA(m)
           e == DmaGuardEvent(d)
<1>1. d.status # 0 => d.policy = {}
  BY DEF ProbeDMA
<1>2. /\ e.code = 0 /\ e.flags = 0 /\ e.parameters = 0 /\ e.result = d.policy
      /\ e.state = "dma_guard"
  BY DEF DmaGuardEvent, Probe, NewEvent
<1>3. e.success = {d.status = 0}
  BY DEF DmaGuardEvent, Probe, NewEvent
<1> HIDE DEF e, d
<1>4. e.success = {FALSE} => d.status # 0
  BY <1>3
<1>5. TellsOnlyStatus(e)
  BY <1>1, <1>2, <1>4 DEF TellsOnlyStatus
<1> QED BY <1>5 DEF e, d

LEMMA ProviderTells == ASSUME NEW t PROVE TellsOnlyStatus(ProviderEvent(t))
BY DEF TellsOnlyStatus, ProviderEvent, Probe, NewEvent

LEMMA EkpubTells == ASSUME NEW m PROVE TellsOnlyStatus(EkpubEvent(ProbePlatformProvider(m)))
<1> DEFINE t == ProbePlatformProvider(m)
           e == EkpubEvent(t)
<1>1. t.ekStatus # 0 => t.ekBits = 0
  BY DEF ProbePlatformProvider, IsRsaPublic
<1>2. /\ e.code = t.ekBits /\ e.flags = 0 /\ e.parameters = 0 /\ e.result = {}
      /\ e.state = "pcp_ekpub"
  BY DEF EkpubEvent, Probe, NewEvent
<1>3. e.success = {t.ekStatus = 0}
  BY DEF EkpubEvent, Probe, NewEvent
<1> HIDE DEF e, t
<1>4. e.success = {FALSE} => t.ekStatus # 0
  BY <1>3
<1>5. TellsOnlyStatus(e)
  BY <1>1, <1>2, <1>4 DEF TellsOnlyStatus
<1> QED BY <1>5 DEF e, t

LEMMA CpuTells == ASSUME NEW m PROVE TellsOnlyStatus(CpuEvent(ProbeCPU(m)))
<1> DEFINE c == ProbeCPU(m)
           e == CpuEvent(c)
<1>1. c.status # 0 => c.level = 0 /\ c.processors = 0
  BY DEF ProbeCPU
<1>2. e.code = c.level /\ e.flags = 0 /\ e.parameters = 0 /\ e.result = {} /\ e.size = c.processors
  BY DEF CpuEvent, Probe, NewEvent
<1>3. e.success = {c.status = 0}
  BY DEF CpuEvent, Probe, NewEvent
<1> HIDE DEF e, c
<1>4. e.success = {FALSE} => c.status # 0
  BY <1>3
<1>5. TellsOnlyStatus(e)
  BY <1>1, <1>2, <1>4 DEF TellsOnlyStatus
<1> QED BY <1>5 DEF e, c

LEMMA RsmbTells == ASSUME NEW m PROVE TellsOnlyStatus(RsmbEvent(ProbeRSMB(m)))
<1> DEFINE b == ProbeRSMB(m)
           e == RsmbEvent(b)
<1>1. b.status # 0 => b.length = 0 /\ b.structures = <<>>
  BY DEF ProbeRSMB
<1>2. e.code = 0 /\ e.flags = 0 /\ e.parameters = Len(b.structures) /\ e.result = {} /\ e.size = b.length
  BY DEF RsmbEvent, Probe, NewEvent
<1>3. e.success = {b.status = 0}
  BY DEF RsmbEvent, Probe, NewEvent
<1> HIDE DEF e, b
<1>4. e.success = {FALSE} => b.status # 0
  BY <1>3
<1>5. TellsOnlyStatus(e)
  BY <1>1, <1>2, <1>4 DEF TellsOnlyStatus
<1> QED BY <1>5 DEF e, b

LEMMA VolumeTells == ASSUME NEW m PROVE TellsOnlyStatus(VolumeEvent(ProbeVolume(m)))
<1> DEFINE v == ProbeVolume(m)
           e == VolumeEvent(v)
<1>1. v.status # 0 => v.disk = 0 /\ v.extents = 0
  BY DEF ProbeVolume
<1>2. /\ e.code = v.disk /\ e.flags = 0 /\ e.parameters = 0 /\ e.size = v.extents
      /\ e.result = IF v.status = 0 THEN {v.atZero} ELSE {}
  BY DEF VolumeEvent, Probe, NewEvent
<1>3. e.success = {v.status = 0}
  BY DEF VolumeEvent, Probe, NewEvent
<1> HIDE DEF e, v
<1>4. e.success = {FALSE} => v.status # 0
  BY <1>3
<1>5. TellsOnlyStatus(e)
  BY <1>1, <1>2, <1>4 DEF TellsOnlyStatus
<1> QED BY <1>5 DEF e, v

LEMMA DriveTells == ASSUME NEW m PROVE TellsOnlyStatus(DriveEvent(ProbeDrive(m)))
<1> DEFINE d == ProbeDrive(m)
           e == DriveEvent(d)
<1>1. d.status # 0 => d.size = 0 /\ d.bus = 0 /\ d.offsets = 0
  BY DEF ProbeDrive
<1>2. e.code = d.bus /\ e.flags = d.offsets /\ e.parameters = 0 /\ e.result = {} /\ e.size = d.size
  BY DEF DriveEvent, Probe, NewEvent
<1>3. e.success = {d.status = 0}
  BY DEF DriveEvent, Probe, NewEvent
<1> HIDE DEF e, d
<1>4. e.success = {FALSE} => d.status # 0
  BY <1>3
<1>5. TellsOnlyStatus(e)
  BY <1>1, <1>2, <1>4 DEF TellsOnlyStatus
<1> QED BY <1>5 DEF e, d

\* The events of the machine's result tell of each call the helper could make,
\* and of one that failed its status only.
LEMMA EventsTellCalls ==
  ASSUME machine \in Machine, NEW version
  PROVE  /\ Called = {e.state : e \in Elements(ProbeEvents(Result(machine), version))}
                       \ {"api", "rsmb_structure"}
         /\ \A e \in Elements(ProbeEvents(Result(machine), version)) : TellsOnlyStatus(e)
<1> PICK m \in Machine : m = machine
  OBVIOUS
<1> DEFINE r == Result(m)
           events == Elements(ProbeEvents(r, version))
<1>1. /\ r.dma = ProbeDMA(m) /\ r.tpm = ProbePlatformProvider(m) /\ r.cpu = ProbeCPU(m)
      /\ r.rsmb = ProbeRSMB(m) /\ r.volume = ProbeVolume(m) /\ r.drive = ProbeDrive(m)
  BY DEF Result
<1> HIDE DEF r
<1>2. /\ r.dma.available <=> "ntdll" \in m.apis
      /\ r.cpu.available <=> "ntdll" \in m.apis
      /\ r.rsmb.available <=> "ntdll" \in m.apis
      /\ r.tpm.available <=> "ncrypt" \in m.apis
      /\ r.volume.available <=> "kernel32" \in m.apis /\ m.volume.opens
      /\ r.drive.available <=> "kernel32" \in m.apis /\ m.drive.opens
  <2>1. ProbeDMA(m).available <=> "ntdll" \in m.apis
    BY DEF ProbeDMA
  <2>2. ProbeCPU(m).available <=> "ntdll" \in m.apis
    BY DEF ProbeCPU
  <2>3. ProbeRSMB(m).available <=> "ntdll" \in m.apis
    BY DEF ProbeRSMB
  <2>4. ProbePlatformProvider(m).available <=> "ncrypt" \in m.apis
    BY DEF ProbePlatformProvider
  <2>5. ProbeVolume(m).available <=> "kernel32" \in m.apis /\ m.volume.opens
    BY DEF ProbeVolume
  <2>6. ProbeDrive(m).available <=> "kernel32" \in m.apis /\ m.drive.opens
    BY DEF ProbeDrive
  <2> QED BY <1>1, <2>1, <2>2, <2>3, <2>4, <2>5, <2>6
<1>3. r.tpm.available => r.tpm.status = m.provider
  <2>1. ProbePlatformProvider(m).available => ProbePlatformProvider(m).status = m.provider
    BY DEF ProbePlatformProvider
  <2> QED BY <1>1, <2>1
<1>4. m.volume.opens \in BOOLEAN /\ m.drive.opens \in BOOLEAN
  BY DEF Machine
<1>5. r.rsmb.structures \in Seq(Structure)
  <2>1. r.rsmb.structures = <<>> \/ r.rsmb.structures = m.firmware.structures
    BY <1>1 DEF ProbeRSMB
  <2>2. <<>> \in Seq(Structure) /\ m.firmware.structures \in Seq(Structure)
    BY FirmwareType
  <2> QED BY <2>1, <2>2
<1>6. /\ r.dma.available \in BOOLEAN /\ r.tpm.available \in BOOLEAN /\ r.cpu.available \in BOOLEAN
      /\ r.rsmb.available \in BOOLEAN /\ r.volume.available \in BOOLEAN
      /\ r.drive.available \in BOOLEAN
  <2>1. /\ ProbeDMA(m).available \in BOOLEAN /\ ProbePlatformProvider(m).available \in BOOLEAN
        /\ ProbeCPU(m).available \in BOOLEAN /\ ProbeRSMB(m).available \in BOOLEAN
        /\ ProbeVolume(m).available \in BOOLEAN /\ ProbeDrive(m).available \in BOOLEAN
    BY <1>4 DEF ProbeDMA, ProbePlatformProvider, ProbeCPU, ProbeRSMB, ProbeVolume, ProbeDrive
  <2> QED BY <1>1, <2>1
<1>7. \A e : e \in events <=>
           \/ e = RuntimeEvent(version)
           \/ e = ApiEvent("ntdll", r.dma.available)
           \/ r.dma.available /\ e = DmaGuardEvent(r.dma)
           \/ e = ApiEvent("ncrypt", r.tpm.available)
           \/ r.tpm.available /\ e = ProviderEvent(r.tpm)
           \/ r.tpm.available /\ r.tpm.status = 0 /\ e = EkpubEvent(r.tpm)
           \/ r.cpu.available /\ e = CpuEvent(r.cpu)
           \/ r.rsmb.available /\ e = RsmbEvent(r.rsmb)
           \/ /\ r.rsmb.available /\ r.rsmb.status = 0
              /\ \E i \in DOMAIN r.rsmb.structures : e = StructureEvent(r.rsmb.structures[i])
           \/ r.volume.available /\ e = VolumeEvent(r.volume)
           \/ r.drive.available /\ e = DriveEvent(r.drive)
  BY <1>5, <1>6, EventsOfResult
<1> HIDE DEF events
<1>8. \A e \in events : TellsOnlyStatus(e)
  BY <1>1, <1>7, NoCallFailed, DmaGuardTells, ProviderTells, EkpubTells, CpuTells, RsmbTells,
     VolumeTells, DriveTells
<1> DEFINE Told == {e.state : e \in events} \ {"api", "rsmb_structure"}
<1>9. Called =
        {"runtime"}
        \cup (IF r.dma.available THEN {"dma_guard", "cpu_information", "rsmb"} ELSE {})
        \cup (IF r.tpm.available THEN {"platform_provider"} ELSE {})
        \cup (IF r.tpm.available /\ r.tpm.status = 0 THEN {"pcp_ekpub"} ELSE {})
        \cup (IF r.volume.available THEN {"volume_extents"} ELSE {})
        \cup (IF r.drive.available THEN {"storage_descriptor"} ELSE {})
  BY <1>2, <1>3 DEF Called
<1>10. (r.cpu.available <=> r.dma.available) /\ (r.rsmb.available <=> r.dma.available)
  BY <1>2
<1>11. \A e \in events : e.state \in Called \cup {"api", "rsmb_structure"}
  BY <1>7, <1>9, <1>10, EventStates
<1>12. "api" \notin Called /\ "rsmb_structure" \notin Called
  BY <1>9
<1>13. Called \subseteq Told
  <2> SUFFICES ASSUME NEW state \in Called PROVE \E e \in events : e.state = state
    BY <1>12
  <2>1. CASE state = "runtime"
    BY <1>7, <2>1, EventStates
  <2>2. CASE r.dma.available /\ state \in {"dma_guard", "cpu_information", "rsmb"}
    <3>1. /\ DmaGuardEvent(r.dma) \in events /\ CpuEvent(r.cpu) \in events
          /\ RsmbEvent(r.rsmb) \in events
      BY <1>7, <1>10, <2>2
    <3> QED BY <2>2, <3>1, EventStates
  <2>3. CASE r.tpm.available /\ state = "platform_provider"
    BY <1>7, <2>3, EventStates
  <2>4. CASE r.tpm.available /\ r.tpm.status = 0 /\ state = "pcp_ekpub"
    BY <1>7, <2>4, EventStates
  <2>5. CASE r.volume.available /\ state = "volume_extents"
    BY <1>7, <2>5, EventStates
  <2>6. CASE r.drive.available /\ state = "storage_descriptor"
    BY <1>7, <2>6, EventStates
  <2> QED BY <1>9, <2>1, <2>2, <2>3, <2>4, <2>5, <2>6
<1>14. Told \subseteq Called
  BY <1>11
<1>15. Called = Told
  BY <1>13, <1>14
<1> QED BY <1>8, <1>15 DEF events, r

LEMMA NextTells == IInv /\ ReportTellsEachCall /\ [Next]_vars => ReportTellsEachCall'
<1> SUFFICES ASSUME IInv, ReportTellsEachCall, [Next]_vars PROVE ReportTellsEachCall'
  OBVIOUS
<1>1. machine' = machine
  BY DEF Next, vars, SwitchProton, CreateResult, WriteResult, HelperFails, StartHelper, ReadResult,
         TimeOut, GameStops
<1>2. Called' = Called
  BY <1>1 DEF Called
<1>3. CASE report' = report
  <2>1. Reported' = Reported
    BY <1>3 DEF Reported
  <2> QED BY <1>2, <1>3, <2>1 DEF ReportTellsEachCall
<1>4. CASE report' # report
  <2>1. ReadResult
    BY <1>4 DEF Next, vars, SwitchProton, CreateResult, WriteResult, HelperFails, StartHelper,
                TimeOut, GameStops
  <2> DEFINE version == launched[Attempt].version
  <2>2. report' = [attempt |-> Attempt, from |-> file.writer,
                   events |-> ProbeEvents(Result(machine), version)]
    BY <1>4, <2>1 DEF ReadResult
  <2>3. Reported' = Elements(ProbeEvents(Result(machine), version))
    BY <2>2 DEF Reported, Elements
  <2>4. machine \in Machine
    BY ConstantTypes DEF IInv, TypeOK
  <2> HIDE DEF version
  <2>5. /\ Called = {e.state : e \in Reported'} \ {"api", "rsmb_structure"}
        /\ \A e \in Reported' : TellsOnlyStatus(e)
    BY <2>3, <2>4, EventsTellCalls
  <2> QED BY <1>2, <2>5 DEF ReportTellsEachCall, TellsOnlyStatus
<1> QED BY <1>3, <1>4

-----------------------------------------------------------------------------
\* Every reachable state satisfies the invariant.
THEOREM Invariant == Spec => []IInv
<1> QED
  BY InitIInv, NextIInv, PTL DEF Spec

\* Type correctness.
THEOREM TypeCorrect == Spec => []TypeOK
<1>1. IInv => TypeOK
  BY DEF IInv
<1> QED
  BY <1>1, Invariant, PTL

\* Whatever the machine answers, a result within the parser's bounds is refused
\* only for more than 16 structures, or 16 strings of one.
THEOREM RefusalsHaveTheirReason == Spec => []RefusedOnlyForCounts
<1>1. IInv => RefusedOnlyForCounts
  BY DEF IInv
<1> QED
  BY <1>1, Invariant, PTL

\* With any number of attempts and late helpers, a report that is made of another
\* attempt's file was made by an attempt that began while a helper was late.
THEOREM ReportsAreOfTheirAttempt == Spec => []ReportIsOfItsAttempt
<1>1. IInv => ReportIsOfItsAttempt
  BY DEF IInv
<1> QED
  BY <1>1, Invariant, PTL

\* A report tells of each call the helper could make on this machine, and of no
\* other; of a call that failed it tells the status, and nothing that the call
\* might have left behind but the two lengths Windows returns even then.
THEOREM ReportsTellEachCall == Spec => []ReportTellsEachCall
<1>1. Init => ReportTellsEachCall
  BY DEF Init, ReportTellsEachCall
<1> QED
  BY <1>1, NextTells, Invariant, PTL DEF Spec
=============================================================================
