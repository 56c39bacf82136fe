-------------------------- MODULE PlatformProfile --------------------------
(***************************************************************************)
(* The platform profile: what startRun says of the machine, read from      *)
(* sysfs, procfs and the file system once per run.                         *)
(*                                                                         *)
(* A host is what is found there.  A text is known by its length, 0 if it  *)
(* cannot be read; of a name only its beginning matters, so it is a        *)
(* sequence; what identifies the host is a set: {} if it cannot be read.   *)
(***************************************************************************)
EXTENDS Events, FiniteSetsExt, SequencesExt, TLC

CONSTANT SizeLimit \* 1 << 60, the bound of sizes

ProfileEvent(state, name) ==
  [NewEvent("platform_profile", state) EXCEPT !.name = name] @@ NoDetails

\* One fact, in the field that fits it.
Says(state, name, result)    == [ProfileEvent(state, name) EXCEPT !.result = {result}]
Sized(state, name, size)     == [ProfileEvent(state, name) EXCEPT !.size = size]
Versioned(state, name, word) == [ProfileEvent(state, name) EXCEPT !.version = word]

\* A file, {} or {its size}, and whether it is there (or can be read).
File(state, name, file, result) ==
  [Says(state, name, result) EXCEPT !.size = IF file = {} THEN 0 ELSE CHOOSE s \in file : TRUE]

\* safeVersion: a word that is not one of at most 64 harmless characters is unknown.
SafeVersion(word) == IF word \in {Overlong, "unsafe"} THEN "unknown" ELSE word

VersionIfAny(state, name, word) ==
  IF word = Absent THEN <<>> ELSE <<Versioned(state, name, SafeVersion(word))>>

\* Mutant of SafePlatformText: the text as it was read.
WholePlatformText(length) == length

\* safePlatformText: a byte for a character, and no more than 128.
SafePlatformText(length) == Min({length, TextLimit})

TextIfAny(state, name, length) ==
  IF length = 0 THEN <<>>
  ELSE <<[ProfileEvent(state, name) EXCEPT !.text = SafePlatformText(length)]>>

\* An event for each of some names, in an order nobody relies on.
ForEach(names, Op(_)) == [i \in 1 .. Cardinality(names) |-> Op(SetToSeq(names)[i])]

-----------------------------------------------------------------------------
(* The parts of a profile.                                                 *)

Dmi(host) ==
  TextIfAny("dmi", "product_name", host.product) \o TextIfAny("dmi", "sys_vendor", host.vendor)

\* Mutant of Identity: the value itself.
IdentityItself(host) ==
  ForEach(DOMAIN host.serials,
    LAMBDA name : [Says("identity_readable", name, host.serials[name] # {}) EXCEPT
                     !.version = IF host.serials[name] = {} THEN Absent
                                 ELSE CHOOSE s \in host.serials[name] : TRUE])

Identity(host) ==
  ForEach(DOMAIN host.serials,
    LAMBDA name : Says("identity_readable", name, host.serials[name] # {}))

Acpi(host) ==
  ForEach(DOMAIN host.acpi, LAMBDA name : File("acpi", name, host.acpi[name], host.acpi[name] # {}))

Devices(host) ==
  ForEach({"tpm0", "tpmrm0", "physicaldrive0", "nvadmindevice", "machine_id"},
    LAMBDA name : Says("device", name, name \in host.devices))
  \o ForEach({"tpm0", "tpmrm0"},
       LAMBDA name : Says("device_readable", name, name \in host.readable))

\* cpuProfileAt: a core counts once, however many threads it has, if its package is known.
CpuProfile(host) ==
  LET known == {c \in host.cpus : c.package # Absent}
  IN  <<Sized("cpu", "logical_cpus", Cardinality(host.cpus))>>
      \o TextIfAny("cpu", "model_name", host.model)
      \o VersionIfAny("cpu", "stepping", host.stepping)
      \o <<Versioned("cpu", "architecture", "amd64"),
           Sized("cpu", "physical_cores",
             Cardinality({<<c.package, c.core>> : c \in {d \in known : d.core # Absent}})),
           Sized("cpu", "packages", Cardinality({c.package : c \in known}))>>

\* Mutant of IsLength: an entry whose length is 0 or unreadable has one.
AnyLength(length) == TRUE

IsLength(length) == length \in 1 .. 255

\* smbiosShapeAt: the entries of each type, and whether the lengths of all could be read.
SmbiosShape(host) ==
  LET Type(e)  == e.type
      types    == {e.type : e \in Range(host.entries)}
      Of(type) == SelectSeq(host.entries, LAMBDA e : Type(e) = type)
      Long(type) == SelectSeq(Of(type), LAMBDA e : IsLength(e.length))
  IN  <<Sized("smbios", "structure_types", Cardinality(types)),
        File("smbios", "raw_table", host.table, host.table # {} /\ host.isTableReadable)>>
      \o ForEach(types,
           LAMBDA t : [Says("smbios", "type_" \o ToString(t), Len(Long(t)) = Len(Of(t))) EXCEPT
                         !.size = Len(Of(t)),
                         !.length = FoldLeft(LAMBDA sum, e : sum + e.length, 0, Long(t))])

MaxDisks == 8

\* Mutant of PartitionsOf: the partitions of all disks.
AllPartitions(host, disk) == {n \in Range(host.block) : n.isPartition}

\* Glob(path + "*"): whatever begins with the disk's name.
PartitionsOf(host, disk) ==
  {n \in Range(host.block) : n.isPartition /\ IsPrefix(disk.name, n.name)}

Disks(host) ==
  LET disks == SelectSeq(host.block, LAMBDA n : ~n.isPartition /\ n.hasDevice)
  IN  SubSeq(disks, 1, Min({Len(disks), MaxDisks}))

\* Mutant of DiskFact: a disk is known by whether it is removable.
DiskFactOfKind(i, disk, property) ==
  (IF disk.isRemovable THEN "removable." ELSE "disk.") \o property

\* The name of a fact about the i-th disk.
DiskFact(i, disk, property) == "disk" \o ToString(i - 1) \o "." \o property

\* storageProfileAt.
StorageProfile(host) ==
  LET Of(i) ==
        LET disk == Disks(host)[i]
            Name(property) == DiskFact(i, disk, property)
        IN  TextIfAny("storage", Name("model"), disk.model)
            \o (IF disk.sectors <= SizeLimit \div 512
                THEN <<Sized("storage", Name("bytes"), disk.sectors * 512)>> ELSE <<>>)
            \o <<Sized("storage", Name("partitions"), Cardinality(PartitionsOf(host, disk))),
                 Says("storage", Name("removable"), disk.isRemovable)>>
            \o VersionIfAny("storage", Name("transport"), disk.transport)
  IN  <<Sized("storage", "disk_count", Len(Disks(host)))>>
      \o FlattenSeq([i \in DOMAIN Disks(host) |-> Of(i)])

\* firmwareProfileAt: an EFI variable has four bytes of attributes in front of its value.
FirmwareProfile(host) ==
  <<Says("firmware", "efi", host.isEfi), Says("firmware", "secure_boot_variable", host.secureBoot # {})>>
  \o FlattenSeq(ForEach(host.secureBoot,
       LAMBDA v : <<Says("firmware", "secure_boot_readable", v.bytes = 5)>>
                  \o IF v.bytes = 5 THEN <<Says("firmware", "secure_boot_enabled", v.value = 1)>>
                     ELSE <<>>))
  \o (IF host.lockdown = Absent THEN <<>>
      ELSE <<Versioned("firmware", "lockdown", host.lockdown)>>)
  \o <<Sized("firmware", "iommu_groups", host.groups)>>

TpmAndRelease(host) ==
  VersionIfAny("tpm", "version_major", host.tpm)
  \o IF SafeVersion(host.build) = "unknown" THEN <<>>
     ELSE VersionIfAny("os_release", "build_id", host.build)

MaxCards == 8

\* Mutant of Cards: one less.
CardsBelow(host) == SubSeq(host.cards, 1, Min({Len(host.cards), MaxCards - 1}))

\* Glob("card[0-9]*") finds connectors (card0-DP-1) as well, in the order of their names.
Cards(host) == SubSeq(host.cards, 1, Min({Len(host.cards), MaxCards}))

\* A connector's device is its card, which has no identifier and no driver of its own.
PciProfile(host) ==
  FlattenSeq([i \in DOMAIN Cards(host) |->
    LET card == Cards(host)[i]
    IN  (IF card.isConnector THEN <<>>
         ELSE VersionIfAny("pci", card.name \o ".device", card.device)
              \o VersionIfAny("pci", card.name \o ".driver", card.driver))
        \o <<Says("pci", card.name \o ".iommu", ~card.isConnector /\ card.hasIommu)>>])

\* platformProfileAt.
Profile(host) ==
  Dmi(host) \o Identity(host) \o Acpi(host) \o Devices(host) \o CpuProfile(host)
  \o SmbiosShape(host) \o StorageProfile(host) \o FirmwareProfile(host)
  \o TpmAndRelease(host) \o PciProfile(host)
=============================================================================
