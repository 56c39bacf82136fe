--------------------------- MODULE MCAgentEvents ---------------------------
(***************************************************************************)
(* Lines and hosts for AgentEvents.  A line finds at most two patterns,    *)
(* and what one pattern captures is varied on its own.  A host is ordinary *)
(* in all its parts but one.                                               *)
(***************************************************************************)
EXTENDS AgentEvents

Patterns == Range(Precedence)

SomeBody == [isMessage |-> TRUE, value |-> 0, data |-> 7, response |-> 0]
SomeRpc  == [state |-> "call", name |-> "ClientRequest", traced |-> FALSE, body |-> SomeBody]
SomeLine == [finds |-> {}, number |-> 1, level |-> "veryverbose", words |-> {}, rpc |-> SomeRpc]

\* The patterns that capture up to five digits have no more.
Numbers == {0, LengthLimit, LengthLimit + 1, CodeLimit, CodeLimit + 1}

Bodies ==
  [isMessage : BOOLEAN, value : {0, 5}, data : {0, Garbled, 1, PayloadLimit, PayloadLimit + 1},
   response : {0, Garbled, 2, PayloadLimit + 1}]

Rpcs ==
  [state : {"call", "response", "failure", "error"},
   name : {"ClientRequest", "AnotherOfMrac", "Another"}, traced : BOOLEAN, body : Bodies]

MCGameLines ==
  {[SomeLine EXCEPT !.finds = {p, q}] : p, q \in Patterns}
  \cup {SomeLine}
  \cup {[SomeLine EXCEPT !.finds = {p}, !.number = n] : p \in Patterns \ {"close", "ach"}, n \in Numbers}
  \cup {[SomeLine EXCEPT !.finds = {"verbosity"}, !.level = Overlong]}
  \cup {[SomeLine EXCEPT !.finds = {"mention"}, !.words = w] : w \in SUBSET {"fail", "response", "call"}}
  \cup {[SomeLine EXCEPT !.finds = {"rpc"} \cup f, !.rpc = r] : f \in {{}, {"mention"}}, r \in Rpcs}

MCLauncherLines ==
  {[SomeLine EXCEPT !.finds = f, !.number = n] : f \in {{}, {"ach"}}, n \in {0, 9999}}

Marker(selected) == [isMarker |-> TRUE, selected |-> selected]

SomeProbe ==
  [isMarker |-> FALSE, type |-> "exception", isTimed |-> TRUE, code |-> 5, flags |-> 0,
   parameters |-> 2, status |-> 0, size |-> 0, access |-> {}, retval |-> {}, target |-> TRUE,
   isHex |-> TRUE]

MCProtonLines ==
  {Marker(s) : s \in UNION {[1 .. n -> {"acpi", "dmi", "os", "full", "none", "other"}] : n \in 0 .. 3}}
  \cup {[SomeProbe EXCEPT !.type = t, !.access = a, !.target = b, !.retval = r] :
          t \in {"module", "thread", "tls_callback", "dllmain", "exception", "other"},
          a \in {{}, {0}, {2}, {8}, {9}}, b \in BOOLEAN, r \in {{}, {1}, {2}}}
  \cup {[SomeProbe EXCEPT !.isTimed = t, !.isHex = h] : t, h \in BOOLEAN}
  \cup {[SomeProbe EXCEPT !.code = c, !.parameters = p, !.size = s] :
          c \in Numbers, p \in {0, MaxParameters, MaxParameters + 1}, s \in {0, CodeLimit + 1}}

Cpu(id, package, core) == [id |-> id, package |-> package, core |-> core]

Node(name, of, partition) ==
  [name |-> name, of |-> of, isPartition |-> partition, hasDevice |-> ~partition,
   model |-> 10, sectors |-> 2, isRemovable |-> FALSE, transport |-> "nvme"]
Disk(name)         == Node(name, <<>>, FALSE)
Partition(disk, n) == Node(Append(disk, n), disk, TRUE)

SDA  == <<"sd", "a">>
SDAA == <<"sd", "a", "a">>
SDB  == <<"sd", "b">>

Card(name, isConnector, device) ==
  [name |-> name, isConnector |-> isConnector, device |-> device, driver |-> "amdgpu", hasIommu |-> TRUE]
Connectors(n) == [i \in 1 .. n |-> Card("card0-DP-" \o ToString(i), TRUE, Absent)]

SomeHost ==
  [product |-> 7, vendor |-> 5,
   serials |-> [n \in {"product_serial", "product_uuid"} |-> {}],
   acpi |-> [n \in {"TPM2", "DMAR"} |-> {}],
   devices |-> {"tpmrm0"}, readable |-> {},
   cpus |-> {Cpu(i, "0", ToString(i \div 2)) : i \in 0 .. 3},
   model |-> 20, stepping |-> "0",
   entries |-> <<[type |-> 1, length |-> 27]>>, table |-> {525}, isTableReadable |-> FALSE,
   block |-> <<Disk(SDA), Partition(SDA, "1"), Partition(SDA, "2")>>,
   isEfi |-> TRUE, secureBoot |-> {}, lockdown |-> Absent, groups |-> 8,
   tpm |-> "2", build |-> "20260830",
   cards |-> <<Card("card0", FALSE, "0x163f")>>]

Texts    == {0, 1, TextLimit, TextLimit + 1}
Words    == {Absent, "word", "unsafe", Overlong}
Removable(node) == [node EXCEPT !.isRemovable = TRUE, !.sectors = SizeLimit \div 512 + 1, !.hasDevice = TRUE]

MCHosts ==
  {[SomeHost EXCEPT !.product = t, !.vendor = u] : t, u \in Texts}
  \cup {[SomeHost EXCEPT !.serials = s] :
          s \in [{"product_serial", "product_uuid"} -> {{}, {"one"}, {"another"}}]}
  \cup {[SomeHost EXCEPT !.acpi = a, !.devices = d, !.readable = {"tpm0"} \cap d] :
          a \in [{"TPM2", "DMAR"} -> {{}, {76}}], d \in SUBSET {"tpm0", "machine_id"}}
  \cup {[SomeHost EXCEPT !.cpus = c, !.model = t, !.stepping = w] :
          c \in SUBSET {Cpu(0, "0", "0"), Cpu(1, "0", "0"), Cpu(2, "1", "0"), Cpu(3, "1", Absent)},
          t \in {TextLimit + 1}, w \in Words}
  \cup {[SomeHost EXCEPT !.entries = [i \in 1 .. 3 |-> [type |-> t[i], length |-> l[i]]]] :
          t \in {<<1, 1, 2>>, <<1, 2, 1>>}, l \in [1 .. 3 -> {0, 27, 255, 256}]}
  \cup {[SomeHost EXCEPT !.table = t, !.isTableReadable = r] : t \in {{}, {525}}, r \in BOOLEAN}
  \cup {[SomeHost EXCEPT !.block = b] :
          b \in {<<>>,
                 <<Disk(SDA), Partition(SDA, "1"), Disk(SDB), Partition(SDB, "1"), Partition(SDB, "2")>>,
                 <<Disk(SDA), Partition(SDA, "1"), Disk(SDAA), Partition(SDAA, "1")>>,
                 <<Removable(Disk(SDA)), Removable(Disk(SDB)), Partition(SDB, "1")>>,
                 [i \in 1 .. 10 |-> Disk(<<"nvme", i>>)]}}
  \cup {[SomeHost EXCEPT !.isEfi = TRUE, !.secureBoot = v, !.lockdown = w] :
          v \in {{}, {[bytes |-> 5, value |-> 1]}, {[bytes |-> 5, value |-> 0]}, {[bytes |-> 4, value |-> 0]}},
          w \in {Absent, "integrity"}}
  \cup {[SomeHost EXCEPT !.tpm = w, !.build = v] : w, v \in Words}
  \cup {[SomeHost EXCEPT !.cards = <<Card("card0", FALSE, w)>> \o Connectors(n) \o <<Card("card1", FALSE, "0x1002")>>] :
          w \in Words, n \in {0, 1, 6, 7}}
=============================================================================
