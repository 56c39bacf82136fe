------------------------------- MODULE Events -------------------------------
(***************************************************************************)
(* The contract between the agent, which makes events, and the server,     *)
(* which refuses a whole batch when validateEvent refuses one event of it. *)
(*                                                                         *)
(* A field the two sides do not tell apart is left out (At, Module).  The  *)
(* fields that only profiles and instrumented Proton runtimes have are the *)
(* details at the end.  A pointer is a set of at most one value: {} is     *)
(* nil.  A status is a number that is 0 for success.  A word of more than  *)
(* 96 characters is Overlong, and a payload is known by its decoded length.*)
(***************************************************************************)
EXTENDS Integers

CONSTANTS
  CodeLimit,   \* 1 << 32, the bound of codes, flags and statuses
  LengthLimit, \* 1 << 30, the bound of lengths
  PayloadLimit \* maxMRACPayloadBytes

ASSUME EventsAssumption ==
  /\ {CodeLimit, LengthLimit, PayloadLimit} \subseteq Nat
  /\ PayloadLimit <= LengthLimit
  /\ LengthLimit <= CodeLimit
  /\ LengthLimit >= 4096
  /\ CodeLimit > 65536

\* The empty word of a field that is not there, and one that is too long.
Absent   == "absent"
Overlong == "overlong"

\* A payload of the given decoded length, and none.
NoPayload == 0

\* An event with no field but its type and state.
NewEvent(type, state) ==
  [type |-> type, state |-> state, name |-> Absent, version |-> Absent,
   code |-> 0, length |-> 0, flags |-> 0, parameters |-> 0, status |-> 0, size |-> 0,
   success |-> {}, result |-> {}, traced |-> FALSE, payload |-> NoPayload, digest |-> NoPayload]

\* The checks of every event.
FieldsAreSafe(e) == Overlong \notin {e.state, e.name, e.version}

MaxParameters == 16

NumbersInRange(e) ==
  /\ e.code \in 0 .. CodeLimit
  /\ e.flags \in 0 .. CodeLimit
  /\ e.status \in 0 .. CodeLimit
  /\ e.length \in 0 .. LengthLimit
  /\ e.parameters \in 0 .. MaxParameters

\* An event that says whether a call succeeded has the call's status.
SuccessIsStatus(e) == e.success = {e.status = 0}

\* The result is there if and only if the call succeeded.
ResultIfSuccess(e) == (e.result = {}) <=> (e.status # 0)

IsRuntime(e) ==
  /\ e.state = "runtime"
  /\ e.name = "proton"
  /\ e.version # Absent
  /\ e.success = {} /\ e.result = {}

IsApi(e) ==
  /\ e.state = "api"
  /\ e.name \in {"ntdll", "ncrypt"}
  /\ e.success = {} /\ e.result # {}

IsDmaGuard(e) ==
  /\ e.state = "dma_guard" /\ e.name = "NtQuerySystemInformation"
  /\ SuccessIsStatus(e)
  /\ ResultIfSuccess(e)
  /\ e.size <= 1

IsPlatformProvider(e) ==
  /\ e.state = "platform_provider" /\ e.name = "NCryptOpenStorageProvider"
  /\ SuccessIsStatus(e)
  /\ e.result = {}

IsPcpEkpub(e) ==
  /\ e.state = "pcp_ekpub" /\ e.name = "NCryptGetProperty"
  /\ SuccessIsStatus(e)
  /\ e.size <= 1024
  /\ e.code <= 16384
  /\ e.version \in {Absent, "rsa_public"}
  /\ e.status # 0 => e.version = Absent /\ e.code = 0

IsCpuInformation(e) ==
  /\ e.state = "cpu_information" /\ e.name = "NtQuerySystemInformation"
  /\ SuccessIsStatus(e)
  /\ e.size <= 256
  /\ e.code <= 65535 /\ e.flags <= 65535
  /\ e.parameters = 0
  /\ e.version \in {Absent, "x86", "amd64", "arm64", "unknown"}

IsRsmb(e) ==
  /\ e.state = "rsmb" /\ e.name = "RSMB"
  /\ SuccessIsStatus(e)
  /\ e.size <= 65536
  /\ e.code <= 255 /\ e.flags <= 255
  /\ e.parameters <= 64

IsRsmbStructure(e) ==
  /\ e.state = "rsmb_structure" /\ e.name = "type_"
  /\ e.success = {} /\ e.result = {}
  /\ e.status = 0
  /\ e.code <= 255
  /\ e.size \in 4 .. 255
  /\ e.length <= 4096
  /\ e.parameters <= 64

\* Mutant of IsVolumeExtents: 64 extents are too many.
IsVolumeExtentsBelow(e) ==
  /\ e.state = "volume_extents" /\ e.name = "c_to_physicaldrive"
  /\ SuccessIsStatus(e)
  /\ ResultIfSuccess(e)
  /\ e.size < 64
  /\ e.code <= 65535

IsVolumeExtents(e) ==
  /\ e.state = "volume_extents" /\ e.name = "c_to_physicaldrive"
  /\ SuccessIsStatus(e)
  /\ ResultIfSuccess(e)
  /\ e.size <= 64
  /\ e.code <= 65535

IsStorageDescriptor(e) ==
  /\ e.state = "storage_descriptor" /\ e.name = "physicaldrive0"
  /\ SuccessIsStatus(e)
  /\ e.result = {}
  /\ e.size <= 65536
  /\ e.code <= 127 /\ e.flags <= 15

IsPlatformProbe(e) ==
  \/ IsRuntime(e) \/ IsApi(e) \/ IsDmaGuard(e) \/ IsPlatformProvider(e) \/ IsPcpEkpub(e)
  \/ IsCpuInformation(e) \/ IsRsmb(e) \/ IsRsmbStructure(e)
  \/ IsVolumeExtents(e) \/ IsStorageDescriptor(e)

\* A payload is one of an MRAC ClientRequest, has its digest, and its length is the event's.
PayloadIsRight(e) ==
  /\ e.type = "mrac" /\ e.name = "ClientRequest"
  /\ e.state \in {"call", "response"}
  /\ e.payload \in 1 .. PayloadLimit
  /\ e.digest = e.payload
  /\ e.length = e.payload

TraceIsRight(e) == e.type \in {"rpc", "mrac"} /\ e.state = "response"

\* validateEvent.
ValidateEvent(e) ==
  /\ FieldsAreSafe(e)
  /\ NumbersInRange(e)
  /\ e.success # {} => e.type = "platform_probe"
  /\ e.type = "platform_probe" => IsPlatformProbe(e)
  /\ e.traced => TraceIsRight(e)
  /\ (e.payload # NoPayload \/ e.digest # NoPayload) => PayloadIsRight(e)

-----------------------------------------------------------------------------
(* The fields of profiles and of instrumented Proton runtimes.             *)

AllowedEventTypes ==
  {"session_start", "session_end", "runtime", "game_build", "ach", "ac_state", "mrac",
   "backend_close", "backend_message", "heartbeat", "collector_heartbeat", "collector_state",
   "gate_result", "pipe_state", "thread", "tls_callback", "dllmain", "module", "exception",
   "lifecycle", "process_state", "diagnostic", "backend_state", "rpc", "transport", "env_flag",
   "process_sample", "process_runtime", "platform_profile", "platform_probe"}

\* The length of the text, the access of a fault, whether it has a target, and whether all
\* addresses are hexadecimal.
NoDetails == [text |-> 0, access |-> {}, target |-> FALSE, isHex |-> TRUE]

TextLimit == 128

\* What validateEvent says of them, and of the type.
ValidateDetails(e) ==
  /\ e.type \in AllowedEventTypes
  /\ e.isHex
  /\ e.access # {} => e.type = "exception" /\ e.access \subseteq {0, 1, 8}
  /\ e.target => e.type = "exception"
  /\ e.text # 0 =>
       /\ e.type = "platform_profile" /\ e.state \in {"dmi", "cpu", "storage"}
       /\ e.text <= TextLimit
=============================================================================
