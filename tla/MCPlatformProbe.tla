--------------------------- MODULE MCPlatformProbe ---------------------------
(***************************************************************************)
(* Machines for PlatformProbe.  No rule of the parser or of the server     *)
(* relates two parts of a result, so each part is varied while the others  *)
(* have ordinary answers, around the bounds the code has for it.           *)
(***************************************************************************)
EXTENDS PlatformProbe

Entry(strings, bytes) == [type |-> 1, length |-> 27, strings |-> strings, bytes |-> bytes]

\* count structures, the last of which has the given strings.
Table(count, strings, bytes) ==
  [i \in 1 .. count |-> IF i = count THEN Entry(strings, bytes) ELSE Entry(2, 20)]

Ordinary ==
  [apis |-> {"ntdll", "ncrypt", "kernel32"},
   dma |-> [status |-> 0, length |-> 1, policy |-> TRUE],
   provider |-> 0,
   ek |-> [status |-> 0, length |-> 283, modulus |-> 256],
   cpu |-> [status |-> 0, architecture |-> 9, level |-> 23, processors |-> 8],
   firmware |-> [status |-> 0, length |-> 525, smbios |-> 517, structures |-> Table(3, 6, 82)],
   volume |-> [opens |-> TRUE, status |-> 0, extents |-> 1, disk |-> 1, atZero |-> TRUE],
   drive |-> [opens |-> TRUE, status |-> 0, size |-> 40, bus |-> 1, offsets |-> 15]]

Statuses == {0, 1}

MCMachines ==
  {[Ordinary EXCEPT !.apis = s] : s \in SUBSET {"ntdll", "ncrypt", "kernel32"}}
  \cup {[Ordinary EXCEPT !.dma = d] :
          d \in [status : Statuses, length : {0, 1, 2}, policy : BOOLEAN]}
  \cup {[Ordinary EXCEPT !.provider = p, !.ek = e] :
          p \in Statuses, e \in [status : Statuses, length : {0, 23, 1024, 1025}, modulus : {0, 512}]}
  \cup {[Ordinary EXCEPT !.cpu = c] :
          c \in [status : Statuses, architecture : {0, 9, 5}, level : {23}, processors : {256, 257}]}
  \cup {[Ordinary EXCEPT !.firmware.status = s, !.firmware.length = l, !.firmware.smbios = b] :
          s \in Statuses, l \in {7, 525, 65520, 65521, 65537}, b \in {517, 518}}
  \cup {[Ordinary EXCEPT !.firmware.structures = Table(n, s, b)] :
          n \in {3}, s \in {16, 17, 64, 65}, b \in {4096, 4097}}
  \cup {[Ordinary EXCEPT !.firmware.structures = Table(n, 16, 20)] : n \in {0, 16, 17, 64, 65}}
  \cup {[Ordinary EXCEPT !.volume = v] :
          v \in [opens : BOOLEAN, status : Statuses, extents : {64, 65}, disk : {0, 65536}, atZero : BOOLEAN]}
  \cup {[Ordinary EXCEPT !.drive = d] :
          d \in [opens : BOOLEAN, status : Statuses, size : {65536, 65537}, bus : {127, 128}, offsets : {1}]}
=============================================================================
