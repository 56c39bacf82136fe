----------------------------- MODULE LineEvents -----------------------------
(***************************************************************************)
(* The parsers: what event, if any, the agent makes of a line of the       *)
(* game's log, the launcher's or an instrumented Proton's.                 *)
(*                                                                         *)
(* A line of the game is [finds, number, level, words, rpc]: the patterns  *)
(* that match it, the number they capture, how an MRAC line goes on, and   *)
(* its RPC.  An RPC's body is the text behind it, with up to three blobs,  *)
(* each known by its decoded length: 0 if it is not there, Garbled if it   *)
(* is no Base64.  Whatever a body says is part of the line, too.           *)
(***************************************************************************)
EXTENDS Events, SequencesExt

Garbled == 0 - 1

LineEvent(type, state) == NewEvent(type, state) @@ NoDetails

-----------------------------------------------------------------------------
(* The game's log.                                                         *)

\* Mutant of Precedence: a mention of MRAC's service is looked for before its RPC.
MentionFirst ==
  <<"ac_state", "client_request", "client_failure", "client_response", "mention", "rpc", "close",
    "plugin", "verbosity", "connected", "send", "receive", "ach", "message", "lifecycle">>

\* The patterns in the order in which they are tried.
Precedence ==
  <<"ac_state", "client_request", "client_failure", "client_response", "rpc", "close", "plugin",
    "verbosity", "mention", "connected", "send", "receive", "ach", "message", "lifecycle">>

\* Mutant of Blob: what is found first is taken, whatever the direction.
BlobOfAnyDirection(body, state) ==
  IF body.data # 0 THEN body.data ELSE IF body.response # 0 THEN body.response ELSE body.value

\* The blob of a call is in its data, that of a response in its response; either may be bare.
Blob(body, state) ==
  CASE state = "call" /\ body.data # 0         -> body.data
    [] state = "response" /\ body.response # 0 -> body.response
    [] OTHER -> body.value

\* parseMRACPayload: a body that is no quoted message of the right size has no payload.
ParseMRACPayload(body, state) ==
  IF body.isMessage /\ Blob(body, state) \in 1 .. PayloadLimit
  THEN Blob(body, state) ELSE NoPayload

RpcEvent(rpc, number) ==
  LET state   == IF rpc.state = "error" THEN "failure" ELSE rpc.state
      traced  == rpc.traced /\ state = "response"
      payload == IF rpc.name = "ClientRequest" /\ state \in {"call", "response"}
                 THEN ParseMRACPayload(rpc.body, state) ELSE NoPayload
      ofMrac  == rpc.name \in {"ClientRequest", "AnotherOfMrac"}
  IN  [LineEvent(IF ofMrac THEN "mrac" ELSE "rpc", state)
       EXCEPT !.name = rpc.name, !.code = number, !.traced = traced,
              !.payload = payload, !.digest = payload, !.length = payload]

MentionState(words) ==
  CASE "fail" \in words     -> "failure"
    [] "response" \in words -> "response"
    [] "call" \in words     -> "call"
    [] words = {}           -> "observed"

EventOf(pattern, line) ==
  LET Coded(type, state)    == [LineEvent(type, state) EXCEPT !.code = line.number]
      Measured(type, state) == [LineEvent(type, state) EXCEPT !.length = line.number]
  IN  CASE pattern = "ac_state"        -> LineEvent("ac_state", "online")
        [] pattern = "client_request"  -> LineEvent("mrac", "client_request")
        [] pattern = "client_failure"  -> [LineEvent("mrac", "failure") EXCEPT !.name = "client_request"]
        [] pattern = "client_response" -> Measured("mrac", "client_response")
        [] pattern = "rpc"             -> RpcEvent(line.rpc, line.number)
        [] pattern = "close"           -> Coded("backend_close", Absent)
        [] pattern = "plugin"          -> LineEvent("mrac", "plugin_loaded")
        [] pattern = "verbosity"       -> [LineEvent("diagnostic", line.level) EXCEPT !.name = "category"]
        [] pattern = "mention"         -> LineEvent("mrac", MentionState(line.words))
        [] pattern = "connected"       -> LineEvent("backend_state", "connected")
        [] pattern = "send"            -> Measured("transport", "send")
        [] pattern = "receive"         -> Coded("transport", "receive")
        [] pattern = "ach"             -> Coded("ach", Absent)
        [] pattern = "message"         -> Coded("backend_message", Absent)
        [] pattern = "lifecycle"       -> LineEvent("lifecycle", "log_open")

\* parseGameLine, as a sequence of at most one event.
ParseGameLine(line) ==
  LET found == SelectSeq(Precedence, LAMBDA p : p \in line.finds)
  IN  IF found = <<>> THEN <<>> ELSE <<EventOf(Head(found), line)>>

\* parseLauncherLine.
ParseLauncherLine(line) ==
  IF "ach" \in line.finds THEN <<EventOf("ach", line)>> ELSE <<>>

-----------------------------------------------------------------------------
(* An instrumented Proton's log.                                           *)

DeckFeatures == <<"acpi", "dmi", "cpu", "gpu", "os">>

JoinedBy(separator, words) ==
  FoldLeft(LAMBDA text, word : IF text = "" THEN word ELSE text \o separator \o word, "", words)

\* Mutant of DeckProfile: the features as the marker lists them.
DeckProfileAsListed(selected) ==
  IF selected \in {<<"full">>, <<"none">>} \/ Range(selected) \subseteq Range(DeckFeatures)
  THEN {JoinedBy("+", selected)} ELSE {}

\* The version that stands for a selection, if it is one.
DeckProfile(selected) ==
  CASE selected \in {<<"full">>, <<"none">>} -> {selected[1]}
    [] selected # <<>> /\ Range(selected) \subseteq Range(DeckFeatures) ->
         {JoinedBy("+", SelectSeq(DeckFeatures, LAMBDA f : f \in Range(selected)))}
    [] OTHER -> {}

\* Mutant of ParseProbe: a number is in range if the server takes it as a code.
ParseProbeUnvalidated(line) ==
  LET numbers == {line.code, line.flags, line.parameters, line.status, line.size}
  IN  IF \A n \in numbers : n \in 0 .. CodeLimit
      THEN <<[LineEvent(line.type, "probe") EXCEPT
               !.code = line.code, !.flags = line.flags, !.parameters = line.parameters,
               !.status = line.status, !.size = line.size, !.access = line.access,
               !.result = line.retval, !.target = line.target, !.isHex = line.isHex]>>
      ELSE <<>>

\* A WRFPROBE line, which its parser validates itself.
ParseProbe(line) ==
  LET numbers == {line.code, line.flags, line.parameters, line.status, line.size}
      probe   == [LineEvent(line.type, "probe") EXCEPT
                   !.code = line.code, !.flags = line.flags, !.parameters = line.parameters,
                   !.status = line.status, !.size = line.size, !.access = line.access,
                   !.result = line.retval, !.target = line.target, !.isHex = line.isHex]
  IN  IF /\ line.type \in {"module", "thread", "tls_callback", "dllmain", "exception"}
         /\ line.isTimed \* a filetime after 1970
         /\ \A n \in numbers : n \in 0 .. CodeLimit
         /\ line.access \subseteq 0 .. 8
         /\ line.retval \subseteq {0, 1}
         /\ ValidateEvent(probe) /\ ValidateDetails(probe)
      THEN <<probe>> ELSE <<>>

\* parseProtonLine.
ParseProtonLine(line) ==
  IF line.isMarker
  THEN [i \in 1 .. Cardinality(DeckProfile(line.selected)) |->
          [LineEvent("runtime", Absent) EXCEPT
             !.name = "deck_profile", !.version = CHOOSE v \in DeckProfile(line.selected) : TRUE]]
  ELSE ParseProbe(line)
=============================================================================
