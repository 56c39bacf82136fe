---------------------------- MODULE MCRunSummary ----------------------------
(***************************************************************************)
(* Runs for RunSummary.  No column depends on the events of another group, *)
(* so a run is of one group.  Its times need not be in order: threads fault*)
(* at once, and a clock may be set back.                                   *)
(***************************************************************************)
EXTENDS RunSummary

Event(type, state, name, value) ==
  [type |-> type, state |-> state, name |-> name, value |-> value, at |-> 0]

Backend ==
  {Event("rpc", "call", "FSessionProviderServiceWs::Ping", 0),
   Event("rpc", "response", "FSessionProviderServiceWs::Ping", 0),
   Event("rpc", "response", "other", 0),
   Event("backend_state", "connected", "", 0),
   Event("backend_close", "", "", 1)}

AntiCheat ==
  {Event("ac_state", "online", "", 0), Event("ac_state", "offline", "", 0),
   Event("mrac", "client_request", "", 0), Event("mrac", "call", "", 3),
   Event("mrac", "response", "", 3), Event("mrac", "failure", "", 0),
   Event("mrac", "observed", "", 0)}

Faults ==
  {Event("module", "load", "", 0), Event("exception", "", "", 0),
   Event("exception", "", "", 1), Event("exception", "", "", 2)}

Course ==
  {Event("ach", "", "", 87), Event("gate_result", "", "", 0),
   Event("diagnostic", "veryverbose", "GLogBackendRpcWsCalls", 0),
   Event("collector_state", "resumed", "", 5), Event("collector_state", "resumed", "", 6),
   Event("session_end", "process_exit", "", 0)}

Platform ==
  {Event("platform_probe", "dma_guard", "enabled", 0), Event("platform_probe", "dma_guard", "", 3),
   Event("platform_probe", "platform_provider", "", 0),
   Event("platform_probe", "platform_provider", "", 9),
   Event("platform_probe", "pcp_ekpub", "rsa_public", 0),
   Event("platform_probe", "pcp_ekpub", "", 9)}

\* The runs of events of a group at the given times, with one end at most.
EndsOnce(run) == Cardinality({i \in DOMAIN run : run[i].type = "session_end"}) <= 1

RunsOf(group, times) ==
  UNION {{run \in {[i \in DOMAIN ts |-> [es[i] EXCEPT !.at = ts[i]]] : es \in [DOMAIN ts -> group]} :
            EndsOnce(run)} : ts \in times}

AnyTimes == [1 .. 3 -> 0 .. 2]

MCRecorded ==
  RunsOf(Backend, AnyTimes \cup {<<0, 0, 1, 1>>, <<0, 1, 1, 2>>, <<0, 1, 2, 3>>, <<0, 1, 3, 5>>})
  \cup RunsOf(AntiCheat, {<<0, 1, 2>>})
  \cup RunsOf(Faults, AnyTimes)
  \cup RunsOf(Course, {<<0, 1, 2>>, <<0, 1, 1>>, <<1, 0, 2>>, <<2, 1, 0>>})
  \cup RunsOf(Platform, {<<0, 1, 2>>})
=============================================================================
