---------------------------- MODULE AgentEvents ----------------------------
(***************************************************************************)
(* What becomes of what the agent reads: the lines its tailers hand to the *)
(* parsers (LineEvents) and the profile of its host (PlatformProfile) are  *)
(* made into events, and queue drops without a word what validateEvent     *)
(* would refuse.  The server refuses a whole batch for one such event, and *)
(* the agent would repeat that batch for ever (Uplink), so this filter is  *)
(* what keeps the upload going, and whatever it drops nobody misses.       *)
(***************************************************************************)
EXTENDS LineEvents, PlatformProfile

CONSTANTS
  GameLines, LauncherLines, ProtonLines, \* the lines of the three logs
  Hosts                                  \* what startRun may find

VARIABLES
  item,  \* what is at hand: its kind and itself
  made,  \* the events made of it
  queued \* those of them that are queued

vars == <<item, made, queued>>

Nothing == <<"nothing">>

\* Mutant of Queue: everything is queued.
QueueAll(events) == events

\* queue.
Queue(events) == SelectSeq(events, LAMBDA e : ValidateEvent(e) /\ ValidateDetails(e) /\ e.size <= SizeLimit)

Handle(kind, x, events) ==
  /\ item = Nothing
  /\ item' = <<kind, x>>
  /\ made' = events
  /\ queued' = Queue(events)

Init == item = Nothing /\ made = <<>> /\ queued = <<>>

GameLine     == \E line \in GameLines : Handle("game", line, ParseGameLine(line))
LauncherLine == \E line \in LauncherLines : Handle("launcher", line, ParseLauncherLine(line))
ProtonLine   == \E line \in ProtonLines : Handle("proton", line, ParseProtonLine(line))
StartRun     == \E host \in Hosts : Handle("host", host, Profile(host))

\* The next item's turn.
Turn == item # Nothing /\ item' = Nothing /\ made' = <<>> /\ queued' = <<>>

Next == GameLine \/ LauncherLine \/ ProtonLine \/ StartRun \/ Turn

Spec == Init /\ [][Next]_vars

-----------------------------------------------------------------------------
(* Properties.                                                             *)

Is(kind) == item[1] = kind

\* Types: a line makes at most one event, and what is queued is within the protocol's limits.
TypeOK ==
  /\ item[1] \in {"nothing", "game", "launcher", "proton", "host"}
  /\ ~Is("host") => Len(made) <= 1
  /\ \A e \in Range(queued) :
       /\ e.type \in AllowedEventTypes
       /\ {e.code, e.flags, e.status} \subseteq 0 .. CodeLimit
       /\ e.length \in 0 .. LengthLimit
       /\ e.text \in 0 .. TextLimit
       /\ e.payload \in 0 .. PayloadLimit

\* queue drops an event of a log only for a number beyond the protocol's limits or for an
\* overlong word of the game's, and nothing of a profile and of what a parser has validated
\* itself: the parsers and validateEvent agree on everything else.
OnlyExcessIsDropped ==
  Len(queued) < Len(made) =>
    /\ Is("game")
    /\ \E e \in Range(made) : e.length > LengthLimit \/ e.code > CodeLimit \/ e.state = Overlong

\* A line of another program that the RPC's own text does not imitate.
IsRpcLine(line) ==
  /\ "rpc" \in line.finds
  /\ line.finds \cap {"ac_state", "client_request", "client_failure", "client_response"} = {}
  /\ line.number <= CodeLimit

\* The blob a call or response of ClientRequest is about, if it is whole: {} or {its length}.
WholeBlob(rpc) ==
  LET place == IF rpc.state = "call" THEN rpc.body.data ELSE rpc.body.response
      blob  == IF place = 0 THEN rpc.body.value ELSE place
  IN  IF /\ rpc.name = "ClientRequest" /\ rpc.state \in {"call", "response"}
         /\ rpc.body.isMessage /\ blob \in 1 .. PayloadLimit
      THEN {blob} ELSE {}

\* Every RPC is recorded as what it is, under its name, and ClientRequest's blob with it,
\* whatever else the RPC's body says, short of imitating a line of ACClient: no other pattern
\* takes the line.  No other line's text gets into an event.
RpcsAreRecordedWhole ==
  /\ Is("game") /\ IsRpcLine(item[2]) =>
       LET rpc == item[2].rpc
       IN  \E e \in Range(queued) :
             /\ e.name = rpc.name
             /\ e.type = IF rpc.name = "Another" THEN "rpc" ELSE "mrac"
             /\ e.state = IF rpc.state = "error" THEN "failure" ELSE rpc.state
             /\ {e.payload} \ {NoPayload} = WholeBlob(rpc)
             /\ e.length = e.payload
  /\ \A e \in Range(queued) : e.payload # NoPayload => Is("game") /\ IsRpcLine(item[2])

\* Two markers of a Deck profile that select the same features record the same version, in
\* whatever order and how often they list them: the runs of an experiment can be compared.
SameFeaturesSameVersion ==
  Is("proton") /\ item[2].isMarker /\ Range(item[2].selected) \subseteq Range(DeckFeatures) =>
    \A line \in ProtonLines :
      line.isMarker /\ Range(line.selected) = Range(item[2].selected) =>
        DeckProfile(line.selected) = DeckProfile(item[2].selected)

FactsNamed(name) == {e \in Range(queued) : e.name = name}

\* No two events of a profile are about the same thing: a fact is found by state and name.
FactsAreDistinct ==
  Is("host") =>
    \A i, j \in DOMAIN queued :
      queued[i].state = queued[j].state /\ queued[i].name = queued[j].name => i = j

\* "once-per-run platform profile ... never uploads serial or UUID values"
\* (Collector/README.md:32, 55): hosts that differ in their serials only have one profile.
ProfileHasNoIdentity ==
  Is("host") =>
    LET masked == [name \in DOMAIN item[2].serials |->
                     IF item[2].serials[name] = {} THEN {} ELSE {"masked"}]
    IN  made = Profile([item[2] EXCEPT !.serials = masked])

\* The partitions counted for a disk are its own, but for a disk whose name another disk's
\* begins with: sda has sdaa's as well.
PartitionsAreOwn ==
  Is("host") =>
    \A i \in DOMAIN Disks(item[2]) :
      LET disk == Disks(item[2])[i]
      IN  \/ \A e \in FactsNamed(DiskFact(i, disk, "partitions")) :
               e.size = Cardinality({n \in Range(item[2].block) : n.isPartition /\ n.of = disk.name})
          \/ \E n \in Range(item[2].block) : ~n.isPartition /\ IsStrictPrefix(disk.name, n.name)

\* A type of SMBIOS structures is said to be readable if and only if the length that is told
\* is that of all its structures.
ShapesAreWhole ==
  Is("host") =>
    \A e \in Range(item[2].entries), f \in Range(queued) :
      f.name = "type_" \o ToString(e.type) =>
        (f.result = {TRUE}) <=> (\A g \in Range(item[2].entries) : g.type = e.type => g.length \in 1 .. 255)

\* A host's graphics cards are all in its profile, if there are no more than eight, but for
\* those that connectors hide: a card's connectors (card0-DP-1) are found by the same pattern,
\* come before the next card and count for the limit of eight.
OnlyConnectorsHideCards ==
  Is("host") =>
    LET cards == item[2].cards
    IN  Len(SelectSeq(cards, LAMBDA c : ~c.isConnector)) <= MaxCards =>
          \A i \in DOMAIN cards :
            \/ FactsNamed(cards[i].name \o ".iommu") # {}
            \/ cards[i].isConnector
            \/ i > MaxCards /\ \E j \in 1 .. i - 1 : cards[j].isConnector

\* The invariant of the filter: types, nothing but excess is dropped, and one version for each
\* set of features.
EventsInv ==
  /\ TypeOK
  /\ OnlyExcessIsDropped
  /\ SameFeaturesSameVersion

\* The facts of a profile: distinct, without serials, and of the whole host but for the cards
\* and partitions that the patterns mistake.
ProfileIsRight ==
  /\ FactsAreDistinct
  /\ ProfileHasNoIdentity
  /\ PartitionsAreOwn
  /\ ShapesAreWhole
  /\ OnlyConnectorsHideCards
=============================================================================
