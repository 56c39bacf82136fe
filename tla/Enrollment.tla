----------------------------- MODULE Enrollment -----------------------------
(***************************************************************************)
(* Enrollment codes and ingest tokens: the registry file clients.json, the *)
(* handlers that change it, and the installer that redeems a code on a     *)
(* device and hands the token to the agent.                                *)
(*                                                                         *)
(* createInvite draws a code and its expiry before it takes the server's   *)
(* lock, so several of its calls can be under way at once.  What it and    *)
(* enroll do under the lock is one step: both rewrite the registry through *)
(* a temporary file and a rename.  Their callers may not learn of a change *)
(* that was made: the chmod that follows the rename can fail, the page     *)
(* shown to the administrator needs the list of runs, the server can stop, *)
(* an answer can get lost.  A change that is not made changes nothing but  *)
(* the call.  Each of these failures, and an installer that dies, uses one *)
(* of MaxFaults faults.                                                    *)
(*                                                                         *)
(* Codes and tokens are numbered in the order in which they are drawn;     *)
(* those drawn at random never coincide, and hashing keeps them apart.     *)
(***************************************************************************)
EXTENDS Integers, Sequences, FiniteSets

CONSTANTS
  Label,      \* device labels
  Device,     \* devices on which the installer is run
  InviteTTL,  \* inviteTTL, in ticks
  MaxTime,    \* bound: ticks
  MaxCodes,   \* bound: codes drawn
  MaxFaults   \* bound: failures

ASSUME EnrollmentAssumption ==
  /\ InviteTTL \in Nat \ {0}
  /\ MaxTime \in Nat
  /\ MaxCodes \in Nat
  /\ MaxFaults \in Nat

VARIABLES
  clock,    \* time.Now()
  codes,    \* codes drawn so far
  drafts,   \* invitations drawn by a createInvite that has not got the lock
  invites,  \* registry.Invites
  clients,  \* registry.Clients
  shown,    \* codes that reached the administrator
  held,     \* held[d]: the credential the installer has received and not written
  config,   \* config[d]: what config.json says
  loaded,   \* loaded[d]: the credential the running agent uses
  issued,   \* the invitations stored so far, in that order
  granted,  \* the enrollments so far, in that order
  faults    \* failures so far

registryVars == <<invites, clients>>
callVars     == <<codes, drafts, shown>>
deviceVars   == <<held, config, loaded>>
historyVars  == <<issued, granted, faults>>
vars         == <<clock, registryVars, callVars, deviceVars, historyVars>>

None == [label |-> "none", token |-> 0]            \* no credential
Truncated == [label |-> "truncated", token |-> 0]  \* a config.json that does not parse

Invite == [label : Label, code : 1 .. MaxCodes, expires : Nat]
Credential == [label : Label, token : 1 .. MaxCodes]

Fault ==
  /\ faults < MaxFaults
  /\ faults' = faults + 1

\* A handler whose caller does not learn that it succeeded is a failure.
Answer(answered) == IF answered THEN UNCHANGED faults ELSE Fault

Others(entries, label) == {e \in entries : e.label # label}

\* Mutant of Pruned: expired invitations stay.
Unpruned(entries) == entries

\* pruneInvites
Pruned(entries) == {i \in entries : i.expires > clock}

-----------------------------------------------------------------------------
Init ==
  /\ clock = 0
  /\ codes = 0
  /\ drafts = {}
  /\ invites = {}
  /\ clients = {}
  /\ shown = {}
  /\ held = [d \in Device |-> None]
  /\ config = [d \in Device |-> None]
  /\ loaded = [d \in Device |-> None]
  /\ issued = <<>>
  /\ granted = <<>>
  /\ faults = 0

Advance ==
  /\ clock < MaxTime
  /\ clock' = clock + 1
  /\ UNCHANGED <<registryVars, callVars, deviceVars, historyVars>>

-----------------------------------------------------------------------------
\* The server.

\* createInvite up to the lock.
DrawCode(label) ==
  /\ codes < MaxCodes
  /\ codes' = codes + 1
  /\ drafts' = drafts \cup
       {[label |-> label, code |-> codes + 1, expires |-> clock + InviteTTL]}
  /\ UNCHANGED <<clock, registryVars, shown, deviceVars, historyVars>>

\* Mutant of StoreInvite: the label's earlier invitation stays.
StoreAnotherInvite(draft, answered) ==
  /\ invites' = Pruned(invites) \cup {draft}
  /\ drafts' = drafts \ {draft}
  /\ shown' = IF answered THEN shown \cup {draft.code} ELSE shown
  /\ issued' = Append(issued, draft)
  /\ Answer(answered)
  /\ UNCHANGED <<clock, clients, codes, deviceVars, granted>>

\* createInvite under the lock, and createInviteHandler's answer.
StoreInvite(draft, answered) ==
  /\ invites' = Others(Pruned(invites), draft.label) \cup {draft}
  /\ drafts' = drafts \ {draft}
  /\ shown' = IF answered THEN shown \cup {draft.code} ELSE shown
  /\ issued' = Append(issued, draft)
  /\ Answer(answered)
  /\ UNCHANGED <<clock, clients, codes, deviceVars, granted>>

\* The registry cannot be read or replaced, or the server stops before it is.
InviteFails(draft) ==
  /\ Fault
  /\ drafts' = drafts \ {draft}
  /\ UNCHANGED <<clock, registryVars, codes, shown, deviceVars, issued, granted>>

\* Mutant of NewToken: the token that was granted last is handed out again.
SameToken(label) == [label |-> label, token |-> Len(granted)]

\* The credential the next enrollment for a label creates.
NewToken(label) == [label |-> label, token |-> Len(granted) + 1]

\* The installer of d gets the answer to its request, unless it is lost.
Grant(d, invite, answered) ==
  /\ held[d] = None
  /\ invite.code \in shown
  /\ held' = IF answered THEN [held EXCEPT ![d] = NewToken(invite.label)] ELSE held
  /\ granted' = Append(granted,
       [code |-> invite.code, label |-> invite.label, device |-> d, at |-> clock])
  /\ Answer(answered)
  /\ UNCHANGED <<clock, callVars, config, loaded, issued>>

\* Mutants of Enroll: the redeemed invitation stays; so does the label's
\* earlier token; the other invitations go.
EnrollTwice(d, invite, answered) ==
  /\ invite \in Pruned(invites)
  /\ clients' = Others(clients, invite.label) \cup {NewToken(invite.label)}
  /\ invites' = Pruned(invites)
  /\ Grant(d, invite, answered)
EnrollBeside(d, invite, answered) ==
  /\ invite \in Pruned(invites)
  /\ clients' = clients \cup {NewToken(invite.label)}
  /\ invites' = Pruned(invites) \ {invite}
  /\ Grant(d, invite, answered)
EnrollLast(d, invite, answered) ==
  /\ invite \in Pruned(invites)
  /\ clients' = Others(clients, invite.label) \cup {NewToken(invite.label)}
  /\ invites' = {}
  /\ Grant(d, invite, answered)

\* enroll under the lock.  A code that matches no invitation is refused and
\* changes nothing.
Enroll(d, invite, answered) ==
  /\ invite \in Pruned(invites)
  /\ clients' = Others(clients, invite.label) \cup {NewToken(invite.label)}
  /\ invites' = Pruned(invites) \ {invite}
  /\ Grant(d, invite, answered)

\* authenticateClient
Authenticates(credential) == credential \in clients

-----------------------------------------------------------------------------
\* The device.

\* install.sh writes the answer to config.json.
WriteConfig(d) ==
  /\ held[d] # None
  /\ config[d] # held[d]
  /\ config' = [config EXCEPT ![d] = held[d]]
  /\ UNCHANGED <<clock, registryVars, callVars, held, loaded, historyVars>>

\* runAgent reads config.json, and gives up when it does not parse.
Reads(d) == IF config[d] = Truncated THEN None ELSE config[d]

\* Mutant of FinishInstall: a running agent is left alone.
FinishInstallBesideAgent(d) ==
  /\ held[d] # None
  /\ config[d] = held[d]
  /\ held' = [held EXCEPT ![d] = None]
  /\ loaded' = IF loaded[d] = None THEN [loaded EXCEPT ![d] = Reads(d)] ELSE loaded
  /\ UNCHANGED <<clock, registryVars, callVars, config, historyVars>>

\* install.sh restarts the agent and is done.
FinishInstall(d) ==
  /\ held[d] # None
  /\ config[d] = held[d]
  /\ held' = [held EXCEPT ![d] = None]
  /\ loaded' = [loaded EXCEPT ![d] = Reads(d)]
  /\ UNCHANGED <<clock, registryVars, callVars, config, historyVars>>

\* install.sh dies: before it writes config.json, while it does, or after.
InstallDies(d) ==
  /\ held[d] # None
  /\ Fault
  /\ held' = [held EXCEPT ![d] = None]
  /\ config' \in {config, [config EXCEPT ![d] = Truncated]}
  /\ UNCHANGED <<clock, registryVars, callVars, loaded, issued, granted>>

\* The agent is started again: at login, by systemd, by an update or by an
\* install.sh that finds a config.json and is not told to reconfigure.
Restart(d) ==
  /\ loaded' = [loaded EXCEPT ![d] = Reads(d)]
  /\ UNCHANGED <<clock, registryVars, callVars, held, config, historyVars>>

-----------------------------------------------------------------------------
Server ==
  \/ \E label \in Label : DrawCode(label)
  \/ \E draft \in drafts : InviteFails(draft)
  \/ \E draft \in drafts, answered \in BOOLEAN : StoreInvite(draft, answered)
  \/ \E d \in Device, i \in invites, answered \in BOOLEAN : Enroll(d, i, answered)

Installation ==
  \E d \in Device : WriteConfig(d) \/ FinishInstall(d) \/ InstallDies(d) \/ Restart(d)

Next == Advance \/ Server \/ Installation

Spec == Init /\ [][Next]_vars

-----------------------------------------------------------------------------
(***************************************************************************)
(* Properties.                                                             *)
(***************************************************************************)

Grants == DOMAIN granted

\* Every variable has its type, and what was stored or granted last bears the
\* highest number.
TypeOK ==
  /\ clock \in 0 .. MaxTime
  /\ codes \in 0 .. MaxCodes
  /\ drafts \subseteq Invite
  /\ invites \subseteq Invite
  /\ clients \subseteq [label : Label, token : Grants]
  /\ shown \subseteq 1 .. codes
  /\ held \in [Device -> [label : Label, token : Grants] \cup {None}]
  /\ loaded \in [Device -> [label : Label, token : Grants] \cup {None}]
  /\ config \in [Device -> [label : Label, token : Grants] \cup {None, Truncated}]
  /\ issued \in Seq(Invite)
  /\ granted \in Seq([code : 1 .. codes, label : Label, device : Device, at : Nat])
  /\ faults \in 0 .. MaxFaults

\* A code is exchanged for a token once, whoever else holds it and whether or
\* not the answer to its first use arrived.
OneTime ==
  \A j, k \in Grants : granted[j].code = granted[k].code => j = k

\* A code is redeemed before its expiry only, and for the label it was made for.
RedeemedInTime ==
  \A k \in Grants : \E i \in DOMAIN issued :
    /\ issued[i].code = granted[k].code
    /\ issued[i].label = granted[k].label
    /\ granted[k].at < issued[i].expires

\* The tokens that authenticate are, for each label that was ever enrolled, the
\* one granted last: enrolling a label again invalidates its earlier token in
\* the same step, and nothing else ever invalidates a token.
LatestTokenOnly ==
  {c \in [label : Label, token : Grants] : Authenticates(c)} =
    {[label |-> granted[k].label, token |-> k] :
       k \in {j \in Grants : \A n \in Grants : granted[n].label = granted[j].label => n <= j}}

\* The invariant of codes and tokens: each code works once, in time and for its label, and
\* each label has the token that was granted last.
RegistryInv ==
  /\ TypeOK
  /\ OneTime
  /\ RedeemedInTime
  /\ LatestTokenOnly

\* A code the administrator was shown can be redeemed until it expires, is
\* redeemed, or is superseded by a later one for the same label: no other
\* label's invitation or enrollment, and no failure, makes it useless.
ShownCodeWorks ==
  \A i \in DOMAIN issued :
    issued[i].code \in shown =>
      \/ issued[i] \in invites
      \/ clock >= issued[i].expires
      \/ \E k \in Grants : granted[k].code = issued[i].code
      \/ \E j \in DOMAIN issued : j > i /\ issued[j].label = issued[i].label

\* While nothing fails, no label is stranded: its token is with the device
\* that enrolled it last, unless that device has since enrolled again; and a
\* device on which no installation is under way runs the agent with the token
\* in its config.json.
CleanInstall ==
  faults = 0 =>
    /\ \A c \in clients :
         LET d == granted[c.token].device
         IN  \/ c \in {held[d], config[d]}
             \/ \E k \in Grants : k > c.token /\ granted[k].device = d
    /\ \A d \in Device : held[d] = None => loaded[d] = config[d]

\* The registry implements the abstract one, in which a label has one usable code, its latest,
\* and one valid token.
Registry ==
  INSTANCE Credentials WITH
    Code   <- 1 .. MaxCodes,
    Token  <- 1 .. MaxCodes,
    usable <- {[label |-> i.label, code |-> i.code] : i \in Pruned(invites)},
    spent  <- {issued[i].code : i \in DOMAIN issued},
    valid  <- clients,
    drawn  <- Grants

ImplementsCredentials == Registry!Spec
=============================================================================
