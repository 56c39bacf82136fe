--------------------------- MODULE EnrollmentProofs ---------------------------
(***************************************************************************)
(* Proofs about Enrollment, for every value of its constants.              *)
(***************************************************************************)
EXTENDS Enrollment, FunctionTheorems, TLAPS

\* No code is drawn twice: it belongs to one draft or to one stored invitation.
CodesDrawnOnce ==
  /\ \A draft \in drafts : draft.code <= codes
  /\ \A i \in DOMAIN issued : issued[i].code <= codes
  /\ \A a, b \in drafts : a.code = b.code => a = b
  /\ \A i, j \in DOMAIN issued : issued[i].code = issued[j].code => i = j
  /\ \A draft \in drafts, i \in DOMAIN issued : draft.code # issued[i].code

\* What the registry has as an invitation was stored, and has not been redeemed.
InvitesUnused ==
  \A invite \in invites :
    /\ \E i \in DOMAIN issued : issued[i] = invite
    /\ \A k \in Grants : granted[k].code # invite.code

\* An installer that still holds a credential holds the one its device was
\* granted last, and only a failure leaves half of a config.json.
OwnCredentials ==
  \A d \in Device :
    /\ held[d] # None =>
         /\ granted[held[d].token].label = held[d].label
         /\ granted[held[d].token].device = d
         /\ \A k \in Grants : granted[k].device = d => k <= held[d].token
    /\ faults = 0 => config[d] # Truncated

\* An entry of granted when n codes have been drawn.
GrantEntry(n) == [code : 1 .. n, label : Label, device : Device, at : Nat]

\* The inductive invariant.
EnrollmentInv ==
  /\ RegistryInv
  /\ CodesDrawnOnce
  /\ InvitesUnused
  /\ OwnCredentials
  /\ ShownCodeWorks
  /\ CleanInstall

-----------------------------------------------------------------------------
\* The elements of a sequence, and how it is put into a larger set of sequences.
LEMMA SeqElements ==
  ASSUME NEW S, NEW s \in Seq(S)
  PROVE  /\ DOMAIN s = 1 .. Len(s) /\ Len(s) \in Nat
         /\ \A i \in DOMAIN s : s[i] \in S
         /\ \A T : (\A i \in DOMAIN s : s[i] \in T) => s \in Seq(T)
OBVIOUS

\* What Append adds.
LEMMA AppendElements ==
  ASSUME NEW S, NEW s \in Seq(S), NEW e \in S
  PROVE  /\ Append(s, e) \in Seq(S)
         /\ Len(Append(s, e)) = Len(s) + 1
         /\ DOMAIN Append(s, e) = 1 .. Len(s) + 1
         /\ \A i \in 1 .. Len(s) : Append(s, e)[i] = s[i]
         /\ Append(s, e)[Len(s) + 1] = e
OBVIOUS

\* The fields of an entry of granted.
LEMMA GrantEntryFields ==
  ASSUME NEW n \in Nat, NEW g
  PROVE  g \in GrantEntry(n) =>
           g.code \in 1 .. n /\ g.label \in Label /\ g.device \in Device /\ g.at \in Nat
BY DEF GrantEntry

\* Drawing another code leaves the entries of granted what they are.
LEMMA GrantEntryGrows ==
  ASSUME NEW n \in Nat, NEW g \in GrantEntry(n)
  PROVE  g \in GrantEntry(n + 1)
BY DEF GrantEntry

\* Numbers that are never repeated below a bound are at most as many as the bound.
LEMMA NeverMoreThanCodes ==
  ASSUME NEW n \in Nat, NEW len \in Nat, NEW f \in [1 .. len -> 1 .. n],
         \A j, k \in 1 .. len : f[j] = f[k] => j = k
  PROVE  len <= n
<1>1. f \in Injection(1 .. len, 1 .. n)
  BY Fun_IsInj
<1>2. ExistsInjection(1 .. len, 1 .. n)
  BY <1>1 DEF ExistsInjection
<1> QED BY <1>2, Fun_NatInjLeq

\* There are at most as many enrollments as codes.
LEMMA GrantsBounded ==
  ASSUME NEW n \in Nat,
         NEW g \in Seq(GrantEntry(n)),
         \A j, k \in DOMAIN g : g[j].code = g[k].code => j = k
  PROVE  Len(g) <= n
<1> DEFINE f == [k \in 1 .. Len(g) |-> g[k].code]
<1>1. /\ Len(g) \in Nat /\ DOMAIN g = 1 .. Len(g)
      /\ \A k \in 1 .. Len(g) : g[k] \in GrantEntry(n)
  BY SeqElements
<1>2. \A k \in 1 .. Len(g) : g[k].code \in 1 .. n
  BY <1>1, GrantEntryFields
<1>3. f \in [1 .. Len(g) -> 1 .. n] /\ \A j, k \in 1 .. Len(g) : f[j] = f[k] => j = k
  BY <1>1, <1>2
<1> HIDE DEF f
<1> QED BY <1>1, <1>3, NeverMoreThanCodes

\* What TypeOK says of the elements of the sets and histories.
LEMMA EntryTypes ==
  ASSUME TypeOK
  PROVE  /\ codes \in Nat /\ MaxCodes \in Nat /\ codes <= MaxCodes /\ clock \in Nat
         /\ \A e \in drafts \cup invites :
              e.label \in Label /\ e.code \in 1 .. MaxCodes /\ e.expires \in Nat
         /\ issued \in Seq(Invite) /\ granted \in Seq(GrantEntry(codes))
         /\ DOMAIN issued = 1 .. Len(issued) /\ Len(issued) \in Nat
         /\ \A i \in DOMAIN issued :
              /\ issued[i].label \in Label
              /\ issued[i].code \in 1 .. MaxCodes
              /\ issued[i].expires \in Nat
         /\ Grants = 1 .. Len(granted) /\ Len(granted) \in Nat
         /\ \A k \in Grants :
              /\ granted[k].code \in 1 .. codes
              /\ granted[k].label \in Label
              /\ granted[k].device \in Device
              /\ granted[k].at \in Nat
<1>1. codes \in Nat /\ MaxCodes \in Nat /\ codes <= MaxCodes /\ clock \in Nat
  BY EnrollmentAssumption DEF TypeOK
<1>2. \A e \in Invite : e.label \in Label /\ e.code \in 1 .. MaxCodes /\ e.expires \in Nat
  BY DEF Invite
<1>3. /\ issued \in Seq(Invite)
      /\ \A e \in drafts \cup invites : e \in Invite
      /\ granted \in Seq(GrantEntry(codes))
  BY DEF TypeOK, GrantEntry
<1>4. /\ DOMAIN issued = 1 .. Len(issued) /\ Len(issued) \in Nat
      /\ \A i \in DOMAIN issued : issued[i] \in Invite
  BY <1>3, SeqElements
<1>5. /\ Grants = 1 .. Len(granted) /\ Len(granted) \in Nat
      /\ \A k \in Grants : granted[k] \in GrantEntry(codes)
  BY <1>3, SeqElements DEF Grants
<1>6. \A k \in Grants :
        /\ granted[k].code \in 1 .. codes
        /\ granted[k].label \in Label
        /\ granted[k].device \in Device
        /\ granted[k].at \in Nat
  BY <1>1, <1>5, GrantEntryFields
<1> QED BY <1>1, <1>2, <1>3, <1>4, <1>5, <1>6

\* None and a truncated config.json are no credentials that were granted.
LEMMA NoCredential ==
  ASSUME TypeOK
  PROVE  /\ None # Truncated
         /\ None \notin [label : Label, token : Grants]
         /\ Truncated \notin [label : Label, token : Grants]
<1>1. 0 \notin Grants
  BY EntryTypes
<1>2. None.token = 0 /\ Truncated.token = 0
  BY DEF None, Truncated
<1>3. None # Truncated
  BY DEF None, Truncated
<1> QED BY <1>1, <1>2, <1>3

-----------------------------------------------------------------------------
\* Nothing is stored, drawn or granted at first.
LEMMA EnrollmentInit == Init => EnrollmentInv
<1> SUFFICES ASSUME Init PROVE EnrollmentInv
  OBVIOUS
<1>1. TypeOK
  BY EnrollmentAssumption DEF Init, TypeOK
<1>2. OneTime /\ RedeemedInTime
  BY DEF Init, OneTime, RedeemedInTime, Grants
<1>3. LatestTokenOnly
  BY DEF Init, LatestTokenOnly, Grants, Authenticates
<1>4. CodesDrawnOnce /\ InvitesUnused
  BY DEF Init, CodesDrawnOnce, InvitesUnused
<1>5. OwnCredentials
  BY NoCredential, <1>1 DEF Init, OwnCredentials, TypeOK
<1>6. ShownCodeWorks /\ CleanInstall
  BY DEF Init, ShownCodeWorks, CleanInstall
<1> QED BY <1>1, <1>2, <1>3, <1>4, <1>5, <1>6 DEF EnrollmentInv, RegistryInv

\* Time only lets codes expire.
LEMMA AdvanceStep ==
  ASSUME EnrollmentInv, Advance
  PROVE  EnrollmentInv'
<1> USE DEF Advance, registryVars, callVars, deviceVars, historyVars
<1>1. TypeOK'
  BY EnrollmentAssumption DEF EnrollmentInv, RegistryInv, TypeOK, Grants
<1>2. OneTime' /\ RedeemedInTime'
  BY DEF EnrollmentInv, RegistryInv, OneTime, RedeemedInTime, Grants
<1>3. LatestTokenOnly'
  BY DEF EnrollmentInv, RegistryInv, LatestTokenOnly, Grants, Authenticates
<1>4. CodesDrawnOnce' /\ InvitesUnused'
  BY DEF EnrollmentInv, CodesDrawnOnce, InvitesUnused, Grants
<1>5. OwnCredentials' /\ CleanInstall'
  BY DEF EnrollmentInv, OwnCredentials, CleanInstall, Grants
<1>6. ShownCodeWorks'
  <2> SUFFICES ASSUME NEW i \in DOMAIN issued, issued[i].code \in shown,
                      ~(clock + 1 >= issued[i].expires)
               PROVE  \/ issued[i] \in invites
                      \/ \E k \in Grants : granted[k].code = issued[i].code
                      \/ \E j \in DOMAIN issued : j > i /\ issued[j].label = issued[i].label
    BY DEF ShownCodeWorks, Grants
  <2>1. clock \in Nat /\ issued[i].expires \in Nat
    BY EntryTypes DEF EnrollmentInv, RegistryInv, TypeOK
  <2> QED BY <2>1 DEF EnrollmentInv, ShownCodeWorks
<1> QED BY <1>1, <1>2, <1>3, <1>4, <1>5, <1>6 DEF EnrollmentInv, RegistryInv

\* The code a draft gets is new.
LEMMA DrawCodeStep ==
  ASSUME EnrollmentInv, NEW label \in Label, DrawCode(label)
  PROVE  EnrollmentInv'
<1> USE DEF DrawCode, registryVars, deviceVars, historyVars
<1> DEFINE draft == [label |-> label, code |-> codes + 1, expires |-> clock + InviteTTL]
<1>1. draft \in Invite /\ codes \in Nat /\ codes + 1 <= MaxCodes
  BY EnrollmentAssumption DEF EnrollmentInv, RegistryInv, TypeOK, Invite
<1>2. drafts' = drafts \cup {draft}
  OBVIOUS
<1>3. draft.code = codes + 1
  OBVIOUS
<1> HIDE DEF draft
<1>4. TypeOK'
  <2>1. granted' \in Seq([code : 1 .. codes', label : Label, device : Device, at : Nat])
    <3>1. \A k \in DOMAIN granted : granted[k] \in GrantEntry(codes)
      BY SeqElements, EntryTypes DEF EnrollmentInv, RegistryInv
    <3>2. \A k \in DOMAIN granted : granted[k] \in GrantEntry(codes + 1)
      BY <1>1, <3>1, GrantEntryGrows
    <3>3. granted \in Seq(GrantEntry(codes + 1))
      BY <3>2, SeqElements, EntryTypes DEF EnrollmentInv, RegistryInv
    <3> QED BY <3>3 DEF GrantEntry
  <2>2. shown' \subseteq 1 .. codes'
    BY <1>1 DEF EnrollmentInv, RegistryInv, TypeOK
  <2>3. drafts' \subseteq Invite
    BY <1>1, <1>2 DEF EnrollmentInv, RegistryInv, TypeOK
  <2>4. codes' \in 0 .. MaxCodes
    BY <1>1, EnrollmentAssumption
  <2>5. TypeOK /\ Grants' = Grants
    BY DEF EnrollmentInv, RegistryInv, Grants
  <2> QED BY <2>1, <2>2, <2>3, <2>4, <2>5 DEF TypeOK
<1>5. OneTime' /\ RedeemedInTime'
  BY DEF EnrollmentInv, RegistryInv, OneTime, RedeemedInTime, Grants
<1>6. LatestTokenOnly'
  BY DEF EnrollmentInv, RegistryInv, LatestTokenOnly, Grants, Authenticates
<1>7. CodesDrawnOnce'
  <2>1. /\ \A d \in drafts : d.code \in Nat /\ d.code <= codes
        /\ \A i \in DOMAIN issued : issued[i].code \in Nat /\ issued[i].code <= codes
    BY EntryTypes DEF EnrollmentInv, RegistryInv, CodesDrawnOnce
  <2>2. codes' = codes + 1 /\ issued' = issued
    OBVIOUS
  <2> QED BY <1>1, <1>2, <1>3, <2>1, <2>2 DEF EnrollmentInv, CodesDrawnOnce
<1>8. InvitesUnused' /\ ShownCodeWorks'
  BY DEF EnrollmentInv, InvitesUnused, ShownCodeWorks, Grants
<1>9. OwnCredentials' /\ CleanInstall'
  BY DEF EnrollmentInv, OwnCredentials, CleanInstall, Grants
<1> QED BY <1>4, <1>5, <1>6, <1>7, <1>8, <1>9 DEF EnrollmentInv, RegistryInv

\* An invitation that is not stored takes its code with it.
LEMMA InviteFailsStep ==
  ASSUME EnrollmentInv, NEW draft \in drafts, InviteFails(draft)
  PROVE  EnrollmentInv'
<1> USE DEF InviteFails, registryVars, deviceVars
<1>1. /\ TypeOK /\ Grants' = Grants
      /\ faults < MaxFaults /\ faults' = faults + 1 /\ faults' # 0 /\ faults' \in 0 .. MaxFaults
  BY EnrollmentAssumption DEF EnrollmentInv, RegistryInv, Grants, Fault, TypeOK
<1>2. TypeOK'
  BY <1>1 DEF TypeOK
<1>3. OneTime' /\ RedeemedInTime'
  BY <1>1 DEF EnrollmentInv, RegistryInv, OneTime, RedeemedInTime
<1>4. LatestTokenOnly'
  BY <1>1 DEF EnrollmentInv, RegistryInv, LatestTokenOnly, Authenticates
<1>5. CodesDrawnOnce' /\ InvitesUnused' /\ ShownCodeWorks'
  BY <1>1 DEF EnrollmentInv, CodesDrawnOnce, InvitesUnused, ShownCodeWorks
<1>6. OwnCredentials' /\ CleanInstall'
  BY <1>1 DEF EnrollmentInv, OwnCredentials, CleanInstall
<1> QED BY <1>2, <1>3, <1>4, <1>5, <1>6 DEF EnrollmentInv, RegistryInv

\* A stored invitation supersedes its label's and drops the expired ones.
LEMMA StoreInviteStep ==
  ASSUME EnrollmentInv, NEW draft \in drafts, NEW answered \in BOOLEAN,
         StoreInvite(draft, answered)
  PROVE  EnrollmentInv'
<1> USE DEF StoreInvite, deviceVars
<1> DEFINE n == Len(issued)
<1>1. /\ TypeOK /\ Grants' = Grants
      /\ faults' \in 0 .. MaxFaults /\ (faults' = 0 => faults = 0)
  <2>1. faults' = faults \/ (faults < MaxFaults /\ faults' = faults + 1)
    BY DEF Answer, Fault
  <2>2. TypeOK /\ Grants' = Grants
    BY DEF EnrollmentInv, RegistryInv, Grants
  <2>3. faults \in 0 .. MaxFaults /\ MaxFaults \in Nat
    BY <2>2, EnrollmentAssumption DEF TypeOK
  <2>4. faults' \in 0 .. MaxFaults
    BY <2>1, <2>3
  <2>5. faults' = 0 => faults = 0
    BY <2>1, <2>3
  <2> QED BY <2>2, <2>4, <2>5
<1>2. /\ draft \in Invite /\ draft.label \in Label
      /\ draft.code \in 1 .. codes /\ draft.expires \in Nat /\ n \in Nat
  BY <1>1, EntryTypes DEF EnrollmentInv, CodesDrawnOnce, TypeOK
<1>3. /\ issued' \in Seq(Invite) /\ DOMAIN issued = 1 .. n /\ DOMAIN issued' = 1 .. n + 1
      /\ \A i \in 1 .. n : issued'[i] = issued[i]
      /\ issued'[n + 1] = draft
  BY <1>1, <1>2, EntryTypes, AppendElements
<1>4. invites' = Others(Pruned(invites), draft.label) \cup {draft} /\ drafts' = drafts \ {draft}
  OBVIOUS
<1>5. /\ shown \subseteq shown' /\ shown' \subseteq shown \cup {draft.code}
  OBVIOUS
<1> HIDE DEF n, StoreInvite
<1>6. UNCHANGED <<clock, clients, codes, held, config, loaded, granted>>
  BY DEF StoreInvite
<1>7. TypeOK'
  <2>1. invites' \subseteq Invite /\ drafts' \subseteq Invite
    BY <1>1, <1>2, <1>4 DEF Others, Pruned, TypeOK
  <2>2. shown' \subseteq 1 .. codes
    BY <1>1, <1>2, <1>5 DEF TypeOK
  <2> QED BY <1>1, <1>3, <1>6, <2>1, <2>2 DEF TypeOK
<1>8. OneTime'
  BY <1>1, <1>6 DEF EnrollmentInv, RegistryInv, OneTime
<1>9. RedeemedInTime'
  <2> SUFFICES ASSUME NEW k \in Grants
               PROVE  \E i \in DOMAIN issued' :
                        /\ issued'[i].code = granted[k].code
                        /\ issued'[i].label = granted[k].label
                        /\ granted[k].at < issued'[i].expires
    BY <1>1, <1>6 DEF RedeemedInTime
  <2>1. PICK i \in 1 .. n : /\ issued[i].code = granted[k].code
                            /\ issued[i].label = granted[k].label
                            /\ granted[k].at < issued[i].expires
    BY <1>3 DEF EnrollmentInv, RegistryInv, RedeemedInTime
  <2>2. i \in DOMAIN issued' /\ issued'[i] = issued[i]
    BY <1>2, <1>3
  <2> QED BY <2>1, <2>2
<1>10. LatestTokenOnly'
  BY <1>1, <1>6 DEF EnrollmentInv, RegistryInv, LatestTokenOnly, Authenticates
<1>11. CodesDrawnOnce'
  <2>1. ASSUME NEW i \in DOMAIN issued'
        PROVE  (i \in 1 .. n /\ issued'[i] = issued[i]) \/ (i = n + 1 /\ issued'[i] = draft)
    BY <1>2, <1>3
  <2>2. \A i \in 1 .. n : issued[i].code # draft.code /\ issued[i].code <= codes
    BY <1>3 DEF EnrollmentInv, CodesDrawnOnce
  <2>3. \A i, j \in 1 .. n : issued[i].code = issued[j].code => i = j
    BY <1>3 DEF EnrollmentInv, CodesDrawnOnce
  <2>4. \A i \in DOMAIN issued' : issued'[i].code <= codes
    BY <1>2, <1>1, EntryTypes, <2>1, <2>2
  <2>5. \A i, j \in DOMAIN issued' : issued'[i].code = issued'[j].code => i = j
    BY <2>1, <2>2, <2>3
  <2>6. \A d \in drafts', i \in DOMAIN issued' : d.code # issued'[i].code
    <3> SUFFICES ASSUME NEW d \in drafts, d # draft, NEW i \in DOMAIN issued'
                 PROVE  d.code # issued'[i].code
      BY <1>4
    <3>1. d.code # draft.code
      BY DEF EnrollmentInv, CodesDrawnOnce
    <3>2. \A j \in 1 .. n : d.code # issued[j].code
      BY <1>3 DEF EnrollmentInv, CodesDrawnOnce
    <3> QED BY <2>1, <3>1, <3>2
  <2> QED BY <1>4, <1>6, <2>4, <2>5, <2>6 DEF EnrollmentInv, CodesDrawnOnce
<1>12. InvitesUnused'
  <2> SUFFICES ASSUME NEW invite \in invites'
               PROVE  /\ \E i \in DOMAIN issued' : issued'[i] = invite
                      /\ \A k \in Grants : granted[k].code # invite.code
    BY <1>1, <1>6 DEF InvitesUnused
  <2>1. CASE invite = draft
    <3>1. n + 1 \in DOMAIN issued' /\ issued'[n + 1] = invite
      BY <1>2, <1>3, <2>1
    <3>2. \A k \in Grants : \E i \in DOMAIN issued : issued[i].code = granted[k].code
      BY DEF EnrollmentInv, RegistryInv, RedeemedInTime
    <3>3. \A i \in DOMAIN issued : issued[i].code # draft.code
      BY DEF EnrollmentInv, CodesDrawnOnce
    <3> QED BY <2>1, <3>1, <3>2, <3>3
  <2>2. CASE invite # draft
    <3>1. invite \in invites
      BY <1>4, <2>2 DEF Others, Pruned
    <3>2. PICK i \in 1 .. n : issued[i] = invite
      BY <1>3, <3>1 DEF EnrollmentInv, InvitesUnused
    <3>3. i \in DOMAIN issued' /\ issued'[i] = invite
      BY <1>2, <1>3, <3>2
    <3>4. \A k \in Grants : granted[k].code # invite.code
      BY <3>1 DEF EnrollmentInv, InvitesUnused
    <3> QED BY <3>3, <3>4
  <2> QED BY <2>1, <2>2
<1>13. OwnCredentials' /\ CleanInstall'
  BY <1>1, <1>6 DEF EnrollmentInv, OwnCredentials, CleanInstall
<1>14. ShownCodeWorks'
  <2> SUFFICES ASSUME NEW i \in DOMAIN issued', issued'[i].code \in shown',
                      issued'[i] \notin invites',
                      ~(clock >= issued'[i].expires),
                      ~(\E k \in Grants : granted[k].code = issued'[i].code)
               PROVE  \E j \in DOMAIN issued' : j > i /\ issued'[j].label = issued'[i].label
    BY <1>1, <1>6 DEF ShownCodeWorks
  <2>1. i \in 1 .. n /\ issued'[i] = issued[i]
    BY <1>2, <1>3, <1>4
  <2>2. issued[i].code \in shown
    BY <1>3, <1>5, <2>1 DEF EnrollmentInv, CodesDrawnOnce
  <2>3. CASE issued[i] \in invites
    <3>1. issued[i].expires \in Nat /\ clock \in Nat
      BY <1>1, <1>3, <2>1, EntryTypes
    <3>2. issued[i] \in Pruned(invites)
      BY <2>1, <2>3, <3>1 DEF Pruned
    <3>3. issued[i].label = draft.label
      BY <1>4, <2>1, <3>2 DEF Others
    <3>4. n + 1 \in DOMAIN issued' /\ n + 1 > i /\ issued'[n + 1].label = issued'[i].label
      BY <1>2, <1>3, <2>1, <3>3
    <3> QED BY <3>4
  <2>4. CASE issued[i] \notin invites
    <3>1. PICK j \in 1 .. n : j > i /\ issued[j].label = issued[i].label
      BY <1>3, <2>1, <2>2, <2>4 DEF EnrollmentInv, ShownCodeWorks
    <3>2. j \in DOMAIN issued' /\ issued'[j].label = issued'[i].label
      BY <1>2, <1>3, <2>1, <3>1
    <3> QED BY <3>1, <3>2
  <2> QED BY <2>3, <2>4
<1> QED BY <1>7, <1>8, <1>9, <1>10, <1>11, <1>12, <1>13, <1>14 DEF EnrollmentInv, RegistryInv

-----------------------------------------------------------------------------
\* The credential of the k-th enrollment, and whether it is its label's last.
Granted(k) == [label |-> granted[k].label, token |-> k]
LastOfLabel(k) == \A m \in Grants : granted[m].label = granted[k].label => m <= k

\* LatestTokenOnly, said of the set of clients.
LEMMA LatestClients ==
  ASSUME TypeOK
  PROVE  LatestTokenOnly <=> clients = {Granted(k) : k \in {j \in Grants : LastOfLabel(j)}}
<1>1. clients = {c \in [label : Label, token : Grants] : Authenticates(c)}
  BY DEF TypeOK, Authenticates
<1>2. {Granted(k) : k \in {j \in Grants : LastOfLabel(j)}} =
        {[label |-> granted[k].label, token |-> k] :
           k \in {j \in Grants : \A n \in Grants : granted[n].label = granted[j].label => n <= j}}
  BY DEF Granted, LastOfLabel
<1> QED BY <1>1, <1>2 DEF LatestTokenOnly

\* What an enrollment appends, and what it leaves alone.
LEMMA EnrollEffect ==
  ASSUME TypeOK, NEW n \in Nat, n = Len(granted),
         NEW d \in Device, NEW invite \in invites, NEW answered \in BOOLEAN,
         Enroll(d, invite, answered)
  PROVE  /\ Grants = 1 .. n
         /\ Grants' = 1 .. n + 1
         /\ granted' \in Seq(GrantEntry(codes))
         /\ \A k \in Grants : granted'[k] = granted[k]
         /\ granted'[n + 1].code = invite.code
         /\ granted'[n + 1].label = invite.label
         /\ granted'[n + 1].device = d
         /\ granted'[n + 1].at = clock
         /\ NewToken(invite.label) \in [label : Label, token : Grants']
         /\ NewToken(invite.label) = Granted(n + 1)'
         /\ [label : Label, token : Grants] \subseteq [label : Label, token : Grants']
<1> DEFINE g == [code |-> invite.code, label |-> invite.label, device |-> d, at |-> clock]
<1>1. invite.code \in shown /\ granted' = Append(granted, g)
  BY DEF Enroll, Grant
<1>2. invite.code \in 1 .. codes /\ invite.label \in Label /\ clock \in Nat
  BY <1>1, EntryTypes DEF TypeOK
<1>3. g \in GrantEntry(codes)
  BY <1>2 DEF GrantEntry
<1>4. g.code = invite.code /\ g.label = invite.label /\ g.device = d /\ g.at = clock
  OBVIOUS
<1> HIDE DEF g
<1>5. Grants = 1 .. n /\ granted \in Seq(GrantEntry(codes))
  BY EntryTypes
<1>6. /\ granted' \in Seq(GrantEntry(codes))
      /\ DOMAIN granted' = 1 .. n + 1
      /\ \A k \in 1 .. n : granted'[k] = granted[k]
      /\ granted'[n + 1] = g
  BY <1>1, <1>3, <1>5, AppendElements
<1>7. Grants' = 1 .. n + 1
  BY <1>6 DEF Grants
<1>8. NewToken(invite.label) \in [label : Label, token : 1 .. n + 1]
  BY <1>2, <1>5 DEF NewToken
<1>9. NewToken(invite.label) = Granted(n + 1)'
  BY <1>4, <1>6 DEF NewToken, Granted
<1>10. [label : Label, token : 1 .. n] \subseteq [label : Label, token : 1 .. n + 1]
  BY <1>5
<1> QED BY <1>4, <1>5, <1>6, <1>7, <1>8, <1>9, <1>10

\* An enrollment uses up its code and replaces its label's token.
LEMMA EnrollStep ==
  ASSUME EnrollmentInv, NEW d \in Device, NEW invite \in invites, NEW answered \in BOOLEAN,
         Enroll(d, invite, answered)
  PROVE  EnrollmentInv'
<1>0. PICK n \in Nat : n = Len(granted)
  BY EntryTypes DEF EnrollmentInv, RegistryInv
<1> DEFINE new == NewToken(invite.label)
<1>1. TypeOK /\ OneTime /\ RedeemedInTime /\ LatestTokenOnly
  BY DEF EnrollmentInv, RegistryInv
<1>2. /\ Grants = 1 .. n
      /\ Grants' = 1 .. n + 1
      /\ granted' \in Seq(GrantEntry(codes))
      /\ \A k \in Grants : granted'[k] = granted[k]
      /\ granted'[n + 1].code = invite.code
      /\ granted'[n + 1].label = invite.label
      /\ granted'[n + 1].device = d
      /\ granted'[n + 1].at = clock
      /\ new \in [label : Label, token : Grants']
      /\ new = Granted(n + 1)'
      /\ [label : Label, token : Grants] \subseteq [label : Label, token : Grants']
  BY <1>0, <1>1, EnrollEffect
<1>3. /\ UNCHANGED <<clock, codes, drafts, shown, config, loaded, issued>>
      /\ held[d] = None
      /\ held' = IF answered THEN [held EXCEPT ![d] = new] ELSE held
      /\ clients' = Others(clients, invite.label) \cup {new}
      /\ invites' = Pruned(invites) \ {invite}
      /\ invite \in Pruned(invites)
  BY DEF Enroll, Grant, callVars
<1>4. /\ faults' \in 0 .. MaxFaults
      /\ faults' = 0 => (faults = 0 /\ answered)
  <2>1. IF answered THEN faults' = faults ELSE faults < MaxFaults /\ faults' = faults + 1
    BY DEF Enroll, Grant, Answer, Fault
  <2>2. faults \in 0 .. MaxFaults /\ MaxFaults \in Nat
    BY <1>1, EnrollmentAssumption DEF TypeOK
  <2>3. CASE answered
    BY <2>1, <2>2, <2>3
  <2>4. CASE ~answered
    <3>1. faults < MaxFaults /\ faults' = faults + 1
      BY <2>1, <2>4
    <3>2. faults' \in 0 .. MaxFaults /\ faults' # 0
      BY <2>2, <3>1
    <3> QED BY <3>2
  <2> QED BY <2>3, <2>4
<1>5. PICK u \in DOMAIN issued : issued[u] = invite
  BY DEF EnrollmentInv, InvitesUnused
<1>6. invite \in Invite /\ invite.label \in Label /\ n + 1 \in Grants'
  BY <1>1, <1>2, EntryTypes DEF TypeOK
<1> HIDE DEF new
<1>7. \A c \in clients : c # new
  BY <1>0, <1>1, <1>2 DEF TypeOK, NewToken, new
<1>8. TypeOK'
  <2>1. granted' \in Seq([code : 1 .. codes, label : Label, device : Device, at : Nat])
    BY <1>2 DEF GrantEntry
  <2>2. invites' \subseteq Invite
    BY <1>1, <1>3 DEF Pruned, TypeOK
  <2>3. clients' \subseteq [label : Label, token : Grants']
    BY <1>1, <1>2, <1>3 DEF Others, TypeOK
  <2>4. held' \in [Device -> [label : Label, token : Grants'] \cup {None}]
    <3>1. held \in [Device -> [label : Label, token : Grants'] \cup {None}]
      BY <1>1, <1>2 DEF TypeOK
    <3>2. CASE answered
      BY <1>2, <1>3, <3>1, <3>2
    <3>3. CASE ~answered
      BY <1>3, <3>1, <3>3
    <3> QED BY <3>2, <3>3
  <2>5. /\ config \in [Device -> [label : Label, token : Grants'] \cup {None, Truncated}]
        /\ loaded \in [Device -> [label : Label, token : Grants'] \cup {None}]
    BY <1>1, <1>2 DEF TypeOK
  <2> QED BY <1>1, <1>3, <1>4, <2>1, <2>2, <2>3, <2>4, <2>5 DEF TypeOK
<1>9. OneTime'
  <2>1. \A k \in Grants : granted[k].code # invite.code
    BY DEF EnrollmentInv, InvitesUnused
  <2>2. \A k \in Grants' : k \in Grants \/ k = n + 1
    BY <1>2
  <2> QED BY <1>1, <1>2, <2>1, <2>2 DEF OneTime
<1>10. RedeemedInTime'
  <2> SUFFICES ASSUME NEW k \in Grants'
               PROVE  \E i \in DOMAIN issued :
                        /\ issued[i].code = granted'[k].code
                        /\ issued[i].label = granted'[k].label
                        /\ granted'[k].at < issued[i].expires
    BY <1>3 DEF RedeemedInTime
  <2>1. CASE k \in Grants
    BY <1>1, <1>2, <2>1 DEF RedeemedInTime
  <2>2. CASE k = n + 1
    <3>1. invite.expires > clock
      BY <1>3 DEF Pruned
    <3>2. invite.expires \in Nat /\ clock \in Nat
      BY <1>1, EntryTypes
    <3>3. clock < issued[u].expires
      BY <1>5, <3>1, <3>2
    <3> QED BY <1>2, <1>5, <2>2, <3>3
  <2> QED BY <1>2, <2>1, <2>2
<1>11. LatestTokenOnly'
  <2>1. clients = {Granted(k) : k \in {j \in Grants : LastOfLabel(j)}}
    BY <1>1, LatestClients
  <2>2. LastOfLabel(n + 1)'
    BY <1>2 DEF LastOfLabel
  <2>3. \A k \in Grants : LastOfLabel(k)' <=> LastOfLabel(k) /\ granted[k].label # invite.label
    <3> SUFFICES ASSUME NEW k \in Grants
                 PROVE  LastOfLabel(k)' <=> LastOfLabel(k) /\ granted[k].label # invite.label
      OBVIOUS
    <3>1. k \in Nat /\ ~(n + 1 <= k) /\ k \in Grants'
      BY <1>2
    <3>2. LastOfLabel(k)' => LastOfLabel(k) /\ granted[k].label # invite.label
      BY <1>2, <1>6, <3>1 DEF LastOfLabel
    <3>3. LastOfLabel(k) /\ granted[k].label # invite.label => LastOfLabel(k)'
      BY <1>2, <3>1 DEF LastOfLabel
    <3> QED BY <3>2, <3>3
  <2>4. \A k \in Grants : Granted(k)' = Granted(k) /\ Granted(k).label = granted[k].label
    BY <1>2 DEF Granted
  <2>5. Others(clients, invite.label) = {Granted(k)' : k \in {j \in Grants : LastOfLabel(j)'}}
    <3>1. Others(clients, invite.label) =
            {Granted(k) : k \in {j \in Grants : LastOfLabel(j) /\ granted[j].label # invite.label}}
      BY <2>1, <2>4 DEF Others
    <3> QED BY <2>3, <2>4, <3>1
  <2>6. Grants' = Grants \cup {n + 1}
    BY <1>2
  <2>7. clients' = {Granted(k)' : k \in {j \in Grants' : LastOfLabel(j)'}}
    BY <1>2, <1>3, <2>2, <2>5, <2>6
  <2>8. {c \in [label : Label, token : Grants'] : c \in clients'} = clients'
    BY <1>8 DEF TypeOK
  <2>9. {Granted(k)' : k \in {j \in Grants' : LastOfLabel(j)'}} =
          {[label |-> granted'[k].label, token |-> k] :
             k \in {j \in Grants' : \A m \in Grants' : granted'[m].label = granted'[j].label => m <= j}}
    BY DEF Granted, LastOfLabel
  <2> QED BY <2>7, <2>8, <2>9 DEF LatestTokenOnly, Authenticates
<1>12. CodesDrawnOnce'
  BY <1>3 DEF EnrollmentInv, CodesDrawnOnce
<1>13. InvitesUnused'
  <2> SUFFICES ASSUME NEW i \in invites'
               PROVE  /\ \E j \in DOMAIN issued : issued[j] = i
                      /\ \A k \in Grants' : granted'[k].code # i.code
    BY <1>3 DEF InvitesUnused
  <2>1. i \in invites /\ i # invite
    BY <1>3 DEF Pruned
  <2>2. PICK j \in DOMAIN issued : issued[j] = i
    BY <2>1 DEF EnrollmentInv, InvitesUnused
  <2>3. i.code # invite.code
    BY <1>5, <2>1, <2>2 DEF EnrollmentInv, CodesDrawnOnce
  <2>4. \A k \in Grants : granted[k].code # i.code
    BY <2>1 DEF EnrollmentInv, InvitesUnused
  <2>5. \A k \in Grants' : k \in Grants \/ k = n + 1
    BY <1>2
  <2> QED BY <1>2, <2>2, <2>3, <2>4, <2>5
<1>14. OwnCredentials'
  <2> SUFFICES ASSUME NEW e \in Device
               PROVE  /\ held'[e] # None =>
                           /\ granted'[held'[e].token].label = held'[e].label
                           /\ granted'[held'[e].token].device = e
                           /\ \A k \in Grants' : granted'[k].device = e => k <= held'[e].token
                      /\ faults' = 0 => config'[e] # Truncated
    BY DEF OwnCredentials
  <2>1. faults' = 0 => config'[e] # Truncated
    BY <1>3, <1>4 DEF EnrollmentInv, OwnCredentials
  <2>2. CASE held'[e] = held[e]
    <3> SUFFICES ASSUME held[e] # None
                 PROVE  /\ granted'[held[e].token].label = held[e].label
                        /\ granted'[held[e].token].device = e
                        /\ \A k \in Grants' : granted'[k].device = e => k <= held[e].token
      BY <2>1, <2>2
    <3>1. held[e].token \in Grants
      BY <1>1 DEF TypeOK
    <3>2. e # d
      BY <1>3
    <3>3. /\ granted[held[e].token].label = held[e].label
          /\ granted[held[e].token].device = e
          /\ \A k \in Grants : granted[k].device = e => k <= held[e].token
      BY DEF EnrollmentInv, OwnCredentials
    <3>4. \A k \in Grants' : k \in Grants \/ granted'[k].device # e
      BY <1>2, <3>2
    <3> QED BY <1>2, <3>1, <3>3, <3>4
  <2>3. CASE held'[e] = new
    <3>1. held'[e].token = n + 1 /\ held'[e].label = invite.label /\ e = d
      <4>1. new.token = n + 1 /\ new.label = invite.label
        BY <1>0 DEF new, NewToken
      <4>2. e # d => held'[e] = held[e]
        BY <1>3
      <4>3. held[e] # new
        <5>1. held[e] = None \/ held[e].token \in Grants
          BY <1>1 DEF TypeOK
        <5>2. None.token = 0
          BY DEF None
        <5> QED BY <1>2, <4>1, <5>1, <5>2
      <4> QED BY <2>3, <4>1, <4>2, <4>3
    <3> QED BY <1>2, <2>1, <3>1
  <2>4. held'[e] = held[e] \/ held'[e] = new
    <3>1. held \in [Device -> [label : Label, token : Grants] \cup {None}]
      BY <1>1 DEF TypeOK
    <3> QED BY <1>3, <3>1
  <2> QED BY <2>2, <2>3, <2>4
<1>15. ShownCodeWorks'
  <2> SUFFICES ASSUME NEW i \in DOMAIN issued, issued[i].code \in shown,
                      issued[i] \notin invites', ~(clock >= issued[i].expires)
               PROVE  \/ \E k \in Grants' : granted'[k].code = issued[i].code
                      \/ \E j \in DOMAIN issued : j > i /\ issued[j].label = issued[i].label
    BY <1>3 DEF ShownCodeWorks
  <2>1. CASE issued[i] = invite
    <3>1. n + 1 \in Grants' /\ granted'[n + 1].code = issued[i].code
      BY <1>2, <1>6, <2>1
    <3> QED BY <3>1
  <2>2. CASE issued[i] # invite
    <3>1. issued[i].expires \in Nat /\ clock \in Nat
      BY <1>1, EntryTypes
    <3>2. issued[i].expires > clock
      BY <3>1
    <3>3. issued[i] \notin invites
      BY <1>3, <2>2, <3>2 DEF Pruned
    <3>4. \A k \in Grants : k \in Grants' /\ granted'[k] = granted[k]
      BY <1>2
    <3> QED BY <3>3, <3>4 DEF EnrollmentInv, ShownCodeWorks
  <2> QED BY <2>1, <2>2
<1>16. CleanInstall'
  <2> SUFFICES ASSUME faults' = 0
               PROVE  /\ \A c \in clients' :
                           \/ c \in {held'[granted'[c.token].device], config[granted'[c.token].device]}
                           \/ \E k \in Grants' : k > c.token /\ granted'[k].device = granted'[c.token].device
                      /\ \A e \in Device : held'[e] = None => loaded[e] = config[e]
    BY <1>3 DEF CleanInstall
  <2>1. faults = 0 /\ answered
    BY <1>4
  <2>2. /\ held'[d] = new
        /\ \A e \in Device : e # d => held'[e] = held[e]
    BY <1>1, <1>3, <2>1 DEF TypeOK
  <2>3. ASSUME NEW c \in clients'
        PROVE  \/ c \in {held'[granted'[c.token].device], config[granted'[c.token].device]}
               \/ \E k \in Grants' : k > c.token /\ granted'[k].device = granted'[c.token].device
    <3>1. CASE c = new
      <4>1. c.token = n + 1
        BY <1>0, <3>1 DEF new, NewToken
      <4> QED BY <1>2, <2>2, <3>1, <4>1
    <3>2. CASE c # new
      <4>1. c \in clients
        BY <1>3, <3>2 DEF Others
      <4>2. c.token \in Grants
        BY <1>1, <4>1 DEF TypeOK
      <4>3. granted'[c.token] = granted[c.token] /\ granted[c.token].device \in Device
        BY <1>1, <1>2, <4>2, EntryTypes
      <4>4. CASE granted[c.token].device = d
        <5>1. n + 1 \in Grants' /\ n + 1 > c.token
          BY <1>2, <1>6, <4>2
        <5> QED BY <1>2, <4>3, <4>4, <5>1
      <4>5. CASE granted[c.token].device # d
        <5>1. \/ c \in {held[granted[c.token].device], config[granted[c.token].device]}
              \/ \E k \in Grants : k > c.token /\ granted[k].device = granted[c.token].device
          BY <2>1, <4>1 DEF EnrollmentInv, CleanInstall
        <5>2. \A k \in Grants : k \in Grants' /\ granted'[k] = granted[k]
          BY <1>2
        <5> QED BY <2>2, <4>3, <4>5, <5>1, <5>2
      <4> QED BY <4>4, <4>5
    <3> QED BY <3>1, <3>2
  <2>4. ASSUME NEW e \in Device, held'[e] = None
        PROVE  loaded[e] = config[e]
    <3>1. new # None
      BY <1>2, <1>8, NoCredential DEF new, NewToken, None
    <3>2. held[e] = None
      BY <2>2, <2>4, <3>1
    <3> QED BY <2>1, <3>2 DEF EnrollmentInv, CleanInstall
  <2> QED BY <2>3, <2>4
<1> QED BY <1>8, <1>9, <1>10, <1>11, <1>12, <1>13, <1>14, <1>15, <1>16 DEF EnrollmentInv, RegistryInv

-----------------------------------------------------------------------------
\* What a device has reaches neither the registry nor its histories.
LEMMA DeviceStep ==
  ASSUME EnrollmentInv, UNCHANGED <<clock, invites, clients, codes, drafts, shown, issued, granted>>,
         held' \in [Device -> [label : Label, token : Grants] \cup {None}],
         config' \in [Device -> [label : Label, token : Grants] \cup {None, Truncated}],
         loaded' \in [Device -> [label : Label, token : Grants] \cup {None}],
         faults' \in 0 .. MaxFaults
  PROVE  /\ RegistryInv' /\ CodesDrawnOnce' /\ InvitesUnused' /\ ShownCodeWorks'
         /\ Grants' = Grants
<1>1. TypeOK /\ Grants' = Grants
  BY DEF EnrollmentInv, RegistryInv, Grants
<1>2. TypeOK'
  BY <1>1 DEF TypeOK
<1>3. OneTime' /\ RedeemedInTime'
  BY <1>1 DEF EnrollmentInv, RegistryInv, OneTime, RedeemedInTime
<1>4. LatestTokenOnly'
  BY <1>1 DEF EnrollmentInv, RegistryInv, LatestTokenOnly, Authenticates
<1>5. CodesDrawnOnce' /\ InvitesUnused' /\ ShownCodeWorks'
  BY <1>1 DEF EnrollmentInv, CodesDrawnOnce, InvitesUnused, ShownCodeWorks
<1> QED BY <1>1, <1>2, <1>3, <1>4, <1>5 DEF RegistryInv

\* A written config.json may overwrite the credential of an earlier enrollment
\* of the same device only.
LEMMA WriteConfigStep ==
  ASSUME EnrollmentInv, NEW d \in Device, WriteConfig(d)
  PROVE  EnrollmentInv'
<1>1. /\ UNCHANGED <<clock, invites, clients, codes, drafts, shown, issued, granted>>
      /\ UNCHANGED <<held, loaded, faults>>
      /\ held[d] # None
      /\ config' = [config EXCEPT ![d] = held[d]]
  BY DEF WriteConfig, registryVars, callVars, historyVars
<1>2. TypeOK
  BY DEF EnrollmentInv, RegistryInv
<1>3. /\ held \in [Device -> [label : Label, token : Grants] \cup {None}]
      /\ config \in [Device -> [label : Label, token : Grants] \cup {None, Truncated}]
      /\ loaded \in [Device -> [label : Label, token : Grants] \cup {None}]
      /\ faults \in 0 .. MaxFaults
  BY <1>2 DEF TypeOK
<1>4. config' \in [Device -> [label : Label, token : Grants] \cup {None, Truncated}]
  BY <1>1, <1>3
<1>5. /\ RegistryInv' /\ CodesDrawnOnce' /\ InvitesUnused' /\ ShownCodeWorks'
      /\ Grants' = Grants
  BY <1>1, <1>3, <1>4, DeviceStep
<1>6. /\ config'[d] = held[d]
      /\ \A e \in Device : e # d => config'[e] = config[e]
  BY <1>1, <1>3
<1>7. held[d] \in [label : Label, token : Grants]
  BY <1>1, <1>3
<1>8. OwnCredentials'
  <2>1. held[d] # Truncated
    BY <1>2, <1>7, NoCredential
  <2>2. \A e \in Device : faults = 0 => config'[e] # Truncated
    BY <1>6, <2>1 DEF EnrollmentInv, OwnCredentials
  <2> QED BY <1>1, <1>5, <2>2 DEF EnrollmentInv, OwnCredentials
<1>9. CleanInstall'
  <2> SUFFICES ASSUME faults = 0
               PROVE  /\ \A c \in clients :
                           \/ c \in {held[granted[c.token].device], config'[granted[c.token].device]}
                           \/ \E k \in Grants : k > c.token /\ granted[k].device = granted[c.token].device
                      /\ \A e \in Device : held[e] = None => loaded[e] = config'[e]
    BY <1>1, <1>5 DEF CleanInstall
  <2>1. ASSUME NEW e \in Device, held[e] = None
        PROVE  loaded[e] = config'[e]
    BY <1>1, <1>6, <2>1 DEF EnrollmentInv, CleanInstall
  <2>2. ASSUME NEW c \in clients
        PROVE  \/ c \in {held[granted[c.token].device], config'[granted[c.token].device]}
               \/ \E k \in Grants : k > c.token /\ granted[k].device = granted[c.token].device
    <3>1. c \in [label : Label, token : Grants]
      BY <1>2 DEF TypeOK
    <3>2. \/ c \in {held[granted[c.token].device], config[granted[c.token].device]}
          \/ \E k \in Grants : k > c.token /\ granted[k].device = granted[c.token].device
      BY DEF EnrollmentInv, CleanInstall
    <3>3. granted[c.token].device \in Device /\ Grants \subseteq Nat
      BY <1>2, <3>1, EntryTypes
    <3>4. CASE granted[c.token].device = d /\ c # held[d]
      <4>1. /\ granted[held[d].token].label = held[d].label
            /\ granted[held[d].token].device = d
            /\ c.token <= held[d].token
        BY <1>1, <3>1, <3>4 DEF EnrollmentInv, OwnCredentials
      <4>2. c.label = granted[c.token].label
        BY <1>2, LatestClients DEF EnrollmentInv, RegistryInv, Granted
      <4>3. c.token # held[d].token
        <5>1. \A a, b \in [label : Label, token : Grants] :
                a.label = b.label /\ a.token = b.token => a = b
          OBVIOUS
        <5> QED BY <1>7, <3>1, <3>4, <4>1, <4>2, <5>1
      <4>4. held[d].token \in Grants /\ c.token \in Grants
        BY <1>7, <3>1
      <4>5. held[d].token > c.token
        <5>1. \A x, y \in Nat : x <= y /\ x # y => y > x
          OBVIOUS
        <5>2. held[d].token \in Nat /\ c.token \in Nat
          BY <3>3, <4>4
        <5> QED BY <4>1, <4>3, <5>1, <5>2
      <4> QED BY <3>4, <4>1, <4>4, <4>5
    <3>5. CASE granted[c.token].device # d
      BY <1>6, <3>2, <3>3, <3>5
    <3>6. CASE c = held[d] /\ granted[c.token].device = d
      BY <3>6
    <3> QED BY <3>4, <3>5, <3>6
  <2> QED BY <2>1, <2>2
<1> QED BY <1>5, <1>8, <1>9 DEF EnrollmentInv

\* What an agent reads from a config.json is a credential or nothing.
LEMMA ReadsType ==
  ASSUME TypeOK, NEW d \in Device
  PROVE  /\ Reads(d) \in [label : Label, token : Grants] \cup {None}
         /\ config[d] # Truncated => Reads(d) = config[d]
BY DEF Reads, TypeOK

\* The agent is restarted with the credential that was written.
LEMMA FinishInstallStep ==
  ASSUME EnrollmentInv, NEW d \in Device, FinishInstall(d)
  PROVE  EnrollmentInv'
<1>1. /\ UNCHANGED <<clock, invites, clients, codes, drafts, shown, issued, granted>>
      /\ UNCHANGED <<config, faults>>
      /\ config[d] = held[d]
      /\ held' = [held EXCEPT ![d] = None]
      /\ loaded' = [loaded EXCEPT ![d] = Reads(d)]
  BY DEF FinishInstall, registryVars, callVars, historyVars
<1>2. TypeOK
  BY DEF EnrollmentInv, RegistryInv
<1>3. /\ held \in [Device -> [label : Label, token : Grants] \cup {None}]
      /\ config \in [Device -> [label : Label, token : Grants] \cup {None, Truncated}]
      /\ loaded \in [Device -> [label : Label, token : Grants] \cup {None}]
      /\ faults \in 0 .. MaxFaults
  BY <1>2 DEF TypeOK
<1>4. Reads(d) \in [label : Label, token : Grants] \cup {None}
  BY <1>2, ReadsType
<1>5. /\ held' \in [Device -> [label : Label, token : Grants] \cup {None}]
      /\ loaded' \in [Device -> [label : Label, token : Grants] \cup {None}]
  BY <1>1, <1>3, <1>4
<1>6. /\ RegistryInv' /\ CodesDrawnOnce' /\ InvitesUnused' /\ ShownCodeWorks'
      /\ Grants' = Grants
  BY <1>1, <1>3, <1>5, DeviceStep
<1>7. /\ held'[d] = None /\ loaded'[d] = Reads(d)
      /\ \A e \in Device : e # d => held'[e] = held[e] /\ loaded'[e] = loaded[e]
  BY <1>1, <1>3
<1>8. OwnCredentials'
  BY <1>1, <1>6, <1>7 DEF EnrollmentInv, OwnCredentials
<1>9. CleanInstall'
  <2> SUFFICES ASSUME faults = 0
               PROVE  /\ \A c \in clients :
                           \/ c \in {held'[granted[c.token].device], config[granted[c.token].device]}
                           \/ \E k \in Grants : k > c.token /\ granted[k].device = granted[c.token].device
                      /\ \A e \in Device : held'[e] = None => loaded'[e] = config[e]
    BY <1>1, <1>6 DEF CleanInstall
  <2>1. ASSUME NEW e \in Device, held'[e] = None
        PROVE  loaded'[e] = config[e]
    <3>1. CASE e = d
      BY <1>2, <1>7, <3>1, ReadsType DEF EnrollmentInv, OwnCredentials
    <3>2. CASE e # d
      BY <1>7, <2>1, <3>2 DEF EnrollmentInv, CleanInstall
    <3> QED BY <3>1, <3>2
  <2>2. ASSUME NEW c \in clients
        PROVE  \/ c \in {held'[granted[c.token].device], config[granted[c.token].device]}
               \/ \E k \in Grants : k > c.token /\ granted[k].device = granted[c.token].device
    <3>1. c.token \in Grants
      BY <1>2 DEF TypeOK
    <3>2. granted[c.token].device \in Device
      BY <1>2, <3>1, EntryTypes
    <3>3. \/ c \in {held[granted[c.token].device], config[granted[c.token].device]}
          \/ \E k \in Grants : k > c.token /\ granted[k].device = granted[c.token].device
      BY DEF EnrollmentInv, CleanInstall
    <3> QED BY <1>1, <1>7, <3>2, <3>3
  <2> QED BY <2>1, <2>2
<1> QED BY <1>6, <1>8, <1>9 DEF EnrollmentInv

\* An installer that dies is a failure: what it held is gone.
LEMMA InstallDiesStep ==
  ASSUME EnrollmentInv, NEW d \in Device, InstallDies(d)
  PROVE  EnrollmentInv'
<1>1. /\ UNCHANGED <<clock, invites, clients, codes, drafts, shown, issued, granted>>
      /\ UNCHANGED loaded
      /\ held' = [held EXCEPT ![d] = None]
      /\ config' = config \/ config' = [config EXCEPT ![d] = Truncated]
      /\ faults < MaxFaults /\ faults' = faults + 1
  BY DEF InstallDies, registryVars, callVars, Fault
<1>2. TypeOK
  BY DEF EnrollmentInv, RegistryInv
<1>3. /\ held \in [Device -> [label : Label, token : Grants] \cup {None}]
      /\ config \in [Device -> [label : Label, token : Grants] \cup {None, Truncated}]
      /\ loaded \in [Device -> [label : Label, token : Grants] \cup {None}]
      /\ faults \in 0 .. MaxFaults /\ MaxFaults \in Nat
  BY <1>2, EnrollmentAssumption DEF TypeOK
<1>4. /\ held' \in [Device -> [label : Label, token : Grants] \cup {None}]
      /\ config' \in [Device -> [label : Label, token : Grants] \cup {None, Truncated}]
  BY <1>1, <1>3
<1>5. faults' \in 0 .. MaxFaults /\ faults' # 0
  BY <1>1, <1>3
<1>6. /\ RegistryInv' /\ CodesDrawnOnce' /\ InvitesUnused' /\ ShownCodeWorks'
      /\ Grants' = Grants
  BY <1>1, <1>3, <1>4, <1>5, DeviceStep
<1>7. \A e \in Device : held'[e] = None \/ held'[e] = held[e]
  BY <1>1, <1>3
<1>8. OwnCredentials'
  BY <1>1, <1>5, <1>6, <1>7 DEF EnrollmentInv, OwnCredentials
<1>9. CleanInstall'
  BY <1>5 DEF CleanInstall
<1> QED BY <1>6, <1>8, <1>9 DEF EnrollmentInv

\* A restarted agent uses what its config.json says.
LEMMA RestartStep ==
  ASSUME EnrollmentInv, NEW d \in Device, Restart(d)
  PROVE  EnrollmentInv'
<1>1. /\ UNCHANGED <<clock, invites, clients, codes, drafts, shown, issued, granted>>
      /\ UNCHANGED <<held, config, faults>>
      /\ loaded' = [loaded EXCEPT ![d] = Reads(d)]
  BY DEF Restart, registryVars, callVars, historyVars
<1>2. TypeOK
  BY DEF EnrollmentInv, RegistryInv
<1>3. /\ held \in [Device -> [label : Label, token : Grants] \cup {None}]
      /\ config \in [Device -> [label : Label, token : Grants] \cup {None, Truncated}]
      /\ loaded \in [Device -> [label : Label, token : Grants] \cup {None}]
      /\ faults \in 0 .. MaxFaults
  BY <1>2 DEF TypeOK
<1>4. Reads(d) \in [label : Label, token : Grants] \cup {None}
  BY <1>2, ReadsType
<1>5. loaded' \in [Device -> [label : Label, token : Grants] \cup {None}]
  BY <1>1, <1>3, <1>4
<1>6. /\ RegistryInv' /\ CodesDrawnOnce' /\ InvitesUnused' /\ ShownCodeWorks'
      /\ Grants' = Grants
  BY <1>1, <1>3, <1>5, DeviceStep
<1>7. OwnCredentials'
  BY <1>1, <1>6 DEF EnrollmentInv, OwnCredentials
<1>8. CleanInstall'
  <2>1. ASSUME NEW e \in Device, faults = 0, held[e] = None
        PROVE  loaded'[e] = config[e]
    <3>1. CASE e = d
      <4>1. loaded'[e] = Reads(d)
        BY <1>1, <1>3, <3>1
      <4> QED BY <1>2, <2>1, <3>1, <4>1, ReadsType DEF EnrollmentInv, OwnCredentials
    <3>2. CASE e # d
      BY <1>1, <1>3, <2>1, <3>2 DEF EnrollmentInv, CleanInstall
    <3> QED BY <3>1, <3>2
  <2> QED BY <1>1, <1>6, <2>1 DEF EnrollmentInv, CleanInstall
<1> QED BY <1>6, <1>7, <1>8 DEF EnrollmentInv

-----------------------------------------------------------------------------
\* Every step of the server or of a device keeps the invariant.
LEMMA EnrollmentNext == EnrollmentInv /\ [Next]_vars => EnrollmentInv'
<1> SUFFICES ASSUME EnrollmentInv, [Next]_vars
             PROVE  EnrollmentInv'
  OBVIOUS
<1>1. CASE Advance
  BY <1>1, AdvanceStep
<1>2. ASSUME NEW label \in Label, DrawCode(label)
      PROVE  EnrollmentInv'
  BY <1>2, DrawCodeStep
<1>3. ASSUME NEW draft \in drafts, InviteFails(draft)
      PROVE  EnrollmentInv'
  BY <1>3, InviteFailsStep
<1>4. ASSUME NEW draft \in drafts, NEW answered \in BOOLEAN, StoreInvite(draft, answered)
      PROVE  EnrollmentInv'
  BY <1>4, StoreInviteStep
<1>5. ASSUME NEW d \in Device, NEW i \in invites, NEW answered \in BOOLEAN,
             Enroll(d, i, answered)
      PROVE  EnrollmentInv'
  BY <1>5, EnrollStep
<1>6. ASSUME NEW d \in Device, WriteConfig(d)
      PROVE  EnrollmentInv'
  BY <1>6, WriteConfigStep
<1>7. ASSUME NEW d \in Device, FinishInstall(d)
      PROVE  EnrollmentInv'
  BY <1>7, FinishInstallStep
<1>8. ASSUME NEW d \in Device, InstallDies(d)
      PROVE  EnrollmentInv'
  BY <1>8, InstallDiesStep
<1>9. ASSUME NEW d \in Device, Restart(d)
      PROVE  EnrollmentInv'
  BY <1>9, RestartStep
<1>10. CASE UNCHANGED vars
  <2>1. UNCHANGED <<clock, codes, drafts, invites, clients, shown, held, config, loaded,
                    issued, granted, faults>>
    BY <1>10 DEF vars, registryVars, callVars, deviceVars, historyVars
  <2>2. /\ held \in [Device -> [label : Label, token : Grants] \cup {None}]
        /\ config \in [Device -> [label : Label, token : Grants] \cup {None, Truncated}]
        /\ loaded \in [Device -> [label : Label, token : Grants] \cup {None}]
        /\ faults \in 0 .. MaxFaults
    BY DEF EnrollmentInv, RegistryInv, TypeOK
  <2>3. /\ RegistryInv' /\ CodesDrawnOnce' /\ InvitesUnused' /\ ShownCodeWorks'
        /\ Grants' = Grants
    BY <2>1, <2>2, DeviceStep
  <2>4. OwnCredentials' /\ CleanInstall'
    BY <2>1, <2>3 DEF EnrollmentInv, OwnCredentials, CleanInstall
  <2> QED BY <2>3, <2>4 DEF EnrollmentInv
<1> QED BY <1>1, <1>2, <1>3, <1>4, <1>5, <1>6, <1>7, <1>8, <1>9, <1>10
        DEF Next, Server, Installation

\* The inductive invariant holds throughout.
LEMMA EnrollmentAlways == Spec => []EnrollmentInv
<1> QED BY EnrollmentInit, EnrollmentNext, PTL DEF Spec

\* Each code works once, in time and for its label, and each label has the
\* token that was granted last: however createInvite's calls, enrollments,
\* expiries and failures follow one another.
THEOREM RegistryIsCorrect == Spec => []RegistryInv
<1>1. EnrollmentInv => RegistryInv
  BY DEF EnrollmentInv
<1> QED BY <1>1, EnrollmentAlways, PTL

\* No other label's invitation or enrollment, and no failure, makes a code that
\* was shown useless.
THEOREM ShownCodesWork == Spec => []ShownCodeWorks
<1>1. EnrollmentInv => ShownCodeWorks
  BY DEF EnrollmentInv
<1> QED BY <1>1, EnrollmentAlways, PTL

\* While nothing fails, install.sh strands no label and no agent.
THEOREM InstallsAreClean == Spec => []CleanInstall
<1>1. EnrollmentInv => CleanInstall
  BY DEF EnrollmentInv
<1> QED BY <1>1, EnrollmentAlways, PTL

-----------------------------------------------------------------------------
\* The codes the abstract registry has as usable.
Usable == {[label |-> i.label, code |-> i.code] : i \in Pruned(invites)}

\* A step that stores nothing and enrolls nobody can only let codes lapse.
LEMMA LapseSteps ==
  ASSUME invites' = invites, UNCHANGED <<issued, clients, granted>>,
         \A i \in invites : i.expires > clock' => i.expires > clock
  PROVE  Registry!Next
<1>1. Pruned(invites)' \subseteq Pruned(invites)
  BY DEF Pruned
<1>2. Usable' \subseteq Usable
  BY <1>1 DEF Usable
<1>3. Grants' = Grants
  BY DEF Grants
<1> QED BY <1>2, <1>3 DEF Registry!Next, Registry!Lapse, Usable

\* Storing an invitation issues its code, or lets it lapse at once.
LEMMA StoreInviteIssues ==
  ASSUME EnrollmentInv, NEW draft \in drafts, NEW answered \in BOOLEAN,
         StoreInvite(draft, answered)
  PROVE  Registry!Next
<1> DEFINE code == [label |-> draft.label, code |-> draft.code]
           spent == {issued[i].code : i \in DOMAIN issued}
           others == {u \in Usable : u.label # draft.label}
<1>1. TypeOK /\ DOMAIN issued = 1 .. Len(issued) /\ Len(issued) \in Nat /\ issued \in Seq(Invite)
  BY EntryTypes DEF EnrollmentInv, RegistryInv
<1>2. /\ draft \in Invite /\ draft.label \in Label /\ draft.code \in 1 .. MaxCodes
  BY <1>1, EntryTypes DEF TypeOK
<1>3. draft.code \notin spent
  BY DEF EnrollmentInv, CodesDrawnOnce
<1>4. /\ invites' = Others(Pruned(invites), draft.label) \cup {draft}
      /\ issued' = Append(issued, draft)
      /\ UNCHANGED <<clock, clients, granted>>
  BY DEF StoreInvite
<1>5. {issued'[i].code : i \in DOMAIN issued'} = spent \cup {draft.code}
  <2>1. /\ DOMAIN issued' = DOMAIN issued \cup {Len(issued) + 1}
        /\ \A i \in DOMAIN issued : issued'[i] = issued[i]
        /\ issued'[Len(issued) + 1] = draft
    BY <1>1, <1>2, <1>4, AppendElements
  <2> QED BY <2>1
<1>6. Usable' \in {others, others \cup {code}}
  <2>1. Pruned(invites)' = Others(Pruned(invites), draft.label) \cup Pruned({draft})
    BY <1>4 DEF Pruned, Others
  <2>2. {[label |-> i.label, code |-> i.code] : i \in Others(Pruned(invites), draft.label)} = others
    BY DEF Others, Usable
  <2>3. Pruned({draft}) \in {{}, {draft}}
    BY DEF Pruned
  <2> QED BY <2>1, <2>2, <2>3 DEF Usable
<1>7. Grants' = Grants
  BY <1>4 DEF Grants
<1> HIDE DEF code, spent, others
<1>8. Registry!Issue
  <2>1. draft.code \in (1 .. MaxCodes) \ spent
    BY <1>2, <1>3
  <2>2. Registry!Others(Usable, draft.label) = others
    BY DEF Registry!Others, others
  <2> QED BY <1>2, <1>4, <1>5, <1>6, <1>7, <2>1, <2>2 DEF Registry!Issue, Usable, code, spent
<1> QED BY <1>8 DEF Registry!Next

\* An enrollment redeems a usable code for a token that was never valid.  There
\* is one within the bound, because each enrollment used a code of its own.
LEMMA EnrollRedeems ==
  ASSUME EnrollmentInv, EnrollmentInv',
         NEW d \in Device, NEW invite \in invites, NEW answered \in BOOLEAN,
         Enroll(d, invite, answered)
  PROVE  Registry!Next
<1> DEFINE code == [label |-> invite.label, code |-> invite.code]
           new == NewToken(invite.label)
<1>1. TypeOK
  BY DEF EnrollmentInv, RegistryInv
<1>2. PICK n \in Nat : n = Len(granted)
  BY <1>1, EntryTypes
<1>3. /\ Grants = 1 .. n /\ Grants' = 1 .. n + 1
      /\ granted' \in Seq(GrantEntry(codes))
  BY <1>1, <1>2, EnrollEffect
<1>4. n + 1 \in 1 .. MaxCodes
  <2>1. codes \in Nat /\ codes <= MaxCodes /\ MaxCodes \in Nat
    BY <1>1, EntryTypes
  <2>2. \A j, k \in DOMAIN granted' : granted'[j].code = granted'[k].code => j = k
    BY DEF EnrollmentInv, RegistryInv, OneTime, Grants
  <2>3. Len(granted') <= codes
    BY <1>3, <2>1, <2>2, GrantsBounded
  <2>4. Len(granted') = n + 1
    BY <1>3, SeqElements DEF Grants
  <2> QED BY <2>1, <2>3, <2>4
<1>5. /\ invites' = Pruned(invites) \ {invite} /\ invite \in Pruned(invites)
      /\ clients' = Others(clients, invite.label) \cup {new}
      /\ UNCHANGED <<clock, issued>>
  BY DEF Enroll, Grant
<1>6. new = [label |-> invite.label, token |-> n + 1]
  BY <1>2 DEF NewToken
<1> HIDE DEF new
<1>7. code \in Usable
  BY <1>5 DEF Usable
<1>8. Usable' = Usable \ {code}
  <2>1. Pruned(invites)' = Pruned(invites) \ {invite}
    BY <1>5 DEF Pruned
  <2>2. \A i \in Pruned(invites) : i # invite => i.code # invite.code
    BY DEF EnrollmentInv, InvitesUnused, CodesDrawnOnce, Pruned
  <2>3. \A i \in Pruned(invites) :
          i # invite <=> [label |-> i.label, code |-> i.code] # code
    BY <2>2
  <2> QED BY <1>5, <2>1, <2>3 DEF Usable
<1>9. /\ code.label = invite.label
      /\ n + 1 \in (1 .. MaxCodes) \ Grants
      /\ Grants' = Grants \cup {n + 1}
  BY <1>3, <1>4
<1> HIDE DEF code
<1>10. Registry!Redeem
  <2>1. clients' = Registry!Others(clients, code.label) \cup {[label |-> code.label, token |-> n + 1]}
    BY <1>5, <1>6, <1>9 DEF Registry!Others, Others
  <2> QED BY <1>5, <1>7, <1>8, <1>9, <2>1 DEF Registry!Redeem, Usable
<1> QED BY <1>10 DEF Registry!Next

\* Every step is one of the abstract registry's, or leaves it alone.
LEMMA EnrollmentSimulates ==
  EnrollmentInv /\ EnrollmentInv' /\ [Next]_vars => [Registry!Next]_Registry!vars
<1> SUFFICES ASSUME EnrollmentInv, EnrollmentInv', [Next]_vars
             PROVE  Registry!Next
  OBVIOUS
<1>1. CASE Advance
  <2>1. clock \in Nat /\ \A i \in invites : i.expires \in Nat
    BY EntryTypes DEF EnrollmentInv, RegistryInv
  <2>2. clock' = clock + 1 /\ UNCHANGED <<invites, issued, clients, granted>>
    BY <1>1 DEF Advance, registryVars, historyVars
  <2> QED BY <2>1, <2>2, LapseSteps
<1>2. ASSUME NEW draft \in drafts, NEW answered \in BOOLEAN, StoreInvite(draft, answered)
      PROVE  Registry!Next
  BY <1>2, StoreInviteIssues
<1>3. ASSUME NEW d \in Device, NEW i \in invites, NEW answered \in BOOLEAN,
             Enroll(d, i, answered)
      PROVE  Registry!Next
  BY <1>3, EnrollRedeems
<1>4. CASE \/ \E label \in Label : DrawCode(label)
           \/ \E draft \in drafts : InviteFails(draft)
           \/ Installation
           \/ UNCHANGED vars
  <2>1. UNCHANGED <<clock, invites, issued, clients, granted>>
    BY <1>4 DEF DrawCode, InviteFails, Installation, WriteConfig, FinishInstall, InstallDies,
                Restart, vars, registryVars, historyVars
  <2> QED BY <2>1, LapseSteps
<1> QED BY <1>1, <1>2, <1>3, <1>4 DEF Next, Server

\* The registry implements the abstract one: a label has one usable code at
\* most, its latest, and one valid token, and redeeming a code replaces the
\* label's token in the same step.
THEOREM RegistryImplementsCredentials == Spec => ImplementsCredentials
<1>1. Init => Registry!Init
  BY DEF Init, Registry!Init, Pruned, Grants
<1>2. QED
  BY <1>1, EnrollmentAlways, EnrollmentSimulates, PTL
     DEF Spec, ImplementsCredentials, Registry!Spec
=============================================================================
