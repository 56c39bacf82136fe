----------------------------- MODULE Credentials -----------------------------
(***************************************************************************)
(* What the collector's registry promises: a device label has at most one  *)
(* usable enrollment code and at most one valid token; a code is usable    *)
(* once, and redeeming it replaces the label's token in the same step.     *)
(* How long a code lasts, how the registry is stored and who holds a code  *)
(* are left to the implementation.                                         *)
(***************************************************************************)
CONSTANTS Label, Code, Token

VARIABLES
  usable,  \* [label, code] for the codes that would be accepted now
  spent,   \* codes that were usable at some time
  valid,   \* [label, token] for the tokens that would be accepted now
  drawn    \* tokens that were valid at some time

vars == <<usable, spent, valid, drawn>>

Others(entries, label) == {e \in entries : e.label # label}

Init ==
  /\ usable = {}
  /\ spent = {}
  /\ valid = {}
  /\ drawn = {}

\* A new code for a label replaces the label's previous one; it may come too
\* late to be usable at all.
Issue ==
  \E label \in Label, code \in Code \ spent :
    /\ usable' \in {Others(usable, label), Others(usable, label) \cup {[label |-> label, code |-> code]}}
    /\ spent' = spent \cup {code}
    /\ UNCHANGED <<valid, drawn>>

\* A usable code is exchanged for a token, which replaces the label's previous one.
Redeem ==
  \E invite \in usable : \E token \in Token \ drawn :
    /\ usable' = usable \ {invite}
    /\ valid' = Others(valid, invite.label) \cup {[label |-> invite.label, token |-> token]}
    /\ drawn' = drawn \cup {token}
    /\ UNCHANGED spent

\* Codes stop being usable as time passes; tokens never do.
Lapse ==
  /\ usable' \subseteq usable
  /\ UNCHANGED <<spent, valid, drawn>>

Next == Issue \/ Redeem \/ Lapse

Spec == Init /\ [][Next]_vars
=============================================================================
