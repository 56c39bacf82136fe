----------------------------- MODULE AtLeastOnce -----------------------------
(***************************************************************************)
(* What uploading promises, without runs, requests or retries: a sender    *)
(* owes every item it offered until the item is recorded, and gives one up *)
(* only by abandoning it.  An item may be recorded any number of times,    *)
(* also when it is no longer owed.                                         *)
(***************************************************************************)

CONSTANT Item

VARIABLES
  offered,   \* items ever offered
  owed,      \* items the sender still has to get recorded
  recorded,  \* items the receiver holds
  abandoned  \* items the sender discarded

vars == <<offered, owed, recorded, abandoned>>

Init ==
  /\ offered = {}
  /\ owed = {}
  /\ recorded = {}
  /\ abandoned = {}

\* The sender takes on new items and abandons any it has no room for.
Offer ==
  LET new == offered' \ offered
  IN  /\ offered \subseteq offered'
      /\ new \subseteq Item
      /\ owed' \subseteq owed \cup new
      /\ abandoned' = abandoned \cup ((owed \cup new) \ owed')
      /\ UNCHANGED recorded

\* The receiver records items that were offered, again or for the first time.
Record ==
  /\ recorded \subseteq recorded'
  /\ recorded' \subseteq offered
  /\ UNCHANGED <<offered, owed, abandoned>>

\* The sender learns that items it owes are recorded.
Discharge ==
  /\ owed' \subseteq owed
  /\ owed \ owed' \subseteq recorded
  /\ UNCHANGED <<offered, recorded, abandoned>>

\* The sender gives up everything it owes.
Abandon ==
  /\ owed' = {}
  /\ abandoned' = abandoned \cup owed
  /\ UNCHANGED <<offered, recorded>>

Next == Offer \/ Record \/ Discharge \/ Abandon

Spec == Init /\ [][Next]_vars
=============================================================================
