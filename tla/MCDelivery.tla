----------------------------- MODULE MCDelivery -----------------------------
(* Instances of CommerceDelivery for TLC.                                  *)
EXTENDS CommerceDelivery, FiniteSets, TLC

UsualRefundReplies == {"pending", "succeeded"}
QuickRefundReplies == {"succeeded"}

\* Once requests no longer fail every step is also one of the outage; at most three
\* requests are under way at a time; and the links stay open.  A state outside is
\* checked and not gone on from.
Busy == {w \in Workers : job[w].pc # "idle"} \cup {c \in Carriers : run[c].pc # "idle"}
ThreeAtATime == failing /\ Cardinality(Busy) <= 3 /\ \A n \in DOMAIN attempts : attempts[n].grant

Symmetry == Permutations(Workers) \cup Permutations(Carriers)
=============================================================================
