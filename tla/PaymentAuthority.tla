--------------------------- MODULE PaymentAuthority --------------------------
(***************************************************************************)
(* What the payment side of sitescore-commerce promises to the rest of the *)
(* system: every order gets at most one payment outcome, which nothing     *)
(* revokes, and a paid order is announced by one outbox row in the very    *)
(* step that makes it paid.                                                *)
(***************************************************************************)
EXTENDS Naturals

CONSTANT Orders

VARIABLES truth, announced

Init == /\ truth = [o \in Orders |-> "pending"]
        /\ announced = [o \in Orders |-> 0]

Pay(o) == /\ truth[o] = "pending" /\ announced[o] = 0
          /\ truth' = [truth EXCEPT ![o] = "paid"]
          /\ announced' = [announced EXCEPT ![o] = 1]

Expire(o) == /\ truth[o] = "pending"
             /\ truth' = [truth EXCEPT ![o] = "expired"]
             /\ UNCHANGED announced

Next == \E o \in Orders : Pay(o) \/ Expire(o)

Spec == Init /\ [][Next]_<<truth, announced>>
=============================================================================
