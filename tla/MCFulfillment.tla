---------------------------- MODULE MCFulfillment ----------------------------
(* Instances of CommerceFulfillment for TLC.                               *)
EXTENDS CommerceFulfillment

UsualRefundReplies == {"pending", "succeeded"}
=============================================================================
