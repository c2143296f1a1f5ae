------------------------------ MODULE MCPayment ------------------------------
(* Instances of CommercePayment for TLC.                                   *)
EXTENDS CommercePayment, TLC

CONSTANTS o1, o2, s1, s2, s3, eDone, eExpired, eOther, eStray, eUnfit

(* One order and its session.                                               *)
LiveSessionOrder == s1 :> o1

(* A provider whose terminal answers are final.                            *)
HonestEdges == {<<"open", "complete_unpaid">>, <<"open", "complete_paid">>,
                <<"complete_unpaid", "complete_paid">>, <<"open", "expired">>,
                <<"open", "expired_intent">>}

(* Two sessions of one order (the provider key outlived its window), an event *)
(* without a candidate, and one about the other order that names this one.   *)
MixSessionOrder == s1 :> o1 @@ s2 :> o1 @@ s3 :> o2
MixEventSession == eDone :> s1 @@ eExpired :> s2 @@ eStray :> s3
MixCandidate == eDone :> NoOrder @@ eExpired :> o1 @@ eStray :> o1
MixType == eDone :> "completed" @@ eExpired :> "expired" @@ eStray :> "completed"
MixFit == [e \in Events |-> TRUE]

(* One order whose event is joined by one of an unsupported type and one of  *)
(* another API version.                                                      *)
LiveEventSession == [e \in Events |-> s1]
LiveCandidate == [e \in Events |-> o1]
LiveType == [e \in Events |-> IF e = eOther THEN "other" ELSE "completed"]
LiveFit == [e \in Events |-> e # eUnfit]

RunningOrRefunded == {<<"fulfillment_in_progress", "paid">>, <<"refunded", "refunded">>}
=============================================================================
