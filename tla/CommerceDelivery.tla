-------------------------- MODULE CommerceDelivery --------------------------
(***************************************************************************)
(* Delivering the report of one order by e-mail: RuntimeDeliveryService    *)
(* .deliver, run by overlapping /deliver calls of n8n on the same orders   *)
(* row that the /advance calls of CommerceFulfillment write.  Each         *)
(* transaction and each provider call is one action.                       *)
(***************************************************************************)
EXTENDS CommerceFulfillment, Sequences

CONSTANTS
    Carriers,     \* concurrent /deliver requests
    MaxAttempts   \* DELIVERY_MAX_ATTEMPTS

ASSUME DeliveryAssumption == MaxAttempts \in Nat \ {0}

VARIABLES
    attempts,  \* delivery_attempts by attempt number, each with its grant: [status, grant]
    mail,      \* the attempts whose message Postmark has queued (external)
    run        \* the request each carrier is serving: [pc, attempt, answer]

vars == <<fulfillmentVars, attempts, mail, run>>

Answers == {"accepted", "uncertain", "retryable", "final"}
NoRun == [pc |-> "idle", attempt |-> 0, answer |-> "none"]
Is(c, pc) == run[c].pc = pc
Step(c, pc) == run' = [run EXCEPT ![c].pc = pc]
Leave(c) == run' = [run EXCEPT ![c] = NoRun]

DeliveryInit == Init /\ attempts = <<>> /\ mail = {} /\ run = [c \in Carriers |-> NoRun]

-----------------------------------------------------------------------------
Pending == order.order = "fulfillment_in_progress" /\ order.fulfillment = "delivery_pending"

\* _validate_ready_context without and with require_pending.
Deliverable == /\ order.payment = "paid"
               /\ binding.analysis = "completed" /\ binding.report = "ready"
DeliverableOnce == Deliverable /\ order.fulfillment \in {"delivery_pending", "completed", "delivery_failed"}
DeliverableNow == Deliverable /\ Pending

\* resolve_grant: the link of an attempt is judged by the order as it is at the download.
Opens(n) == attempts[n].grant /\ DeliverableOnce

\* (mutant) An uncertain answer is taken for an acceptance.
AcceptedOrUncertain == {n \in DOMAIN attempts : attempts[n].status \in {"accepted", "uncertain"}}

Accepted == {n \in DOMAIN attempts : attempts[n].status = "accepted"}
FirstAccepted == CHOOSE n \in Accepted : \A k \in Accepted : n <= k

Delivered == [order |-> "fulfilled", payment |-> "paid", fulfillment |-> "completed"]
DeliveryFailed == [order |-> "attention_required", payment |-> "paid", fulfillment |-> "delivery_failed"]

-----------------------------------------------------------------------------
\* n8n posts /deliver for the state it has just read.
CallDeliver(c) ==
    /\ Is(c, "idle") /\ ~Terminal /\ NextAction = "delivery"
    /\ Step(c, "converge")
    /\ UNCHANGED <<fulfillmentVars, attempts, mail>>

\* converge_known_acceptance: an accepted attempt fulfils the order or fails the call.
ConvergeThen(c, next) ==
    /\ IF Accepted = {}
       THEN Step(c, next) /\ UNCHANGED order
       ELSE /\ Leave(c)
            /\ order' = IF attempts[FirstAccepted].grant /\ DeliverableOnce THEN Delivered ELSE order
    /\ UNCHANGED <<world, binding, refund, job, attempts, mail>>

Converge(c) == \/ Is(c, "converge") /\ ConvergeThen(c, "exhaust")
               \/ Is(c, "converge_again") /\ ConvergeThen(c, "context")

\* (mutant) The state written on exhaustion is rolled back, as in prepare_attempt.
CommitExhaustionRolledBack(c) ==
    /\ Is(c, "exhaust")
    /\ IF \/ order.order = "fulfilled"
          \/ order.order = "attention_required" /\ order.fulfillment = "delivery_failed"
          \/ Accepted = {} /\ Len(attempts) >= MaxAttempts
       THEN Leave(c) ELSE Step(c, "converge_again")
    /\ UNCHANGED <<fulfillmentVars, attempts, mail>>

\* _terminal_or_commit_retry_exhaustion
CommitExhaustion(c) ==
    LET ended == order.order = "fulfilled"
                   \/ (order.order = "attention_required" /\ order.fulfillment = "delivery_failed")
        exhausted == Accepted = {} /\ Len(attempts) >= MaxAttempts
    IN
    /\ Is(c, "exhaust")
    /\ IF ended \/ exhausted THEN Leave(c) ELSE Step(c, "converge_again")
    /\ order' = IF ~ended /\ exhausted THEN DeliveryFailed ELSE order
    /\ UNCHANGED <<world, binding, refund, job, attempts, mail>>

\* load_context
LoadContext(c) ==
    /\ Is(c, "context")
    /\ IF DeliverableNow THEN Step(c, "report") ELSE Leave(c)
    /\ UNCHANGED <<fulfillmentVars, attempts, mail>>

\* get_report: sitescore-api must show the report ready now.
GetReport(c) ==
    /\ Is(c, "report")
    /\ IF apiReport = "ready" THEN Step(c, "prepare") ELSE Leave(c)
    /\ UNCHANGED <<fulfillmentVars, attempts, mail>>

\* (mutant) An attempt is prepared although an earlier one was accepted.
PrepareAttemptAnyway(c) ==
    /\ Is(c, "prepare")
    /\ IF DeliverableNow /\ Len(attempts) < MaxAttempts
       THEN /\ attempts' = Append(attempts, [status |-> "prepared", grant |-> TRUE])
            /\ run' = [run EXCEPT ![c] = [pc |-> "dispatch", attempt |-> Len(attempts) + 1, answer |-> "none"]]
       ELSE Leave(c) /\ UNCHANGED attempts
    /\ UNCHANGED <<fulfillmentVars, mail>>

\* (mutant) The number of attempts is not limited.
PrepareAttemptUnlimited(c) ==
    /\ Is(c, "prepare")
    /\ IF DeliverableNow /\ Accepted = {}
       THEN /\ attempts' = Append(attempts, [status |-> "prepared", grant |-> TRUE])
            /\ run' = [run EXCEPT ![c] = [pc |-> "dispatch", attempt |-> Len(attempts) + 1, answer |-> "none"]]
       ELSE Leave(c) /\ UNCHANGED attempts
    /\ UNCHANGED <<fulfillmentVars, mail>>

\* prepare_attempt: the state it writes at the limit is rolled back by its own error.
PrepareAttempt(c) ==
    /\ Is(c, "prepare")
    /\ IF DeliverableNow /\ Accepted = {} /\ Len(attempts) < MaxAttempts
       THEN /\ attempts' = Append(attempts, [status |-> "prepared", grant |-> TRUE])
            /\ run' = [run EXCEPT ![c] = [pc |-> "dispatch", attempt |-> Len(attempts) + 1, answer |-> "none"]]
       ELSE Leave(c) /\ UNCHANGED attempts
    /\ UNCHANGED <<fulfillmentVars, mail>>

\* mark_dispatch_started
MarkDispatch(c) ==
    /\ Is(c, "dispatch")
    /\ attempts' = [attempts EXCEPT ![run[c].attempt].status = "dispatched"]
    /\ Step(c, "send")
    /\ UNCHANGED <<fulfillmentVars, mail>>

\* PostmarkGateway.send: an uncertain answer may hide an accepted message.
Send(c) ==
    /\ Is(c, "send")
    /\ \E answer \in Answers :
          /\ run' = [run EXCEPT ![c].pc = "record", ![c].answer = answer]
          /\ \/ answer \in {"accepted", "uncertain"} /\ mail' = mail \cup {run[c].attempt}
             \/ answer # "accepted" /\ mail' = mail
    /\ UNCHANGED <<fulfillmentVars, attempts>>

\* record_accepted: an order that is no longer pending refuses the acceptance.
RecordAccepted(c) ==
    LET n == run[c].attempt IN
    /\ Is(c, "record") /\ run[c].answer = "accepted"
    /\ IF attempts[n].grant /\ DeliverableNow
       THEN /\ attempts' = [attempts EXCEPT ![n].status = "accepted"]
            /\ order' = Delivered
       ELSE UNCHANGED <<attempts, order>>
    /\ Leave(c)
    /\ UNCHANGED <<world, binding, refund, job, mail>>

\* _record_failure: the order row is written whatever state it is in.
RecordFailure(c) ==
    LET n == run[c].attempt
        failure == IF run[c].answer = "uncertain" THEN "uncertain" ELSE "rejected"
    IN
    /\ Is(c, "record") /\ run[c].answer # "accepted"
    /\ attempts' = [attempts EXCEPT ![n].status = failure]
    /\ order' = IF run[c].answer = "final" \/ n >= MaxAttempts THEN DeliveryFailed ELSE order
    /\ Leave(c)
    /\ UNCHANGED <<world, binding, refund, job, mail>>

\* An upstream error, a lost answer or a crash of the request at any point.
Lose(c) ==
    /\ failing /\ ~Is(c, "idle") /\ Leave(c)
    /\ UNCHANGED <<fulfillmentVars, attempts, mail>>

\* revoke_delivery_grant, or the seven days of the grant are over.
EndGrant(n) ==
    /\ attempts[n].grant
    /\ attempts' = [attempts EXCEPT ![n].grant = FALSE]
    /\ UNCHANGED <<fulfillmentVars, mail, run>>

-----------------------------------------------------------------------------
Deliver(c) ==
    \/ Converge(c) \/ CommitExhaustion(c) \/ LoadContext(c) \/ GetReport(c)
    \/ PrepareAttempt(c) \/ MarkDispatch(c) \/ Send(c) \/ RecordAccepted(c) \/ RecordFailure(c)

DeliveryNext ==
    \/ \E c \in Carriers : CallDeliver(c) \/ Deliver(c) \/ Lose(c)
    \/ \E n \in DOMAIN attempts : EndGrant(n)

Next == \/ FulfillmentNext /\ UNCHANGED <<attempts, mail, run>>
        \/ DeliveryNext

Spec == DeliveryInit /\ [][Next]_vars

(* Requests are served to their end and posted again while the order asks for  *)
(* them, the analysis and the refund come to an end, and at some point requests *)
(* stop failing.                                                               *)
FairSpec ==
    /\ Spec
    /\ \A w \in Workers : WF_vars(Advance(w) /\ UNCHANGED <<attempts, mail, run>>)
                            /\ WF_vars(CallAdvance(w) /\ UNCHANGED <<attempts, mail, run>>)
    /\ \A c \in Carriers : WF_vars(Deliver(c)) /\ WF_vars(CallDeliver(c))
    /\ WF_vars(ApiStep /\ apiReport = "none" /\ UNCHANGED <<attempts, mail, run>>)
    /\ WF_vars(StripeStep /\ stripe'.own # stripe.own /\ UNCHANGED <<attempts, mail, run>>)
    /\ WF_vars(Heal /\ UNCHANGED <<attempts, mail, run>>)

-----------------------------------------------------------------------------
(* Properties.                                                             *)

\* Attempts, grants and requests stay in their domains, at most MaxAttempts of them.
DeliveryTypeOK ==
    /\ FulfillmentTypeOK
    /\ Len(attempts) <= MaxAttempts
    /\ attempts \in Seq([status: {"prepared", "dispatched", "accepted", "rejected", "uncertain"},
                         grant: BOOLEAN])
    /\ mail \subseteq DOMAIN attempts
    /\ \A c \in Carriers :
          /\ run[c].pc \in {"idle", "converge", "exhaust", "converge_again", "context", "report",
                            "prepare", "dispatch", "send", "record"}
          /\ run[c].attempt \in 0..Len(attempts)
          /\ run[c].answer \in Answers \cup {"none"}
          /\ run[c].pc \in {"dispatch", "send", "record"} => run[c].attempt # 0

(* Neither an uncertain nor a failed delivery is a reason to return the money: *)
(* when a message was queued and a refund was asked for, sitescore-api had     *)
(* taken the ready report back and the refund names exactly that, in whatever  *)
(* order the two kinds of requests interleave.                                 *)
RefundAfterMailMeansRetraction ==
    mail # {} /\ stripe.own # "none" =>
        apiReport = "failed" /\ refund.eligibility = "report_failed"

(* A fulfilled order rests on a durable acceptance, every acceptance is of a   *)
(* message that really was queued, and sitescore-api has made the report.      *)
FulfilledMeansAccepted ==
    order.order = "fulfilled" =>
        Accepted # {} /\ Accepted \subseteq mail /\ apiReport # "none"

(* What persist_refund_eligibility says of itself, "fulfilled order is not     *)
(* automatically refundable": the customer gets the report or the money.  Does *)
(* not hold: a report retracted meanwhile and bound late reopens the order.    *)
MoneyOrReport ==
    [][Accepted # {} => ~(stripe.own = "none" /\ stripe'.own # "none")]_vars

(* Once the provider's acceptance is durable no further attempt is begun, even *)
(* when a stale answer has put the order back into delivery_pending.           *)
NoAttemptAfterAcceptance == [][Accepted # {} => Len(attempts') = Len(attempts)]_vars

(* Every paid order ends delivered, refunded or in front of an operator, but    *)
(* for one whose report was bound as ready and is taken back: its delivery is  *)
(* asked for again and again and finds no report.                              *)
AtRest == order.order \in {"fulfilled", "refunded", "attention_required"}
Undeliverable == order.fulfillment = "delivery_pending" /\ apiReport = "failed"
ComesToRest == <>[](AtRest \/ Undeliverable)
=============================================================================
