------------------------- MODULE CommerceFulfillment -------------------------
(***************************************************************************)
(* Fulfilling one paid order: FulfillmentRuntimeService.advance submits    *)
(* the analysis to sitescore-api, polls it, resolves the report and, when  *)
(* the service proves the order unfulfillable, refunds the payment.  Calls *)
(* of n8n, their HTTP retries and the calls of a replayed trigger run      *)
(* concurrently; each database transaction and each provider call is one   *)
(* action, so evidence may be old by the time it is bound.                 *)
(***************************************************************************)
EXTENDS Naturals

CONSTANTS
    Workers,         \* concurrent automation requests
    ReportMayFail,   \* see AnalysisService
    ForeignRefunds,  \* refunds an operator may make: a "full" one, an "other" (partial)
                     \* one, one "tagged" with our metadata keys but other values
    RefundReplies    \* statuses Stripe may answer a refund creation with

RefundStatuses == {"pending", "requires_action", "succeeded", "failed", "canceled"}

ASSUME FulfillmentAssumption ==
    /\ ReportMayFail \in BOOLEAN
    /\ ForeignRefunds \subseteq {"full", "other", "tagged"}
    /\ RefundReplies \subseteq RefundStatuses

VARIABLES
    apiAnalysis, apiReport,  \* the resources of sitescore-api (external)
    stripe,    \* the PaymentIntent: whether it matches the order, our refund and the
               \* reply its creation got, a refund made by an operator (external)
    order,     \* order_state, payment_state and fulfillment_state of the orders row
    binding,   \* fulfillment_bindings: prepared, analysis_state, report_state
    refund,    \* refund_eligibility.eligibility_reason and refund_operations
    job,       \* the request each worker is serving
    failing    \* requests may fail: an outage that ends at some point

Api == INSTANCE AnalysisService WITH analysis <- apiAnalysis, report <- apiReport

world == <<apiAnalysis, apiReport, stripe, failing>>
rows  == <<order, binding, refund>>
fulfillmentVars == <<apiAnalysis, apiReport, stripe, order, binding, refund, job, failing>>

Refundable == {"not_score_ready", "analysis_failed", "analysis_timed_out", "report_failed"}

\* (mutant) An analysis that could not be scored is filed as a failed one.
OfAnalysisMerged == [queued |-> "analysis_pending", running |-> "analysis_running",
                     completed |-> "report_pending", not_score_ready |-> "analysis_failed",
                     failed |-> "analysis_failed", timed_out |-> "analysis_timed_out"]

\* The fulfillment state an analysis state or a report state is mapped to.
OfAnalysis == [queued |-> "analysis_pending", running |-> "analysis_running",
               completed |-> "report_pending", not_score_ready |-> "not_score_ready",
               failed |-> "analysis_failed", timed_out |-> "analysis_timed_out"]
OfReport == [ready |-> "delivery_pending", failed |-> "report_failed"]

\* The terminal state of the analysis that a refund reason stands for.
RefundReasonState == [not_score_ready |-> "not_score_ready", analysis_failed |-> "failed",
                      analysis_timed_out |-> "timed_out"]

Proves(reason) == IF reason = "report_failed" THEN apiReport = "failed"
                  ELSE apiAnalysis = RefundReasonState[reason]

InProgress(fulfillment) ==
    [order |-> "fulfillment_in_progress", payment |-> "paid", fulfillment |-> fulfillment]

Idle == [pc |-> "idle", seen |-> "none"]
At(w, pc) == job[w].pc = pc
Goto(w, pc, seen) == job' = [job EXCEPT ![w] = [pc |-> pc, seen |-> seen]]
Return(w) == job' = [job EXCEPT ![w] = Idle]

Init ==
    /\ Api!Init
    /\ stripe \in [matches: BOOLEAN, own: {"none"}, reply: {"none"}, foreign: {"none"}]
    /\ order = [order |-> "paid", payment |-> "paid", fulfillment |-> "not_started"]
    /\ binding = [prepared |-> FALSE, analysis |-> "none", report |-> "none"]
    /\ refund = [eligibility |-> "none", operation |-> "none"]
    /\ job = [w \in Workers |-> Idle]
    /\ failing = TRUE

-----------------------------------------------------------------------------
(* The providers.                                                          *)

\* The analysis runs on by itself; it is created by SubmitAnalysis.
ApiStep == /\ Api!Run \/ Api!Stop \/ Api!Complete \/ Api!Retract
           /\ UNCHANGED <<stripe, failing, rows, job>>

\* A refund that is not final yet moves on; an operator refunds in the dashboard,
\* which Stripe accepts only while our refund has not taken the money.
StripeStep ==
    /\ \/ /\ stripe.own \in {"pending", "requires_action"}
          /\ \E status \in RefundStatuses \ {stripe.own, "pending"} :
                stripe' = [stripe EXCEPT !.own = status]
       \/ /\ stripe.own \in {"none", "failed", "canceled"} /\ stripe.foreign = "none"
          /\ \E kind \in ForeignRefunds : stripe' = [stripe EXCEPT !.foreign = kind]
    /\ UNCHANGED <<apiAnalysis, apiReport, failing, rows, job>>

-----------------------------------------------------------------------------
(* What the caller is told and how a request begins.                       *)

Terminal == order.order \in {"refunded", "fulfilled", "expired"}

\* get_status
NextAction ==
    IF order.fulfillment = "delivery_pending" THEN "delivery"
    ELSE IF order.fulfillment \in Refundable THEN "refund"
    ELSE IF Terminal \/ order.order = "attention_required" THEN "none"
    ELSE IF order.payment = "paid" THEN "advance" ELSE "wait"

\* n8n posts /advance for the state it has just read.
CallAdvance(w) ==
    /\ At(w, "idle") /\ ~Terminal /\ NextAction \in {"advance", "refund"}
    /\ Goto(w, "called", "none")
    /\ UNCHANGED <<world, rows>>

Finished == Terminal \/ order.order = "attention_required"
              \/ (order.payment # "paid" /\ order.fulfillment \notin Refundable)

\* (mutant) A delivery that failed is refunded like a report that failed, and unproved.
ReadStatusUndelivered(w) ==
    /\ At(w, "called")
    /\ CASE order.fulfillment = "delivery_failed" -> Goto(w, "eligible", "report_failed")
         [] order.fulfillment = "not_started" -> Goto(w, "start", "none")
         [] order.fulfillment \in {"analysis_pending", "analysis_running"} -> Goto(w, "poll", "none")
         [] order.fulfillment = "report_pending" -> Goto(w, "resolve", "none")
         [] OTHER -> Return(w)
    /\ UNCHANGED <<world, rows>>

\* advance reads the status again and picks the next operation.
ReadStatus(w) ==
    /\ At(w, "called")
    /\ CASE Finished -> Return(w)
         [] ~Finished /\ order.fulfillment = "not_started" -> Goto(w, "start", "none")
         [] ~Finished /\ order.fulfillment = "analysis_pending" -> Goto(w, "pending", "none")
         [] ~Finished /\ order.fulfillment = "analysis_running" -> Goto(w, "poll", "none")
         [] ~Finished /\ order.fulfillment = "report_pending" -> Goto(w, "resolve", "none")
         [] ~Finished /\ order.fulfillment \in Refundable -> Goto(w, "reprove", order.fulfillment)
         [] OTHER -> Return(w)
    /\ UNCHANGED <<world, rows>>

\* An error response, a timeout, a lost answer or a crash at any point.
Abandon(w) ==
    /\ failing /\ ~At(w, "idle") /\ Return(w)
    /\ UNCHANGED <<world, rows>>

\* The outage is over: from now on every request is served to its end.
Heal == /\ failing /\ failing' = FALSE
        /\ UNCHANGED <<apiAnalysis, apiReport, stripe, rows, job>>

-----------------------------------------------------------------------------
(* The analysis and its report.                                            *)

\* A pending order whose answer was lost repeats the same POST.
ReadPending(w) ==
    /\ At(w, "pending")
    /\ Goto(w, IF binding.analysis = "none" THEN "start" ELSE "poll", "none")
    /\ UNCHANGED <<world, rows>>

\* prepare_analysis_operation
PrepareAnalysis(w) ==
    LET permitted == /\ order.payment = "paid"
                     /\ order.order \in {"paid", "fulfillment_in_progress"}
                     /\ order.fulfillment \notin {"completed", "delivery_pending"}
        first == permitted /\ ~binding.prepared
    IN
    /\ At(w, "start")
    /\ binding' = IF first THEN [binding EXCEPT !.prepared = TRUE] ELSE binding
    /\ order' = IF first /\ order.order = "paid"
                THEN [order EXCEPT !.order = "fulfillment_in_progress",
                                   !.fulfillment = "analysis_pending"]
                ELSE order
    /\ IF permitted THEN Goto(w, "submit", "none") ELSE Return(w)
    /\ UNCHANGED <<world, refund>>

\* submit_analysis: the idempotency key finds the analysis or creates it.
SubmitAnalysis(w) ==
    /\ At(w, "submit")
    /\ \/ apiAnalysis # "none" /\ UNCHANGED <<apiAnalysis, apiReport>>
       \/ Api!Submit
    /\ Goto(w, "bind_analysis", apiAnalysis')
    /\ UNCHANGED <<stripe, failing, rows>>

\* get_analysis
PollAnalysis(w) ==
    /\ At(w, "poll") /\ binding.analysis # "none"
    /\ Goto(w, "bind_analysis", apiAnalysis)
    /\ UNCHANGED <<world, rows>>

\* bind_analysis writes whatever was seen, whatever the order has become.
BindAnalysis(w) ==
    /\ At(w, "bind_analysis")
    /\ binding' = [binding EXCEPT !.analysis = job[w].seen]
    /\ order' = InProgress(OfAnalysis[job[w].seen])
    /\ Return(w)
    /\ UNCHANGED <<world, refund>>

\* _ensure_report needs a completed bound analysis.
ReadReportBinding(w) ==
    /\ At(w, "resolve")
    /\ IF binding.analysis = "completed" THEN Goto(w, "ask_report", "none") ELSE Return(w)
    /\ UNCHANGED <<world, rows>>

\* resolve_report and get_report find the same row.
AskReport(w) ==
    /\ At(w, "ask_report") /\ apiReport # "none"
    /\ Goto(w, "bind_report", apiReport)
    /\ UNCHANGED <<world, rows>>

\* bind_report
BindReport(w) ==
    /\ At(w, "bind_report")
    /\ IF binding.analysis = "completed"
       THEN /\ binding' = [binding EXCEPT !.report = job[w].seen]
            /\ order' = InProgress(OfReport[job[w].seen])
       ELSE UNCHANGED <<binding, order>>
    /\ Return(w)
    /\ UNCHANGED <<world, refund>>

-----------------------------------------------------------------------------
(* The refund.                                                             *)

Fulfilled == order.order = "fulfilled" \/ order.fulfillment = "completed"

\* _reprove_eligibility: the service must still show the terminal state.
Reprove(w) ==
    /\ At(w, "reprove")
    /\ IF Proves(job[w].seen) THEN Goto(w, "eligible", job[w].seen) ELSE Return(w)
    /\ UNCHANGED <<world, rows>>

\* persist_refund_eligibility
PersistEligibility(w) ==
    LET reason == job[w].seen
        permitted == /\ binding.prepared /\ ~Fulfilled
                     /\ order.payment \in {"paid", "refund_pending", "refund_failed"}
                     /\ refund.eligibility \in {"none", reason}
    IN
    /\ At(w, "eligible")
    /\ IF permitted
       THEN /\ refund' = [refund EXCEPT !.eligibility = reason]
            /\ Goto(w, "intent", "none")
       ELSE Return(w) /\ UNCHANGED refund
    /\ UNCHANGED <<world, order, binding>>

\* retrieve_payment_intent and validate_payment_intent.
RetrieveIntent(w) ==
    /\ At(w, "intent")
    /\ Goto(w, IF stripe.matches THEN "operate" ELSE "attend", "none")
    /\ UNCHANGED <<world, rows>>

\* prepare_refund_operation
PrepareRefund(w) ==
    /\ At(w, "operate")
    /\ IF ~Fulfilled
       THEN /\ refund' = IF refund.operation = "none"
                         THEN [refund EXCEPT !.operation = "prepared"] ELSE refund
            /\ Goto(w, "list", "none")
       ELSE Return(w) /\ UNCHANGED refund
    /\ UNCHANGED <<world, order, binding>>

\* list_refunds: exactly one refund may be ours or a full one of an operator.
ListRefunds(w) ==
    /\ At(w, "list")
    /\ CASE stripe.own # "none" /\ stripe.foreign = "none" -> Goto(w, "bind_refund", stripe.own)
         [] stripe.own = "none" /\ stripe.foreign = "full" -> Goto(w, "bind_refund", "succeeded")
         [] stripe.own = "none" /\ stripe.foreign = "none" -> Goto(w, "create", "none")
         [] OTHER -> Goto(w, "refuse", "none")
    /\ UNCHANGED <<world, rows>>

\* create_refund: Stripe answers a repeated key with its first reply, and
\* rejects the amount when an operator has refunded meanwhile.
CreateRefund(w) ==
    /\ At(w, "create")
    /\ \/ /\ stripe.own = "none" /\ stripe.foreign = "none"
          /\ \E status \in RefundReplies :
                /\ stripe' = [stripe EXCEPT !.own = status, !.reply = status]
                /\ Goto(w, "bind_refund", status)
       \/ /\ stripe.own # "none" /\ Goto(w, "bind_refund", stripe.reply)
          /\ UNCHANGED stripe
       \/ /\ stripe.own = "none" /\ stripe.foreign # "none" /\ Return(w)
          /\ UNCHANGED stripe
    /\ UNCHANGED <<apiAnalysis, apiReport, failing, rows>>

\* (mutant) Any final refund status counts as money returned.
RefundOutcomeAnyFinal(status) ==
    CASE status \in {"succeeded", "failed", "canceled"} ->
            [order EXCEPT !.order = "refunded", !.payment = "refunded"]
      [] status = "pending" -> [order EXCEPT !.payment = "refund_pending"]
      [] status = "requires_action" ->
            [order EXCEPT !.order = "attention_required", !.payment = "refund_pending"]

RefundOutcome(status) ==
    CASE status = "succeeded" -> [order EXCEPT !.order = "refunded", !.payment = "refunded"]
      [] status = "pending" -> [order EXCEPT !.payment = "refund_pending"]
      [] status = "requires_action" ->
            [order EXCEPT !.order = "attention_required", !.payment = "refund_pending"]
      [] status \in {"failed", "canceled"} ->
            [order EXCEPT !.order = "attention_required", !.payment = "refund_failed"]

\* bind_refund
BindRefund(w) ==
    /\ At(w, "bind_refund")
    /\ refund' = [refund EXCEPT !.operation = job[w].seen]
    /\ order' = RefundOutcome(job[w].seen)
    /\ Return(w)
    /\ UNCHANGED <<world, binding>>

\* mark_attention; a refused refund history also fails the payment state.
MarkAttention(w) ==
    /\ At(w, "attend") \/ At(w, "refuse")
    /\ order' = [order EXCEPT !.order = "attention_required",
                              !.payment = IF At(w, "refuse") THEN "refund_failed" ELSE @]
    /\ Return(w)
    /\ UNCHANGED <<world, binding, refund>>

-----------------------------------------------------------------------------
\* A request carried one step further.
Advance(w) ==
    \/ ReadStatus(w) \/ ReadPending(w) \/ PrepareAnalysis(w) \/ SubmitAnalysis(w)
    \/ PollAnalysis(w) \/ BindAnalysis(w) \/ ReadReportBinding(w) \/ AskReport(w) \/ BindReport(w)
    \/ Reprove(w) \/ PersistEligibility(w) \/ RetrieveIntent(w) \/ PrepareRefund(w)
    \/ ListRefunds(w) \/ CreateRefund(w) \/ BindRefund(w) \/ MarkAttention(w)

FulfillmentNext ==
    \/ ApiStep \/ StripeStep \/ Heal
    \/ \E w \in Workers : CallAdvance(w) \/ Advance(w) \/ Abandon(w)

FulfillmentSpec == Init /\ [][FulfillmentNext]_fulfillmentVars

(* A request is served to its end, the orchestrator posts /advance again while *)
(* the order asks for it, both providers finish what they began, and requests  *)
(* stop failing at some point.                                                 *)
FulfillmentFairSpec ==
    /\ FulfillmentSpec
    /\ \A w \in Workers : WF_fulfillmentVars(Advance(w)) /\ WF_fulfillmentVars(CallAdvance(w))
    /\ WF_fulfillmentVars(ApiStep)
    /\ WF_fulfillmentVars(StripeStep /\ stripe'.own # stripe.own)
    /\ WF_fulfillmentVars(Heal)
-----------------------------------------------------------------------------
(* Properties.                                                             *)

FulfillmentStates == {"not_started", "completed", "delivery_failed"} \cup Refundable
                        \cup {"analysis_pending", "analysis_running", "report_pending", "delivery_pending"}
AnalysisPcs == {"called", "start", "pending", "poll", "submit", "bind_analysis",
                "resolve", "ask_report", "bind_report"}
RefundPcs == {"reprove", "eligible", "intent", "attend", "operate", "list", "refuse",
              "create", "bind_refund"}

\* The rows, the providers and the requests stay in their domains, and no order
\* leaves paid without its binding.
FulfillmentTypeOK ==
    /\ apiAnalysis \in Api!AnalysisStates \cup {"none"}
    /\ apiReport \in Api!ReportStates \cup {"none"}
    /\ stripe \in [matches: BOOLEAN, own: RefundStatuses \cup {"none"},
                   reply: RefundReplies \cup {"none"}, foreign: ForeignRefunds \cup {"none"}]
    /\ order \in [order: {"paid", "fulfillment_in_progress", "fulfilled", "attention_required", "refunded"},
                  payment: {"paid", "refund_pending", "refunded", "refund_failed"},
                  fulfillment: FulfillmentStates]
    /\ binding \in [prepared: BOOLEAN, analysis: Api!AnalysisStates \cup {"none"},
                    report: Api!ReportStates \cup {"none"}]
    /\ refund \in [eligibility: Refundable \cup {"none"},
                   operation: RefundStatuses \cup {"none", "prepared"}]
    /\ failing \in BOOLEAN
    /\ order.order # "paid" => binding.prepared
    /\ job \in [Workers -> [pc: {"idle"} \cup AnalysisPcs \cup RefundPcs,
                            seen: Api!AnalysisStates \cup Api!ReportStates \cup Refundable
                                    \cup RefundStatuses \cup {"none"}]]

(* What the order says of its analysis and report is what sitescore-api still  *)
(* says: however old the evidence a request binds, an order ready for delivery *)
(* has a report and an order up for a refund has a terminal failure.           *)
FulfillmentIsEvidence ==
    /\ order.fulfillment = "report_pending" => apiAnalysis = "completed"
    /\ order.fulfillment = "delivery_pending" =>
          apiReport = "ready" \/ (ReportMayFail /\ apiReport = "failed")
    /\ order.fulfillment \in Refundable => Proves(order.fulfillment)

(* Commerce asks Stripe for a refund only when a refund eligibility is durable *)
(* and sitescore-api shows the terminal failure it names: cached local state   *)
(* is no authority, and a later success cannot turn up behind the refund.      *)
RefundJustified ==
    stripe.own # "none" => /\ refund.eligibility # "none" /\ refund.operation # "none"
                           /\ Proves(refund.eligibility)

(* An order is called refunded, in its order state or its payment state, only  *)
(* when the money really went back, by our refund or by an operator's full one.*)
MoneyReturnedIsReal ==
    "refunded" \in {order.order, order.payment} =>
        stripe.own = "succeeded" \/ stripe.foreign = "full"

(* Every paid order comes to rest: with a report to deliver, refunded, or in   *)
(* front of an operator.                                                       *)
Settled == \/ order.fulfillment = "delivery_pending"
           \/ order.order \in {"refunded", "attention_required"}
Converges == <>[]Settled
=============================================================================
