--------------------- MODULE CommerceFulfillment_proofs ---------------------
(***************************************************************************)
(* Proofs about CommerceFulfillment for any number of overlapping requests, *)
(* any refunds an operator may make and any statuses Stripe may answer.    *)
(***************************************************************************)
EXTENDS CommerceFulfillment, TLAPS

Places == {"idle"} \cup AnalysisPcs \cup RefundPcs
Evidence == Api!AnalysisStates \cup Api!ReportStates \cup Refundable \cup RefundStatuses \cup {"none"}
Requests == [pc: Places, seen: Evidence]

(* What somebody has read of the analysis, the report or the payment is still  *)
(* true when it is of the kind that stays true.                                *)
Ended == {"completed", "not_score_ready", "failed", "timed_out"}
Shows(seen) == /\ seen # "none" => apiAnalysis # "none"
               /\ seen \in Ended => apiAnalysis = seen
ReadyOrRetracted == apiReport = "ready" \/ (ReportMayFail /\ apiReport = "failed")
ShowsReport(seen) == /\ seen = "ready" => ReadyOrRetracted
                     /\ seen = "failed" => apiReport = "failed"
MoneyBack == stripe.own = "succeeded" \/ stripe.foreign = "full"

WorldOK ==
    /\ apiAnalysis \in Api!AnalysisStates \cup {"none"}
    /\ apiReport \in Api!ReportStates \cup {"none"}
    /\ apiAnalysis = "completed" <=> apiReport # "none"
    /\ stripe \in [matches: BOOLEAN, own: RefundStatuses \cup {"none"},
                   reply: RefundReplies \cup {"none"}, foreign: ForeignRefunds \cup {"none"}]
    /\ stripe.own # "none" => stripe.reply \in RefundReplies
    /\ stripe.reply = "succeeded" => stripe.own = "succeeded"
    /\ failing \in BOOLEAN

(* The order and its fulfillment leave their first states only with a binding. *)
OrderOK ==
    /\ order \in [order: {"paid", "fulfillment_in_progress", "fulfilled", "attention_required", "refunded"},
                  payment: {"paid", "refund_pending", "refunded", "refund_failed"},
                  fulfillment: FulfillmentStates]
    /\ order.order # "paid" \/ order.fulfillment # "not_started" => binding.prepared
    /\ FulfillmentIsEvidence /\ MoneyReturnedIsReal

BindingOK ==
    /\ binding \in [prepared: BOOLEAN, analysis: Api!AnalysisStates \cup {"none"},
                    report: Api!ReportStates \cup {"none"}]
    /\ binding.analysis # "none" => binding.prepared
    /\ Shows(binding.analysis) /\ ShowsReport(binding.report)

RefundOK ==
    /\ refund \in [eligibility: Refundable \cup {"none"},
                   operation: RefundStatuses \cup {"none", "prepared"}]
    /\ refund.eligibility # "none" => binding.prepared /\ Proves(refund.eligibility)
    /\ stripe.own # "none" => refund.eligibility # "none" /\ refund.operation # "none"

(* What a request may rely on at each place of its program. *)
Sound(pc, seen) ==
    /\ pc \in {"submit", "bind_analysis"} => binding.prepared
    /\ pc = "bind_analysis" => seen \in Api!AnalysisStates /\ Shows(seen)
    /\ pc = "bind_report" => seen \in Api!ReportStates /\ ShowsReport(seen)
    /\ pc = "reprove" => seen \in Refundable /\ binding.prepared
    /\ pc = "eligible" => seen \in Refundable /\ Proves(seen)
    /\ pc \in {"intent", "attend", "operate", "list", "refuse", "create", "bind_refund"} =>
          refund.eligibility # "none"
    /\ pc \in {"list", "refuse", "create", "bind_refund"} => refund.operation # "none"
    /\ pc = "bind_refund" => seen \in RefundStatuses /\ (seen = "succeeded" => MoneyBack)
RequestsOK == job \in [Workers -> Requests] /\ \A w \in Workers : Sound(job[w].pc, job[w].seen)

Sustained == WorldOK /\ OrderOK /\ BindingOK /\ RefundOK /\ RequestsOK

-----------------------------------------------------------------------------
(* What a step does: evidence that stays true stays true, and rows stay rows. *)
WorldMoves ==
    /\ WorldOK'
    /\ apiAnalysis # "none" => apiAnalysis' # "none"
    /\ apiAnalysis \in Ended => apiAnalysis' = apiAnalysis
    /\ apiReport = "failed" => apiReport' = "failed"
    /\ ReadyOrRetracted => ReadyOrRetracted'
    /\ MoneyBack => MoneyBack'

(* An advance request never fulfils an order. *)
OrderGoesOn == order'.order = "fulfilled" => order.order = "fulfilled"
RowsMove ==
    /\ OrderOK' /\ BindingOK' /\ RefundOK'
    /\ binding.prepared => binding'.prepared
    /\ refund.eligibility # "none" => refund'.eligibility # "none"
    /\ refund.operation # "none" => refund'.operation # "none"
    /\ OrderGoesOn
RequestMoves(w) ==
    /\ job' = [job EXCEPT ![w] = job'[w]] /\ job'[w] \in Requests
    /\ Sound(job[w].pc, job[w].seen)'

Advances == Sustained' /\ WorldMoves /\ RowsMove

(* Evidence is not outdated by a step of the world. *)
LEMMA EvidenceStays ==
    ASSUME WorldOK, WorldMoves, NEW seen
    PROVE  /\ Shows(seen) => Shows(seen)'
           /\ ShowsReport(seen) => ShowsReport(seen)'
           /\ seen \in Refundable /\ Proves(seen) => Proves(seen)'
<1>1. /\ Shows(seen) => Shows(seen)'
      /\ ShowsReport(seen) => ShowsReport(seen)'
      BY DEF WorldMoves, Shows, ShowsReport
<1>2. seen \in Refundable /\ seen # "report_failed" => RefundReasonState[seen] \in Ended
      BY DEF Refundable, RefundReasonState, Ended
<1>3. seen \in Refundable /\ Proves(seen) => Proves(seen)'
      BY <1>2 DEF Proves, WorldMoves
<1> QED
    BY <1>1, <1>3

(* A step that keeps the world and the rows in order and moves at most one request keeps all. *)
LEMMA MoveSustains ==
    ASSUME Sustained, WorldMoves, RowsMove, UNCHANGED job \/ \E w \in Workers : RequestMoves(w)
    PROVE  Advances
<1>1. ASSUME NEW p \in Workers, job'[p] = job[p]
      PROVE  job'[p] \in Requests /\ Sound(job[p].pc, job[p].seen)'
  <2>1. Sound(job[p].pc, job[p].seen) /\ job[p] \in Requests
        BY DEF Sustained, RequestsOK
  <2> DEFINE pc == job[p].pc
             seen == job[p].seen
  <2>2. ASSUME NEW x, NEW y, Sound(x, y) PROVE Sound(x, y)'
    <3>1. WorldOK
          BY DEF Sustained
    <3> QED
        BY <2>2, <3>1, EvidenceStays DEF Sound, WorldMoves, RowsMove
  <2> QED
      BY <1>1, <2>1, <2>2 DEF Sound
<1>2. RequestsOK'
  <2>1. CASE UNCHANGED job
        BY <1>1, <2>1 DEF Sustained, RequestsOK
  <2>2. ASSUME NEW w \in Workers, RequestMoves(w) PROVE RequestsOK'
    <3>1. \A p \in Workers \ {w} : job'[p] = job[p]
          BY <2>2 DEF Sustained, RequestsOK, RequestMoves
    <3>2. job' \in [Workers -> Requests]
          BY <2>2 DEF Sustained, RequestsOK, RequestMoves
    <3> QED
        BY <1>1, <2>2, <3>1, <3>2 DEF RequestsOK, RequestMoves
  <2> QED
      BY <2>1, <2>2
<1> QED
    BY <1>2 DEF Advances, Sustained, WorldMoves, RowsMove

-----------------------------------------------------------------------------
(* Parts of a step. *)

LEMMA WorldStays == ASSUME Sustained, UNCHANGED world PROVE WorldMoves
BY DEF Sustained, WorldOK, WorldMoves, world, ReadyOrRetracted, MoneyBack

(* Rows that nobody writes stay in order; a refund is created only behind both of its rows. *)
LEMMA OrderStays ==
    ASSUME Sustained, WorldMoves, UNCHANGED order, binding.prepared => binding'.prepared
    PROVE  OrderOK'
<1>1. OrderOK /\ WorldOK
      BY DEF Sustained
<1>2. FulfillmentIsEvidence'
  <2>1. order.fulfillment = "report_pending" => apiAnalysis' = "completed"
        BY <1>1 DEF OrderOK, FulfillmentIsEvidence, WorldMoves, Ended
  <2>2. order.fulfillment = "delivery_pending" => ReadyOrRetracted'
        BY <1>1 DEF OrderOK, FulfillmentIsEvidence, WorldMoves, ReadyOrRetracted
  <2>3. order.fulfillment \in Refundable => Proves(order.fulfillment)'
        BY <1>1, EvidenceStays DEF OrderOK, FulfillmentIsEvidence, Proves
  <2> QED
      BY <2>1, <2>2, <2>3 DEF FulfillmentIsEvidence, ReadyOrRetracted, Proves
<1>3. MoneyReturnedIsReal'
      BY <1>1 DEF OrderOK, MoneyReturnedIsReal, WorldMoves, MoneyBack
<1> QED
    BY <1>1, <1>2, <1>3 DEF OrderOK

LEMMA BindingStays == ASSUME Sustained, WorldMoves, UNCHANGED binding PROVE BindingOK'
<1>1. BindingOK
      BY DEF Sustained
<1>2. Shows(binding.analysis)' /\ ShowsReport(binding.report)'
      BY <1>1 DEF BindingOK, Shows, ShowsReport, WorldMoves
<1> QED
    BY <1>1, <1>2 DEF BindingOK

LEMMA RefundStays ==
    ASSUME Sustained, WorldMoves, UNCHANGED refund, binding.prepared => binding'.prepared,
           stripe'.own # "none" =>
              stripe.own # "none" \/ (refund.eligibility # "none" /\ refund.operation # "none")
    PROVE  RefundOK'
<1>1. RefundOK /\ WorldOK
      BY DEF Sustained
<1>2. refund.eligibility # "none" => refund.eligibility \in Refundable /\ Proves(refund.eligibility)'
      BY <1>1, EvidenceStays DEF RefundOK, Proves
<1> QED
    BY <1>1, <1>2 DEF RefundOK, Proves

LEMMA RowsStay ==
    ASSUME Sustained, WorldMoves, UNCHANGED rows,
           stripe'.own # "none" =>
              stripe.own # "none" \/ (refund.eligibility # "none" /\ refund.operation # "none")
    PROVE  RowsMove
BY OrderStays, BindingStays, RefundStays DEF rows, RowsMove, OrderGoesOn

(* The order is written and nothing else. *)
LEMMA OrderMoves ==
    ASSUME Sustained, UNCHANGED <<world, binding, refund>>, OrderOK', OrderGoesOn, NEW w \in Workers, RequestMoves(w)
    PROVE  Advances
<1>1. WorldMoves
      BY WorldStays
<1>2. RowsMove
      BY <1>1, BindingStays, RefundStays DEF RowsMove, world
<1> QED
    BY <1>1, <1>2, MoveSustains

LEMMA RequestGoes ==
    ASSUME Sustained, NEW w \in Workers, NEW pc \in Places, NEW seen \in Evidence,
           Goto(w, pc, seen), Sound(pc, seen)'
    PROVE  RequestMoves(w)
<1>1. job'[w] = [pc |-> pc, seen |-> seen]
      BY DEF Sustained, RequestsOK, Goto
<1>2. job' = [job EXCEPT ![w] = job'[w]]
      BY <1>1 DEF Goto
<1>3. job'[w] \in Requests
      BY <1>1 DEF Requests
<1> QED
    BY <1>1, <1>2, <1>3 DEF RequestMoves, Sound

(* A place where nothing is relied on. *)
LEMMA RequestGoesOn ==
    ASSUME Sustained, NEW w \in Workers,
           NEW pc \in {"idle", "called", "start", "pending", "poll", "resolve", "ask_report"},
           Goto(w, pc, "none")
    PROVE  RequestMoves(w)
<1>1. pc \in Places /\ "none" \in Evidence /\ Sound(pc, "none")'
      BY DEF Places, AnalysisPcs, Evidence, Sound
<1> QED
    BY <1>1, RequestGoes

LEMMA RequestReturns ==
    ASSUME Sustained, NEW w \in Workers, Return(w)
    PROVE  RequestMoves(w)
<1>1. Goto(w, "idle", "none")
      BY DEF Return, Goto, Idle
<1> QED
    BY <1>1, RequestGoesOn

-----------------------------------------------------------------------------
(* The providers. *)

LEMMA ApiSustains == ASSUME Sustained, ApiStep PROVE Advances
<1>1. WorldMoves
  <2>1. WorldOK
        BY DEF Sustained
  <2>2. CASE Api!Run \/ Api!Stop
        BY <2>1, <2>2 DEF ApiStep, Api!Run, Api!Stop, WorldOK, WorldMoves, Ended, Api!AnalysisStates,
                          ReadyOrRetracted, MoneyBack
  <2>3. CASE Api!Complete
        BY <2>1, <2>3 DEF ApiStep, Api!Complete, WorldOK, WorldMoves, Ended, Api!AnalysisStates,
                          Api!ReportStates, ReadyOrRetracted, MoneyBack
  <2>4. CASE Api!Retract
        BY <2>1, <2>4 DEF ApiStep, Api!Retract, WorldOK, WorldMoves, Ended, Api!AnalysisStates,
                          Api!ReportStates, ReadyOrRetracted, MoneyBack
  <2> QED
      BY <2>2, <2>3, <2>4 DEF ApiStep
<1>2. RowsMove
      BY <1>1, RowsStay DEF ApiStep
<1> QED
    BY <1>1, <1>2, MoveSustains DEF ApiStep

(* Stripe moves our refund on only while it may still fail, and takes a refund of an *)
(* operator only while ours has not taken the money.                                 *)
LEMMA StripeSustains == ASSUME Sustained, StripeStep PROVE Advances
<1>1. /\ UNCHANGED <<apiAnalysis, apiReport, failing, rows, job>>
      /\ \/ /\ stripe.own \in {"pending", "requires_action"}
            /\ \E status \in RefundStatuses : stripe' = [stripe EXCEPT !.own = status]
         \/ /\ stripe.own \in {"none", "failed", "canceled"} /\ stripe.foreign = "none"
            /\ \E kind \in ForeignRefunds : stripe' = [stripe EXCEPT !.foreign = kind]
      BY DEF StripeStep
<1>2. WorldMoves
      BY <1>1 DEF Sustained, WorldOK, WorldMoves, ReadyOrRetracted, MoneyBack, RefundStatuses
<1>3. RowsMove
  <2>1. stripe'.own # "none" => stripe.own # "none"
        BY <1>1 DEF Sustained, WorldOK
  <2> QED
      BY <1>1, <1>2, <2>1, RowsStay
<1> QED
    BY <1>1, <1>2, <1>3, MoveSustains

LEMMA HealSustains == ASSUME Sustained, Heal PROVE Advances
<1>1. WorldMoves
      BY DEF Heal, Sustained, WorldOK, WorldMoves, ReadyOrRetracted, MoneyBack
<1> QED
    BY <1>1, RowsStay, MoveSustains DEF Heal

-----------------------------------------------------------------------------
(* Steps of a request that only read. *)

LEMMA ReadingSustains ==
    ASSUME Sustained, NEW w \in Workers, UNCHANGED <<world, rows>>, RequestMoves(w)
    PROVE  Advances
<1>1. WorldMoves
      BY WorldStays
<1>2. RowsMove
      BY <1>1, RowsStay DEF world
<1> QED
    BY <1>1, <1>2, MoveSustains

LEMMA StatusIsRead ==
    ASSUME Sustained, NEW w \in Workers, CallAdvance(w) \/ ReadStatus(w) \/ Abandon(w)
    PROVE  Advances
<1>1. CASE Return(w)
      BY <1>1, RequestReturns, ReadingSustains DEF CallAdvance, ReadStatus, Abandon
<1>2. ASSUME NEW pc \in {"called", "start", "pending", "poll", "resolve"}, Goto(w, pc, "none")
      PROVE  Advances
      BY <1>2, RequestGoesOn, ReadingSustains DEF CallAdvance, ReadStatus, Abandon
<1>3. ASSUME order.fulfillment \in Refundable, Goto(w, "reprove", order.fulfillment),
             UNCHANGED <<world, rows>>
      PROVE  Advances
  <2>1. binding.prepared /\ "reprove" \in Places /\ order.fulfillment \in Evidence
        BY <1>3 DEF Sustained, OrderOK, Places, RefundPcs, Evidence, Refundable
  <2>2. Sound("reprove", order.fulfillment)'
        BY <1>3, <2>1 DEF Sound, rows
  <2>3. RequestMoves(w)
        BY <1>3, <2>1, <2>2, RequestGoes DEF rows, Sound
  <2> QED
      BY <1>3, <2>3, ReadingSustains
<1> QED
    BY <1>1, <1>2, <1>3 DEF CallAdvance, ReadStatus, Abandon

-----------------------------------------------------------------------------
(* The analysis and its report. *)

LEMMA RequestIsSound ==
    ASSUME Sustained, NEW w \in Workers
    PROVE  job[w] \in Requests /\ Sound(job[w].pc, job[w].seen)
BY DEF Sustained, RequestsOK

LEMMA BindingsAreRead ==
    ASSUME Sustained, NEW w \in Workers, ReadPending(w) \/ ReadReportBinding(w)
    PROVE  Advances
<1>1. Return(w) \/ \E pc \in {"start", "poll", "ask_report"} : Goto(w, pc, "none")
      BY DEF ReadPending, ReadReportBinding
<1>2. RequestMoves(w)
      BY <1>1, RequestReturns, RequestGoesOn
<1> QED
    BY <1>2, ReadingSustains DEF ReadPending, ReadReportBinding

(* What a submission, a poll or a resolution answers is shown at that moment. *)
LEMMA AnalysisIsSeen ==
    ASSUME Sustained, NEW w \in Workers, WorldMoves, RowsMove, binding'.prepared, apiAnalysis' # "none",
           Goto(w, "bind_analysis", apiAnalysis')
    PROVE  Advances
<1>1. apiAnalysis' \in Api!AnalysisStates /\ "bind_analysis" \in Places
      BY DEF WorldMoves, WorldOK, Places, AnalysisPcs
<1>2. apiAnalysis' \in Evidence
      BY <1>1 DEF Evidence
<1>3. ASSUME NEW seen, seen = apiAnalysis' PROVE Sound("bind_analysis", seen)'
      BY <1>1, <1>3 DEF Sound, Shows
<1>4. RequestMoves(w)
      BY <1>1, <1>2, <1>3, RequestGoes
<1> QED
    BY <1>4, MoveSustains

LEMMA SubmitSustains == ASSUME Sustained, NEW w \in Workers, SubmitAnalysis(w) PROVE Advances
<1>1. WorldOK /\ UNCHANGED <<stripe, failing, rows>> /\ binding.prepared
      BY RequestIsSound DEF Sustained, SubmitAnalysis, Sound, At
<1>2. CASE UNCHANGED <<apiAnalysis, apiReport>> /\ apiAnalysis # "none"
  <2>1. WorldMoves
        BY <1>1, <1>2, WorldStays DEF world
  <2> QED
      BY <1>1, <1>2, <2>1, RowsStay, AnalysisIsSeen DEF SubmitAnalysis, rows
<1>3. CASE Api!Submit
  <2>1. WorldMoves
        BY <1>1, <1>3 DEF Api!Submit, WorldOK, WorldMoves, Ended, Api!AnalysisStates, ReadyOrRetracted, MoneyBack
  <2> QED
      BY <1>1, <1>3, <2>1, RowsStay, AnalysisIsSeen DEF SubmitAnalysis, rows, Api!Submit
<1> QED
    BY <1>2, <1>3 DEF SubmitAnalysis

LEMMA PollSustains == ASSUME Sustained, NEW w \in Workers, PollAnalysis(w) PROVE Advances
<1>1. binding.prepared /\ apiAnalysis # "none"
      BY DEF Sustained, PollAnalysis, BindingOK, Shows
<1>2. WorldMoves /\ UNCHANGED <<world, rows>>
      BY WorldStays DEF PollAnalysis
<1>3. RowsMove
      BY <1>2, RowsStay DEF world
<1> QED
    BY <1>1, <1>2, <1>3, AnalysisIsSeen DEF PollAnalysis, world, rows

LEMMA AskReportSustains == ASSUME Sustained, NEW w \in Workers, AskReport(w) PROVE Advances
<1>1. apiReport \in Api!ReportStates /\ "bind_report" \in Places
      BY DEF Sustained, WorldOK, AskReport, Places, AnalysisPcs
<1>2. apiReport \in Evidence
      BY <1>1 DEF Evidence
<1>3. ASSUME NEW seen, seen = apiReport PROVE Sound("bind_report", seen)'
      BY <1>1, <1>3 DEF Sound, ShowsReport, ReadyOrRetracted, AskReport, world
<1>4. RequestMoves(w)
      BY <1>1, <1>2, <1>3, RequestGoes DEF AskReport
<1> QED
    BY <1>4, ReadingSustains DEF AskReport

(* An order is given its binding. *)
LEMMA PrepareSustains == ASSUME Sustained, NEW w \in Workers, PrepareAnalysis(w) PROVE Advances
<1>1. OrderOK /\ BindingOK /\ RefundOK /\ WorldMoves
      BY WorldStays DEF Sustained, PrepareAnalysis
<1>2. /\ binding' = [binding EXCEPT !.prepared = binding'.prepared]
      /\ binding'.prepared \in BOOLEAN /\ (binding.prepared => binding'.prepared)
      BY <1>1 DEF PrepareAnalysis, BindingOK
<1>3. \/ Return(w)
      \/ Goto(w, "submit", "none") /\ binding'.prepared
      BY <1>1 DEF PrepareAnalysis, BindingOK
<1>4. RequestMoves(w)
  <2>1. "submit" \in Places /\ "none" \in Evidence
        BY DEF Places, AnalysisPcs, Evidence
  <2>2. binding'.prepared => Sound("submit", "none")'
        BY DEF Sound
  <2> QED
      BY <1>3, <2>1, <2>2, RequestGoes, RequestReturns
<1>5. OrderOK'
  <2>1. CASE UNCHANGED order
        BY <1>1, <1>2, <2>1, OrderStays
  <2>2. CASE order' # order
    <3>1. /\ order' = [order EXCEPT !.order = "fulfillment_in_progress", !.fulfillment = "analysis_pending"]
          /\ order.payment = "paid" /\ binding'.prepared
          BY <1>1, <2>2 DEF PrepareAnalysis, BindingOK
    <3> QED
        BY <1>1, <3>1 DEF OrderOK, FulfillmentStates, FulfillmentIsEvidence, MoneyReturnedIsReal, Refundable
  <2> QED
      BY <2>1, <2>2
<1>6. BindingOK'
  <2>1. binding'.analysis = binding.analysis /\ binding'.report = binding.report
        BY <1>1, <1>2 DEF BindingOK
  <2>2. Shows(binding.analysis)' /\ ShowsReport(binding.report)'
        BY <1>1, <2>1 DEF BindingOK, Shows, ShowsReport, WorldMoves
  <2> QED
      BY <1>1, <1>2, <2>1, <2>2 DEF BindingOK
<1>7. RefundOK'
      BY <1>1, <1>2, RefundStays DEF PrepareAnalysis, world
<1>8. RowsMove
      BY <1>1, <1>2, <1>5, <1>6, <1>7 DEF RowsMove, OrderGoesOn, PrepareAnalysis, OrderOK
<1> QED
    BY <1>1, <1>4, <1>8, MoveSustains

(* An answer is written into the binding and the order, however old it is. *)
LEMMA BindAnalysisSustains == ASSUME Sustained, NEW w \in Workers, BindAnalysis(w) PROVE Advances
<1>1. OrderOK /\ BindingOK /\ RefundOK /\ WorldMoves /\ UNCHANGED <<world, refund>>
      BY WorldStays DEF Sustained, BindAnalysis
<1> DEFINE seen == job[w].seen
<1>2. seen \in Api!AnalysisStates /\ Shows(seen) /\ binding.prepared
      BY RequestIsSound DEF BindAnalysis, At, Sound
<1>3. binding' = [binding EXCEPT !.analysis = seen] /\ order' = InProgress(OfAnalysis[seen])
      BY DEF BindAnalysis
<1> HIDE DEF seen
<1>4. /\ OfAnalysis[seen] \in FulfillmentStates \ {"delivery_pending", "report_failed"}
      /\ OfAnalysis[seen] = "report_pending" => seen = "completed"
      /\ OfAnalysis[seen] \in Refundable => seen \in Ended /\ seen = RefundReasonState[OfAnalysis[seen]]
      BY <1>2 DEF Api!AnalysisStates, OfAnalysis, FulfillmentStates, Refundable, Ended, RefundReasonState
<1>5. BindingOK'
      BY <1>1, <1>2, <1>3 DEF BindingOK, Shows, ShowsReport, WorldMoves, world, ReadyOrRetracted
<1>6. OrderOK'
  <2>1. FulfillmentIsEvidence'
        BY <1>1, <1>2, <1>3, <1>4 DEF InProgress, FulfillmentIsEvidence, Shows, Proves, world, Ended
  <2> QED
      BY <1>1, <1>2, <1>3, <1>4, <2>1 DEF OrderOK, BindingOK, InProgress, MoneyReturnedIsReal
<1>7. RowsMove
      BY <1>1, <1>3, <1>5, <1>6, RefundStays DEF RowsMove, OrderGoesOn, InProgress, BindingOK, world
<1> QED
    BY <1>1, <1>7, RequestReturns, MoveSustains DEF BindAnalysis

LEMMA BindReportSustains == ASSUME Sustained, NEW w \in Workers, BindReport(w) PROVE Advances
<1>1. OrderOK /\ BindingOK /\ RefundOK /\ WorldMoves /\ UNCHANGED <<world, refund>>
      BY WorldStays DEF Sustained, BindReport
<1>2. RequestMoves(w)
      BY RequestReturns DEF BindReport
<1>3. CASE binding.analysis # "completed"
      BY <1>1, <1>2, <1>3, ReadingSustains DEF BindReport, rows
<1>4. CASE binding.analysis = "completed"
  <2> DEFINE seen == job[w].seen
  <2>1. seen \in Api!ReportStates /\ ShowsReport(seen) /\ binding.prepared
        BY <1>1, <1>4, RequestIsSound DEF BindReport, At, Sound, BindingOK
  <2>2. binding' = [binding EXCEPT !.report = seen] /\ order' = InProgress(OfReport[seen])
        BY <1>4 DEF BindReport
  <2> HIDE DEF seen
  <2>3. \/ seen = "ready" /\ OfReport[seen] = "delivery_pending"
        \/ seen = "failed" /\ OfReport[seen] = "report_failed"
        BY <2>1 DEF Api!ReportStates, OfReport
  <2>4. BindingOK'
        BY <1>1, <2>1, <2>2 DEF BindingOK, Shows, ShowsReport, WorldMoves, world, ReadyOrRetracted
  <2>5. OrderOK'
    <3>1. FulfillmentIsEvidence'
          BY <1>1, <2>1, <2>2, <2>3 DEF InProgress, FulfillmentIsEvidence, ShowsReport, Proves, world,
                                        ReadyOrRetracted, Refundable
    <3> QED
        BY <1>1, <2>1, <2>2, <2>3, <3>1 DEF OrderOK, BindingOK, InProgress, MoneyReturnedIsReal,
                                            FulfillmentStates, Refundable
  <2>6. RowsMove
        BY <1>1, <2>2, <2>4, <2>5, RefundStays DEF RowsMove, OrderGoesOn, InProgress, BindingOK, world
  <2> QED
      BY <1>1, <1>2, <2>6, MoveSustains
<1> QED
    BY <1>3, <1>4

-----------------------------------------------------------------------------
(* The refund. *)

(* A reason that was proved is proved for good. *)
LEMMA ReproveSustains == ASSUME Sustained, NEW w \in Workers, Reprove(w) PROVE Advances
<1> DEFINE seen == job[w].seen
<1>1. seen \in Refundable /\ seen \in Evidence /\ "eligible" \in Places
      BY RequestIsSound DEF Reprove, At, Sound, Evidence, Places, RefundPcs
<1>2. Return(w) \/ (Goto(w, "eligible", seen) /\ Proves(seen))
      BY DEF Reprove
<1> HIDE DEF seen
<1>3. ASSUME Proves(seen), NEW x, x = seen PROVE Sound("eligible", x)'
      BY <1>1, <1>3 DEF Sound, Proves, Reprove, world
<1>4. RequestMoves(w)
      BY <1>1, <1>2, <1>3, RequestGoes, RequestReturns
<1> QED
    BY <1>4, ReadingSustains DEF Reprove

LEMMA EligibilitySustains == ASSUME Sustained, NEW w \in Workers, PersistEligibility(w) PROVE Advances
<1>1. OrderOK /\ BindingOK /\ RefundOK /\ WorldMoves /\ UNCHANGED <<world, order, binding>>
      BY WorldStays DEF Sustained, PersistEligibility
<1> DEFINE seen == job[w].seen
<1>2. seen \in Refundable /\ Proves(seen)
      BY RequestIsSound DEF PersistEligibility, At, Sound
<1>3. \/ Return(w) /\ UNCHANGED refund
      \/ Goto(w, "intent", "none") /\ binding.prepared /\ refund' = [refund EXCEPT !.eligibility = seen]
      BY DEF PersistEligibility
<1> HIDE DEF seen
<1>4. CASE Return(w) /\ UNCHANGED refund
      BY <1>1, <1>4, RequestReturns, ReadingSustains DEF rows
<1>5. CASE Goto(w, "intent", "none") /\ binding.prepared /\ refund' = [refund EXCEPT !.eligibility = seen]
  <2>1. refund'.eligibility = seen /\ refund'.operation = refund.operation /\ seen # "none"
        BY <1>1, <1>2, <1>5 DEF RefundOK, Refundable
  <2>2. RequestMoves(w)
    <3>1. "intent" \in Places /\ "none" \in Evidence /\ Sound("intent", "none")'
          BY <2>1 DEF Places, RefundPcs, Evidence, Sound
    <3> QED
        BY <1>5, <3>1, RequestGoes
  <2>3. RefundOK'
        BY <1>1, <1>2, <1>5, <2>1 DEF RefundOK, Proves, world
  <2>4. RowsMove
        BY <1>1, <2>1, <2>3, OrderStays, BindingStays DEF RowsMove, OrderGoesOn
  <2> QED
      BY <1>1, <2>2, <2>4, MoveSustains
<1> QED
    BY <1>3, <1>4, <1>5

LEMMA IntentSustains == ASSUME Sustained, NEW w \in Workers, RetrieveIntent(w) PROVE Advances
<1>1. refund.eligibility # "none"
      BY RequestIsSound DEF RetrieveIntent, At, Sound
<1>2. ASSUME NEW pc \in {"operate", "attend"}
      PROVE  pc \in Places /\ "none" \in Evidence /\ Sound(pc, "none")'
      BY <1>1 DEF Places, RefundPcs, Evidence, Sound, RetrieveIntent, rows
<1>3. \E pc \in {"operate", "attend"} : Goto(w, pc, "none")
      BY DEF RetrieveIntent
<1>4. RequestMoves(w)
      BY <1>2, <1>3, RequestGoes
<1> QED
    BY <1>4, ReadingSustains DEF RetrieveIntent

LEMMA OperationSustains == ASSUME Sustained, NEW w \in Workers, PrepareRefund(w) PROVE Advances
<1>1. OrderOK /\ BindingOK /\ RefundOK /\ WorldMoves /\ UNCHANGED <<world, order, binding>>
      BY WorldStays DEF Sustained, PrepareRefund
<1>2. refund.eligibility # "none"
      BY RequestIsSound DEF PrepareRefund, At, Sound
<1>3. /\ refund' \in [eligibility: Refundable \cup {"none"},
                     operation: RefundStatuses \cup {"none", "prepared"}]
      /\ refund'.eligibility = refund.eligibility
      /\ refund.operation # "none" => refund'.operation # "none"
      /\ Return(w) \/ (Goto(w, "list", "none") /\ refund'.operation # "none")
      BY <1>1 DEF PrepareRefund, RefundOK
<1>4. RequestMoves(w)
  <2>1. "list" \in Places /\ "none" \in Evidence
        BY DEF Places, RefundPcs, Evidence
  <2>2. refund'.operation # "none" => Sound("list", "none")'
        BY <1>2, <1>3 DEF Sound
  <2> QED
      BY <1>3, <2>1, <2>2, RequestGoes, RequestReturns
<1>5. RefundOK'
      BY <1>1, <1>3 DEF RefundOK, Proves, world
<1>6. RowsMove
      BY <1>1, <1>3, <1>5, OrderStays, BindingStays DEF RowsMove, OrderGoesOn
<1> QED
    BY <1>1, <1>4, <1>6, MoveSustains

(* Behind both rows of the refund, what Stripe shows or answers of it is bound. *)
LEMMA RefundIsSeen ==
    ASSUME Sustained, NEW w \in Workers, refund'.eligibility # "none", refund'.operation # "none",
           NEW status \in RefundStatuses, status = "succeeded" => MoneyBack', Goto(w, "bind_refund", status)
    PROVE  RequestMoves(w)
<1>1. "bind_refund" \in Places /\ status \in Evidence
      BY DEF Places, RefundPcs, Evidence
<1>2. Sound("bind_refund", status)'
      BY DEF Sound, MoneyBack
<1> QED
    BY <1>1, <1>2, RequestGoes

LEMMA ListSustains == ASSUME Sustained, NEW w \in Workers, ListRefunds(w) PROVE Advances
<1>1. WorldOK /\ UNCHANGED <<world, rows>>
      BY DEF Sustained, ListRefunds
<1>2. refund.eligibility # "none" /\ refund.operation # "none"
      BY RequestIsSound DEF ListRefunds, At, Sound
<1>3. \/ \E status \in RefundStatuses : /\ Goto(w, "bind_refund", status)
                                        /\ status = "succeeded" => MoneyBack
      \/ \E pc \in {"create", "refuse"} : Goto(w, pc, "none")
  <2>1. stripe.own # "none" => stripe.own \in RefundStatuses /\ (stripe.own = "succeeded" => MoneyBack)
        BY <1>1 DEF WorldOK, MoneyBack
  <2>2. stripe.foreign = "full" => MoneyBack /\ "succeeded" \in RefundStatuses
        BY DEF MoneyBack, RefundStatuses
  <2> QED
      BY <2>1, <2>2 DEF ListRefunds
<1>4. ASSUME NEW pc \in {"create", "refuse"}, Goto(w, pc, "none") PROVE RequestMoves(w)
  <2>1. pc \in Places /\ "none" \in Evidence /\ Sound(pc, "none")'
        BY <1>1, <1>2 DEF Places, RefundPcs, Evidence, Sound, rows
  <2> QED
      BY <1>4, <2>1, RequestGoes
<1>5. ASSUME NEW status \in RefundStatuses, Goto(w, "bind_refund", status), status = "succeeded" => MoneyBack
      PROVE  RequestMoves(w)
  <2>1. /\ status = "succeeded" => MoneyBack'
        /\ refund'.eligibility # "none" /\ refund'.operation # "none"
        BY <1>1, <1>2, <1>5 DEF world, rows, MoneyBack
  <2> QED
      BY <1>5, <2>1, RefundIsSeen
<1>6. RequestMoves(w)
  <2>1. CASE \E pc \in {"create", "refuse"} : Goto(w, pc, "none")
        BY <1>4, <2>1
  <2>2. CASE \E status \in RefundStatuses : /\ Goto(w, "bind_refund", status)
                                            /\ status = "succeeded" => MoneyBack
        BY <1>5, <2>2
  <2> QED
      BY <1>3, <2>1, <2>2
<1> QED
    BY <1>1, <1>6, ReadingSustains

(* Stripe creates one refund; a repeated key is answered with its first reply, which says *)
(* succeeded only of a refund that has succeeded.                                          *)
LEMMA CreateSustains == ASSUME Sustained, NEW w \in Workers, CreateRefund(w) PROVE Advances
<1>1. WorldOK /\ UNCHANGED <<apiAnalysis, apiReport, failing, rows>>
      BY DEF Sustained, CreateRefund
<1>2. refund.eligibility # "none" /\ refund.operation # "none"
      BY RequestIsSound DEF CreateRefund, At, Sound
<1>3. RefundReplies \subseteq RefundStatuses
      BY FulfillmentAssumption
<1>4. CASE UNCHANGED stripe
  <2>1. Return(w) \/ (stripe.own # "none" /\ Goto(w, "bind_refund", stripe.reply))
        BY <1>4, <1>1, <1>3 DEF CreateRefund, WorldOK, RefundStatuses
  <2>2. stripe.own # "none" => stripe.reply \in RefundStatuses /\ (stripe.reply = "succeeded" => MoneyBack')
        BY <1>1, <1>3, <1>4 DEF WorldOK, MoneyBack
  <2>3. RequestMoves(w)
        BY <1>1, <1>2, <2>1, <2>2, RefundIsSeen, RequestReturns DEF rows
  <2> QED
      BY <1>1, <1>4, <2>3, ReadingSustains DEF world
<1>5. ASSUME NEW status \in RefundReplies, stripe.own = "none", stripe.foreign = "none",
             stripe' = [stripe EXCEPT !.own = status, !.reply = status], Goto(w, "bind_refund", status)
      PROVE  Advances
  <2>1. stripe'.own = status /\ stripe'.reply = status /\ stripe'.foreign = "none" /\ status # "none"
        BY <1>1, <1>3, <1>5 DEF WorldOK, RefundStatuses
  <2>2. WorldMoves
        BY <1>1, <1>3, <1>5, <2>1 DEF WorldOK, WorldMoves, ReadyOrRetracted, MoneyBack
  <2>3. RowsMove
        BY <1>1, <1>2, <2>2, RowsStay
  <2>4. RequestMoves(w)
        BY <1>1, <1>2, <1>3, <1>5, <2>1, RefundIsSeen DEF rows, MoneyBack
  <2> QED
      BY <2>2, <2>3, <2>4, MoveSustains
<1> QED
    BY <1>4, <1>5 DEF CreateRefund

(* The order is called refunded only on a success, and on a success the money is back. *)
LEMMA BindRefundSustains == ASSUME Sustained, NEW w \in Workers, BindRefund(w) PROVE Advances
<1>1. OrderOK /\ BindingOK /\ RefundOK /\ WorldMoves /\ UNCHANGED <<world, binding>>
      BY WorldStays DEF Sustained, BindRefund
<1> DEFINE seen == job[w].seen
<1>2. seen \in RefundStatuses /\ (seen = "succeeded" => MoneyBack) /\ refund.eligibility # "none"
      BY RequestIsSound DEF BindRefund, At, Sound
<1>3. refund' = [refund EXCEPT !.operation = seen] /\ order' = RefundOutcome(seen)
      BY DEF BindRefund
<1> HIDE DEF seen
<1>4. /\ order' = [order EXCEPT !.order = order'.order, !.payment = order'.payment]
      /\ order'.order \in {order.order, "attention_required", "refunded"}
      /\ order'.payment \in {"refund_pending", "refund_failed", "refunded"}
      /\ "refunded" \in {order'.order, order'.payment} => seen = "succeeded" \/ order.order = "refunded"
      BY <1>1, <1>2, <1>3 DEF RefundOutcome, OrderOK, RefundStatuses
<1>5. /\ order' \in [order: {"paid", "fulfillment_in_progress", "fulfilled", "attention_required", "refunded"},
                     payment: {"paid", "refund_pending", "refunded", "refund_failed"},
                     fulfillment: FulfillmentStates]
      /\ order'.fulfillment = order.fulfillment
      BY <1>1, <1>4 DEF OrderOK
<1>6. binding.prepared
      BY <1>1, <1>2 DEF RefundOK
<1>7. OrderOK'
  <2>1. FulfillmentIsEvidence'
        BY <1>1, <1>5 DEF OrderOK, FulfillmentIsEvidence, world, Proves
  <2>2. MoneyReturnedIsReal'
        BY <1>1, <1>2, <1>4 DEF OrderOK, MoneyReturnedIsReal, world, MoneyBack
  <2> QED
      BY <1>1, <1>5, <1>6, <2>1, <2>2 DEF OrderOK
<1>8. RefundOK'
      BY <1>1, <1>2, <1>3 DEF RefundOK, Proves, world, RefundStatuses
<1>9. RowsMove
      BY <1>1, <1>2, <1>3, <1>4, <1>7, <1>8, BindingStays DEF RowsMove, OrderGoesOn, RefundOK, RefundStatuses
<1> QED
    BY <1>1, <1>9, RequestReturns, MoveSustains DEF BindRefund

LEMMA AttentionSustains == ASSUME Sustained, NEW w \in Workers, MarkAttention(w) PROVE Advances
<1>1. OrderOK /\ RefundOK /\ UNCHANGED <<world, binding, refund>>
      BY DEF Sustained, MarkAttention
<1>2. binding.prepared
      BY <1>1, RequestIsSound DEF MarkAttention, At, Sound, RefundOK
<1>3. /\ order' \in [order: {"paid", "fulfillment_in_progress", "fulfilled", "attention_required", "refunded"},
                     payment: {"paid", "refund_pending", "refunded", "refund_failed"},
                     fulfillment: FulfillmentStates]
      /\ order'.fulfillment = order.fulfillment
      /\ order'.order = "attention_required" /\ order'.payment \in {order.payment, "refund_failed"}
      BY <1>1 DEF MarkAttention, OrderOK
<1>4. OrderOK'
  <2>1. FulfillmentIsEvidence'
        BY <1>1, <1>3 DEF OrderOK, FulfillmentIsEvidence, world, Proves
  <2>2. MoneyReturnedIsReal'
        BY <1>1, <1>3 DEF OrderOK, MoneyReturnedIsReal, world
  <2> QED
      BY <1>1, <1>2, <1>3, <2>1, <2>2 DEF OrderOK
<1> QED
    BY <1>1, <1>3, <1>4, RequestReturns, OrderMoves DEF MarkAttention, OrderGoesOn

-----------------------------------------------------------------------------
(* Every step of the advance requests and of the providers. *)
LEMMA FulfillmentSustains == ASSUME Sustained, FulfillmentNext PROVE Advances
<1>1. ASSUME NEW w \in Workers, Advance(w) PROVE Advances
      BY <1>1, StatusIsRead, BindingsAreRead, PrepareSustains, SubmitSustains, PollSustains,
         BindAnalysisSustains, AskReportSustains, BindReportSustains, ReproveSustains,
         EligibilitySustains, IntentSustains, OperationSustains, ListSustains, CreateSustains,
         BindRefundSustains, AttentionSustains DEF Advance
<1> QED
    BY <1>1, ApiSustains, StripeSustains, HealSustains, StatusIsRead DEF FulfillmentNext

LEMMA InitIsSustained == Init => Sustained
<1> SUFFICES ASSUME Init PROVE Sustained
    OBVIOUS
<1>1. WorldOK
      BY DEF Init, Api!Init, WorldOK
<1>2. OrderOK /\ BindingOK /\ RefundOK
      BY DEF Init, OrderOK, BindingOK, RefundOK, FulfillmentStates, FulfillmentIsEvidence,
             MoneyReturnedIsReal, Refundable, Shows, ShowsReport, Ended
<1>3. RequestsOK
  <2>1. Idle \in Requests /\ Sound("idle", "none")
        BY DEF Idle, Requests, Places, Evidence, Sound
  <2> QED
      BY <2>1 DEF Init, RequestsOK, Idle
<1> QED
    BY <1>1, <1>2, <1>3 DEF Sustained

LEMMA UnchangedSustains == ASSUME Sustained, UNCHANGED fulfillmentVars PROVE Advances
<1>1. WorldMoves /\ UNCHANGED <<world, rows, job>>
      BY WorldStays DEF fulfillmentVars, world, rows
<1>2. RowsMove
      BY <1>1, RowsStay DEF world
<1> QED
    BY <1>1, <1>2, MoveSustains

(* What the inductive invariant says of the properties. *)
LEMMA SustainedIsEnough ==
    Sustained => FulfillmentTypeOK /\ FulfillmentIsEvidence /\ RefundJustified /\ MoneyReturnedIsReal
<1> SUFFICES ASSUME Sustained
             PROVE  FulfillmentTypeOK /\ FulfillmentIsEvidence /\ RefundJustified /\ MoneyReturnedIsReal
    OBVIOUS
<1>1. WorldOK /\ OrderOK /\ BindingOK /\ RefundOK /\ RequestsOK
      BY DEF Sustained
<1>2. FulfillmentTypeOK
      BY <1>1 DEF WorldOK, OrderOK, BindingOK, RefundOK, RequestsOK, FulfillmentTypeOK, Requests, Places, Evidence
<1>3. RefundJustified
      BY <1>1 DEF RefundOK, RefundJustified
<1> QED
    BY <1>1, <1>2, <1>3 DEF OrderOK

LEMMA FulfillmentIsSustained == FulfillmentSpec => []Sustained
<1>1. Sustained /\ [FulfillmentNext]_fulfillmentVars => Sustained'
      BY FulfillmentSustains, UnchangedSustains DEF Advances
<1> QED
    BY <1>1, InitIsSustained, PTL DEF FulfillmentSpec

(* Whatever two or more overlapping advance requests have read and however late they write it,   *)
(* nothing leaves its domain and no order leaves paid without its binding.                       *)
THEOREM FulfillmentIsTyped == FulfillmentSpec => []FulfillmentTypeOK
BY FulfillmentIsSustained, SustainedIsEnough, PTL

(* An order ready for delivery has a report and one up for a refund a terminal failure, as       *)
(* sitescore-api shows them now.                                                                 *)
THEOREM FulfillmentRestsOnEvidence == FulfillmentSpec => []FulfillmentIsEvidence
BY FulfillmentIsSustained, SustainedIsEnough, PTL

(* Stripe is asked for a refund only behind a durable eligibility that sitescore-api still proves. *)
THEOREM RefundsAreJustified == FulfillmentSpec => []RefundJustified
BY FulfillmentIsSustained, SustainedIsEnough, PTL

(* An order is called refunded only when the money went back.                                    *)
THEOREM RefundedMeansMoneyBack == FulfillmentSpec => []MoneyReturnedIsReal
BY FulfillmentIsSustained, SustainedIsEnough, PTL
=============================================================================
