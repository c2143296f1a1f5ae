--------------------------- MODULE CommercePayment ---------------------------
(***************************************************************************)
(* The payment authority of sitescore-commerce: the signed-webhook path    *)
(* (webhook.py over the inbox in db.py) and the recovery poller            *)
(* (recovery_lineage.py over recovery_atomic.py) both move the same order  *)
(* row from "pending_payment" to "paid" or "expired", bind the Stripe      *)
(* Checkout Session, and create the one paid outbox row.  Every database   *)
(* transaction is one action; every call to Stripe lies between two of     *)
(* them, so what a process read before the call may be stale after it.     *)
(***************************************************************************)
EXTENDS Naturals

CONSTANTS
    Orders, Sessions, Events,
    Handlers,        \* concurrent webhook requests (PaymentWebhookService.handle)
    Recoverers,      \* recovery workers (LineageRecoveryService)
    NoOrder, NoSession, NoEvent,
    UnknownOrder,    \* a candidate order id that names no row of the database
    SessionOrder,    \* the order a session's reference and metadata name
    EventSession,    \* data.object.id of a signed event
    EventCandidate,  \* client_reference_id of a signed event; NoOrder when absent
    EventType,       \* "completed", "expired" or any other type ("other")
    EventFit,        \* FALSE: api_version or livemode is not the configured one
    StripeEdges,     \* how Stripe may change what it reports of a session
    Stages,          \* the downstream states an instance explores
    MaxFaults        \* bound on abandoned jobs and failed loads

StripeStates == {"open", "complete_unpaid", "complete_paid",
                 "complete_paid_no_intent", "expired", "expired_intent"}

\* Where fulfillment, delivery and refunds may take an order once it is paid.
Downstream == {<<"fulfillment_in_progress", "paid">>,
               <<"fulfillment_in_progress", "refund_pending">>,
               <<"fulfilled", "paid">>, <<"refunded", "refunded">>,
               <<"attention_required", "paid">>,
               <<"attention_required", "refund_pending">>,
               <<"attention_required", "refund_failed">>}

ASSUME PaymentAssumption ==
    /\ NoOrder \notin Orders /\ UnknownOrder \notin Orders
    /\ NoSession \notin Sessions /\ NoEvent \notin Events
    /\ Handlers \cap Recoverers = {}
    /\ SessionOrder \in [Sessions -> Orders \cup {NoOrder}]
    /\ EventSession \in [Events -> Sessions]
    /\ EventCandidate \in [Events -> Orders \cup {NoOrder, UnknownOrder}]
    /\ EventType \in [Events -> {"completed", "expired", "other"}]
    /\ EventFit \in [Events -> BOOLEAN]
    /\ StripeEdges \subseteq StripeStates \X StripeStates
    /\ Stages \subseteq Downstream
    /\ MaxFaults \in Nat

VARIABLES
    stripe,        \* what Stripe would report of each session (external)
    emitted,       \* events Stripe has issued; each may be delivered any number of times
    inbox,         \* stripe_event_inbox.processing_state
    orderState,    \* orders.order_state
    paymentState,  \* orders.payment_state
    bound,         \* checkout_sessions.stripe_checkout_session_id
    seen,          \* session and payment status last written to the checkout row
    lastEvent,     \* checkout_sessions.last_reconciliation_event_id
    outbox,        \* number of paid outbox rows of the order
    receipt,       \* payment_poll_receipts.transition_target, or "none"
    suspended,     \* orders whose recovery row waits out _ATTENTION_DELAY_SECONDS
    job,           \* the request or claim each process is working on
    faults         \* jobs abandoned or cut short so far

rows == <<inbox, orderState, paymentState, bound, seen, lastEvent, outbox, receipt, suspended>>
vars == <<stripe, emitted, inbox, orderState, paymentState, bound, seen,
          lastEvent, outbox, receipt, suspended, job, faults>>

Workers == Handlers \cup Recoverers
InboxTerminal == {"processed", "ignored", "attention_required"}
OrderStates == {"pending_payment", "paid", "fulfillment_in_progress", "fulfilled",
                "attention_required", "expired", "refunded"}
PaymentStates == {"pending", "paid", "expired", "refund_pending", "refunded", "refund_failed"}

Pending == <<"pending_payment", "pending">>
Paid    == <<"paid", "paid">>
Expired == <<"expired", "expired">>
Status(o) == <<orderState[o], paymentState[o]>>
IsPaid(o) == Status(o) \in {Paid} \cup Stages
Active(o) == orderState[o] \in {"pending_payment", "paid", "fulfillment_in_progress"}

Jobs == [pc : {"idle", "recorded", "screened", "loaded", "retrieved"},
         event : Events \cup {NoEvent},      \* NoEvent: a poll
         order : Orders \cup {NoOrder},
         session : Sessions \cup {NoSession},
         known : Sessions \cup {NoSession},  \* the binding in the loaded snapshot
         reported : StripeStates]
Idle == [pc |-> "idle", event |-> NoEvent, order |-> NoOrder,
         session |-> NoSession, known |-> NoSession, reported |-> "open"]

Init ==
    /\ stripe = [s \in Sessions |-> "open"]
    /\ emitted = {}
    /\ inbox = [e \in Events |-> "absent"]
    /\ orderState = [o \in Orders |-> "pending_payment"]
    /\ paymentState = [o \in Orders |-> "pending"]
    /\ bound = [o \in Orders |-> NoSession]
    /\ seen = [o \in Orders |-> "unreconciled"]
    /\ lastEvent = [o \in Orders |-> NoEvent]
    /\ outbox = [o \in Orders |-> 0]
    /\ receipt = [o \in Orders |-> "none"]
    /\ suspended = {}
    /\ job = [w \in Workers |-> Idle]
    /\ faults = 0

-----------------------------------------------------------------------------
(* Stripe, as the code in src/ uses it.                                    *)

StripeAdvance(s) ==
    /\ \E to \in StripeStates :
          /\ <<stripe[s], to>> \in StripeEdges
          /\ stripe' = [stripe EXCEPT ![s] = to]
    /\ UNCHANGED <<emitted, rows, job, faults>>

StripeEmit(e) ==
    /\ EventType[e] = "completed" =>
          stripe[EventSession[e]] \in {"complete_unpaid", "complete_paid", "complete_paid_no_intent"}
    /\ EventType[e] = "expired" => stripe[EventSession[e]] \in {"expired", "expired_intent"}
    /\ e \notin emitted
    /\ emitted' = emitted \cup {e}
    /\ UNCHANGED <<stripe, rows, job, faults>>

\* bind_checkout, run by create_order once Stripe returned the session.
BindCheckout(o, s) ==
    /\ SessionOrder[s] = o
    /\ bound[o] = NoSession
    /\ bound' = [bound EXCEPT ![o] = s]
    /\ UNCHANGED <<stripe, emitted, inbox, orderState, paymentState, seen,
                   lastEvent, outbox, receipt, suspended, job, faults>>

-----------------------------------------------------------------------------
(* Operators shared by the webhook and the recovery paths.                 *)

\* (mutant) An event's type is believed without its evidence.
EventTargetByType(e, reported) == IF EventType[e] = "completed" THEN "paid" ELSE "expired"

\* What the event may do to an order: "paid", "expired" or nothing at all.
EventTarget(e, reported) ==
    IF EventType[e] = "completed"
    THEN IF reported = "complete_paid" THEN "paid" ELSE "none"
    ELSE IF reported \in {"expired", "expired_intent"} THEN "expired" ELSE "none"

\* (mutant) A complete session never counts as paid.
PollTargetDeaf(reported) == IF reported = "expired" THEN "expired" ELSE "wait"

\* What a poll may do.  An expired session that still carries a PaymentIntent
\* expires an order through its event, but is an attention finding for the poll.
PollTarget(reported) ==
    IF reported = "complete_paid" THEN "paid"
    ELSE IF reported = "expired" THEN "expired"
    ELSE IF reported \in {"open", "complete_unpaid"} THEN "wait" ELSE "none"

\* (mutant) The order named by the session is not compared.
BindingOkAnyOrder(j) == j.known \in {NoSession, j.session}

\* validate_binding over the snapshot taken before Stripe was called.
BindingOk(j) == SessionOrder[j.session] = j.order /\ j.known \in {NoSession, j.session}

\* (mutant) The binding is not checked again under the row lock.
PermittedUnbound(o, s, target) ==
    Status(o) \in (IF target = "paid" THEN {Pending, Paid} ELSE {Pending, Expired})

\* _apply_payment_transition_locked, first half: no failure code.
Permitted(o, s, target) ==
    /\ bound[o] \in {NoSession, s}
    /\ Status(o) \in (IF target = "paid" THEN {Pending, Paid} ELSE {Pending, Expired})

\* (mutant) The transition does not create the outbox row.
ApplySilently(o, s, reported, target, e) ==
    LET moves == Status(o) = Pending
    IN  /\ bound' = [bound EXCEPT ![o] = s]
        /\ seen' = [seen EXCEPT ![o] = reported]
        /\ lastEvent' = IF e = NoEvent THEN lastEvent ELSE [lastEvent EXCEPT ![o] = e]
        /\ orderState' = IF moves THEN [orderState EXCEPT ![o] = target] ELSE orderState
        /\ paymentState' = IF moves THEN [paymentState EXCEPT ![o] = target] ELSE paymentState
        /\ outbox' = outbox

\* _apply_payment_transition_locked, second half: write checkout, order and outbox.
Apply(o, s, reported, target, e) ==
    LET moves == Status(o) = Pending
    IN  /\ bound' = [bound EXCEPT ![o] = s]
        /\ seen' = [seen EXCEPT ![o] = reported]
        /\ lastEvent' = IF e = NoEvent THEN lastEvent ELSE [lastEvent EXCEPT ![o] = e]
        /\ orderState' = IF moves THEN [orderState EXCEPT ![o] = target] ELSE orderState
        /\ paymentState' = IF moves THEN [paymentState EXCEPT ![o] = target] ELSE paymentState
        /\ outbox' = IF moves /\ target = "paid" /\ outbox[o] = 0
                     THEN [outbox EXCEPT ![o] = 1] ELSE outbox

Work(w, j) == job' = [job EXCEPT ![w] = j]
Done(w) == Work(w, Idle)

\* (mutant) The failure is stored under a name the schema does not have.
FinishedAsFailed(w, e, state) ==
    IF inbox[e] = "processed" THEN inbox ELSE [inbox EXCEPT ![e] = "failed"]

\* A webhook never overwrites "processed"; a recovery worker writes only on "received".
Finished(w, e, state) ==
    IF inbox[e] = "processed" \/ (w \in Recoverers /\ inbox[e] # "received")
    THEN inbox ELSE [inbox EXCEPT ![e] = state]

\* Recovery follows an attention result with a claim result that postpones the
\* order by ten years; the second write may be lost with its lease.
Suspend(w, o, really) ==
    suspended' \in IF w \in Recoverers /\ really
                   THEN {suspended, suspended \cup {o}} ELSE {suspended}

Close(w, e, state) ==
    /\ inbox' = Finished(w, e, state)
    /\ Suspend(w, job[w].order, inbox[e] = "received" /\ state = "attention_required")
    /\ Done(w)
    /\ UNCHANGED <<stripe, emitted, orderState, paymentState, bound, seen,
                   lastEvent, outbox, receipt, faults>>

-----------------------------------------------------------------------------
(* One job: recorded -> screened -> loaded -> retrieved -> idle.           *)

\* record_stripe_event; a redelivery finds the row and only counts the attempt.
Receive(w, e) ==
    /\ w \in Handlers /\ job[w].pc = "idle" /\ e \in emitted
    /\ inbox' = IF inbox[e] = "absent" THEN [inbox EXCEPT ![e] = "received"] ELSE inbox
    /\ Work(w, [Idle EXCEPT !.pc = "recorded", !.event = e, !.session = EventSession[e]])
    /\ UNCHANGED <<stripe, emitted, orderState, paymentState, bound, seen,
                   lastEvent, outbox, receipt, suspended, faults>>

\* (mutant) Only orders whose payment is settled are claimed for their events.
StartResumeSettled(w, o, e) ==
    /\ w \in Recoverers /\ job[w].pc = "idle" /\ Active(o) /\ o \notin suspended
    /\ inbox[e] = "received" /\ bound[o] = EventSession[e] /\ Status(o) # Pending
    /\ Work(w, [Idle EXCEPT !.pc = "recorded", !.event = e, !.order = o,
                            !.session = EventSession[e]])
    /\ UNCHANGED <<stripe, emitted, rows, faults>>

\* load_snapshot and load_stale_received_event of a claimed order.
StartResume(w, o, e) ==
    /\ w \in Recoverers /\ job[w].pc = "idle" /\ Active(o) /\ o \notin suspended
    /\ inbox[e] = "received" /\ bound[o] = EventSession[e]
    /\ Work(w, [Idle EXCEPT !.pc = "recorded", !.event = e, !.order = o,
                            !.session = EventSession[e]])
    /\ UNCHANGED <<stripe, emitted, rows, faults>>

\* (mutant) The stored candidate is not compared with the claimed order.
MisroutedNever(w) == FALSE

\* The stored candidate must be the claimed order; a NULL one is correlated by session.
Misrouted(w) ==
    w \in Recoverers /\ EventCandidate[job[w].event] \notin {NoOrder, job[w].order}

RejectEvent(w) ==
    /\ job[w].pc = "recorded"
    /\ Misrouted(w) \/ ~EventFit[job[w].event]
    /\ Close(w, job[w].event, "attention_required")

IgnoreEvent(w) ==
    /\ job[w].pc = "recorded"
    /\ ~Misrouted(w) /\ EventFit[job[w].event] /\ EventType[job[w].event] = "other"
    /\ Close(w, job[w].event, "ignored")

\* get_event_state: a terminal inbox row ends the webhook; recovery reads no state here.
ScreenEvent(w) ==
    /\ job[w].pc = "recorded"
    /\ ~Misrouted(w) /\ EventFit[job[w].event] /\ EventType[job[w].event] # "other"
    /\ IF w \in Handlers /\ inbox[job[w].event] \in InboxTerminal
       THEN Done(w)
       ELSE Work(w, [job[w] EXCEPT !.pc = "screened"])
    /\ UNCHANGED <<stripe, emitted, rows, faults>>

TargetOrder(w) == IF w \in Handlers THEN EventCandidate[job[w].event] ELSE job[w].order

\* A webhook whose candidate is missing or names no local order.
RejectCorrelation(w) ==
    /\ job[w].pc = "screened" /\ TargetOrder(w) \notin Orders
    /\ Close(w, job[w].event, "attention_required")

\* load_order_and_checkout
LoadOrder(w) ==
    /\ job[w].pc = "screened" /\ TargetOrder(w) \in Orders
    /\ Work(w, [job[w] EXCEPT !.pc = "loaded", !.order = TargetOrder(w),
                              !.known = bound[TargetOrder(w)]])
    /\ UNCHANGED <<stripe, emitted, rows, faults>>

\* The webhook takes a failure of the database there for a missing order, and
\* answers 200: Stripe does not send the event again.
LoadFails(w) ==
    /\ w \in Handlers /\ job[w].pc = "screened" /\ TargetOrder(w) \in Orders
    /\ faults < MaxFaults /\ faults' = faults + 1
    /\ inbox' = Finished(w, job[w].event, "attention_required")
    /\ Done(w)
    /\ UNCHANGED <<stripe, emitted, orderState, paymentState, bound, seen,
                   lastEvent, outbox, receipt, suspended>>

\* _poll_payment of a pending order whose checkout is bound.
StartPoll(w, o) ==
    /\ w \in Recoverers /\ job[w].pc = "idle" /\ o \notin suspended
    /\ Status(o) = Pending /\ bound[o] # NoSession
    /\ Work(w, [Idle EXCEPT !.pc = "loaded", !.order = o,
                            !.session = bound[o], !.known = bound[o]])
    /\ UNCHANGED <<stripe, emitted, rows, faults>>

\* CheckoutEvidenceGateway.retrieve: the answer ages from here on.
RetrieveEvidence(w) ==
    /\ job[w].pc = "loaded"
    /\ Work(w, [job[w] EXCEPT !.pc = "retrieved", !.reported = stripe[job[w].session]])
    /\ UNCHANGED <<stripe, emitted, rows, faults>>

\* The binding does not fit, or the evidence does not bear the event out.
RejectEvidence(w) ==
    LET j == job[w] IN
    /\ j.pc = "retrieved" /\ j.event # NoEvent
    /\ ~BindingOk(j) \/ EventTarget(j.event, j.reported) = "none"
    /\ Close(w, j.event, "attention_required")

\* apply_reconciliation (webhook) and apply_event_reconciliation_with_lease (recovery).
ApplyEvent(w) ==
    LET j == job[w]
        target == EventTarget(j.event, j.reported)
        stale == inbox[j.event] = "processed"
                   \/ (w \in Recoverers /\ inbox[j.event] # "received")
    IN
    /\ j.pc = "retrieved" /\ j.event # NoEvent
    /\ BindingOk(j) /\ target # "none"
    /\ \/ /\ stale
          /\ UNCHANGED rows
       \/ /\ ~stale /\ Permitted(j.order, j.session, target)
          /\ Apply(j.order, j.session, j.reported, target, j.event)
          /\ inbox' = [inbox EXCEPT ![j.event] = "processed"]
          /\ UNCHANGED <<receipt, suspended>>
       \/ /\ ~stale /\ ~Permitted(j.order, j.session, target)
          /\ inbox' = [inbox EXCEPT ![j.event] = "attention_required"]
          /\ Suspend(w, j.order, TRUE)
          /\ UNCHANGED <<orderState, paymentState, bound, seen, lastEvent, outbox, receipt>>
    /\ Done(w)
    /\ UNCHANGED <<stripe, emitted, faults>>

\* apply_poll_reconciliation_with_lease: a receipt only for a transition the poll won.
ApplyPoll(w) ==
    LET j == job[w]
        target == PollTarget(j.reported)
    IN
    /\ j.pc = "retrieved" /\ j.event = NoEvent /\ BindingOk(j)
    /\ target \in {"paid", "expired"}
    /\ \/ /\ Permitted(j.order, j.session, target)
          /\ Apply(j.order, j.session, j.reported, target, NoEvent)
          /\ receipt' = IF Status(j.order) = Pending
                        THEN [receipt EXCEPT ![j.order] = target] ELSE receipt
          /\ UNCHANGED <<inbox, suspended>>
       \/ /\ ~Permitted(j.order, j.session, target)
          /\ Suspend(w, j.order, TRUE)
          /\ UNCHANGED <<inbox, orderState, paymentState, bound, seen, lastEvent, outbox, receipt>>
    /\ Done(w)
    /\ UNCHANGED <<stripe, emitted, faults>>

\* Non-terminal evidence defers the poll; contradictory evidence suspends the order.
ClosePoll(w) ==
    LET j == job[w] IN
    /\ j.pc = "retrieved" /\ j.event = NoEvent
    /\ ~BindingOk(j) \/ PollTarget(j.reported) \in {"wait", "none"}
    /\ Suspend(w, j.order, ~BindingOk(j) \/ PollTarget(j.reported) = "none")
    /\ Done(w)
    /\ UNCHANGED <<stripe, emitted, inbox, orderState, paymentState, bound, seen,
                   lastEvent, outbox, receipt, faults>>

\* A crash, a lost lease, a database error or Stripe being unavailable (503).
Abandon(w) ==
    /\ job[w].pc # "idle" /\ faults < MaxFaults
    /\ faults' = faults + 1
    /\ Done(w)
    /\ UNCHANGED <<stripe, emitted, rows>>

\* Everything after payment: analysis, report, delivery and refund move the row
\* among the downstream states and never back to "paid" (CommerceFulfillment).
Fulfill(o) ==
    /\ IsPaid(o)
    /\ \E to \in Stages :
          /\ orderState' = [orderState EXCEPT ![o] = to[1]]
          /\ paymentState' = [paymentState EXCEPT ![o] = to[2]]
    /\ UNCHANGED <<stripe, emitted, inbox, bound, seen, lastEvent, outbox,
                   receipt, suspended, job, faults>>

-----------------------------------------------------------------------------
Provider == \/ \E s \in Sessions : StripeAdvance(s)
            \/ \E e \in Events : StripeEmit(e)

Step(w) == \/ RejectEvent(w) \/ IgnoreEvent(w) \/ ScreenEvent(w)
           \/ RejectCorrelation(w) \/ LoadOrder(w) \/ RetrieveEvidence(w)
           \/ RejectEvidence(w) \/ ApplyEvent(w) \/ ApplyPoll(w) \/ ClosePoll(w)

Next ==
    \/ Provider
    \/ \E o \in Orders, s \in Sessions : BindCheckout(o, s)
    \/ \E w \in Workers, e \in Events : Receive(w, e)
    \/ \E w \in Workers, o \in Orders, e \in Events : StartResume(w, o, e)
    \/ \E w \in Workers, o \in Orders : StartPoll(w, o)
    \/ \E w \in Workers : Step(w) \/ Abandon(w) \/ LoadFails(w)
    \/ \E o \in Orders : Fulfill(o)

Spec == Init /\ [][Next]_vars

(* A started request runs on unless it is abandoned, and the recovery      *)
(* schedule keeps claiming every order that is due: a worker alternates    *)
(* between claims, so each claim needs strong fairness.                    *)
Fairness ==
    /\ \A w \in Workers : WF_vars(Step(w))
    /\ \A o \in Orders, e \in Events : SF_vars(\E w \in Recoverers : StartResume(w, o, e))
    /\ \A o \in Orders : SF_vars(\E w \in Recoverers : StartPoll(w, o))

FairSpec == Spec /\ Fairness
-----------------------------------------------------------------------------
(* Correctness.                                                            *)

\* Every row column and every job holds a value of its domain.
TypeOK ==
    /\ stripe \in [Sessions -> StripeStates]
    /\ emitted \subseteq Events
    /\ inbox \in [Events -> InboxTerminal \cup {"absent", "received"}]
    /\ orderState \in [Orders -> OrderStates]
    /\ paymentState \in [Orders -> PaymentStates]
    /\ bound \in [Orders -> Sessions \cup {NoSession}]
    /\ seen \in [Orders -> StripeStates \cup {"unreconciled"}]
    /\ lastEvent \in [Orders -> Events \cup {NoEvent}]
    /\ outbox \in [Orders -> Nat]
    /\ receipt \in [Orders -> {"none", "paid", "expired"}]
    /\ suspended \subseteq Orders
    /\ job \in [Workers -> Jobs]
    /\ faults \in 0..MaxFaults

\* _paid_authority_invariant_code finds nothing to object to: the checkout row
\* shows the paid session, and its lineage is either a processed, fitting
\* "completed" event of that session or the receipt of the poll that won.
PaidLineage(o) ==
    /\ bound[o] # NoSession /\ seen[o] = "complete_paid"
    /\ IF lastEvent[o] # NoEvent
       THEN /\ inbox[lastEvent[o]] = "processed"
            /\ EventType[lastEvent[o]] = "completed"
            /\ EventSession[lastEvent[o]] = bound[o]
            /\ EventFit[lastEvent[o]]
            /\ EventCandidate[lastEvent[o]] \in {NoOrder, o}
       ELSE receipt[o] = "paid"

\* However webhooks, redeliveries and polls interleave, an order that took money
\* keeps the lineage recovery demands before it replays the order to n8n
\* (recovery_lineage.py _paid_authority_invariant_code).
PaidAuthority == \A o \in Orders : IsPaid(o) => PaidLineage(o)

\* The paid outbox row exists exactly for the orders that were paid, once
\* (db.py _apply_payment_transition_locked and the unique constraint behind it).
OutboxMatchesTruth == \A o \in Orders : outbox[o] = IF IsPaid(o) THEN 1 ELSE 0

\* An event acknowledged as processed is reflected by its own order: the order is
\* bound to the event's session and has the outcome the event announced.
ProcessedEventsHold ==
    \A e \in Events : inbox[e] = "processed" =>
        \E o \in Orders :
            /\ SessionOrder[EventSession[e]] = o /\ bound[o] = EventSession[e]
            /\ EventType[e] = "completed" => IsPaid(o)
            /\ EventType[e] = "expired" => Status(o) = Expired

\* A poll receipt is written only by a poll that won the transition, so it never
\* contradicts the order, and a session never serves an order it does not name.
PollsTellTheTruth ==
    \A o \in Orders :
        /\ receipt[o] = "paid" => IsPaid(o)
        /\ receipt[o] = "expired" => Status(o) = Expired
        /\ bound[o] # NoSession => SessionOrder[bound[o]] = o

\* What makes the invariants above inductive: an order is pending, expired or
\* paid, and a job past its screening carries an event fit for its order.
JobSound(w) ==
    LET j == job[w] IN
    /\ j.pc \in {"recorded", "screened"} => j.event # NoEvent
    /\ j.event # NoEvent => j.session = EventSession[j.event]
    /\ j.pc # "idle" /\ w \in Recoverers => j.order \in Orders
    /\ j.pc \in {"loaded", "retrieved"} => j.order \in Orders /\ j.session \in Sessions
    /\ j.pc \in {"screened", "loaded", "retrieved"} /\ j.event # NoEvent =>
          /\ EventFit[j.event] /\ EventType[j.event] # "other"
          /\ w \in Recoverers \/ j.pc # "screened" => EventCandidate[j.event] \in {NoOrder, j.order}

JobsSound == \A w \in Workers : JobSound(w)

OrdersSound ==
    \A o \in Orders :
        /\ Status(o) \in {Pending, Expired} \/ IsPaid(o)
        /\ Status(o) = Pending => lastEvent[o] = NoEvent

Inductive ==
    /\ TypeOK /\ JobsSound /\ OrdersSound
    /\ PaidAuthority /\ OutboxMatchesTruth /\ ProcessedEventsHold /\ PollsTellTheTruth

\* Once bound, a checkout keeps its session, whichever of bind_checkout, a webhook
\* or a poll wrote it first.
BindingIsFinal ==
    [][\A o \in Orders : bound[o] # NoSession => bound'[o] = bound[o]]_vars

\* With a provider that never takes back a terminal answer, the local truth of an
\* order is Stripe's truth of the session it is bound to.
ProviderAgreement ==
    \A o \in Orders :
        /\ IsPaid(o) => stripe[bound[o]] = "complete_paid"
        /\ Status(o) = Expired => stripe[bound[o]] \in {"expired", "expired_intent"}

\* A received event that its webhook left behind is settled by recovery, unless
\* recovery of the order was suspended or the order is no longer active.
LeftoverEventsSettle ==
    \A e \in Events, o \in Orders :
        (inbox[e] = "received" /\ bound[o] = EventSession[e])
            ~> (inbox[e] # "received" \/ o \in suspended \/ ~Active(o))

\* A payment whose webhooks are all lost still reaches the order by polling,
\* unless an earlier attention result suspended the recovery of the order.
LostWebhooksHeal ==
    \A o \in Orders, s \in Sessions :
        (bound[o] = s /\ stripe[s] = "complete_paid")
            ~> (IsPaid(o) \/ o \in suspended)

\* The abstract promise: one irrevocable outcome per order, announced once.
Authority == INSTANCE PaymentAuthority WITH
    truth <- [o \in Orders |-> IF IsPaid(o) THEN "paid"
                               ELSE IF Status(o) = Expired THEN "expired" ELSE "pending"],
    announced <- outbox

\* The webhook and recovery paths together implement that promise.
RefinesAuthority == Authority!Spec
=============================================================================
