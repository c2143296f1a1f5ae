--------------------------- MODULE CommerceRecovery ---------------------------
(***************************************************************************)
(* Keeping paid orders moving: the outbox dispatcher announces a paid order *)
(* to n8n, and RecoveryService.run_once, posted every five minutes, claims  *)
(* active orders under a lease, resumes events a crashed webhook left       *)
(* behind, polls Stripe for unpaid orders, and sends or replays the trigger.*)
(* Payment evidence itself is CommercePayment; an order here is pending,    *)
(* paid, running (fulfillment_in_progress) or closed (anything else).       *)
(***************************************************************************)
EXTENDS Naturals, Sequences, FiniteSets, SequencesExt

CONSTANTS
    Orders,
    Webhooks,      \* orders whose webhooks are not all lost
    Dispatchers,   \* processes running the outbox dispatcher
    Runs,          \* concurrent POST /v1/automation/recovery/run requests
    BatchSize,     \* claims per run
    Refusals       \* TRUE: during the outage n8n may refuse a trigger (401, 403, 400, 422)

Nobody == "nobody"   \* holds the lease of a row that nobody claimed

ASSUME RecoveryAssumption ==
    /\ IsFiniteSet(Orders) /\ Webhooks \subseteq Orders
    /\ Nobody \notin Runs /\ BatchSize \in Nat \ {0} /\ Refusals \in BOOLEAN

VARIABLES
    stripe,     \* Checkout Session of the order: open, paid or expired (external)
    driving,    \* orders an n8n execution is working on (external)
    told,       \* orders whose trigger n8n has ever accepted (external)
    failing,    \* an outage that ends at some point
    order,      \* pending, paid, running or closed
    event,      \* final webhook event: none, received, stale (received long ago), settled
    outbox,     \* order.paid.v1 rows in creation order
    published,  \* those with published_at
    agenda,     \* recovery_state rows that are due, oldest next_attempt_at first
    later,      \* rows that are backing off or wait for their replay time
    suspended,  \* rows put off by ten years
    lease,      \* lease_token of a row: the run that claimed it
    expired,    \* rows whose lease_expires_at has passed
    findings,   \* orders with a recovery_findings row
    disp, run,  \* where each dispatcher and each recovery run is
    reopened    \* history: orders a late request put back in progress after they were closed

recovery == <<agenda, later, suspended, lease, expired, findings>>
world == <<stripe, driving, told, failing>>
books == <<order, event, outbox, published>>
vars == <<world, books, recovery, reopened, disp, run>>

First(s, n) == SubSeq(s, 1, IF n < Len(s) THEN n ELSE Len(s))
IdleRun == [pc |-> "idle", claims |-> <<>>, note |-> "none"]
Active(o) == order[o] \in {"pending", "paid", "running"}

Init ==
    /\ stripe = [o \in Orders |-> "open"] /\ driving = {} /\ told = {} /\ failing = TRUE
    /\ reopened = {}
    /\ order = [o \in Orders |-> "pending"] /\ event = [o \in Orders |-> "none"]
    /\ outbox = <<>> /\ published = {}
    /\ agenda = <<>> /\ later = {} /\ suspended = {} /\ findings = {}
    /\ lease = [o \in Orders |-> Nobody] /\ expired = {}
    /\ disp = [d \in Dispatchers |-> <<"idle">>]
    /\ run = [r \in Runs |-> IdleRun]

-----------------------------------------------------------------------------
(* Payment, as CommercePayment decides it.                                 *)

StripeStep(o) ==
    /\ stripe[o] = "open"
    /\ \E final \in {"paid", "expired"} : stripe' = [stripe EXCEPT ![o] = final]
    /\ UNCHANGED <<driving, told, failing, books, recovery, disp, run, reopened>>

\* The transition of a final Stripe state: applied, already so, or in conflict.
Outcome(o, target) ==
    IF order[o] = "pending" THEN "transitioned"
    ELSE IF target = "paid" /\ order[o] = "paid" THEN "already"
    ELSE IF target = "expired" /\ order[o] = "closed" THEN "already" ELSE "conflict"

Settle(o, target) ==
    IF Outcome(o, target) = "transitioned"
    THEN /\ order' = [order EXCEPT ![o] = IF target = "paid" THEN "paid" ELSE "closed"]
         /\ outbox' = IF target = "paid" THEN Append(outbox, o) ELSE outbox
    ELSE UNCHANGED <<order, outbox>>

\* The webhook, or a redelivery of an event that was left behind.
Webhook(o) ==
    /\ o \in Webhooks /\ stripe[o] # "open" /\ event[o] # "settled"
    /\ event' = [event EXCEPT ![o] = "settled"]
    /\ Settle(o, stripe[o])
    /\ UNCHANGED <<world, published, recovery, disp, run, reopened>>

\* The handler dies between recording the event and applying it.
WebhookDies(o) ==
    /\ failing /\ o \in Webhooks /\ stripe[o] # "open" /\ event[o] = "none"
    /\ event' = [event EXCEPT ![o] = "received"]
    /\ UNCHANGED <<world, order, outbox, published, recovery, disp, run, reopened>>

Age(o) ==
    /\ event[o] = "received"
    /\ event' = [event EXCEPT ![o] = "stale"]
    /\ UNCHANGED <<world, order, outbox, published, recovery, disp, run, reopened>>

-----------------------------------------------------------------------------
(* The n8n execution of one trigger.                                       *)

\* It posts /advance and /deliver requests while the order is in progress.  Nothing
\* bounds how long one of them is at work, whether n8n still waits for it or not, and
\* it writes what it has seen whatever the order has become meanwhile: bind_analysis
\* and bind_report put the order in progress, also one that another request has
\* closed; bind_refund, mark_attention and the delivery close it.
Write(o) ==
    /\ o \in told
    /\ \E state \in {"running", "closed"} : order' = [order EXCEPT ![o] = state]
    /\ reopened' = IF order[o] = "closed" /\ order'[o] = "running" THEN reopened \cup {o} ELSE reopened
    /\ UNCHANGED <<world, event, outbox, published, recovery, disp, run>>

\* The execution stops: poll horizon, error, restart, or nothing left to do.
StopDriving(o) ==
    /\ o \in driving /\ driving' = driving \ {o}
    /\ UNCHANGED <<stripe, told, failing, books, recovery, disp, run, reopened>>

Heal == failing /\ failing' = FALSE
        /\ UNCHANGED <<stripe, driving, told, books, recovery, disp, run, reopened>>

\* POST of the trigger of o: what the sender learns and what n8n did.
Trigger(o, answer) ==
    /\ answer \in {"accepted"} \cup (IF failing THEN {"uncertain", "retryable"} ELSE {})
                    \cup (IF failing /\ Refusals THEN {"refused"} ELSE {})
    /\ \/ answer \in {"accepted", "uncertain"} /\ driving' = driving \cup {o} /\ told' = told \cup {o}
       \/ answer # "accepted" /\ UNCHANGED <<driving, told>>
    /\ UNCHANGED <<stripe, failing>>

-----------------------------------------------------------------------------
(* PaidOutboxDispatcher.dispatch_once, over and over.                      *)

\* The rows of the outbox that were never published.
Unpublished == {i \in DOMAIN outbox : outbox[i] \notin published}

\* load_next_unpublished takes the oldest of them.
LoadNext(d) ==
    /\ disp[d] = <<"idle">>
    /\ \E i \in Unpublished :
          /\ \A k \in Unpublished : i <= k
          /\ disp' = [disp EXCEPT ![d] = <<"send", outbox[i]>>]
    /\ UNCHANGED <<world, books, recovery, run, reopened>>

\* (mutant) An answer that did not come is taken for an acceptance.
DispatchOptimistic(d) ==
    /\ disp[d][1] = "send"
    /\ \E answer \in {"accepted", "uncertain", "retryable", "refused"} :
          /\ Trigger(disp[d][2], answer)
          /\ disp' = [disp EXCEPT ![d] = IF answer \in {"accepted", "uncertain"}
                                         THEN <<"mark", disp[d][2]>> ELSE <<"idle">>]
    /\ UNCHANGED <<books, recovery, run, reopened>>

Dispatch(d) ==
    /\ disp[d][1] = "send"
    /\ \E answer \in {"accepted", "uncertain", "retryable", "refused"} :
          /\ Trigger(disp[d][2], answer)
          /\ disp' = [disp EXCEPT ![d] = IF answer = "accepted" THEN <<"mark", disp[d][2]>> ELSE <<"idle">>]
    /\ UNCHANGED <<books, recovery, run, reopened>>

\* mark_published
MarkPublished(d) ==
    /\ disp[d][1] = "mark"
    /\ published' = published \cup {disp[d][2]}
    /\ disp' = [disp EXCEPT ![d] = <<"idle">>]
    /\ UNCHANGED <<world, order, event, outbox, recovery, run, reopened>>

DispatcherDies(d) ==
    /\ failing /\ disp[d] # <<"idle">>
    /\ disp' = [disp EXCEPT ![d] = <<"idle">>]
    /\ UNCHANGED <<world, books, recovery, run, reopened>>

-----------------------------------------------------------------------------
(* RecoveryService.run_once.                                               *)

At(r, pc) == run[r].pc = pc
Cur(r) == Head(run[r].claims)
Goto(r, pc, note) == run' = [run EXCEPT ![r].pc = pc, ![r].note = note]
NextClaim(r) ==
    run' = [run EXCEPT ![r] = IF Len(run[r].claims) = 1 THEN IdleRun
                              ELSE [pc |-> "look", claims |-> Tail(run[r].claims), note |-> "none"]]

\* The lease of the claim being worked on is still the run's own.
Current(r) == lease[Cur(r)] = r /\ Cur(r) \notin expired

Seeded == ToSet(agenda) \cup later \cup suspended
Unseeded == {o \in Orders : Active(o)} \ Seeded
SeedLimit == 4 * BatchSize

\* seed_candidates: at most SeedLimit rows, due at once.
Seed(r) ==
    /\ At(r, "idle")
    /\ \E rows \in SetToSeqs(Unseeded) : agenda' = agenda \o First(rows, SeedLimit)
    /\ Goto(r, "claim", "none")
    /\ UNCHANGED <<world, books, later, suspended, lease, expired, findings, disp, reopened>>

\* The rows a claim may take: due, of active orders, not leased or no longer so.
Claimable == {o \in ToSet(agenda) : Active(o) /\ (lease[o] = Nobody \/ o \in expired)}

\* The same in the order in which they are due.
Position(o) == CHOOSE i \in DOMAIN agenda : agenda[i] = o
DueFirst == {rows \in SetToSeqs(Claimable) :
                \A i, k \in DOMAIN rows : i < k => Position(rows[i]) < Position(rows[k])}

\* (mutant) The newest rows first.
ClaimNewest(r) ==
    /\ At(r, "claim")
    /\ \E rows \in DueFirst : LET batch == First(Reverse(rows), BatchSize) IN
          /\ lease' = [o \in Orders |-> IF o \in ToSet(batch) THEN r ELSE lease[o]]
          /\ expired' = expired \ ToSet(batch)
          /\ run' = [run EXCEPT ![r] = IF batch = <<>> THEN IdleRun
                                       ELSE [pc |-> "look", claims |-> batch, note |-> "none"]]
    /\ UNCHANGED <<world, books, agenda, later, suspended, findings, disp, reopened>>

\* claim_batch
Claim(r) ==
    /\ At(r, "claim")
    /\ \E rows \in DueFirst : LET batch == First(rows, BatchSize) IN
          /\ lease' = [o \in Orders |-> IF o \in ToSet(batch) THEN r ELSE lease[o]]
          /\ expired' = expired \ ToSet(batch)
          /\ run' = [run EXCEPT ![r] = IF batch = <<>> THEN IdleRun
                                       ELSE [pc |-> "look", claims |-> batch, note |-> "none"]]
    /\ UNCHANGED <<world, books, agenda, later, suspended, findings, disp, reopened>>

\* (mutant) An order in progress is taken for a finished one.
LookEarlyRest(r) ==
    LET o == Cur(r) IN
    /\ At(r, "look")
    /\ CASE order[o] \in {"running", "closed"} -> Goto(r, "finish", "rest")
         [] order[o] = "pending" -> Goto(r, "inbox", "pending")
         [] OTHER -> Goto(r, "inbox", IF o \in published THEN "published" ELSE "unpublished")
    /\ UNCHANGED <<world, books, recovery, disp, reopened>>

\* _process_claim reads the order and its outbox ...
Look(r) ==
    LET o == Cur(r) IN
    /\ At(r, "look")
    /\ CASE ~Active(o) -> Goto(r, "finish", "rest")
         [] order[o] = "pending" -> Goto(r, "inbox", "pending")
         [] OTHER -> Goto(r, "inbox", IF o \in published THEN "published" ELSE "unpublished")
    /\ UNCHANGED <<world, books, recovery, disp, reopened>>

\* ... then the inbox: a stale event comes first.
ReadInbox(r) ==
    /\ At(r, "inbox")
    /\ IF event[Cur(r)] = "stale" THEN Goto(r, "resume", "none")
       ELSE Goto(r, IF run[r].note = "pending" THEN "poll" ELSE "send", run[r].note)
    /\ UNCHANGED <<world, books, recovery, disp, reopened>>

\* An order that changed, or was published, only lately is put off.
PutOff(r) ==
    /\ At(r, "inbox") /\ event[Cur(r)] # "stale" /\ run[r].note # "unpublished"
    /\ Goto(r, "finish", "later")
    /\ UNCHANGED <<world, books, recovery, disp, reopened>>

\* _resume_inbox: apply_event_reconciliation_with_lease.
Resume(r) ==
    LET o == Cur(r) IN
    /\ At(r, "resume")
    /\ IF ~Current(r) THEN NextClaim(r) /\ UNCHANGED <<order, event, outbox>>
       ELSE IF event[o] = "settled" THEN Goto(r, "finish", "now") /\ UNCHANGED <<order, event, outbox>>
       ELSE /\ event' = [event EXCEPT ![o] = "settled"]
            /\ Settle(o, stripe[o])
            /\ Goto(r, "finish", IF Outcome(o, stripe[o]) = "conflict" THEN "attend" ELSE "now")
    /\ UNCHANGED <<world, published, recovery, disp, reopened>>

\* _poll_payment retrieves the session ...
Poll(r) ==
    /\ At(r, "poll")
    /\ IF stripe[Cur(r)] = "open" THEN Goto(r, "finish", "later")
       ELSE Goto(r, "apply_poll", stripe[Cur(r)])
    /\ UNCHANGED <<world, books, recovery, disp, reopened>>

\* ... and apply_poll_reconciliation_with_lease uses what it saw.
ApplyPoll(r) ==
    LET o == Cur(r)
        outcome == Outcome(o, run[r].note)
    IN
    /\ At(r, "apply_poll")
    /\ IF ~Current(r) THEN NextClaim(r) /\ UNCHANGED <<order, outbox>>
       ELSE /\ Settle(o, run[r].note)
            /\ Goto(r, "finish", CASE outcome = "transitioned" -> "now"
                                   [] outcome = "already" -> "later"
                                   [] outcome = "conflict" -> "attend")
    /\ UNCHANGED <<world, event, published, recovery, disp, reopened>>

\* _send_outbox: the first publication or a replay of the same trigger.
SendOutbox(r) ==
    /\ At(r, "send")
    /\ \E answer \in {"accepted", "uncertain", "retryable", "refused"} :
          /\ Trigger(Cur(r), answer)
          /\ CASE answer = "accepted" /\ run[r].note = "unpublished" -> Goto(r, "mark", "none")
               [] answer = "refused" -> Goto(r, "finish", "attend")
               [] OTHER -> Goto(r, "finish", "later")
    /\ UNCHANGED <<books, recovery, disp, reopened>>

\* mark_outbox_published_with_lease
MarkWithLease(r) ==
    /\ At(r, "mark")
    /\ IF Current(r) THEN published' = published \cup {Cur(r)} /\ Goto(r, "finish", "later")
       ELSE NextClaim(r) /\ UNCHANGED published
    /\ UNCHANGED <<world, order, event, outbox, recovery, disp, reopened>>

\* Stripe or the database fails the claim: it backs off if it still can.
FailClaim(r) ==
    /\ failing /\ run[r].pc \in {"look", "inbox", "resume", "poll", "apply_poll", "mark"}
    /\ Goto(r, "finish", "later")
    /\ UNCHANGED <<world, books, recovery, disp, reopened>>

\* The row of o leaves the agenda.
Without(o) == IF o \in ToSet(agenda) THEN RemoveAt(agenda, Position(o)) ELSE agenda

\* (mutant) The row is written without looking at the lease.
FinishUnfenced(r) ==
    LET o == Cur(r)
        plan == run[r].note
    IN
    /\ At(r, "finish")
    /\ NextClaim(r)
    /\ agenda' = IF plan = "now" THEN Append(Without(o), o) ELSE Without(o)
    /\ later' = IF plan = "later" THEN later \cup {o} ELSE later
    /\ suspended' = IF plan \in {"rest", "attend"} THEN suspended \cup {o} ELSE suspended
    /\ findings' = IF plan = "attend" THEN findings \cup {o} ELSE findings
    /\ lease' = [lease EXCEPT ![o] = Nobody]
    /\ UNCHANGED <<world, books, expired, disp, reopened>>

\* finish_claim and finish_attention_with_lease.
Finish(r) ==
    LET o == Cur(r)
        plan == run[r].note
    IN
    /\ At(r, "finish")
    /\ NextClaim(r)
    /\ IF Current(r)
       THEN /\ agenda' = IF plan = "now" THEN Append(Without(o), o) ELSE Without(o)
            /\ later' = IF plan = "later" THEN later \cup {o} ELSE later
            /\ suspended' = IF plan \in {"rest", "attend"} THEN suspended \cup {o} ELSE suspended
            /\ findings' = IF plan = "attend" THEN findings \cup {o} ELSE findings
            /\ lease' = [lease EXCEPT ![o] = Nobody]
       ELSE UNCHANGED <<agenda, later, suspended, findings, lease>>
    /\ UNCHANGED <<world, books, expired, disp, reopened>>

\* The request is cut off, or the process dies, and the claims stay leased.
RunDies(r) ==
    /\ failing /\ ~At(r, "idle")
    /\ run' = [run EXCEPT ![r] = IdleRun]
    /\ UNCHANGED <<world, books, recovery, disp, reopened>>

\* next_attempt_at is reached.
FallDue(o) ==
    /\ o \in later /\ later' = later \ {o} /\ agenda' = Append(agenda, o)
    /\ UNCHANGED <<world, books, suspended, lease, expired, findings, disp, run, reopened>>

\* lease_expires_at passes; once the outage is over no run outlives its leases.
Expire(o) ==
    /\ lease[o] # Nobody /\ o \notin expired
    /\ failing \/ o \notin ToSet(run[lease[o]].claims)
    /\ expired' = expired \cup {o}
    /\ UNCHANGED <<world, books, agenda, later, suspended, lease, findings, disp, run, reopened>>

-----------------------------------------------------------------------------
RunStep(r) ==
    \/ Seed(r) \/ Claim(r) \/ Look(r) \/ ReadInbox(r) \/ Resume(r) \/ Poll(r) \/ ApplyPoll(r)
    \/ SendOutbox(r) \/ MarkWithLease(r) \/ Finish(r) \/ PutOff(r)

Next ==
    \/ \E o \in Orders : \/ StripeStep(o) \/ Webhook(o) \/ WebhookDies(o) \/ Age(o)
                         \/ Write(o) \/ StopDriving(o) \/ FallDue(o) \/ Expire(o)
    \/ \E d \in Dispatchers : LoadNext(d) \/ Dispatch(d) \/ MarkPublished(d) \/ DispatcherDies(d)
    \/ \E r \in Runs : RunStep(r) \/ FailClaim(r) \/ RunDies(r)
    \/ Heal

Spec == Init /\ [][Next]_vars

(* Only the recovery schedule, time and the end of the outage are relied on:   *)
(* webhooks may all be lost, the dispatcher may never run, and no execution of *)
(* n8n need do anything before it stops.  An order that n8n has stopped working *)
(* on does not stay recent.                                                    *)
FairSpec ==
    /\ Spec
    /\ \A r \in Runs : WF_vars(RunStep(r))
    /\ \A o \in Orders : /\ WF_vars(Age(o)) /\ WF_vars(FallDue(o)) /\ WF_vars(Expire(o))
                         /\ SF_vars(\E r \in Runs : At(r, "inbox") /\ Cur(r) = o /\ ReadInbox(r))
    /\ WF_vars(Heal)

-----------------------------------------------------------------------------
(* Properties.                                                             *)

\* Rows, leases, dispatchers and runs stay in their domains; a row is in one
\* place of the schedule and only a leased one can have an expired lease.
TypeOK ==
    /\ stripe \in [Orders -> {"open", "paid", "expired"}] /\ failing \in BOOLEAN
    /\ driving \cup told \cup reopened \cup published \cup suspended \cup findings \subseteq Orders
    /\ order \in [Orders -> {"pending", "paid", "running", "closed"}]
    /\ event \in [Orders -> {"none", "received", "stale", "settled"}]
    /\ IsInjective(outbox) /\ ToSet(outbox) \subseteq Orders
    /\ IsInjective(agenda) /\ ToSet(agenda) \subseteq Orders
    /\ later \cap (ToSet(agenda) \cup suspended) = {} /\ ToSet(agenda) \cap suspended = {}
    /\ lease \in [Orders -> Runs \cup {Nobody}]
    /\ expired \subseteq {o \in Orders : lease[o] # Nobody}
    /\ \A d \in Dispatchers : disp[d] = <<"idle">> \/ disp[d] \in {"send", "mark"} \X Orders
    /\ \A r \in Runs :
          /\ run[r].pc \in {"idle", "claim", "look", "inbox", "resume", "poll", "apply_poll",
                            "send", "mark", "finish"}
          /\ ToSet(run[r].claims) \subseteq Orders
          /\ (run[r].claims = <<>>) = (run[r].pc \in {"idle", "claim"})

(* An order is marked as published only if n8n once accepted its trigger, and  *)
(* only for an order that was paid: an uncertain answer is not a publication.  *)
PublishedWasTold == published \subseteq told /\ told \subseteq ToSet(outbox)

(* A run that lost its lease cannot touch the row of the run that has it now:  *)
(* a row under a current lease is changed by its holder or by the clock only.  *)
StaleRunsAreFenced ==
    [][\A r \in Runs :
          (run[r].claims # <<>> /\ Current(r) /\ run'[r] = run[r]) =>
              /\ lease'[Cur(r)] = r
              /\ Cur(r) \in suspended <=> Cur(r) \in suspended'
              /\ Cur(r) \in ToSet(agenda) => Cur(r) \in ToSet(agenda')]_vars

(* Recovery stops looking after an active order only when an operator is told,  *)
(* unless a late request has reopened the order after it was closed.           *)
SuspensionIsReported == \A o \in suspended : Active(o) => o \in findings \/ o \in reopened

(* Money Stripe has taken is not forgotten, even when every webhook is lost,   *)
(* the dispatcher never runs and executions of n8n stop anywhere: until the    *)
(* order has once been closed or an operator has a finding, n8n is brought to  *)
(* work on it again and again.                                                 *)
PaymentsAreServed ==
    \A o \in Orders : stripe[o] = "paid" ~>
        (o \in driving \/ order[o] = "closed" \/ o \in findings \/ o \in reopened)
=============================================================================
