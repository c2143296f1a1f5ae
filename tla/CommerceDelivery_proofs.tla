----------------------- MODULE CommerceDelivery_proofs -----------------------
(***************************************************************************)
(* Proofs about CommerceDelivery for any number of overlapping advance and *)
(* deliver requests, any limit of attempts and anything Postmark answers.  *)
(***************************************************************************)
EXTENDS CommerceDelivery, CommerceFulfillment_proofs

Attempts == [status: {"prepared", "dispatched", "accepted", "rejected", "uncertain"}, grant: BOOLEAN]
CarrierPlaces == {"idle", "converge", "exhaust", "converge_again", "context", "report",
                  "prepare", "dispatch", "send", "record"}
Deliveries == [pc: CarrierPlaces, attempt: Nat, answer: Answers \cup {"none"}]

AttemptsOK ==
    /\ attempts \in Seq(Attempts) /\ Len(attempts) <= MaxAttempts
    /\ mail \subseteq DOMAIN attempts
    /\ Accepted \subseteq mail

(* A carrier past the provider call for the report has seen it ready, one with an attempt in *)
(* hand is the only one that writes its outcome, and an acceptance is of a queued message.   *)
InHand(c) == run[c].pc \in {"dispatch", "send", "record"}
CarrierSound(c) ==
    /\ run[c].attempt \in 0..Len(attempts)
    /\ run[c].pc # "idle" => binding.prepared
    /\ run[c].pc = "prepare" \/ InHand(c) => ReadyOrRetracted
    /\ InHand(c) => /\ run[c].attempt \in DOMAIN attempts
                    /\ run[c].attempt \notin Accepted
    /\ run[c].pc = "record" => run[c].answer \in Answers
    /\ run[c].pc = "record" /\ run[c].answer = "accepted" => run[c].attempt \in mail
CarriersOK ==
    /\ run \in [Carriers -> Deliveries]
    /\ \A c \in Carriers : CarrierSound(c)
    /\ \A c, d \in Carriers : InHand(c) /\ InHand(d) /\ c # d => run[c].attempt # run[d].attempt

(* Mail is sent of a report that was shown, and an order is fulfilled by an acceptance. *)
MailOK ==
    /\ mail # {} => ReadyOrRetracted
    /\ order.order = "fulfilled" => Accepted # {}

Carried == Sustained /\ AttemptsOK /\ CarriersOK /\ MailOK

-----------------------------------------------------------------------------
(* What a carrier's step does: attempts and mail are only added to, nobody else's attempt *)
(* is accepted, and an attempt taken in hand is a new one.                                *)
AttemptsMove(c) ==
    /\ AttemptsOK'
    /\ Len(attempts) <= Len(attempts') /\ mail \subseteq mail'
    /\ Accepted \subseteq Accepted'
    /\ \A n \in Accepted' \ Accepted : InHand(c) /\ n = run[c].attempt
CarrierMoves(c) ==
    /\ run' = [run EXCEPT ![c] = run'[c]] /\ run'[c] \in Deliveries
    /\ CarrierSound(c)'
    /\ InHand(c)' => \/ InHand(c) /\ run'[c].attempt = run[c].attempt
                     \/ run'[c].attempt = Len(attempts) + 1
ApiKept == UNCHANGED <<world, binding, refund, job>>

(* The attempts by number. *)
LEMMA AttemptNumbers ==
    ASSUME attempts \in Seq(Attempts)
    PROVE  Len(attempts) \in Nat /\ DOMAIN attempts = 1..Len(attempts)
OBVIOUS

LEMMA OrderSustains == ASSUME Sustained, ApiKept, OrderOK' PROVE Sustained' /\ WorldMoves
<1>1. WorldMoves
      BY WorldStays DEF ApiKept
<1>2. BindingOK' /\ RefundOK'
      BY <1>1, BindingStays, RefundStays DEF ApiKept, world
<1>3. RequestsOK'
      BY DEF Sustained, RequestsOK, Sound, Shows, ShowsReport, ReadyOrRetracted, Proves, MoneyBack,
             ApiKept, world
<1> QED
    BY <1>1, <1>2, <1>3 DEF Sustained, WorldMoves

LEMMA MoveCarries ==
    ASSUME Carried, NEW c \in Carriers, ApiKept, OrderOK', AttemptsMove(c), CarrierMoves(c),
           MailOK'
    PROVE  Carried'
<1>1. Sustained' /\ WorldMoves
      BY OrderSustains DEF Carried
<1>2. \A d \in Carriers \ {c} : run'[d] = run[d]
      BY DEF Carried, CarriersOK, CarrierMoves
<1>3. /\ Len(attempts) \in Nat /\ DOMAIN attempts = 1..Len(attempts)
      /\ Len(attempts') \in Nat /\ DOMAIN attempts' = 1..Len(attempts')
      BY AttemptNumbers DEF Carried, AttemptsOK, AttemptsMove
<1>4. ASSUME NEW d \in Carriers, d # c PROVE CarrierSound(d)'
  <2>1. CarrierSound(d) /\ run[d] \in Deliveries
        BY DEF Carried, CarriersOK
  <2>2. InHand(c) /\ InHand(d) => run[c].attempt # run[d].attempt
        BY <1>4 DEF Carried, CarriersOK
  <2>3. InHand(d) => run[d].attempt \notin Accepted'
        BY <2>1, <2>2 DEF CarrierSound, AttemptsMove
  <2>4. run'[d] = run[d] /\ binding' = binding /\ (ReadyOrRetracted => ReadyOrRetracted')
        BY <1>1, <1>2, <1>4 DEF ApiKept, WorldMoves
  <2>5. InHand(d)' <=> InHand(d)
        BY <2>4 DEF InHand
  <2>6. run[d].attempt \in 0..Len(attempts')
        BY <1>3, <2>1 DEF CarrierSound, Deliveries, AttemptsMove
  <2>7. InHand(d) => run[d].attempt \in DOMAIN attempts'
        BY <1>3, <2>1 DEF CarrierSound, Deliveries, AttemptsMove
  <2> QED
      BY <2>1, <2>3, <2>4, <2>5, <2>6, <2>7 DEF CarrierSound, AttemptsMove
<1>5. ASSUME NEW d \in Carriers, d # c, InHand(c)', InHand(d)'
      PROVE  run'[c].attempt # run'[d].attempt
  <2>1. run'[d] = run[d] /\ InHand(d)
        BY <1>2, <1>5 DEF InHand
  <2>2. CASE InHand(c) /\ run'[c].attempt = run[c].attempt
        BY <1>5, <2>1, <2>2 DEF Carried, CarriersOK
  <2>3. CASE run'[c].attempt = Len(attempts) + 1
    <3>1. run[d].attempt \in DOMAIN attempts
          BY <2>1 DEF Carried, CarriersOK, CarrierSound
    <3> QED
        BY <1>3, <2>1, <2>3, <3>1
  <2> QED
      BY <1>5, <2>2, <2>3 DEF CarrierMoves
<1>6. CarriersOK'
  <2>1. run' \in [Carriers -> Deliveries]
        BY DEF Carried, CarriersOK, CarrierMoves
  <2>2. \A d \in Carriers : CarrierSound(d)'
        BY <1>4 DEF CarrierMoves
  <2>3. \A d, e \in Carriers : InHand(d)' /\ InHand(e)' /\ d # e => run'[d].attempt # run'[e].attempt
    <3>1. ASSUME NEW d \in Carriers, NEW e \in Carriers, InHand(d)', InHand(e)', d # e, d # c, e # c
          PROVE  run'[d].attempt # run'[e].attempt
          BY <1>2, <3>1 DEF Carried, CarriersOK, InHand
    <3> QED
        BY <1>5, <3>1
  <2> QED
      BY <2>1, <2>2, <2>3 DEF CarriersOK
<1> QED
    BY <1>1, <1>6 DEF Carried, AttemptsMove

-----------------------------------------------------------------------------
(* Steps that write no attempt. *)

(* An order is delivered only with its report in hand, and fails in delivery only with a binding. *)
LEMMA OrderCarries ==
    ASSUME Carried, NEW c \in Carriers, ApiKept, UNCHANGED <<attempts, mail>>, CarrierMoves(c),
           \/ UNCHANGED order
           \/ order' = DeliveryFailed /\ binding.prepared
           \/ order' = Delivered /\ Deliverable /\ Accepted # {}
    PROVE  Carried'
<1>1. Sustained /\ OrderOK /\ BindingOK /\ WorldMoves
      BY WorldStays DEF Carried, Sustained, ApiKept
<1>2. OrderOK'
  <2>1. CASE UNCHANGED order
        BY <1>1, <2>1, OrderStays DEF ApiKept
  <2>2. CASE order' = DeliveryFailed /\ binding.prepared
        BY <1>1, <2>2 DEF DeliveryFailed, ApiKept, OrderOK, FulfillmentIsEvidence, MoneyReturnedIsReal,
                          FulfillmentStates, Refundable
  <2>3. CASE order' = Delivered /\ Deliverable
    <3>1. binding.prepared
          BY <1>1, <2>3 DEF Deliverable, BindingOK
    <3> QED
        BY <1>1, <2>3, <3>1 DEF Delivered, ApiKept, OrderOK, FulfillmentIsEvidence, MoneyReturnedIsReal,
                                FulfillmentStates, Refundable
  <2> QED
      BY <2>1, <2>2, <2>3
<1>3. AttemptsMove(c)
      BY AttemptNumbers DEF Carried, AttemptsOK, AttemptsMove, Accepted
<1>4. MailOK'
  <2>1. ReadyOrRetracted => ReadyOrRetracted'
        BY <1>1 DEF WorldMoves
  <2>2. Accepted' = Accepted
        BY DEF Accepted
  <2> QED
      BY <2>1, <2>2 DEF Carried, MailOK, Delivered, DeliveryFailed
<1> QED
    BY <1>2, <1>3, <1>4, MoveCarries

LEMMA LeavingMoves ==
    ASSUME Carried, NEW c \in Carriers, Leave(c), UNCHANGED attempts
    PROVE  CarrierMoves(c)
<1>1. run'[c] = NoRun
      BY DEF Carried, CarriersOK, Leave
<1>2. NoRun \in Deliveries /\ NoRun.pc = "idle" /\ NoRun.attempt = 0
      BY DEF NoRun, Deliveries, CarrierPlaces
<1>3. run' = [run EXCEPT ![c] = run'[c]]
      BY <1>1 DEF Leave
<1>4. CarrierSound(c)'
  <2>1. Len(attempts') \in Nat
        BY AttemptNumbers DEF Carried, AttemptsOK
  <2> QED
      BY <1>1, <1>2, <2>1 DEF CarrierSound, InHand
<1> QED
    BY <1>1, <1>2, <1>3, <1>4 DEF CarrierMoves, InHand

LEMMA SteppingMoves ==
    ASSUME Carried, NEW c \in Carriers,
           NEW pc \in {"converge", "exhaust", "converge_again", "context", "report", "prepare"},
           Step(c, pc), ApiKept, UNCHANGED attempts, binding.prepared, pc = "prepare" => ReadyOrRetracted
    PROVE  CarrierMoves(c)
<1> DEFINE r == [run[c] EXCEPT !.pc = pc]
<1>1. run[c] \in Deliveries /\ CarrierSound(c)
      BY DEF Carried, CarriersOK
<1>2. r \in Deliveries /\ r.pc = pc /\ r.attempt = run[c].attempt
      BY <1>1 DEF Deliveries, CarrierPlaces
<1>3. run' = [run EXCEPT ![c] = r] /\ run'[c] = r
      BY DEF Step, Carried, CarriersOK
<1> HIDE DEF r
<1>4. CarrierSound(c)'
      BY <1>1, <1>2, <1>3 DEF CarrierSound, InHand, ApiKept, ReadyOrRetracted, world
<1> QED
    BY <1>2, <1>3, <1>4 DEF CarrierMoves, InHand

LEMMA CarrierIsPrepared ==
    ASSUME Carried, NEW c \in Carriers, ~Is(c, "idle")
    PROVE  binding.prepared
BY DEF Carried, CarriersOK, CarrierSound, Is

(* A call is posted for an order that is ready for delivery, so it has its binding. *)
LEMMA CallCarries == ASSUME Carried, NEW c \in Carriers, CallDeliver(c) PROVE Carried'
<1>1. order.fulfillment = "delivery_pending"
      BY DEF CallDeliver, NextAction
<1>2. binding.prepared
      BY <1>1 DEF Carried, Sustained, OrderOK
<1>3. ApiKept /\ UNCHANGED <<order, attempts, mail>>
      BY DEF CallDeliver, fulfillmentVars, ApiKept, world
<1>4. CarrierMoves(c)
      BY <1>2, <1>3, SteppingMoves DEF CallDeliver
<1> QED
    BY <1>3, <1>4, OrderCarries

LEMMA ReadingCarries ==
    ASSUME Carried, NEW c \in Carriers, LoadContext(c) \/ GetReport(c) \/ Lose(c)
    PROVE  Carried'
<1>1. ApiKept /\ UNCHANGED <<order, attempts, mail>>
      BY DEF LoadContext, GetReport, Lose, fulfillmentVars, ApiKept, world
<1>2. binding.prepared
      BY CarrierIsPrepared DEF LoadContext, GetReport, Lose, Is
<1>3. \/ Leave(c) \/ Step(c, "report")
      \/ Step(c, "prepare") /\ ReadyOrRetracted
      BY DEF LoadContext, GetReport, Lose, ReadyOrRetracted
<1>4. CarrierMoves(c)
      BY <1>1, <1>2, <1>3, LeavingMoves, SteppingMoves
<1> QED
    BY <1>1, <1>4, OrderCarries

(* What is left to do is decided on the attempts there are. *)
LEMMA DecidingCarries ==
    ASSUME Carried, NEW c \in Carriers, Converge(c) \/ CommitExhaustion(c)
    PROVE  Carried'
<1>1. ApiKept /\ UNCHANGED <<attempts, mail>>
      BY DEF Converge, ConvergeThen, CommitExhaustion, ApiKept
<1>2. binding.prepared
      BY CarrierIsPrepared DEF Converge, CommitExhaustion, Is
<1>3. Leave(c) \/ Step(c, "exhaust") \/ Step(c, "context") \/ Step(c, "converge_again")
      BY DEF Converge, ConvergeThen, CommitExhaustion
<1>4. CarrierMoves(c)
      BY <1>1, <1>2, <1>3, LeavingMoves, SteppingMoves
<1>5. \/ UNCHANGED order
      \/ order' = DeliveryFailed
      \/ order' = Delivered /\ Deliverable /\ Accepted # {}
      BY DEF Converge, ConvergeThen, CommitExhaustion, DeliverableOnce
<1> QED
    BY <1>1, <1>2, <1>4, <1>5, OrderCarries

-----------------------------------------------------------------------------
(* Steps of the attempt in hand. *)

(* The outcome of one attempt is written, the others and all grants stay. *)
LEMMA StatusIsWritten ==
    ASSUME attempts \in Seq(Attempts), NEW n \in DOMAIN attempts,
           NEW status \in {"prepared", "dispatched", "accepted", "rejected", "uncertain"},
           attempts' = [attempts EXCEPT ![n].status = status]
    PROVE  /\ attempts' \in Seq(Attempts) /\ Len(attempts') = Len(attempts)
           /\ DOMAIN attempts' = DOMAIN attempts
           /\ Accepted' = IF status = "accepted" THEN Accepted \cup {n} ELSE Accepted \ {n}
<1>1. attempts[n] \in Attempts
      OBVIOUS
<1>2. attempts' = [attempts EXCEPT ![n] = [attempts[n] EXCEPT !.status = status]]
      OBVIOUS
<1> DEFINE a == [attempts[n] EXCEPT !.status = status]
<1>3. a \in Attempts /\ a.status = status /\ attempts' = [attempts EXCEPT ![n] = a]
      BY <1>1, <1>2 DEF Attempts
<1> HIDE DEF a
<1>4. attempts' \in Seq(Attempts) /\ Len(attempts') = Len(attempts) /\ DOMAIN attempts' = DOMAIN attempts
      BY <1>3
<1>5. /\ attempts'[n].status = status
      /\ \A k \in DOMAIN attempts \ {n} : attempts'[k] = attempts[k]
      BY <1>3
<1>6. Accepted' = IF status = "accepted" THEN Accepted \cup {n} ELSE Accepted \ {n}
      BY <1>4, <1>5 DEF Accepted
<1> QED
    BY <1>4, <1>6

(* A carrier that holds an attempt and goes on with it. *)
LEMMA HoldingMoves ==
    ASSUME Carried, NEW c \in Carriers, InHand(c), ApiKept,
           NEW pc \in {"send", "record"}, NEW answer \in Answers \cup {"none"},
           run' = [run EXCEPT ![c].pc = pc, ![c].answer = answer],
           AttemptsMove(c), run[c].attempt \notin Accepted', pc = "record" => answer \in Answers,
           pc = "record" /\ answer = "accepted" => run[c].attempt \in mail'
    PROVE  CarrierMoves(c)
<1> DEFINE r == [run[c] EXCEPT !.pc = pc, !.answer = answer]
<1>1. run[c] \in Deliveries /\ CarrierSound(c)
      BY DEF Carried, CarriersOK
<1>2. r \in Deliveries /\ r.pc = pc /\ r.attempt = run[c].attempt /\ r.answer = answer
      BY <1>1 DEF Deliveries, CarrierPlaces
<1>3. run' = [run EXCEPT ![c] = r] /\ run'[c] = r
      BY DEF Carried, CarriersOK
<1> HIDE DEF r
<1>4. /\ Len(attempts) \in Nat /\ DOMAIN attempts = 1..Len(attempts)
      /\ Len(attempts') \in Nat /\ DOMAIN attempts' = 1..Len(attempts')
      BY AttemptNumbers DEF Carried, AttemptsOK, AttemptsMove
<1>5. run[c].attempt \in 1..Len(attempts')
      BY <1>1, <1>4 DEF CarrierSound, AttemptsMove
<1>6. binding.prepared /\ ReadyOrRetracted /\ UNCHANGED <<binding, apiReport>>
      BY <1>1 DEF CarrierSound, InHand, ApiKept, world
<1>7. CarrierSound(c)'
      BY <1>2, <1>3, <1>4, <1>5, <1>6 DEF CarrierSound, InHand, ReadyOrRetracted
<1> QED
    BY <1>2, <1>3, <1>7 DEF CarrierMoves, InHand

(* The order stays and nobody fulfils it, whatever is noted of the attempts. *)
LEMMA AttemptCarries ==
    ASSUME Carried, NEW c \in Carriers, ApiKept, UNCHANGED order, AttemptsMove(c), CarrierMoves(c),
           mail' # {} => ReadyOrRetracted
    PROVE  Carried'
<1>1. WorldMoves
      BY WorldStays DEF Carried, ApiKept
<1>2. OrderOK'
      BY <1>1, OrderStays DEF Carried, ApiKept
<1>3. MailOK'
      BY <1>1 DEF Carried, MailOK, AttemptsMove, WorldMoves
<1> QED
    BY <1>2, <1>3, MoveCarries

(* One more attempt is made only while none was accepted and the limit is not reached. *)
LEMMA PrepareCarries == ASSUME Carried, NEW c \in Carriers, PrepareAttempt(c) PROVE Carried'
<1>1. ApiKept /\ UNCHANGED <<order, mail>>
      BY DEF PrepareAttempt, fulfillmentVars, ApiKept, world
<1>2. CASE Leave(c) /\ UNCHANGED attempts
      BY <1>1, <1>2, LeavingMoves, OrderCarries
<1> DEFINE a == [status |-> "prepared", grant |-> TRUE]
           r == [pc |-> "dispatch", attempt |-> Len(attempts) + 1, answer |-> "none"]
<1>3. CASE /\ attempts' = Append(attempts, a) /\ run' = [run EXCEPT ![c] = r]
           /\ Accepted = {} /\ Len(attempts) < MaxAttempts
  <2>1. /\ attempts \in Seq(Attempts) /\ Len(attempts) \in Nat /\ DOMAIN attempts = 1..Len(attempts)
        /\ MaxAttempts \in Nat /\ mail \subseteq DOMAIN attempts
        BY AttemptNumbers, DeliveryAssumption DEF Carried, AttemptsOK
  <2>2. a \in Attempts /\ a.status = "prepared"
        BY DEF Attempts
  <2> HIDE DEF a
  <2>3. /\ attempts' \in Seq(Attempts) /\ Len(attempts') = Len(attempts) + 1
        /\ DOMAIN attempts' = 1..(Len(attempts) + 1)
        BY <1>3, <2>1, <2>2
  <2>4. attempts'[Len(attempts) + 1] = a /\ \A n \in DOMAIN attempts : attempts'[n] = attempts[n]
        BY <1>3, <2>1, <2>2
  <2>5. Accepted' = {}
        BY <1>3, <2>1, <2>2, <2>3, <2>4 DEF Accepted
  <2>6. AttemptsMove(c)
    <3>1. Len(attempts') <= MaxAttempts /\ Len(attempts) <= Len(attempts') /\ mail' \subseteq DOMAIN attempts'
          BY <1>1, <1>3, <2>1, <2>3
    <3> QED
        BY <1>1, <1>3, <2>3, <2>5, <3>1 DEF AttemptsMove, AttemptsOK
  <2>7. r \in Deliveries /\ r.pc = "dispatch" /\ r.attempt = Len(attempts) + 1
        BY <2>1 DEF Deliveries, CarrierPlaces
  <2>8. run'[c] = r
        BY <1>3 DEF Carried, CarriersOK
  <2> HIDE DEF r
  <2>9. CarrierSound(c)'
    <3>1. binding.prepared /\ ReadyOrRetracted
          BY DEF Carried, CarriersOK, CarrierSound, PrepareAttempt, Is
    <3>2. Len(attempts) + 1 \in DOMAIN attempts' /\ Len(attempts) + 1 \in 0..Len(attempts')
          BY <2>1, <2>3
    <3> QED
        BY <1>1, <2>5, <2>7, <2>8, <3>1, <3>2 DEF CarrierSound, InHand, ApiKept, world, ReadyOrRetracted
  <2>10. CarrierMoves(c)
        BY <1>3, <2>7, <2>8, <2>9 DEF CarrierMoves
  <2> QED
      BY <1>1, <2>6, <2>10, AttemptCarries DEF Carried, MailOK
<1> QED
    BY <1>2, <1>3 DEF PrepareAttempt

LEMMA DispatchCarries == ASSUME Carried, NEW c \in Carriers, MarkDispatch(c) PROVE Carried'
<1> DEFINE n == run[c].attempt
<1>1. ApiKept /\ UNCHANGED <<order, mail>> /\ InHand(c) /\ run[c] \in Deliveries
      BY DEF MarkDispatch, fulfillmentVars, ApiKept, world, InHand, Is, Carried, CarriersOK
<1>2. n \in DOMAIN attempts /\ n \notin Accepted
      BY <1>1 DEF Carried, CarriersOK, CarrierSound
<1>3. /\ attempts' \in Seq(Attempts) /\ Len(attempts') = Len(attempts)
      /\ DOMAIN attempts' = DOMAIN attempts /\ Accepted' = Accepted
  <2>1. attempts' = [attempts EXCEPT ![n].status = "dispatched"] /\ attempts \in Seq(Attempts)
        BY DEF MarkDispatch, Carried, AttemptsOK
  <2> HIDE DEF n
  <2>2. Accepted \ {n} = Accepted
        BY <1>2
  <2> QED
      BY <1>2, <2>1, <2>2, StatusIsWritten
<1>4. AttemptsMove(c)
      BY <1>1, <1>3, AttemptNumbers DEF AttemptsMove, Carried, AttemptsOK
<1>5. run' = [run EXCEPT ![c].pc = "send", ![c].answer = run[c].answer]
      BY <1>1 DEF MarkDispatch, Step, Carried, CarriersOK, Deliveries
<1>6. CarrierMoves(c)
      BY <1>1, <1>2, <1>3, <1>4, <1>5, HoldingMoves DEF Deliveries
<1> QED
    BY <1>1, <1>4, <1>6, AttemptCarries DEF Carried, MailOK

(* An accepted answer is of a message that was queued, of a report that was shown. *)
LEMMA SendCarries == ASSUME Carried, NEW c \in Carriers, Send(c) PROVE Carried'
<1> DEFINE n == run[c].attempt
<1>1. ApiKept /\ UNCHANGED <<order, attempts>> /\ InHand(c)
      BY DEF Send, fulfillmentVars, ApiKept, world, InHand, Is
<1>2. n \in DOMAIN attempts /\ n \notin Accepted /\ ReadyOrRetracted
      BY <1>1 DEF Carried, CarriersOK, CarrierSound
<1>3. PICK answer \in Answers :
         /\ run' = [run EXCEPT ![c].pc = "record", ![c].answer = answer]
         /\ \/ mail' = mail \cup {n}
            \/ answer # "accepted" /\ mail' = mail
      BY DEF Send
<1>4. AttemptsMove(c)
      BY <1>1, <1>2, <1>3, AttemptNumbers DEF AttemptsMove, Carried, AttemptsOK, Accepted
<1>5. n \notin Accepted'
      BY <1>1, <1>2 DEF Accepted
<1>6. CarrierMoves(c)
      BY <1>1, <1>3, <1>4, <1>5, HoldingMoves
<1> QED
    BY <1>1, <1>2, <1>4, <1>6, AttemptCarries

(* An acceptance is recorded together with the order it fulfils, or not at all. *)
LEMMA AcceptanceCarries == ASSUME Carried, NEW c \in Carriers, RecordAccepted(c) PROVE Carried'
<1> DEFINE n == run[c].attempt
<1>1. ApiKept /\ UNCHANGED mail /\ Leave(c) /\ InHand(c)
      BY DEF RecordAccepted, ApiKept, InHand, Is
<1>2. n \in DOMAIN attempts /\ n \in mail
      BY <1>1 DEF Carried, CarriersOK, CarrierSound, RecordAccepted, Is
<1>3. CASE UNCHANGED <<attempts, order>>
      BY <1>1, <1>3, LeavingMoves, OrderCarries
<1>4. CASE /\ attempts' = [attempts EXCEPT ![n].status = "accepted"]
           /\ order' = Delivered /\ Deliverable
  <2>1. /\ attempts' \in Seq(Attempts) /\ Len(attempts') = Len(attempts)
        /\ DOMAIN attempts' = DOMAIN attempts /\ Accepted' = Accepted \cup {n}
        BY <1>2, <1>4, StatusIsWritten DEF Carried, AttemptsOK
  <2>2. AttemptsMove(c)
        BY <1>1, <1>2, <2>1, AttemptNumbers DEF AttemptsMove, Carried, AttemptsOK
  <2>3. CarrierMoves(c)
    <3>1. run'[c] = NoRun /\ NoRun \in Deliveries /\ NoRun.pc = "idle" /\ NoRun.attempt = 0
          BY <1>1 DEF Carried, CarriersOK, Leave, NoRun, Deliveries, CarrierPlaces
    <3>2. Len(attempts') \in Nat
          BY <2>1
    <3>3. CarrierSound(c)'
          BY <3>1, <3>2 DEF CarrierSound, InHand
    <3>4. run' = [run EXCEPT ![c] = run'[c]]
          BY <1>1, <3>1 DEF Leave
    <3> QED
        BY <3>1, <3>3, <3>4 DEF CarrierMoves, InHand
  <2>4. OrderOK /\ binding.prepared
        BY <1>4 DEF Carried, Sustained, Deliverable, BindingOK
  <2>5. OrderOK'
        BY <1>1, <1>4, <2>4 DEF Delivered, ApiKept, OrderOK, FulfillmentIsEvidence, MoneyReturnedIsReal,
                                FulfillmentStates, Refundable
  <2>6. MailOK'
        BY <1>1, <1>4, <2>1 DEF Carried, MailOK, Delivered, ApiKept, world, ReadyOrRetracted
  <2> QED
      BY <1>1, <2>2, <2>3, <2>5, <2>6, MoveCarries
<1> QED
    BY <1>3, <1>4 DEF RecordAccepted, DeliverableNow

(* A failure is written over the attempt in hand, which nobody has accepted. *)
LEMMA FailureCarries == ASSUME Carried, NEW c \in Carriers, RecordFailure(c) PROVE Carried'
<1> DEFINE n == run[c].attempt
<1>1. ApiKept /\ UNCHANGED mail /\ Leave(c) /\ InHand(c) /\ binding.prepared
      BY CarrierIsPrepared DEF RecordFailure, ApiKept, InHand, Is
<1>2. n \in DOMAIN attempts /\ n \notin Accepted
      BY <1>1 DEF Carried, CarriersOK, CarrierSound
<1>3. PICK status \in {"uncertain", "rejected"} : attempts' = [attempts EXCEPT ![n].status = status]
      BY DEF RecordFailure
<1>4. /\ attempts' \in Seq(Attempts) /\ Len(attempts') = Len(attempts)
      /\ DOMAIN attempts' = DOMAIN attempts /\ Accepted' = Accepted
  <2>1. attempts \in Seq(Attempts)
        BY DEF Carried, AttemptsOK
  <2> HIDE DEF n
  <2>2. Accepted \ {n} = Accepted
        BY <1>2
  <2> QED
      BY <1>2, <1>3, <2>1, <2>2, StatusIsWritten
<1>5. AttemptsMove(c)
      BY <1>1, <1>4, AttemptNumbers DEF AttemptsMove, Carried, AttemptsOK
<1>6. CarrierMoves(c)
  <2>1. run'[c] = NoRun /\ NoRun \in Deliveries /\ NoRun.pc = "idle" /\ NoRun.attempt = 0
        BY <1>1 DEF Carried, CarriersOK, Leave, NoRun, Deliveries, CarrierPlaces
  <2>2. Len(attempts') \in Nat
        BY <1>4
  <2>3. CarrierSound(c)'
        BY <2>1, <2>2 DEF CarrierSound, InHand
  <2>4. run' = [run EXCEPT ![c] = run'[c]]
        BY <1>1, <2>1 DEF Leave
  <2> QED
      BY <2>1, <2>3, <2>4 DEF CarrierMoves, InHand
<1>7. UNCHANGED order \/ order' = DeliveryFailed
      BY DEF RecordFailure
<1>8. CASE UNCHANGED order
      BY <1>1, <1>5, <1>6, <1>8, AttemptCarries DEF Carried, MailOK
<1>9. CASE order' = DeliveryFailed
  <2>1. OrderOK'
        BY <1>1, <1>9 DEF Carried, Sustained, DeliveryFailed, ApiKept, OrderOK, FulfillmentIsEvidence,
                          MoneyReturnedIsReal, FulfillmentStates, Refundable
  <2>2. MailOK'
        BY <1>1, <1>9 DEF Carried, MailOK, DeliveryFailed, ApiKept, world, ReadyOrRetracted
  <2> QED
      BY <1>1, <1>5, <1>6, <2>1, <2>2, MoveCarries
<1> QED
    BY <1>7, <1>8, <1>9

(* A revoked or expired grant changes no outcome. *)
LEMMA GrantCarries == ASSUME Carried, NEW n \in DOMAIN attempts, EndGrant(n) PROVE Carried'
<1>1. /\ ApiKept /\ UNCHANGED <<order, mail, run>>
      /\ attempts \in Seq(Attempts) /\ attempts[n] \in Attempts
      BY DEF EndGrant, fulfillmentVars, ApiKept, world, Carried, AttemptsOK
<1> DEFINE a == [attempts[n] EXCEPT !.grant = FALSE]
<1>2. a \in Attempts /\ a.status = attempts[n].status /\ attempts' = [attempts EXCEPT ![n] = a]
      BY <1>1 DEF Attempts, EndGrant
<1> HIDE DEF a
<1>3. attempts' \in Seq(Attempts) /\ Len(attempts') = Len(attempts) /\ DOMAIN attempts' = DOMAIN attempts
      BY <1>1, <1>2
<1>4. Accepted' = Accepted
      BY <1>1, <1>2, <1>3 DEF Accepted
<1>5. AttemptsOK'
      BY <1>1, <1>3, <1>4 DEF Carried, AttemptsOK
<1>6. Sustained' /\ WorldMoves
  <2>1. OrderOK'
        BY <1>1, WorldStays, OrderStays DEF Carried, ApiKept
  <2> QED
      BY <1>1, <2>1, OrderSustains DEF Carried
<1>7. CarriersOK'
      BY <1>1, <1>3, <1>4 DEF Carried, CarriersOK, CarrierSound, InHand, ApiKept, world, ReadyOrRetracted
<1>8. MailOK'
      BY <1>1, <1>4 DEF Carried, MailOK, ApiKept, world, ReadyOrRetracted
<1> QED
    BY <1>5, <1>6, <1>7, <1>8 DEF Carried

-----------------------------------------------------------------------------
(* The advance requests and the providers beside the carriers. *)

(* Of an analysis with a ready report there is no terminal failure, so nothing was refunded. *)
LEMMA ReadyIsNotRefundable ==
    ASSUME Sustained, apiReport = "ready"
    PROVE  refund.eligibility = "none" /\ stripe.own = "none"
<1>1. apiAnalysis = "completed" /\ apiReport # "failed"
      BY DEF Sustained, WorldOK
<1>2. \A reason \in Refundable : ~Proves(reason)
      BY <1>1 DEF Proves, Refundable, RefundReasonState
<1>3. refund.eligibility = "none"
      BY <1>2 DEF Sustained, RefundOK
<1> QED
    BY <1>3 DEF Sustained, RefundOK

LEMMA AdvancingCarries ==
    ASSUME Carried, FulfillmentNext \/ UNCHANGED fulfillmentVars, UNCHANGED <<attempts, mail, run>>
    PROVE  Carried'
<1>1. Advances
      BY FulfillmentSustains, UnchangedSustains DEF Carried
<1>2. Accepted' = Accepted /\ AttemptsOK'
      BY DEF Carried, AttemptsOK, Accepted
<1>3. /\ Sustained' /\ (ReadyOrRetracted => ReadyOrRetracted')
      /\ binding.prepared => binding'.prepared
      /\ OrderGoesOn
      BY <1>1 DEF Advances, WorldMoves, RowsMove
<1>4. CarriersOK'
  <2>1. ASSUME NEW c \in Carriers PROVE CarrierSound(c)'
    <3>1. CarrierSound(c)
          BY DEF Carried, CarriersOK
    <3> QED
        BY <1>2, <1>3, <3>1 DEF CarrierSound, InHand
  <2> QED
      BY <2>1 DEF Carried, CarriersOK, InHand
<1>5. MailOK'
      BY <1>2, <1>3 DEF Carried, MailOK, OrderGoesOn
<1> QED
    BY <1>2, <1>3, <1>4, <1>5 DEF Carried

LEMMA CarriedIsInductive == Carried /\ [Next]_vars => Carried'
<1> SUFFICES ASSUME Carried, [Next]_vars PROVE Carried'
    OBVIOUS
<1>1. CASE UNCHANGED vars
      BY <1>1, AdvancingCarries DEF vars
<1>2. CASE FulfillmentNext /\ UNCHANGED <<attempts, mail, run>>
      BY <1>2, AdvancingCarries
<1>3. ASSUME NEW c \in Carriers, CallDeliver(c) \/ Deliver(c) \/ Lose(c) PROVE Carried'
      BY <1>3, CallCarries, ReadingCarries, DecidingCarries, PrepareCarries, DispatchCarries, SendCarries,
         AcceptanceCarries, FailureCarries DEF Deliver
<1>4. ASSUME NEW n \in DOMAIN attempts, EndGrant(n) PROVE Carried'
      BY <1>4, GrantCarries
<1> QED
    BY <1>1, <1>2, <1>3, <1>4 DEF Next, DeliveryNext

LEMMA InitIsCarried == DeliveryInit => Carried
<1> SUFFICES ASSUME DeliveryInit PROVE Carried
    OBVIOUS
<1>1. Sustained
      BY InitIsSustained DEF DeliveryInit
<1>2. attempts = <<>> /\ mail = {} /\ Accepted = {}
      BY DEF DeliveryInit, Accepted
<1>3. AttemptsOK
      BY <1>2, DeliveryAssumption DEF AttemptsOK
<1>4. CarriersOK
  <2>1. NoRun \in Deliveries /\ NoRun.pc = "idle" /\ NoRun.attempt = 0
        BY DEF NoRun, Deliveries, CarrierPlaces
  <2>2. Len(attempts) = 0 /\ \A c \in Carriers : run[c] = NoRun
        BY <1>2 DEF DeliveryInit
  <2>3. run \in [Carriers -> Deliveries]
        BY <2>1 DEF DeliveryInit
  <2> QED
      BY <2>1, <2>2, <2>3 DEF CarriersOK, CarrierSound, InHand
<1>5. MailOK
      BY <1>2 DEF DeliveryInit, Init, MailOK
<1> QED
    BY <1>1, <1>3, <1>4, <1>5 DEF Carried

LEMMA DeliveryIsCarried == Spec => []Carried
BY InitIsCarried, CarriedIsInductive, PTL DEF Spec

-----------------------------------------------------------------------------
(* Attempts, grants, mail and requests stay in their domains, and no more than MaxAttempts     *)
(* attempts are made, however many deliver requests overlap.                                   *)
THEOREM DeliveryIsTyped == Spec => []DeliveryTypeOK
<1>1. Carried => DeliveryTypeOK
  <2> SUFFICES ASSUME Carried PROVE DeliveryTypeOK
      OBVIOUS
  <2>1. FulfillmentTypeOK
        BY SustainedIsEnough DEF Carried
  <2>2. /\ Len(attempts) <= MaxAttempts /\ mail \subseteq DOMAIN attempts
        /\ attempts \in Seq([status: {"prepared", "dispatched", "accepted", "rejected", "uncertain"},
                             grant: BOOLEAN])
        BY DEF Carried, AttemptsOK, Attempts
  <2>3. ASSUME NEW c \in Carriers
        PROVE  /\ run[c].pc \in CarrierPlaces /\ run[c].answer \in Answers \cup {"none"}
               /\ run[c].attempt \in 0..Len(attempts)
               /\ run[c].pc \in {"dispatch", "send", "record"} => run[c].attempt # 0
    <3>1. run[c] \in Deliveries /\ CarrierSound(c)
          BY DEF Carried, CarriersOK
    <3>2. 0 \notin DOMAIN attempts
          BY AttemptNumbers DEF Carried, AttemptsOK
    <3> QED
        BY <3>1, <3>2 DEF Deliveries, CarrierSound, InHand
  <2> QED
      BY <2>1, <2>2, <2>3 DEF DeliveryTypeOK, CarrierPlaces
<1> QED
    BY <1>1, DeliveryIsCarried, PTL

(* The acceptance behind a fulfilled order is durable and of a message that was really queued, *)
(* and the report was made, also where it may be retracted behind the commerce service's back. *)
THEOREM FulfilledRestsOnAcceptance == Spec => []FulfilledMeansAccepted
<1>1. Carried => FulfilledMeansAccepted
      BY DEF Carried, AttemptsOK, MailOK, ReadyOrRetracted, FulfilledMeansAccepted
<1> QED
    BY <1>1, DeliveryIsCarried, PTL

(* Money goes back behind a queued message only if sitescore-api took the report back and the  *)
(* refund names that: mail is sent of a report that was shown ready, the analysis stays         *)
(* completed, and then no other refund reason can be proved.                                    *)
THEOREM OnlyRetractionRefundsMail == Spec => []RefundAfterMailMeansRetraction
<1>1. Carried => RefundAfterMailMeansRetraction
  <2> SUFFICES ASSUME Carried, mail # {}, stripe.own # "none"
               PROVE  apiReport = "failed" /\ refund.eligibility = "report_failed"
      BY DEF RefundAfterMailMeansRetraction
  <2>1. ReadyOrRetracted /\ apiReport # "ready"
        BY ReadyIsNotRefundable DEF Carried, MailOK
  <2>2. apiReport = "failed" /\ apiAnalysis = "completed"
        BY <2>1 DEF ReadyOrRetracted, Carried, Sustained, WorldOK
  <2>3. refund.eligibility \in Refundable /\ Proves(refund.eligibility)
        BY DEF Carried, Sustained, RefundOK
  <2> QED
      BY <2>2, <2>3 DEF Proves, Refundable, RefundReasonState
<1> QED
    BY <1>1, DeliveryIsCarried, PTL

(* Behind a durable acceptance no further attempt is begun, by any carrier. *)
THEOREM AcceptanceEndsAttempts == Spec => NoAttemptAfterAcceptance
<1>1. Carried /\ [Next]_vars => [Accepted # {} => Len(attempts') = Len(attempts)]_vars
  <2> SUFFICES ASSUME Carried, Next, Accepted # {} PROVE Len(attempts') = Len(attempts)
      OBVIOUS
  <2>1. attempts \in Seq(Attempts)
        BY DEF Carried, AttemptsOK
  <2>2. CASE UNCHANGED attempts
        BY <2>2
  <2>3. ASSUME NEW c \in Carriers, PrepareAttempt(c) PROVE UNCHANGED attempts
        BY <2>3 DEF PrepareAttempt
  <2>4. ASSUME NEW n, \/ \E status : attempts' = [attempts EXCEPT ![n].status = status]
                      \/ attempts' = [attempts EXCEPT ![n].grant = FALSE]
        PROVE  Len(attempts') = Len(attempts)
    <3>1. \E a : attempts' = [attempts EXCEPT ![n] = a]
          BY <2>4
    <3> QED
        BY <2>1, <3>1
  <2> QED
      BY <2>2, <2>3, <2>4 DEF Next, DeliveryNext, CallDeliver, Deliver, Lose, Converge, ConvergeThen,
          CommitExhaustion, LoadContext, GetReport, MarkDispatch, Send, RecordAccepted, RecordFailure, EndGrant
<1> QED
    BY <1>1, DeliveryIsCarried, PTL DEF Spec, NoAttemptAfterAcceptance
=============================================================================
