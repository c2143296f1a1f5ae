------------------------ MODULE CommercePayment_proofs -----------------------
(***************************************************************************)
(* Proofs about CommercePayment for any orders, sessions, events, number   *)
(* of concurrent requests and recovery workers, and any provider.          *)
(***************************************************************************)
EXTENDS CommercePayment, TLAPS

(* The jobs are sound: their type, and what a job past its screening knows. *)
JobsOK == job \in [Workers -> Jobs] /\ JobsSound

LEMMA IdleFits == Idle \in Jobs /\ Idle.pc = "idle" /\ Idle.event = NoEvent
BY DEF Idle, Jobs, StripeStates

(* Replacing one job by a fitting one keeps all jobs sound.                *)
LEMMA WorkSound ==
    ASSUME JobsOK, NEW w \in Workers, NEW j \in Jobs, Work(w, j),
           /\ j.pc \in {"recorded", "screened"} => j.event # NoEvent
           /\ j.event # NoEvent => j.session = EventSession[j.event]
           /\ j.pc # "idle" /\ w \in Recoverers => j.order \in Orders
           /\ j.pc \in {"loaded", "retrieved"} => j.order \in Orders /\ j.session \in Sessions
           /\ j.pc \in {"screened", "loaded", "retrieved"} /\ j.event # NoEvent =>
                 /\ EventFit[j.event] /\ EventType[j.event] # "other"
                 /\ w \in Recoverers \/ j.pc # "screened" => EventCandidate[j.event] \in {NoOrder, j.order}
    PROVE  JobsOK'
<1>1. job' = [job EXCEPT ![w] = j]
      BY DEF Work
<1>2. job' \in [Workers -> Jobs]
      BY <1>1 DEF JobsOK
<1>3. ASSUME NEW v \in Workers PROVE JobSound(v)'
  <2>1. CASE v = w
        <3>1. job'[v] = j
              BY <2>1, <1>1 DEF JobsOK
        <3> QED
            BY <3>1, <2>1 DEF JobSound
  <2>2. CASE v # w
        <3>1. job'[v] = job[v]
              BY <2>2, <1>1 DEF JobsOK
        <3> QED
            BY <3>1 DEF JobSound, JobsOK, JobsSound
  <2> QED
      BY <2>1, <2>2
<1> QED
    BY <1>2, <1>3 DEF JobsOK, JobsSound

LEMMA DoneSound ==
    ASSUME JobsOK, NEW w \in Workers, Done(w) PROVE JobsOK'
BY IdleFits, WorkSound DEF Done

LEMMA SameJobs == ASSUME JobsOK, UNCHANGED job PROVE JobsOK'
BY DEF JobsOK, JobsSound, JobSound

LEMMA JobsInit == Init => JobsOK
BY DEF Init, JobsOK, JobsSound, JobSound, Idle, Jobs, StripeStates

LEMMA JobsNext == TypeOK /\ JobsOK /\ [Next]_vars => JobsOK'
<1> SUFFICES ASSUME TypeOK, JobsOK, [Next]_vars PROVE JobsOK'
    OBVIOUS
<1> USE PaymentAssumption
<1>1. ASSUME NEW s \in Sessions, StripeAdvance(s) PROVE JobsOK'
      BY <1>1, SameJobs DEF StripeAdvance
<1>2. ASSUME NEW e \in Events, StripeEmit(e) PROVE JobsOK'
      BY <1>2, SameJobs DEF StripeEmit
<1>3. ASSUME NEW o \in Orders, NEW s \in Sessions, BindCheckout(o, s) PROVE JobsOK'
      BY <1>3, SameJobs DEF BindCheckout
<1>4. ASSUME NEW w \in Workers, NEW e \in Events, Receive(w, e) PROVE JobsOK'
  <2> DEFINE j == [Idle EXCEPT !.pc = "recorded", !.event = e, !.session = EventSession[e]]
  <2>1. /\ j \in Jobs /\ j.pc = "recorded" /\ j.event = e /\ j.session = EventSession[e]
        BY DEF Jobs, Idle, StripeStates
  <2>2. w \notin Recoverers /\ e # NoEvent /\ Work(w, j)
        BY <1>4 DEF Receive
  <2> HIDE DEF j
  <2> QED
      BY <2>1, <2>2, WorkSound
<1>5. ASSUME NEW w \in Workers, NEW o \in Orders, NEW e \in Events, StartResume(w, o, e)
      PROVE JobsOK'
  <2> DEFINE j == [Idle EXCEPT !.pc = "recorded", !.event = e, !.order = o,
                               !.session = EventSession[e]]
  <2>1. /\ j \in Jobs /\ j.pc = "recorded" /\ j.event = e /\ j.order = o
        /\ j.session = EventSession[e]
        BY DEF Jobs, Idle, StripeStates
  <2>2. e # NoEvent /\ Work(w, j)
        BY <1>5 DEF StartResume
  <2> HIDE DEF j
  <2> QED
      BY <2>1, <2>2, WorkSound
<1>6. ASSUME NEW w \in Workers, NEW o \in Orders, StartPoll(w, o) PROVE JobsOK'
  <2> DEFINE j == [Idle EXCEPT !.pc = "loaded", !.order = o,
                               !.session = bound[o], !.known = bound[o]]
  <2>1. bound[o] \in Sessions /\ Work(w, j)
        BY <1>6 DEF StartPoll, TypeOK
  <2>2. /\ j \in Jobs /\ j.pc = "loaded" /\ j.event = NoEvent /\ j.order = o
        /\ j.session = bound[o]
        BY <2>1 DEF Jobs, Idle, StripeStates
  <2> HIDE DEF j
  <2> QED
      BY <2>1, <2>2, WorkSound
<1>7. ASSUME NEW w \in Workers, Abandon(w) \/ LoadFails(w) PROVE JobsOK'
      BY <1>7, DoneSound DEF Abandon, LoadFails
<1>8. ASSUME NEW o \in Orders, Fulfill(o) PROVE JobsOK'
      BY <1>8, SameJobs DEF Fulfill
<1>9. ASSUME NEW w \in Workers, Step(w) PROVE JobsOK'
  <2>1. CASE RejectEvent(w)
        BY <2>1, DoneSound DEF RejectEvent, Close
  <2>2. CASE IgnoreEvent(w)
        BY <2>2, DoneSound DEF IgnoreEvent, Close
  <2>3. CASE ScreenEvent(w)
    <3> DEFINE j == [job[w] EXCEPT !.pc = "screened"]
    <3>1. CASE Done(w)
          BY <3>1, DoneSound
    <3>2. CASE Work(w, j)
      <4>1. /\ job[w] \in Jobs /\ job[w].pc = "recorded" /\ JobSound(w)
            BY <2>3 DEF ScreenEvent, JobsOK, JobsSound
      <4>2. /\ j \in Jobs /\ j.pc = "screened" /\ j.event = job[w].event
            /\ j.order = job[w].order /\ j.session = job[w].session
            BY <4>1 DEF Jobs
      <4>3. /\ EventFit[j.event] /\ EventType[j.event] # "other"
            /\ w \in Recoverers => EventCandidate[j.event] \in {NoOrder, j.order}
            BY <2>3, <4>2 DEF ScreenEvent, Misrouted
      <4> HIDE DEF j
      <4> QED
          BY <3>2, <4>1, <4>2, <4>3, WorkSound DEF JobSound
    <3> QED
        BY <2>3, <3>1, <3>2 DEF ScreenEvent
  <2>4. CASE RejectCorrelation(w)
        BY <2>4, DoneSound DEF RejectCorrelation, Close
  <2>5. CASE LoadOrder(w)
    <3> DEFINE j == [job[w] EXCEPT !.pc = "loaded", !.order = TargetOrder(w),
                                   !.known = bound[TargetOrder(w)]]
    <3>1. /\ job[w] \in Jobs /\ job[w].pc = "screened" /\ JobSound(w)
          /\ TargetOrder(w) \in Orders /\ Work(w, j)
          BY <2>5 DEF LoadOrder, JobsOK, JobsSound
    <3>2. bound[TargetOrder(w)] \in Sessions \cup {NoSession}
          BY <3>1 DEF TypeOK
    <3>3. /\ j \in Jobs /\ j.pc = "loaded" /\ j.event = job[w].event
          /\ j.order = TargetOrder(w) /\ j.session = job[w].session
          BY <3>1, <3>2 DEF Jobs
    <3>4. job[w].event \in Events /\ j.session = EventSession[j.event] /\ j.session \in Sessions
          BY <3>1, <3>3 DEF JobSound, Jobs
    <3>5. EventCandidate[j.event] \in {NoOrder, j.order}
          BY <3>1, <3>3 DEF JobSound, TargetOrder, Workers
    <3> HIDE DEF j
    <3> QED
        BY <3>1, <3>3, <3>4, <3>5, WorkSound DEF JobSound
  <2>6. CASE RetrieveEvidence(w)
    <3> DEFINE j == [job[w] EXCEPT !.pc = "retrieved", !.reported = stripe[job[w].session]]
    <3>1. /\ job[w] \in Jobs /\ job[w].pc = "loaded" /\ JobSound(w) /\ Work(w, j)
          BY <2>6 DEF RetrieveEvidence, JobsOK, JobsSound
    <3>2. stripe[job[w].session] \in StripeStates
          BY <3>1 DEF TypeOK, JobSound
    <3>3. /\ j \in Jobs /\ j.pc = "retrieved" /\ j.event = job[w].event
          /\ j.order = job[w].order /\ j.session = job[w].session
          BY <3>1, <3>2 DEF Jobs
    <3> HIDE DEF j
    <3> QED
        BY <3>1, <3>3, WorkSound DEF JobSound
  <2>7. CASE RejectEvidence(w)
        BY <2>7, DoneSound DEF RejectEvidence, Close
  <2>8. CASE ApplyEvent(w)
        BY <2>8, DoneSound DEF ApplyEvent
  <2>9. CASE ApplyPoll(w)
        BY <2>9, DoneSound DEF ApplyPoll
  <2>10. CASE ClosePoll(w)
        BY <2>10, DoneSound DEF ClosePoll
  <2> QED
      BY <1>9, <2>1, <2>2, <2>3, <2>4, <2>5, <2>6, <2>7, <2>8, <2>9, <2>10 DEF Step
<1>10. CASE UNCHANGED vars
      BY <1>10, SameJobs DEF vars
<1> QED
    BY <1>1, <1>2, <1>3, <1>4, <1>5, <1>6, <1>7, <1>8, <1>9, <1>10 DEF Next, Provider

(* Type correctness of the rows, given sound jobs.                         *)
LEMMA TypeInit == Init => TypeOK
BY PaymentAssumption DEF Init, TypeOK, Jobs, Idle, StripeStates, OrderStates,
   PaymentStates, InboxTerminal

LEMMA TypeNext == TypeOK /\ JobsOK /\ [Next]_vars => TypeOK'
<1> SUFFICES ASSUME TypeOK, JobsOK, [Next]_vars PROVE TypeOK'
    OBVIOUS
<1> USE PaymentAssumption
<1>0. job' \in [Workers -> Jobs]
      BY JobsNext DEF JobsOK
<1>1. ASSUME NEW s \in Sessions, StripeAdvance(s) PROVE TypeOK'
      BY <1>0, <1>1 DEF StripeAdvance, TypeOK, rows
<1>2. ASSUME NEW e \in Events, StripeEmit(e) PROVE TypeOK'
      BY <1>0, <1>2 DEF StripeEmit, TypeOK, rows
<1>3. ASSUME NEW o \in Orders, NEW s \in Sessions, BindCheckout(o, s) PROVE TypeOK'
      BY <1>0, <1>3 DEF BindCheckout, TypeOK
<1>4. ASSUME NEW w \in Workers, NEW e \in Events, Receive(w, e) PROVE TypeOK'
      BY <1>0, <1>4 DEF Receive, TypeOK
<1>5. ASSUME NEW w \in Workers, NEW o \in Orders, NEW e \in Events, StartResume(w, o, e)
      PROVE TypeOK'
      BY <1>0, <1>5 DEF StartResume, TypeOK, rows
<1>6. ASSUME NEW w \in Workers, NEW o \in Orders, StartPoll(w, o) PROVE TypeOK'
      BY <1>0, <1>6 DEF StartPoll, TypeOK, rows
<1>7. ASSUME NEW w \in Workers, Abandon(w) \/ LoadFails(w) PROVE TypeOK'
  <2>1. CASE Abandon(w)
        BY <1>0, <2>1 DEF Abandon, TypeOK, rows
  <2>2. CASE LoadFails(w)
    <3>1. inbox' \in [Events -> InboxTerminal \cup {"absent", "received"}]
          BY <2>2 DEF LoadFails, Finished, InboxTerminal, TypeOK
    <3> QED
        BY <1>0, <2>2, <3>1 DEF LoadFails, TypeOK
  <2> QED
      BY <1>7, <2>1, <2>2
<1>8. ASSUME NEW o \in Orders, Fulfill(o) PROVE TypeOK'
      BY <1>0, <1>8 DEF Fulfill, TypeOK, Downstream, OrderStates, PaymentStates
<1>9. ASSUME NEW w \in Workers, Step(w) PROVE TypeOK'
  <2> JobSound(w) /\ job[w] \in Jobs
      BY DEF JobsOK, JobsSound
  <2>0. ASSUME NEW state \in InboxTerminal, job[w].pc # "idle", job[w].event # NoEvent,
               Close(w, job[w].event, state)
        PROVE  TypeOK'
    <3>1. job[w].event \in Events /\ (w \in Recoverers => job[w].order \in Orders)
          BY <2>0 DEF JobSound, Jobs
    <3>2. inbox' \in [Events -> InboxTerminal \cup {"absent", "received"}]
          BY <2>0, <3>1 DEF Close, Finished, TypeOK
    <3>3. suspended' \subseteq Orders
          BY <2>0, <3>1 DEF Close, Suspend, TypeOK
    <3> QED
        BY <1>0, <2>0, <3>2, <3>3 DEF Close, TypeOK
  <2>1. CASE RejectEvent(w)
        BY <2>0, <2>1 DEF RejectEvent, JobSound, InboxTerminal
  <2>2. CASE IgnoreEvent(w)
        BY <2>0, <2>2 DEF IgnoreEvent, JobSound, InboxTerminal
  <2>3. CASE ScreenEvent(w)
        BY <1>0, <2>3 DEF ScreenEvent, TypeOK, rows
  <2>4. CASE RejectCorrelation(w)
        BY <2>0, <2>4 DEF RejectCorrelation, JobSound, InboxTerminal
  <2>5. CASE LoadOrder(w)
        BY <1>0, <2>5 DEF LoadOrder, TypeOK, rows
  <2>6. CASE RetrieveEvidence(w)
        BY <1>0, <2>6 DEF RetrieveEvidence, TypeOK, rows
  <2>7. CASE RejectEvidence(w)
        BY <2>0, <2>7 DEF RejectEvidence, InboxTerminal
  <2>8. CASE ApplyEvent(w)
    <3> DEFINE j == job[w]
               target == EventTarget(j.event, j.reported)
    <3>1. /\ j.event \in Events /\ j.order \in Orders /\ j.session \in Sessions
          /\ j.reported \in StripeStates /\ target \in {"paid", "expired"}
          BY <2>8 DEF ApplyEvent, JobSound, Jobs, EventTarget
    <3>2. CASE UNCHANGED rows
          BY <1>0, <2>8, <3>2 DEF ApplyEvent, TypeOK, rows
    <3>3. CASE /\ Apply(j.order, j.session, j.reported, target, j.event)
               /\ inbox' = [inbox EXCEPT ![j.event] = "processed"]
               /\ UNCHANGED <<receipt, suspended>>
      <4> HIDE DEF target
      <4> QED
          BY <1>0, <2>8, <3>1, <3>3
          DEF ApplyEvent, Apply, TypeOK, OrderStates, PaymentStates, InboxTerminal
    <3>4. CASE /\ inbox' = [inbox EXCEPT ![j.event] = "attention_required"]
               /\ Suspend(w, j.order, TRUE)
               /\ UNCHANGED <<orderState, paymentState, bound, seen, lastEvent, outbox, receipt>>
          BY <1>0, <2>8, <3>1, <3>4 DEF ApplyEvent, Suspend, TypeOK, InboxTerminal
    <3> QED
        BY <2>8, <3>2, <3>3, <3>4 DEF ApplyEvent
  <2>9. CASE ApplyPoll(w)
    <3> DEFINE j == job[w]
               target == PollTarget(j.reported)
    <3>1. /\ j.order \in Orders /\ j.session \in Sessions
          /\ j.reported \in StripeStates /\ target \in {"paid", "expired"}
          BY <2>9 DEF ApplyPoll, JobSound, Jobs
    <3>2. CASE /\ Apply(j.order, j.session, j.reported, target, NoEvent)
               /\ receipt' = IF Status(j.order) = Pending
                             THEN [receipt EXCEPT ![j.order] = target] ELSE receipt
               /\ UNCHANGED <<inbox, suspended>>
      <4> HIDE DEF target
      <4> QED
          BY <1>0, <2>9, <3>1, <3>2 DEF ApplyPoll, Apply, TypeOK, OrderStates, PaymentStates
    <3>3. CASE /\ Suspend(w, j.order, TRUE)
               /\ UNCHANGED <<inbox, orderState, paymentState, bound, seen, lastEvent,
                              outbox, receipt>>
          BY <1>0, <2>9, <3>1, <3>3 DEF ApplyPoll, Suspend, TypeOK
    <3> QED
        BY <2>9, <3>2, <3>3 DEF ApplyPoll
  <2>10. CASE ClosePoll(w)
        BY <1>0, <2>10 DEF ClosePoll, JobSound, Suspend, TypeOK
  <2> QED
      BY <1>9, <2>1, <2>2, <2>3, <2>4, <2>5, <2>6, <2>7, <2>8, <2>9, <2>10 DEF Step
<1>10. CASE UNCHANGED vars
      BY <1>10 DEF vars, TypeOK
<1> QED
    BY <1>1, <1>2, <1>3, <1>4, <1>5, <1>6, <1>7, <1>8, <1>9, <1>10 DEF Next, Provider

\* Every row column and every job keeps its domain, in every reachable state.
THEOREM TypeCorrect == Spec => []TypeOK
<1>1. Init => TypeOK /\ JobsOK
      BY TypeInit, JobsInit
<1>2. TypeOK /\ JobsOK /\ [Next]_vars => (TypeOK /\ JobsOK)'
      BY TypeNext, JobsNext
<1> QED
    BY <1>1, <1>2, PTL DEF Spec

-----------------------------------------------------------------------------
(* What a step may do to the rows, whoever takes it.                       *)

OrderRows == <<orderState, paymentState, bound, seen, lastEvent, outbox, receipt>>

\* Only inbox rows change, and none becomes or stops being processed.
Quiet ==
    /\ UNCHANGED OrderRows
    /\ inbox' \in [Events -> InboxTerminal \cup {"absent", "received"}]
    /\ \A e \in Events : (inbox'[e] = "processed") <=> (inbox[e] = "processed")

Ended == {"expired", "expired_intent"}

\* A job holds this answer of Stripe about this session.
Answered(s, reported) ==
    \E w \in Workers : job[w].pc = "retrieved" /\ job[w].session = s /\ job[w].reported = reported

EventApplied(o, s, reported, target, e) ==
    /\ Answered(s, reported) /\ (target = "expired" => reported \in Ended)
    /\ SessionOrder[s] = o /\ EventSession[e] = s /\ inbox[e] # "processed"
    /\ EventFit[e] /\ EventCandidate[e] \in {NoOrder, o}
    /\ \/ EventType[e] = "completed" /\ target = "paid" /\ reported = "complete_paid"
       \/ EventType[e] = "expired" /\ target = "expired"
    /\ Permitted(o, s, target) /\ Apply(o, s, reported, target, e)
    /\ inbox' = [inbox EXCEPT ![e] = "processed"] /\ UNCHANGED receipt

PollApplied(o, s, reported, target) ==
    /\ Answered(s, reported) /\ (target = "expired" => reported \in Ended)
    /\ SessionOrder[s] = o
    /\ target \in {"paid", "expired"} /\ (target = "paid" => reported = "complete_paid")
    /\ Permitted(o, s, target) /\ Apply(o, s, reported, target, NoEvent)
    /\ receipt' = (IF Status(o) = Pending THEN [receipt EXCEPT ![o] = target] ELSE receipt)
    /\ UNCHANGED inbox

Effect ==
    \/ Quiet
    \/ \E o \in Orders, s \in Sessions : BindCheckout(o, s)
    \/ \E o \in Orders : Fulfill(o)
    \/ \E o \in Orders, s \in Sessions, reported \in StripeStates,
          target \in {"paid", "expired"}, e \in Events :
          EventApplied(o, s, reported, target, e)
    \/ \E o \in Orders, s \in Sessions, reported \in StripeStates,
          target \in {"paid", "expired"} : PollApplied(o, s, reported, target)

LEMMA QuietSame == ASSUME TypeOK, UNCHANGED rows PROVE Quiet
BY DEF Quiet, rows, OrderRows, TypeOK

LEMMA QuietClose ==
    ASSUME TypeOK, NEW w \in Workers, NEW e \in Events,
           NEW state \in {"ignored", "attention_required"}, Close(w, e, state)
    PROVE  Quiet
<1>1. inbox' = inbox \/ (inbox[e] # "processed" /\ inbox' = [inbox EXCEPT ![e] = state])
      BY DEF Close, Finished
<1>2. UNCHANGED OrderRows
      BY DEF Close, OrderRows
<1> QED
    BY <1>1, <1>2 DEF Quiet, TypeOK, InboxTerminal

LEMMA StepEffect == ASSUME TypeOK, JobsOK, NEW w \in Workers, Step(w) PROVE Effect
<1> USE PaymentAssumption
<1>0. JobSound(w) /\ job[w] \in Jobs
      BY DEF JobsOK, JobsSound
<1>1. CASE RejectEvent(w)
      BY <1>0, <1>1, QuietClose DEF RejectEvent, JobSound, Jobs, Effect
<1>2. CASE IgnoreEvent(w)
      BY <1>0, <1>2, QuietClose DEF IgnoreEvent, JobSound, Jobs, Effect
<1>3. CASE ScreenEvent(w)
      BY <1>3, QuietSame DEF ScreenEvent, Effect
<1>4. CASE RejectCorrelation(w)
      BY <1>0, <1>4, QuietClose DEF RejectCorrelation, JobSound, Jobs, Effect
<1>5. CASE LoadOrder(w)
      BY <1>5, QuietSame DEF LoadOrder, Effect
<1>6. CASE RetrieveEvidence(w)
      BY <1>6, QuietSame DEF RetrieveEvidence, Effect
<1>7. CASE RejectEvidence(w)
      BY <1>0, <1>7, QuietClose DEF RejectEvidence, Jobs, Effect
<1>8. CASE ApplyEvent(w)
  <2> DEFINE j == job[w]
             target == EventTarget(j.event, j.reported)
  <2>1. /\ j.event \in Events /\ j.order \in Orders /\ j.session \in Sessions
        /\ j.reported \in StripeStates
        /\ SessionOrder[j.session] = j.order /\ EventSession[j.event] = j.session
        /\ EventFit[j.event] /\ EventCandidate[j.event] \in {NoOrder, j.order}
        BY <1>0, <1>8 DEF ApplyEvent, JobSound, Jobs, BindingOk
  <2>2. \/ EventType[j.event] = "completed" /\ target = "paid" /\ j.reported = "complete_paid"
        \/ EventType[j.event] = "expired" /\ target = "expired" /\ j.reported \in Ended
        BY <1>0, <1>8, <2>1 DEF ApplyEvent, JobSound, EventTarget, Ended
  <2>3. CASE UNCHANGED rows
        BY <2>3, QuietSame DEF Effect
  <2>4. CASE /\ inbox[j.event] # "processed" /\ Permitted(j.order, j.session, target)
             /\ Apply(j.order, j.session, j.reported, target, j.event)
             /\ inbox' = [inbox EXCEPT ![j.event] = "processed"]
             /\ UNCHANGED <<receipt, suspended>>
    <3>0. Answered(j.session, j.reported)
          BY <1>8 DEF ApplyEvent, Answered
    <3>1. EventApplied(j.order, j.session, j.reported, target, j.event)
          BY <2>1, <2>2, <2>4, <3>0 DEF EventApplied
    <3>2. target \in {"paid", "expired"}
          BY <2>2
    <3> QED
        BY <2>1, <3>1, <3>2 DEF Effect
  <2>5. CASE /\ inbox[j.event] # "processed"
             /\ inbox' = [inbox EXCEPT ![j.event] = "attention_required"]
             /\ UNCHANGED <<orderState, paymentState, bound, seen, lastEvent, outbox, receipt>>
    <3>1. Quiet
          BY <2>1, <2>5 DEF Quiet, OrderRows, TypeOK, InboxTerminal
    <3> QED
        BY <3>1 DEF Effect
  <2> QED
      BY <1>8, <2>3, <2>4, <2>5 DEF ApplyEvent
<1>9. CASE ApplyPoll(w)
  <2> DEFINE j == job[w]
             target == PollTarget(j.reported)
  <2>1. /\ j.order \in Orders /\ j.session \in Sessions /\ j.reported \in StripeStates
        /\ SessionOrder[j.session] = j.order /\ target \in {"paid", "expired"}
        BY <1>0, <1>9 DEF ApplyPoll, JobSound, Jobs, BindingOk
  <2>2. /\ target = "paid" => j.reported = "complete_paid"
        /\ target = "expired" => j.reported \in Ended
        BY DEF PollTarget, Ended
  <2>3. CASE /\ Permitted(j.order, j.session, target)
             /\ Apply(j.order, j.session, j.reported, target, NoEvent)
             /\ receipt' = IF Status(j.order) = Pending
                           THEN [receipt EXCEPT ![j.order] = target] ELSE receipt
             /\ UNCHANGED <<inbox, suspended>>
    <3>0. Answered(j.session, j.reported)
          BY <1>9 DEF ApplyPoll, Answered
    <3>1. PollApplied(j.order, j.session, j.reported, target)
          BY <2>1, <2>2, <2>3, <3>0 DEF PollApplied
    <3> QED
        BY <2>1, <3>1 DEF Effect
  <2>4. CASE UNCHANGED <<inbox, orderState, paymentState, bound, seen, lastEvent, outbox, receipt>>
        BY <2>4 DEF Effect, Quiet, OrderRows, TypeOK
  <2> QED
      BY <1>9, <2>3, <2>4 DEF ApplyPoll
<1>10. CASE ClosePoll(w)
      BY <1>10 DEF ClosePoll, Effect, Quiet, OrderRows, TypeOK
<1> QED
    BY <1>1, <1>2, <1>3, <1>4, <1>5, <1>6, <1>7, <1>8, <1>9, <1>10 DEF Step

LEMMA NextEffect == TypeOK /\ JobsOK /\ [Next]_vars => Effect
<1> SUFFICES ASSUME TypeOK, JobsOK, [Next]_vars PROVE Effect
    OBVIOUS
<1>1. ASSUME NEW s \in Sessions, StripeAdvance(s) PROVE Effect
      BY <1>1, QuietSame DEF StripeAdvance, Effect
<1>2. ASSUME NEW e \in Events, StripeEmit(e) PROVE Effect
      BY <1>2, QuietSame DEF StripeEmit, Effect
<1>3. ASSUME NEW w \in Workers, NEW e \in Events, Receive(w, e) PROVE Effect
  <2>1. Quiet
        BY <1>3 DEF Receive, Quiet, OrderRows, TypeOK, InboxTerminal
  <2> QED
      BY <2>1 DEF Effect
<1>4. ASSUME NEW w \in Workers, NEW o \in Orders, NEW e \in Events, StartResume(w, o, e)
      PROVE Effect
      BY <1>4, QuietSame DEF StartResume, Effect
<1>5. ASSUME NEW w \in Workers, NEW o \in Orders, StartPoll(w, o) PROVE Effect
      BY <1>5, QuietSame DEF StartPoll, Effect
<1>6. ASSUME NEW w \in Workers, Abandon(w) \/ LoadFails(w) PROVE Effect
  <2>1. CASE Abandon(w)
        BY <2>1, QuietSame DEF Abandon, Effect
  <2>2. CASE LoadFails(w)
    <3>1. Quiet
          BY <2>2 DEF LoadFails, Finished, Quiet, OrderRows, TypeOK, InboxTerminal
    <3> QED
        BY <3>1 DEF Effect
  <2> QED
      BY <1>6, <2>1, <2>2
<1>7. CASE UNCHANGED vars
      BY <1>7, QuietSame DEF vars, rows, Effect
<1> QED
    BY <1>1, <1>2, <1>3, <1>4, <1>5, <1>6, <1>7, StepEffect DEF Next, Provider, Effect

-----------------------------------------------------------------------------
(* Every effect preserves the relation between the order row, the checkout *)
(* row, the inbox, the receipts and the outbox.                            *)

TruthSound ==
    /\ OrdersSound /\ PaidAuthority /\ OutboxMatchesTruth
    /\ ProcessedEventsHold /\ PollsTellTheTruth

\* An order whose columns a step leaves alone keeps its own part of TruthSound,
\* provided processed events stay processed.
OrderSound(o) ==
    /\ Status(o) \in {Pending, Expired} \/ IsPaid(o)
    /\ Status(o) = Pending => lastEvent[o] = NoEvent
    /\ IsPaid(o) => PaidLineage(o)
    /\ outbox[o] = IF IsPaid(o) THEN 1 ELSE 0
    /\ receipt[o] = "paid" => IsPaid(o)
    /\ receipt[o] = "expired" => Status(o) = Expired
    /\ bound[o] # NoSession => SessionOrder[bound[o]] = o

EventHolds(e) ==
    inbox[e] = "processed" =>
        \E o \in Orders :
            /\ SessionOrder[EventSession[e]] = o /\ bound[o] = EventSession[e]
            /\ EventType[e] = "completed" => IsPaid(o)
            /\ EventType[e] = "expired" => Status(o) = Expired

LEMMA TruthByParts ==
    TruthSound <=> (\A o \in Orders : OrderSound(o)) /\ (\A e \in Events : EventHolds(e))
BY DEF TruthSound, OrdersSound, PaidAuthority, OutboxMatchesTruth, ProcessedEventsHold,
   PollsTellTheTruth, OrderSound, EventHolds

LEMMA TruthByPartsNext ==
    TruthSound' <=> (\A o \in Orders : OrderSound(o)') /\ (\A e \in Events : EventHolds(e)')
BY DEF TruthSound, OrdersSound, PaidAuthority, OutboxMatchesTruth, ProcessedEventsHold,
   PollsTellTheTruth, OrderSound, EventHolds

\* The statuses are told apart.
LEMMA StatusesDiffer ==
    /\ Pending # Expired /\ Pending # Paid /\ Expired # Paid
    /\ Pending \notin Stages /\ Expired \notin Stages
BY PaymentAssumption DEF Pending, Expired, Paid, Downstream

\* The part of an order that the step does not touch.
LEMMA OtherOrder ==
    ASSUME TypeOK, NEW o \in Orders, OrderSound(o),
           \A e \in Events : inbox[e] = "processed" => inbox'[e] = "processed",
           orderState'[o] = orderState[o], paymentState'[o] = paymentState[o],
           bound'[o] = bound[o], seen'[o] = seen[o], lastEvent'[o] = lastEvent[o],
           outbox'[o] = outbox[o], receipt'[o] = receipt[o]
    PROVE  OrderSound(o)'
<1>1. Status(o)' = Status(o) /\ IsPaid(o)' = IsPaid(o)
      BY DEF Status, IsPaid
<1>2. PaidLineage(o) => PaidLineage(o)'
      BY DEF PaidLineage, TypeOK
<1> QED
    BY <1>1, <1>2 DEF OrderSound

LEMMA TruthInit == Init => TruthSound
<1> SUFFICES ASSUME Init PROVE TruthSound
    OBVIOUS
<1>1. ASSUME NEW o \in Orders PROVE OrderSound(o)
      BY StatusesDiffer DEF Init, OrderSound, Status, IsPaid, Pending
<1>2. ASSUME NEW e \in Events PROVE EventHolds(e)
      BY DEF Init, EventHolds
<1> QED
    BY <1>1, <1>2, TruthByParts

LEMMA QuietTruth == ASSUME TypeOK, TruthSound, Quiet PROVE TruthSound'
<1>1. ASSUME NEW o \in Orders PROVE OrderSound(o)'
      BY TruthByParts, OtherOrder DEF Quiet, OrderRows
<1>2. ASSUME NEW e \in Events PROVE EventHolds(e)'
  <2>1. /\ inbox'[e] = "processed" <=> inbox[e] = "processed"
        /\ \A o \in Orders : bound'[o] = bound[o] /\ IsPaid(o)' = IsPaid(o)
                              /\ Status(o)' = Status(o)
        BY DEF Quiet, OrderRows, Status, IsPaid
  <2> QED
      BY <2>1, TruthByParts DEF EventHolds
<1> QED
    BY <1>1, <1>2, TruthByPartsNext

LEMMA BindTruth ==
    ASSUME TypeOK, TruthSound, NEW o \in Orders, NEW s \in Sessions, BindCheckout(o, s)
    PROVE  TruthSound'
<1>1. \A p \in Orders : Status(p)' = Status(p) /\ IsPaid(p)' = IsPaid(p)
      BY DEF BindCheckout, Status, IsPaid
<1>2. ~IsPaid(o) /\ bound[o] = NoSession
      BY TruthByParts DEF BindCheckout, OrderSound, PaidLineage
<1>3. bound' = [bound EXCEPT ![o] = s]
      BY DEF BindCheckout
<1>4. ASSUME NEW p \in Orders PROVE OrderSound(p)'
  <2>1. CASE p = o
        BY <1>1, <1>2, <1>3, <2>1, TruthByParts DEF BindCheckout, OrderSound, TypeOK
  <2>2. CASE p # o
        BY <1>3, <2>2, OtherOrder, TruthByParts DEF BindCheckout, TypeOK
  <2> QED
      BY <2>1, <2>2
<1>5. ASSUME NEW e \in Events PROVE EventHolds(e)'
  <2>1. SUFFICES ASSUME inbox[e] = "processed" PROVE EventHolds(e)'
        BY DEF BindCheckout, EventHolds
  <2>2. PICK p \in Orders :
            /\ SessionOrder[EventSession[e]] = p /\ bound[p] = EventSession[e]
            /\ EventType[e] = "completed" => IsPaid(p)
            /\ EventType[e] = "expired" => Status(p) = Expired
        BY <2>1, TruthByParts DEF EventHolds
  <2>3. p # o
        BY <1>2, <2>2, PaymentAssumption
  <2> QED
      BY <1>1, <1>3, <2>2, <2>3 DEF EventHolds, TypeOK
<1> QED
    BY <1>4, <1>5, TruthByPartsNext

LEMMA FulfillTruth ==
    ASSUME TypeOK, TruthSound, NEW o \in Orders, Fulfill(o) PROVE TruthSound'
<1>1. PICK to \in Stages : /\ orderState' = [orderState EXCEPT ![o] = to[1]]
                           /\ paymentState' = [paymentState EXCEPT ![o] = to[2]]
      BY DEF Fulfill
<1>2. Status(o)' = to
      BY <1>1, PaymentAssumption DEF Status, TypeOK, Downstream
<1>3. IsPaid(o) /\ IsPaid(o)' /\ Status(o) # Expired
      BY <1>2, StatusesDiffer DEF Fulfill, IsPaid
<1>4. \A p \in Orders : p # o => Status(p)' = Status(p) /\ IsPaid(p)' = IsPaid(p)
      BY <1>1 DEF Status, IsPaid, TypeOK
<1>5. ASSUME NEW p \in Orders PROVE OrderSound(p)'
  <2>1. CASE p = o
    <3>1. PaidLineage(o)'
          BY <1>3, TruthByParts DEF Fulfill, OrderSound, PaidLineage
    <3>2. /\ outbox[o] = 1 /\ receipt[o] # "expired"
          /\ bound[o] # NoSession => SessionOrder[bound[o]] = o
          BY <1>3, TruthByParts DEF OrderSound
    <3>3. UNCHANGED <<outbox, receipt, bound>>
          BY DEF Fulfill
    <3>4. Status(o)' # Pending
          BY <1>2, StatusesDiffer
    <3> QED
        BY <2>1, <1>3, <3>1, <3>2, <3>3, <3>4 DEF OrderSound
  <2>2. CASE p # o
        BY <1>1, <2>2, OtherOrder, TruthByParts DEF Fulfill, TypeOK
  <2> QED
      BY <2>1, <2>2
<1>6. ASSUME NEW e \in Events PROVE EventHolds(e)'
  <2>1. UNCHANGED <<inbox, bound>>
        BY DEF Fulfill
  <2>2. \A p \in Orders : (IsPaid(p) => IsPaid(p)') /\ (Status(p) = Expired => Status(p)' = Expired)
        BY <1>3, <1>4
  <2> QED
      BY <2>1, <2>2, TruthByParts DEF EventHolds
<1> QED
    BY <1>5, <1>6, TruthByPartsNext

\* What a permitted Apply does to its own order and to the others.
LEMMA Applied ==
    ASSUME TypeOK, TruthSound, NEW o \in Orders, NEW s \in Sessions, NEW reported \in StripeStates,
           NEW target \in {"paid", "expired"}, NEW e \in Events \cup {NoEvent},
           Permitted(o, s, target), Apply(o, s, reported, target, e)
    PROVE  /\ Status(o)' = <<target, target>>
           /\ Status(o) \in {Pending, <<target, target>>}
           /\ IsPaid(o)' <=> target = "paid"
           /\ bound[o] \in {NoSession, s} /\ bound'[o] = s /\ seen'[o] = reported
           /\ outbox'[o] = IF target = "paid" THEN 1 ELSE 0
           /\ lastEvent'[o] = IF e = NoEvent THEN lastEvent[o] ELSE e
           /\ \A p \in Orders : p # o =>
                 /\ orderState'[p] = orderState[p] /\ paymentState'[p] = paymentState[p]
                 /\ bound'[p] = bound[p] /\ seen'[p] = seen[p]
                 /\ lastEvent'[p] = lastEvent[p] /\ outbox'[p] = outbox[p]
<1>1. Status(o) \in {Pending, <<target, target>>}
      BY DEF Permitted, Paid, Expired
<1>2. Status(o)' = <<target, target>>
      BY <1>1 DEF Apply, Status, TypeOK
<1>3. IsPaid(o)' <=> target = "paid"
      BY <1>2, StatusesDiffer DEF IsPaid, Paid, Expired
<1>4. outbox[o] = IF Status(o) # Pending /\ target = "paid" THEN 1 ELSE 0
      BY <1>1, TruthByParts, StatusesDiffer DEF OrderSound, IsPaid, Paid, Expired
<1>5. outbox'[o] = IF target = "paid" THEN 1 ELSE 0
      BY <1>4 DEF Apply, TypeOK
<1> QED
    BY <1>1, <1>2, <1>3, <1>5 DEF Apply, TypeOK, Permitted

\* Processed events keep holding: their orders are already bound and decided.
LEMMA AppliedEvents ==
    ASSUME TypeOK, TruthSound, NEW o \in Orders, NEW s \in Sessions, NEW reported \in StripeStates,
           NEW target \in {"paid", "expired"}, NEW e \in Events \cup {NoEvent},
           Permitted(o, s, target), Apply(o, s, reported, target, e),
           NEW f \in Events, inbox[f] = "processed", EventHolds(f)
    PROVE  EventHolds(f)'
<1>1. PICK p \in Orders :
          /\ SessionOrder[EventSession[f]] = p /\ bound[p] = EventSession[f]
          /\ EventType[f] = "completed" => IsPaid(p)
          /\ EventType[f] = "expired" => Status(p) = Expired
      BY DEF EventHolds
<1>2. CASE p = o
  <2>1. bound'[o] = bound[o]
        BY <1>1, <1>2, Applied, PaymentAssumption
  <2>2. EventType[f] = "completed" => IsPaid(o)'
        BY <1>1, <1>2, Applied, StatusesDiffer DEF IsPaid, Expired
  <2>3. EventType[f] = "expired" => Status(o)' = Expired
        BY <1>1, <1>2, Applied, StatusesDiffer DEF Expired
  <2> QED
      BY <1>1, <1>2, <2>1, <2>2, <2>3 DEF EventHolds
<1>3. CASE p # o
  <2>1. /\ bound'[p] = bound[p] /\ Status(p)' = Status(p)
        BY <1>3, Applied DEF Status
  <2>2. IsPaid(p)' = IsPaid(p)
        BY <2>1 DEF IsPaid
  <2> QED
      BY <1>1, <2>1, <2>2 DEF EventHolds
<1> QED
    BY <1>2, <1>3

LEMMA EventTruth ==
    ASSUME TypeOK, TruthSound, NEW o \in Orders, NEW s \in Sessions, NEW reported \in StripeStates,
           NEW target \in {"paid", "expired"}, NEW e \in Events,
           EventApplied(o, s, reported, target, e)
    PROVE  TruthSound'
<1>1. /\ Permitted(o, s, target) /\ Apply(o, s, reported, target, e)
      /\ inbox' = [inbox EXCEPT ![e] = "processed"] /\ UNCHANGED receipt
      /\ SessionOrder[s] = o /\ EventSession[e] = s
      BY DEF EventApplied
<1>2. e # NoEvent /\ s # NoSession
      BY PaymentAssumption
<1>3. \A f \in Events : inbox[f] = "processed" => inbox'[f] = "processed"
      BY <1>1 DEF TypeOK
<1>4. ASSUME NEW p \in Orders PROVE OrderSound(p)'
  <2>1. CASE p = o
    <3>1. IsPaid(o)' => PaidLineage(o)'
      <4>1. SUFFICES ASSUME target = "paid" PROVE PaidLineage(o)'
            BY <1>1, Applied
      <4>2. reported = "complete_paid" /\ EventType[e] = "completed"
            BY <4>1 DEF EventApplied
      <4>3. /\ bound'[o] = s /\ seen'[o] = reported /\ lastEvent'[o] = e
            /\ inbox'[e] = "processed"
            BY <1>1, <1>2, Applied DEF TypeOK
      <4> QED
          BY <1>1, <1>2, <4>2, <4>3 DEF PaidLineage, EventApplied
    <3>2. /\ receipt[o] = "paid" => target = "paid"
          /\ receipt[o] = "expired" => target = "expired"
          BY <1>1, Applied, TruthByParts, StatusesDiffer DEF OrderSound, IsPaid, Paid, Expired
    <3>3. /\ Status(o)' \in {Paid, Expired} /\ (target = "expired" => Status(o)' = Expired)
          /\ (IsPaid(o)' <=> target = "paid")
          BY <1>1, Applied DEF Paid, Expired
    <3>4. outbox'[o] = (IF target = "paid" THEN 1 ELSE 0) /\ bound'[o] = s
          BY <1>1, Applied
    <3>5. receipt'[o] = receipt[o]
          BY <1>1
    <3> QED
        BY <1>1, <2>1, <3>1, <3>2, <3>3, <3>4, <3>5, StatusesDiffer DEF OrderSound
  <2>2. CASE p # o
        BY <1>1, <1>3, <2>2, Applied, OtherOrder, TruthByParts
  <2> QED
      BY <2>1, <2>2
<1>5. ASSUME NEW f \in Events PROVE EventHolds(f)'
  <2>1. CASE f = e
    <3>1. bound'[o] = s
          BY <1>1, Applied
    <3>2. EventType[e] = "completed" => IsPaid(o)'
          BY <1>1, Applied DEF EventApplied
    <3>3. EventType[e] = "expired" => Status(o)' = Expired
          BY <1>1, Applied DEF EventApplied, Expired
    <3> QED
        BY <1>1, <2>1, <3>1, <3>2, <3>3 DEF EventHolds
  <2>2. CASE f # e /\ inbox[f] = "processed"
        BY <1>1, <2>2, AppliedEvents, TruthByParts
  <2>3. CASE f # e /\ inbox[f] # "processed"
        BY <1>1, <2>3 DEF EventHolds, TypeOK
  <2> QED
      BY <2>1, <2>2, <2>3
<1> QED
    BY <1>4, <1>5, TruthByPartsNext

LEMMA PollTruth ==
    ASSUME TypeOK, TruthSound, NEW o \in Orders, NEW s \in Sessions, NEW reported \in StripeStates,
           NEW target \in {"paid", "expired"}, PollApplied(o, s, reported, target)
    PROVE  TruthSound'
<1>1. /\ Permitted(o, s, target) /\ Apply(o, s, reported, target, NoEvent)
      /\ receipt' = (IF Status(o) = Pending THEN [receipt EXCEPT ![o] = target] ELSE receipt)
      /\ UNCHANGED inbox /\ SessionOrder[s] = o
      /\ target = "paid" => reported = "complete_paid"
      BY DEF PollApplied
<1>2. s # NoSession
      BY PaymentAssumption
<1>3. \A p \in Orders : p # o => receipt'[p] = receipt[p]
      BY <1>1 DEF TypeOK
<1>4. ASSUME NEW p \in Orders PROVE OrderSound(p)'
  <2>1. CASE p = o
    <3>1. receipt'[o] = IF Status(o) = Pending THEN target ELSE receipt[o]
          BY <1>1 DEF TypeOK
    <3>2. /\ receipt'[o] = "paid" => target = "paid"
          /\ receipt'[o] = "expired" => target = "expired"
          BY <1>1, <3>1, Applied, TruthByParts, StatusesDiffer DEF OrderSound, IsPaid, Paid, Expired
    <3>3. IsPaid(o)' => PaidLineage(o)'
      <4>1. SUFFICES ASSUME target = "paid" PROVE PaidLineage(o)'
            BY <1>1, Applied
      <4>2. /\ bound'[o] = s /\ seen'[o] = "complete_paid" /\ lastEvent'[o] = lastEvent[o]
            /\ bound[o] \in {NoSession, s}
            BY <1>1, <4>1, Applied
      <4>3. CASE Status(o) = Pending
            BY <1>2, <3>1, <4>1, <4>2, <4>3, TruthByParts DEF OrderSound, PaidLineage
      <4>4. CASE Status(o) # Pending
        <5>1. IsPaid(o)
              BY <1>1, <4>1, <4>4, Applied DEF IsPaid, Paid
        <5>2. PaidLineage(o)
              BY <5>1, TruthByParts DEF OrderSound
        <5>3. bound[o] = s /\ receipt'[o] = receipt[o]
              BY <5>2, <4>2, <3>1, <4>4 DEF PaidLineage
        <5> QED
            BY <1>1, <1>2, <4>2, <5>2, <5>3 DEF PaidLineage
      <4> QED
          BY <4>3, <4>4
    <3>4. /\ Status(o)' \in {Paid, Expired} /\ (target = "expired" => Status(o)' = Expired)
          /\ (IsPaid(o)' <=> target = "paid")
          /\ outbox'[o] = (IF target = "paid" THEN 1 ELSE 0) /\ bound'[o] = s
          BY <1>1, Applied DEF Paid, Expired
    <3> QED
        BY <1>1, <2>1, <3>2, <3>3, <3>4, StatusesDiffer DEF OrderSound
  <2>2. CASE p # o
        BY <1>1, <1>3, <2>2, Applied, OtherOrder, TruthByParts
  <2> QED
      BY <2>1, <2>2
<1>5. ASSUME NEW f \in Events PROVE EventHolds(f)'
  <2>1. CASE inbox[f] = "processed"
        BY <1>1, <2>1, AppliedEvents, TruthByParts
  <2>2. CASE inbox[f] # "processed"
        BY <1>1, <2>2 DEF EventHolds
  <2> QED
      BY <2>1, <2>2
<1> QED
    BY <1>4, <1>5, TruthByPartsNext

LEMMA TruthNext == TypeOK /\ JobsOK /\ TruthSound /\ [Next]_vars => TruthSound'
BY NextEffect, QuietTruth, BindTruth, FulfillTruth, EventTruth, PollTruth DEF Effect

(* The invariant all results below rest on.                                *)
LEMMA Invariance == Spec => [](TypeOK /\ JobsOK /\ TruthSound)
<1>1. Init => TypeOK /\ JobsOK /\ TruthSound
      BY TypeInit, JobsInit, TruthInit
<1>2. TypeOK /\ JobsOK /\ TruthSound /\ [Next]_vars => (TypeOK /\ JobsOK /\ TruthSound)'
      BY TypeNext, JobsNext, TruthNext
<1> QED
    BY <1>1, <1>2, PTL DEF Spec

\* An order that took money always has the lineage recovery asks for.
THEOREM PaidOrdersHaveAuthority == Spec => []PaidAuthority
<1>1. TruthSound => PaidAuthority
      BY DEF TruthSound
<1> QED
    BY <1>1, Invariance, PTL

\* One paid outbox row for each paid order, none for any other.
THEOREM OutboxExactlyForPaid == Spec => []OutboxMatchesTruth
<1>1. TruthSound => OutboxMatchesTruth
      BY DEF TruthSound
<1> QED
    BY <1>1, Invariance, PTL

\* Whatever was acknowledged as processed holds of the order it names.
THEOREM ProcessedEventsAreTrue == Spec => []ProcessedEventsHold
<1>1. TruthSound => ProcessedEventsHold
      BY DEF TruthSound
<1> QED
    BY <1>1, Invariance, PTL

\* Poll receipts and session bindings agree with the order.
THEOREM PollReceiptsAreTrue == Spec => []PollsTellTheTruth
<1>1. TruthSound => PollsTellTheTruth
      BY DEF TruthSound
<1> QED
    BY <1>1, Invariance, PTL

-----------------------------------------------------------------------------
(* Action properties and the refinement of PaymentAuthority.               *)

\* A binding, once written by whichever path came first, is never replaced.
THEOREM BindingsAreFinal == Spec => BindingIsFinal
<1>1. ASSUME TypeOK, JobsOK, TruthSound, [Next]_vars, NEW o \in Orders, bound[o] # NoSession
      PROVE  bound'[o] = bound[o]
  <2>1. CASE Quiet
        BY <2>1 DEF Quiet, OrderRows
  <2>2. ASSUME NEW p \in Orders, NEW s \in Sessions, BindCheckout(p, s)
        PROVE  bound'[o] = bound[o]
        BY <1>1, <2>2 DEF BindCheckout, TypeOK
  <2>3. ASSUME NEW p \in Orders, Fulfill(p) PROVE bound'[o] = bound[o]
        BY <2>3 DEF Fulfill
  <2>4. ASSUME NEW p \in Orders, NEW s \in Sessions, NEW reported \in StripeStates,
               NEW target \in {"paid", "expired"}, NEW e \in Events \cup {NoEvent},
               Permitted(p, s, target), Apply(p, s, reported, target, e)
        PROVE  bound'[o] = bound[o]
        BY <1>1, <2>4, Applied
  <2> QED
      BY <1>1, NextEffect, <2>1, <2>2, <2>3, <2>4 DEF Effect, EventApplied, PollApplied
<1>2. TypeOK /\ JobsOK /\ TruthSound /\ [Next]_vars =>
          [\A o \in Orders : bound[o] # NoSession => bound'[o] = bound[o]]_vars
      BY <1>1
<1> QED
    BY <1>2, Invariance, PTL DEF Spec, BindingIsFinal

\* One effect is one step of the abstract authority, or none.
LEMMA AuthorityStep ==
    TypeOK /\ JobsOK /\ TruthSound /\ [Next]_vars =>
        [Authority!Next]_<<[o \in Orders |-> IF IsPaid(o) THEN "paid"
                           ELSE IF Status(o) = Expired THEN "expired" ELSE "pending"], outbox>>
<1> DEFINE truth == [o \in Orders |-> IF IsPaid(o) THEN "paid"
                      ELSE IF Status(o) = Expired THEN "expired" ELSE "pending"]
<1> SUFFICES ASSUME TypeOK, JobsOK, TruthSound, [Next]_vars
             PROVE  Authority!Next \/ (truth' = truth /\ outbox' = outbox)
    OBVIOUS
<1>1. CASE Quiet
      BY <1>1 DEF Quiet, OrderRows, IsPaid, Status
<1>2. ASSUME NEW o \in Orders, NEW s \in Sessions, BindCheckout(o, s)
      PROVE  truth' = truth /\ outbox' = outbox
      BY <1>2 DEF BindCheckout, IsPaid, Status
<1>3. ASSUME NEW o \in Orders, Fulfill(o) PROVE truth' = truth /\ outbox' = outbox
  <2>1. PICK to \in Stages : /\ orderState' = [orderState EXCEPT ![o] = to[1]]
                             /\ paymentState' = [paymentState EXCEPT ![o] = to[2]]
        BY <1>3 DEF Fulfill
  <2>2. IsPaid(o) /\ IsPaid(o)'
    <3>1. orderState'[o] = to[1] /\ paymentState'[o] = to[2]
          BY <2>1 DEF TypeOK
    <3>2. to = <<to[1], to[2]>>
          BY PaymentAssumption DEF Downstream
    <3>3. Status(o)' = to
          BY <3>1, <3>2 DEF Status
    <3>4. QED
          BY <1>3, <3>3 DEF Fulfill, IsPaid
  <2>3. \A p \in Orders : p # o => Status(p)' = Status(p) /\ IsPaid(p)' = IsPaid(p)
        BY <2>1 DEF Status, IsPaid, TypeOK
  <2>4. outbox' = outbox
        BY <1>3 DEF Fulfill
  <2> QED
      BY <2>2, <2>3, <2>4
<1>4. ASSUME NEW o \in Orders, NEW s \in Sessions, NEW reported \in StripeStates,
             NEW target \in {"paid", "expired"}, NEW e \in Events \cup {NoEvent},
             Permitted(o, s, target), Apply(o, s, reported, target, e)
      PROVE  Authority!Next \/ (truth' = truth /\ outbox' = outbox)
  <2>1. \A p \in Orders : p # o => truth'[p] = truth[p] /\ outbox'[p] = outbox[p]
    <3>1. SUFFICES ASSUME NEW p \in Orders, p # o
                   PROVE  truth'[p] = truth[p] /\ outbox'[p] = outbox[p]
          OBVIOUS
    <3>2. /\ orderState'[p] = orderState[p] /\ paymentState'[p] = paymentState[p]
          /\ outbox'[p] = outbox[p]
          BY <1>4, <3>1, Applied
    <3>3. Status(p)' = Status(p) /\ IsPaid(p)' = IsPaid(p)
          BY <3>2 DEF IsPaid, Status
    <3> QED
        BY <3>2, <3>3
  <2>2. truth'[o] = target
        BY <1>4, Applied, StatusesDiffer DEF Expired
  <2>3. outbox'[o] = IF target = "paid" THEN 1 ELSE 0
        BY <1>4, Applied
  <2>4. outbox[o] = IF truth[o] = "paid" THEN 1 ELSE 0
        BY TruthByParts DEF OrderSound
  <2>5. CASE Status(o) = Pending
    <3>1. truth[o] = "pending" /\ outbox[o] = 0
          BY <2>4, <2>5, StatusesDiffer DEF IsPaid
    <3>2. truth' = [truth EXCEPT ![o] = target]
          BY <2>1, <2>2
    <3>3. outbox' \in [Orders -> Nat] /\ outbox \in [Orders -> Nat]
          BY TypeNext DEF TypeOK
    <3>4. CASE target = "paid"
      <4>1. outbox' = [outbox EXCEPT ![o] = 1]
            BY <2>1, <2>3, <3>3, <3>4
      <4>2. Authority!Pay(o)
            BY <3>1, <3>2, <3>4, <4>1 DEF Authority!Pay
      <4> QED
          BY <4>2 DEF Authority!Next
    <3>5. CASE target = "expired"
      <4>1. outbox' = outbox
            BY <2>1, <2>3, <3>1, <3>3, <3>5
      <4>2. Authority!Expire(o)
            BY <3>1, <3>2, <3>5, <4>1 DEF Authority!Expire
      <4> QED
          BY <4>2 DEF Authority!Next
    <3> QED
        BY <3>4, <3>5
  <2>6. CASE Status(o) # Pending
    <3>1. Status(o) = <<target, target>>
          BY <1>4, <2>6, Applied
    <3>2. truth[o] = target
          BY <3>1, StatusesDiffer DEF IsPaid, Paid, Expired
    <3>3. outbox' \in [Orders -> Nat] /\ outbox \in [Orders -> Nat]
          BY TypeNext DEF TypeOK
    <3>4. outbox' = outbox
          BY <2>1, <2>3, <2>4, <3>2, <3>3
    <3>5. truth' = truth
          BY <2>1, <2>2, <3>2
    <3> QED
        BY <3>4, <3>5
  <2> QED
      BY <2>5, <2>6
<1> QED
    BY <1>1, <1>2, <1>3, <1>4, NextEffect DEF Effect, EventApplied, PollApplied

\* The webhook and recovery code implements the abstract payment authority: one
\* irrevocable outcome per order, announced in the step that makes it paid.
THEOREM ImplementsAuthority == Spec => RefinesAuthority
<1>1. Init => Authority!Init
      BY StatusesDiffer DEF Init, Authority!Init, IsPaid, Status, Pending
<1> QED
    BY <1>1, AuthorityStep, Invariance, PTL DEF Spec, RefinesAuthority, Authority!Spec

-----------------------------------------------------------------------------
(* The order and Stripe.                                                   *)

\* What Stripe answers of a paid session, or of one that ran out, is its last word:
\* the provider that service.py and webhook.py are written for.
AnswersAreFinal ==
    \A edge \in StripeEdges :
        /\ edge[1] = "complete_paid" => edge[2] = "complete_paid"
        /\ edge[1] \in Ended => edge[2] \in Ended

\* An answer may be old, but its last word still stands.
AnswerStands(w) ==
    job[w].pc = "retrieved" =>
        /\ job[w].reported = "complete_paid" => stripe[job[w].session] = "complete_paid"
        /\ job[w].reported \in Ended => stripe[job[w].session] \in Ended

Agrees(o) ==
    /\ IsPaid(o) => stripe[bound[o]] = "complete_paid"
    /\ Status(o) = Expired => bound[o] # NoSession /\ stripe[bound[o]] \in Ended

Agreement == (\A w \in Workers : AnswerStands(w)) /\ (\A o \in Orders : Agrees(o))

LEMMA StripeKeepsItsWord ==
    ASSUME AnswersAreFinal, TypeOK, [Next]_vars, NEW s \in Sessions
    PROVE  /\ stripe[s] = "complete_paid" => stripe'[s] = "complete_paid"
           /\ stripe[s] \in Ended => stripe'[s] \in Ended
<1>1. ASSUME NEW t \in Sessions, StripeAdvance(t)
      PROVE  /\ stripe[s] = "complete_paid" => stripe'[s] = "complete_paid"
             /\ stripe[s] \in Ended => stripe'[s] \in Ended
  <2>1. PICK to \in StripeStates : /\ <<stripe[t], to>> \in StripeEdges
                                   /\ stripe' = [stripe EXCEPT ![t] = to]
        BY <1>1 DEF StripeAdvance
  <2>2. /\ stripe[t] = "complete_paid" => to = "complete_paid"
        /\ stripe[t] \in Ended => to \in Ended
        BY <2>1 DEF AnswersAreFinal
  <2> QED
      BY <2>1, <2>2 DEF TypeOK
<1>2. CASE UNCHANGED stripe
      BY <1>2
<1> QED
    BY <1>1, <1>2 DEF Next, Provider, StripeEmit, BindCheckout, Receive, StartResume, StartPoll, Step,
       RejectEvent, IgnoreEvent, ScreenEvent, RejectCorrelation, LoadOrder, RetrieveEvidence, RejectEvidence,
       ApplyEvent, ApplyPoll, ClosePoll, Abandon, LoadFails, Fulfill, Close, vars

\* A job gets its answer from Stripe in the step that retrieves it, and nowhere else.
LEMMA AnswersComeFromStripe ==
    ASSUME TypeOK, JobsOK, [Next]_vars, NEW w \in Workers, job'[w].pc = "retrieved"
    PROVE  \/ job'[w] = job[w]
           \/ /\ job'[w].session \in Sessions
              /\ job'[w].reported = stripe[job'[w].session] /\ stripe' = stripe
<1>0. job \in [Workers -> Jobs]
      BY DEF JobsOK
<1>1. CASE UNCHANGED job
      BY <1>1
<1>2. ASSUME NEW v \in Workers, NEW j, Work(v, j), j.pc # "retrieved" PROVE job'[w] = job[w]
      BY <1>0, <1>2 DEF Work
<1>3. ASSUME NEW v \in Workers, Done(v) PROVE job'[w] = job[w]
      BY <1>2, <1>3, IdleFits DEF Done
<1>4. ASSUME NEW v \in Workers, NEW e \in Events, Receive(v, e) PROVE job'[w] = job[w]
  <2> DEFINE j == [Idle EXCEPT !.pc = "recorded", !.event = e, !.session = EventSession[e]]
  <2>1. j.pc # "retrieved" /\ Work(v, j)
        BY <1>4 DEF Receive, Idle
  <2> HIDE DEF j
  <2> QED
      BY <1>2, <2>1
<1>5. ASSUME NEW v \in Workers, NEW o \in Orders, NEW e \in Events, StartResume(v, o, e)
      PROVE  job'[w] = job[w]
  <2> DEFINE j == [Idle EXCEPT !.pc = "recorded", !.event = e, !.order = o,
                               !.session = EventSession[e]]
  <2>1. j.pc # "retrieved" /\ Work(v, j)
        BY <1>5 DEF StartResume, Idle
  <2> HIDE DEF j
  <2> QED
      BY <1>2, <2>1
<1>6. ASSUME NEW v \in Workers, NEW o \in Orders, StartPoll(v, o) PROVE job'[w] = job[w]
  <2> DEFINE j == [Idle EXCEPT !.pc = "loaded", !.order = o, !.session = bound[o], !.known = bound[o]]
  <2>1. j.pc # "retrieved" /\ Work(v, j)
        BY <1>6 DEF StartPoll, Idle
  <2> HIDE DEF j
  <2> QED
      BY <1>2, <2>1
<1>7. ASSUME NEW v \in Workers, ScreenEvent(v) PROVE job'[w] = job[w]
  <2> DEFINE j == [job[v] EXCEPT !.pc = "screened"]
  <2>1. j.pc # "retrieved" /\ (Done(v) \/ Work(v, j))
        BY <1>0, <1>7 DEF ScreenEvent, Jobs
  <2> HIDE DEF j
  <2> QED
      BY <1>2, <1>3, <2>1
<1>8. ASSUME NEW v \in Workers, LoadOrder(v) PROVE job'[w] = job[w]
  <2> DEFINE j == [job[v] EXCEPT !.pc = "loaded", !.order = TargetOrder(v),
                                 !.known = bound[TargetOrder(v)]]
  <2>1. j.pc # "retrieved" /\ Work(v, j)
        BY <1>0, <1>8 DEF LoadOrder, Jobs
  <2> HIDE DEF j
  <2> QED
      BY <1>2, <2>1
<1>9. ASSUME NEW v \in Workers, RetrieveEvidence(v)
      PROVE  \/ job'[w] = job[w]
             \/ /\ job'[w].session \in Sessions
                /\ job'[w].reported = stripe[job'[w].session] /\ stripe' = stripe
  <2> DEFINE j == [job[v] EXCEPT !.pc = "retrieved", !.reported = stripe[job[v].session]]
  <2>1. /\ job[v] \in Jobs /\ job[v].session \in Sessions /\ stripe' = stripe /\ Work(v, j)
        BY <1>9 DEF RetrieveEvidence, JobsOK, JobsSound, JobSound
  <2>2. j.session = job[v].session /\ j.reported = stripe[j.session]
        BY <2>1 DEF Jobs
  <2>3. job'[w] = IF w = v THEN j ELSE job[w]
        BY <1>0, <2>1 DEF Work
  <2> HIDE DEF j
  <2> QED
      BY <2>1, <2>2, <2>3
<1> QED
    BY <1>1, <1>3, <1>4, <1>5, <1>6, <1>7, <1>8, <1>9
    DEF Next, Provider, StripeAdvance, StripeEmit, BindCheckout, Step, RejectEvent, IgnoreEvent,
        RejectCorrelation, RejectEvidence, ApplyEvent, ApplyPoll, ClosePoll, Abandon, LoadFails, Fulfill, Close, vars

\* Whatever a step does to an order, Stripe's word stands behind it afterwards.
LEMMA AgreementNext ==
    AnswersAreFinal /\ TypeOK /\ JobsOK /\ TruthSound /\ Agreement /\ [Next]_vars => Agreement'
<1> SUFFICES ASSUME AnswersAreFinal, TypeOK, JobsOK, TruthSound, Agreement, [Next]_vars PROVE Agreement'
    OBVIOUS
<1>1. ASSUME NEW w \in Workers PROVE AnswerStands(w)'
  <2> SUFFICES ASSUME job'[w].pc = "retrieved" PROVE AnswerStands(w)'
      BY DEF AnswerStands
  <2>1. CASE job'[w] = job[w]
    <3>1. job[w].session \in Sessions
          BY <2>1 DEF JobsOK, JobsSound, JobSound
    <3> QED
        BY <2>1, <3>1, StripeKeepsItsWord DEF Agreement, AnswerStands
  <2>2. CASE job'[w].reported = stripe[job'[w].session] /\ stripe' = stripe
        BY <2>2 DEF AnswerStands
  <2> QED
      BY <2>1, <2>2, AnswersComeFromStripe
<1>2. ASSUME NEW o \in Orders, bound'[o] = bound[o], IsPaid(o)' => IsPaid(o),
             Status(o)' = Expired => Status(o) = Expired
      PROVE  Agrees(o)'
  <2>1. IsPaid(o) \/ Status(o) = Expired => bound[o] \in Sessions
        BY TruthByParts DEF OrderSound, PaidLineage, Agreement, Agrees, TypeOK
  <2> QED
      BY <1>2, <2>1, StripeKeepsItsWord DEF Agreement, Agrees
<1>3. ASSUME NEW p \in Orders, NEW s \in Sessions, NEW reported \in StripeStates,
             NEW target \in {"paid", "expired"}, NEW e \in Events \cup {NoEvent},
             Answered(s, reported), target = "paid" => reported = "complete_paid",
             target = "expired" => reported \in Ended,
             Permitted(p, s, target), Apply(p, s, reported, target, e), NEW o \in Orders
      PROVE  Agrees(o)'
  <2>1. CASE o = p
    <3>1. /\ reported = "complete_paid" => stripe[s] = "complete_paid"
          /\ reported \in Ended => stripe[s] \in Ended
          BY <1>3 DEF Answered, Agreement, AnswerStands
    <3>2. /\ target = "paid" => stripe'[s] = "complete_paid"
          /\ target = "expired" => stripe'[s] \in Ended
          BY <1>3, <3>1, StripeKeepsItsWord
    <3>3. /\ bound'[o] = s /\ (IsPaid(o)' <=> target = "paid")
          /\ Status(o)' = <<target, target>> /\ s # NoSession
          BY <1>3, <2>1, Applied, PaymentAssumption
    <3>4. Status(o)' = Expired => target = "expired"
          BY <3>3 DEF Expired
    <3> QED
        BY <3>2, <3>3, <3>4 DEF Agrees
  <2>2. CASE o # p
    <3>1. /\ bound'[o] = bound[o] /\ Status(o)' = Status(o)
          BY <1>3, <2>2, Applied DEF Status
    <3>2. IsPaid(o)' = IsPaid(o)
          BY <3>1 DEF IsPaid
    <3> QED
        BY <1>2, <3>1, <3>2
  <2> QED
      BY <2>1, <2>2
<1>4. ASSUME NEW o \in Orders PROVE Agrees(o)'
  <2>1. CASE Quiet
    <3>1. /\ bound'[o] = bound[o] /\ Status(o)' = Status(o) /\ IsPaid(o)' = IsPaid(o)
          BY <2>1 DEF Quiet, OrderRows, Status, IsPaid
    <3> QED
        BY <1>2, <3>1
  <2>2. ASSUME NEW p \in Orders, NEW s \in Sessions, BindCheckout(p, s) PROVE Agrees(o)'
    <3>1. Status(o)' = Status(o) /\ IsPaid(o)' = IsPaid(o)
          BY <2>2 DEF BindCheckout, Status, IsPaid
    <3>2. CASE o = p
      <4>1. ~IsPaid(o) /\ Status(o) # Expired
            BY <2>2, <3>2, TruthByParts DEF BindCheckout, OrderSound, PaidLineage, Agreement, Agrees
      <4> QED
          BY <3>1, <4>1 DEF Agrees
    <3>3. CASE o # p
      <4>1. bound'[o] = bound[o]
            BY <2>2, <3>3 DEF BindCheckout, TypeOK
      <4> QED
          BY <1>2, <3>1, <4>1
    <3> QED
        BY <3>2, <3>3
  <2>3. ASSUME NEW p \in Orders, Fulfill(p) PROVE Agrees(o)'
    <3>1. PICK to \in Stages : /\ orderState' = [orderState EXCEPT ![p] = to[1]]
                               /\ paymentState' = [paymentState EXCEPT ![p] = to[2]]
          BY <2>3 DEF Fulfill
    <3>2. Status(p)' = to /\ IsPaid(p)
          BY <2>3, <3>1, PaymentAssumption DEF Fulfill, Status, TypeOK, Downstream
    <3>3. o # p => Status(o)' = Status(o) /\ IsPaid(o)' = IsPaid(o)
          BY <3>1 DEF Status, IsPaid, TypeOK
    <3>4. bound'[o] = bound[o]
          BY <2>3 DEF Fulfill
    <3> QED
        BY <1>2, <3>2, <3>3, <3>4, StatusesDiffer
  <2> QED
      BY <1>3, <2>1, <2>2, <2>3, NextEffect DEF Effect, EventApplied, PollApplied
<1> QED
    BY <1>1, <1>4 DEF Agreement

\* While Stripe never takes back that a session was paid or ran out, an order that
\* took money is bound to a session Stripe calls paid, and an expired order to one that
\* can no longer be paid, however old the evidence was that decided it.
THEOREM OrdersAgreeWithStripe == AnswersAreFinal => (Spec => []ProviderAgreement)
<1> SUFFICES ASSUME AnswersAreFinal PROVE Spec => []ProviderAgreement
    OBVIOUS
<1>1. Init => Agreement
      BY StatusesDiffer DEF Init, Agreement, AnswerStands, Agrees, Idle, IsPaid, Status, Pending, Expired
<1>2. TypeOK /\ JobsOK /\ TruthSound /\ Agreement /\ [Next]_vars => Agreement'
      BY AgreementNext
<1>3. Agreement => ProviderAgreement
      BY DEF Agreement, Agrees, ProviderAgreement, Ended
<1> QED
    BY <1>1, <1>2, <1>3, Invariance, PTL DEF Spec
=============================================================================
