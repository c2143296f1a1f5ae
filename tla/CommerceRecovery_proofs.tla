----------------------- MODULE CommerceRecovery_proofs -----------------------
(***************************************************************************)
(* Proofs about CommerceRecovery for any finite set of orders, any number  *)
(* of dispatchers and overlapping recovery runs, and any batch size.       *)
(***************************************************************************)
EXTENDS CommerceRecovery, FiniteSetTheorems, TLAPS

RunPlaces == {"idle", "claim", "look", "inbox", "resume", "poll", "apply_poll", "send", "mark", "finish"}
Notes == {"none", "pending", "published", "unpublished", "paid", "expired", "rest", "later", "now", "attend"}
RecoveryRuns == [pc: RunPlaces, claims: Seq(Orders), note: Notes]

(* An order that is paid and not closed has its row in the outbox. *)
RowsOK ==
    /\ stripe \in [Orders -> {"open", "paid", "expired"}]
    /\ order \in [Orders -> {"pending", "paid", "running", "closed"}]
    /\ outbox \in Seq(Orders) /\ agenda \in Seq(Orders)
    /\ lease \in [Orders -> Runs \cup {Nobody}]
    /\ \A o \in Orders : order[o] \in {"paid", "running"} => o \in ToSet(outbox)
    /\ PublishedWasTold
    /\ suspended \subseteq Orders /\ SuspensionIsReported

(* An order that is closed, or was closed until a late request reopened it. *)
WasClosed(o) == order[o] = "closed" \/ o \in reopened

(* A dispatcher sends rows of the outbox and marks orders that n8n was told of. *)
DispatchersOK ==
    disp \in [Dispatchers -> {<<"idle">>} \cup ({"send"} \X ToSet(outbox)) \cup ({"mark"} \X told)]

(* So does a recovery run with the claim it works on, and it puts one to rest only once closed. *)
RunSound(r) ==
    /\ run[r].claims = <<>> <=> run[r].pc \in {"idle", "claim"}
    /\ run[r].pc = "send" \/ (run[r].pc = "inbox" /\ run[r].note # "pending") => Cur(r) \in ToSet(outbox)
    /\ run[r].pc = "mark" => Cur(r) \in told
    /\ run[r].pc = "finish" /\ run[r].note = "rest" => WasClosed(Cur(r))
RunsOK == run \in [Runs -> RecoveryRuns] /\ \A r \in Runs : RunSound(r)

InOrder == RowsOK /\ DispatchersOK /\ RunsOK

-----------------------------------------------------------------------------
(* What a step does: rows of the outbox stay, n8n is not untold, and an order that was closed *)
(* is closed still or known to be reopened.                                                   *)
RowsMove ==
    /\ RowsOK'
    /\ ToSet(outbox) \subseteq ToSet(outbox') /\ told \subseteq told'
    /\ \A o \in Orders : WasClosed(o) => WasClosed(o)'
RunMoves(r) ==
    /\ run' = [run EXCEPT ![r] = run'[r]] /\ run'[r] \in RecoveryRuns
    /\ RunSound(r)'
DispatcherMoves(d) ==
    /\ disp' = [disp EXCEPT ![d] = disp'[d]]
    /\ disp'[d] \in {<<"idle">>} \cup ({"send"} \X ToSet(outbox')) \cup ({"mark"} \X told')

(* A run with a claim is working on an order. *)
LEMMA CurrentClaim ==
    ASSUME InOrder, NEW r \in Runs, run[r].pc \notin {"idle", "claim"}
    PROVE  /\ Cur(r) \in Orders /\ run[r] \in RecoveryRuns /\ run[r].claims # <<>>
           /\ Len(run[r].claims) \in Nat \ {0}
<1>1. run[r] \in RecoveryRuns /\ run[r].claims # <<>> /\ run[r].claims \in Seq(Orders)
      BY DEF InOrder, RunsOK, RunSound, RecoveryRuns
<1> QED
    BY <1>1 DEF Cur

LEMMA MoveKeepsOrder ==
    ASSUME InOrder, RowsMove, UNCHANGED run \/ \E r \in Runs : RunMoves(r),
           UNCHANGED disp \/ \E d \in Dispatchers : DispatcherMoves(d)
    PROVE  InOrder'
<1>1. DispatchersOK'
  <2> DEFINE States == {<<"idle">>} \cup ({"send"} \X ToSet(outbox)) \cup ({"mark"} \X told)
             States2 == {<<"idle">>} \cup ({"send"} \X ToSet(outbox')) \cup ({"mark"} \X told')
  <2>1. States \subseteq States2
        BY DEF RowsMove
  <2>2. disp \in [Dispatchers -> States]
        BY DEF InOrder, DispatchersOK
  <2>3. UNCHANGED disp \/ \E d \in Dispatchers : disp' = [disp EXCEPT ![d] = disp'[d]] /\ disp'[d] \in States2
        BY DEF DispatcherMoves
  <2> HIDE DEF States, States2
  <2>4. disp' \in [Dispatchers -> States2]
        BY <2>1, <2>2, <2>3
  <2> QED
      BY <2>4 DEF DispatchersOK, States2
<1>2. RunsOK'
  <2>1. ASSUME NEW p \in Runs, run'[p] = run[p] PROVE RunSound(p)'
    <3>1. RunSound(p) /\ run[p] \in RecoveryRuns
          BY DEF InOrder, RunsOK
    <3>2. Cur(p)' = Cur(p)
          BY <2>1 DEF Cur
    <3>3. run[p].pc = "finish" => Cur(p) \in Orders
          BY CurrentClaim
    <3> QED
        BY <2>1, <3>1, <3>2, <3>3 DEF RunSound, RowsMove, WasClosed
  <2>2. CASE UNCHANGED run
        BY <2>1, <2>2 DEF InOrder, RunsOK
  <2>3. ASSUME NEW r \in Runs, RunMoves(r) PROVE RunsOK'
    <3>1. \A p \in Runs \ {r} : run'[p] = run[p]
          BY <2>3 DEF InOrder, RunsOK, RunMoves
    <3>2. run' \in [Runs -> RecoveryRuns]
          BY <2>3 DEF InOrder, RunsOK, RunMoves
    <3> QED
        BY <2>1, <2>3, <3>1, <3>2 DEF RunsOK, RunMoves
  <2> QED
      BY <2>2, <2>3
<1> QED
    BY <1>1, <1>2 DEF InOrder, RowsMove

-----------------------------------------------------------------------------
(* The sequences of rows. *)

LEMMA AppendedRow ==
    ASSUME NEW s \in Seq(Orders), NEW o \in Orders
    PROVE  Append(s, o) \in Seq(Orders) /\ ToSet(Append(s, o)) = ToSet(s) \cup {o}
<1>1. /\ Append(s, o) \in Seq(Orders) /\ Len(Append(s, o)) = Len(s) + 1 /\ Len(s) \in Nat
      /\ \A i \in 1..Len(s) : Append(s, o)[i] = s[i]
      /\ Append(s, o)[Len(s) + 1] = o
      OBVIOUS
<1> QED
    BY <1>1 DEF ToSet

LEMMA JoinedRows ==
    ASSUME NEW s \in Seq(Orders), NEW t \in Seq(Orders)
    PROVE  s \o t \in Seq(Orders) /\ ToSet(s \o t) = ToSet(s) \cup ToSet(t)
<1>1. /\ s \o t \in Seq(Orders) /\ Len(s \o t) = Len(s) + Len(t) /\ Len(s) \in Nat /\ Len(t) \in Nat
      /\ \A i \in 1..Len(s) : (s \o t)[i] = s[i]
      /\ \A i \in 1..Len(t) : (s \o t)[Len(s) + i] = t[i]
      OBVIOUS
<1>2. \A i \in 1..(Len(s) + Len(t)) : i \in 1..Len(s) \/ i - Len(s) \in 1..Len(t)
      BY <1>1
<1>3. \A i \in 1..Len(s \o t) : (s \o t)[i] \in ToSet(s) \cup ToSet(t)
  <2> SUFFICES ASSUME NEW i \in 1..(Len(s) + Len(t)) PROVE (s \o t)[i] \in ToSet(s) \cup ToSet(t)
      BY <1>1
  <2>1. CASE i \in 1..Len(s)
        BY <1>1, <2>1 DEF ToSet
  <2>2. CASE i - Len(s) \in 1..Len(t)
    <3>1. (s \o t)[i] = t[i - Len(s)]
          BY <1>1, <2>2
    <3> QED
        BY <2>2, <3>1 DEF ToSet
  <2> QED
      BY <1>2, <2>1, <2>2
<1>4. ToSet(s) \subseteq ToSet(s \o t)
      BY <1>1 DEF ToSet
<1>5. ToSet(t) \subseteq ToSet(s \o t)
  <2> SUFFICES ASSUME NEW i \in 1..Len(t) PROVE t[i] \in ToSet(s \o t)
      BY DEF ToSet
  <2>1. Len(s) + i \in DOMAIN (s \o t) /\ (s \o t)[Len(s) + i] = t[i]
        BY <1>1
  <2> QED
      BY <2>1 DEF ToSet
<1>6. ToSet(s \o t) \subseteq ToSet(s) \cup ToSet(t)
  <2>1. DOMAIN (s \o t) = 1..Len(s \o t)
        BY <1>1
  <2> HIDE <1>1
  <2> QED
      BY <1>3, <2>1 DEF ToSet
<1> QED
    BY <1>1, <1>4, <1>5, <1>6

(* Taking one row out leaves all the others in. *)
LEMMA RemovedRow ==
    ASSUME NEW s \in Seq(Orders), NEW i \in DOMAIN s
    PROVE  RemoveAt(s, i) \in Seq(Orders) /\ ToSet(s) \ {s[i]} \subseteq ToSet(RemoveAt(s, i))
<1> DEFINE before == SubSeq(s, 1, i - 1)
           after == SubSeq(s, i + 1, Len(s))
<1>1. Len(s) \in Nat /\ i \in 1..Len(s) /\ DOMAIN s = 1..Len(s)
      OBVIOUS
<1>2. /\ before \in Seq(Orders) /\ Len(before) = i - 1
      /\ \A k \in 1..(i - 1) : before[k] = s[k]
      BY <1>1
<1>3. /\ after \in Seq(Orders) /\ Len(after) = Len(s) - i
      /\ \A k \in 1..(Len(s) - i) : after[k] = s[i + k]
      BY <1>1
<1> HIDE DEF before, after
<1>4. ASSUME NEW k \in 1..Len(s), k # i PROVE s[k] \in ToSet(before) \cup ToSet(after)
  <2>1. CASE k < i
    <3>1. k \in DOMAIN before /\ before[k] = s[k]
          BY <1>1, <1>2, <2>1
    <3> QED
        BY <3>1 DEF ToSet
  <2>2. CASE k > i
    <3>1. k - i \in DOMAIN after /\ after[k - i] = s[k]
          BY <1>1, <1>3, <2>2
    <3> QED
        BY <3>1 DEF ToSet
  <2> QED
      BY <1>1, <1>4, <2>1, <2>2
<1>5. ToSet(s) \ {s[i]} \subseteq ToSet(before) \cup ToSet(after)
      BY <1>1, <1>4 DEF ToSet
<1>6. RemoveAt(s, i) = before \o after
      BY DEF RemoveAt, before, after
<1> QED
    BY <1>2, <1>3, <1>5, <1>6, JoinedRows

LEMMA FirstRows ==
    ASSUME NEW s \in Seq(Orders), NEW n \in Nat
    PROVE  First(s, n) \in Seq(Orders) /\ ToSet(First(s, n)) \subseteq ToSet(s)
<1> DEFINE m == IF n < Len(s) THEN n ELSE Len(s)
<1>1. Len(s) \in Nat /\ m \in 0..Len(s) /\ First(s, n) = SubSeq(s, 1, m)
      BY DEF First
<1> HIDE DEF m
<1>2. /\ First(s, n) \in Seq(Orders) /\ Len(First(s, n)) = m
      /\ \A k \in 1..m : First(s, n)[k] = s[k] /\ k \in 1..Len(s)
      BY <1>1
<1> QED
    BY <1>2 DEF ToSet

(* A claim takes rows that may be claimed and nothing else. *)
LEMMA ClaimedRows ==
    ASSUME InOrder, NEW rows \in DueFirst
    PROVE  /\ First(rows, BatchSize) \in Seq(Orders)
           /\ ToSet(First(rows, BatchSize)) \subseteq Claimable
<1>1. Claimable \subseteq Orders
      BY DEF InOrder, RowsOK, Claimable, ToSet
<1>2. Cardinality(Claimable) \in Nat
      BY <1>1, RecoveryAssumption, FS_Subset, FS_CardinalityType
<1>3. rows \in [1..Cardinality(Claimable) -> Claimable]
      BY DEF DueFirst, SetToSeqs
<1>4. rows \in Seq(Orders) /\ ToSet(rows) \subseteq Claimable
      BY <1>1, <1>2, <1>3 DEF ToSet
<1> QED
    BY <1>4, FirstRows, RecoveryAssumption

-----------------------------------------------------------------------------
(* Parts of a step. *)

LEMMA RowsStay ==
    ASSUME InOrder, UNCHANGED <<stripe, order, outbox, agenda, lease, told, published, suspended, findings, reopened>>
    PROVE  RowsMove
BY DEF InOrder, RowsOK, RowsMove, PublishedWasTold, SuspensionIsReported, Active, WasClosed

(* A final state of the payment: a paid order gets its row, and a closed order is left alone. *)
LEMMA SettleMoves ==
    ASSUME InOrder, NEW o \in Orders, NEW target, Settle(o, target),
           UNCHANGED <<stripe, agenda, lease, told, published, suspended, findings, reopened>>
    PROVE  RowsMove
<1>1. RowsOK
      BY DEF InOrder
<1>2. CASE UNCHANGED <<order, outbox>>
      BY <1>2, RowsStay
<1>3. CASE /\ order[o] = "pending"
           /\ order' = [order EXCEPT ![o] = IF target = "paid" THEN "paid" ELSE "closed"]
           /\ outbox' = IF target = "paid" THEN Append(outbox, o) ELSE outbox
  <2>1. /\ outbox' \in Seq(Orders) /\ ToSet(outbox) \subseteq ToSet(outbox')
        /\ target = "paid" => o \in ToSet(outbox')
        BY <1>1, <1>3, AppendedRow DEF RowsOK
  <2>2. /\ order' \in [Orders -> {"pending", "paid", "running", "closed"}]
        /\ order'[o] = IF target = "paid" THEN "paid" ELSE "closed"
        /\ \A p \in Orders \ {o} : order'[p] = order[p]
        BY <1>1, <1>3 DEF RowsOK
  <2>3. \A p \in Orders : order'[p] \in {"paid", "running"} => p \in ToSet(outbox')
        BY <1>1, <2>1, <2>2 DEF RowsOK
  <2>4. PublishedWasTold' /\ SuspensionIsReported'
        BY <1>1, <1>3, <2>1, <2>2 DEF RowsOK, PublishedWasTold, SuspensionIsReported, Active
  <2> QED
      BY <1>1, <1>3, <2>1, <2>2, <2>3, <2>4 DEF RowsOK, RowsMove, WasClosed
<1> QED
    BY <1>2, <1>3 DEF Settle, Outcome

LEMMA TriggerMoves ==
    ASSUME InOrder, NEW o \in ToSet(outbox), NEW answer, Trigger(o, answer),
           UNCHANGED <<order, outbox, agenda, lease, published, suspended, findings, reopened>>
    PROVE  RowsMove /\ (answer = "accepted" => o \in told')
BY DEF InOrder, RowsOK, RowsMove, PublishedWasTold, SuspensionIsReported, Active, WasClosed, Trigger

LEMMA RunGoes ==
    ASSUME InOrder, NEW r \in Runs, run[r].pc \notin {"idle", "claim"},
           NEW pc \in {"inbox", "resume", "poll", "apply_poll", "send", "mark", "finish"}, NEW note \in Notes,
           Goto(r, pc, note),
           pc = "send" \/ (pc = "inbox" /\ note # "pending") => Cur(r) \in ToSet(outbox'),
           pc = "mark" => Cur(r) \in told',
           pc = "finish" /\ note = "rest" => WasClosed(Cur(r))'
    PROVE  RunMoves(r)
<1> DEFINE x == [run[r] EXCEPT !.pc = pc, !.note = note]
<1>1. run[r] \in RecoveryRuns /\ run[r].claims # <<>>
      BY CurrentClaim
<1>2. x \in RecoveryRuns /\ x.pc = pc /\ x.note = note /\ x.claims = run[r].claims
      BY <1>1 DEF RecoveryRuns, RunPlaces
<1>3. run' = [run EXCEPT ![r] = x] /\ run'[r] = x
      BY DEF Goto, InOrder, RunsOK
<1> HIDE DEF x
<1>4. Cur(r)' = Cur(r)
      BY <1>2, <1>3 DEF Cur
<1>5. RunSound(r)'
      BY <1>1, <1>2, <1>3, <1>4 DEF RunSound, WasClosed
<1> QED
    BY <1>2, <1>3, <1>5 DEF RunMoves

(* A run that is told to rest, or to look at some claims. *)
LEMMA RunBegins ==
    ASSUME InOrder, NEW r \in Runs, NEW claims \in Seq(Orders),
           run' = [run EXCEPT ![r] = IF claims = <<>> THEN IdleRun
                                     ELSE [pc |-> "look", claims |-> claims, note |-> "none"]]
    PROVE  RunMoves(r)
<1>1. run'[r] = IF claims = <<>> THEN IdleRun ELSE [pc |-> "look", claims |-> claims, note |-> "none"]
      BY DEF InOrder, RunsOK
<1>2. run'[r] \in RecoveryRuns
      BY <1>1 DEF IdleRun, RecoveryRuns, RunPlaces, Notes
<1>3. RunSound(r)'
      BY <1>1 DEF IdleRun, RunSound
<1>4. run' = [run EXCEPT ![r] = run'[r]]
      BY <1>1
<1> QED
    BY <1>2, <1>3, <1>4 DEF RunMoves

LEMMA NextClaimMoves ==
    ASSUME InOrder, NEW r \in Runs, run[r].pc \notin {"idle", "claim"}, NextClaim(r)
    PROVE  RunMoves(r)
<1> DEFINE rest == IF Len(run[r].claims) = 1 THEN <<>> ELSE Tail(run[r].claims)
<1>1. run[r].claims \in Seq(Orders) /\ run[r].claims # <<>> /\ Len(run[r].claims) \in Nat \ {0}
      BY CurrentClaim DEF RecoveryRuns
<1>2. rest \in Seq(Orders) /\ (rest = <<>> <=> Len(run[r].claims) = 1)
  <2>1. ASSUME NEW s \in Seq(Orders), s # <<>> PROVE Tail(s) \in Seq(Orders) /\ Len(Tail(s)) = Len(s) - 1
        BY <2>1
  <2>2. CASE Len(run[r].claims) = 1
        BY <2>2
  <2>3. CASE Len(run[r].claims) # 1
    <3>1. Tail(run[r].claims) \in Seq(Orders) /\ Len(Tail(run[r].claims)) # 0
          BY <1>1, <2>1, <2>3
    <3>2. Len(<<>>) = 0
          OBVIOUS
    <3>3. Tail(run[r].claims) # <<>>
      <4> DEFINE t == Tail(run[r].claims)
      <4>1. Len(t) # 0
            BY <3>1
      <4> HIDE DEF t
      <4>2. t # <<>>
            BY <3>2, <4>1
      <4> QED
          BY <4>2 DEF t
    <3> QED
        BY <2>3, <3>1, <3>3
  <2> QED
      BY <2>2, <2>3
<1>3. run' = [run EXCEPT ![r] = IF rest = <<>> THEN IdleRun
                                ELSE [pc |-> "look", claims |-> rest, note |-> "none"]]
      BY <1>2 DEF NextClaim
<1> HIDE DEF rest
<1> QED
    BY <1>2, <1>3, RunBegins

-----------------------------------------------------------------------------
(* Payment, n8n and time. *)

LEMMA PaymentKeepsOrder ==
    ASSUME InOrder, NEW o \in Orders, StripeStep(o) \/ Webhook(o) \/ WebhookDies(o) \/ Age(o)
    PROVE  InOrder'
<1>1. UNCHANGED <<run, disp>>
      BY DEF StripeStep, Webhook, WebhookDies, Age
<1>2. CASE StripeStep(o)
  <2>1. stripe' \in [Orders -> {"open", "paid", "expired"}]
        BY <1>2 DEF StripeStep, InOrder, RowsOK
  <2>2. RowsMove
        BY <1>2, <2>1 DEF StripeStep, books, recovery, InOrder, RowsOK, RowsMove, PublishedWasTold,
                          SuspensionIsReported, Active, WasClosed
  <2> QED
      BY <1>1, <2>2, MoveKeepsOrder
<1>3. CASE Webhook(o)
      BY <1>1, <1>3, SettleMoves, MoveKeepsOrder DEF Webhook, world, recovery
<1>4. CASE WebhookDies(o) \/ Age(o)
      BY <1>1, <1>4, RowsStay, MoveKeepsOrder DEF WebhookDies, Age, world, recovery
<1> QED
    BY <1>2, <1>3, <1>4

(* A request of n8n, however late, writes an order that is paid: n8n was told of it. *)
LEMMA WriteKeepsOrder == ASSUME InOrder, NEW o \in Orders, Write(o) PROVE InOrder'
<1>1. RowsOK /\ o \in told /\ o \in ToSet(outbox)
      BY DEF InOrder, RowsOK, PublishedWasTold, Write
<1>2. /\ order' = [order EXCEPT ![o] = order'[o]] /\ order'[o] \in {"running", "closed"}
      /\ \A p \in Orders \ {o} : order'[p] = order[p]
      BY <1>1 DEF Write, RowsOK
<1>3. /\ UNCHANGED <<stripe, outbox, agenda, lease, told, published, suspended, findings>>
      /\ UNCHANGED <<run, disp>>
      BY DEF Write, world, recovery
<1>4. reopened' = IF order[o] = "closed" /\ order'[o] = "running" THEN reopened \cup {o} ELSE reopened
      BY DEF Write
<1>5. RowsMove
  <2>1. order' \in [Orders -> {"pending", "paid", "running", "closed"}]
        BY <1>1, <1>2 DEF RowsOK
  <2>2. \A p \in Orders : order'[p] \in {"paid", "running"} => p \in ToSet(outbox)
        BY <1>1, <1>2 DEF RowsOK
  <2>3. PublishedWasTold'
        BY <1>1, <1>3 DEF RowsOK, PublishedWasTold
  <2>4. \A p \in Orders : WasClosed(p) => WasClosed(p)'
        BY <1>2, <1>4 DEF WasClosed
  <2>5. SuspensionIsReported'
    <3> SUFFICES ASSUME NEW p \in suspended', Active(p)' PROVE p \in findings' \/ p \in reopened'
        BY DEF SuspensionIsReported
    <3>1. p \in Orders /\ p \in suspended
          BY <1>1, <1>3 DEF RowsOK
    <3>2. CASE Active(p)
          BY <1>1, <1>3, <1>4, <3>1, <3>2 DEF RowsOK, SuspensionIsReported
    <3>3. CASE ~Active(p)
          BY <1>1, <1>2, <1>4, <3>1, <3>3 DEF RowsOK, Active
    <3> QED
        BY <3>2, <3>3
  <2> QED
      BY <1>1, <1>3, <2>1, <2>2, <2>3, <2>4, <2>5 DEF RowsOK, RowsMove
<1> QED
    BY <1>3, <1>5, MoveKeepsOrder

LEMMA TimeKeepsOrder ==
    ASSUME InOrder, NEW o \in Orders, StopDriving(o) \/ FallDue(o) \/ Expire(o) \/ Heal
    PROVE  InOrder'
<1>1. UNCHANGED <<run, disp>>
      BY DEF StopDriving, FallDue, Expire, Heal
<1>2. CASE StopDriving(o) \/ Expire(o) \/ Heal
      BY <1>1, <1>2, RowsStay, MoveKeepsOrder DEF StopDriving, Expire, Heal, world, books, recovery
<1>3. CASE FallDue(o)
  <2>1. agenda' \in Seq(Orders)
        BY <1>3, AppendedRow DEF FallDue, InOrder, RowsOK
  <2>2. RowsMove
        BY <1>3, <2>1 DEF FallDue, world, books, InOrder, RowsOK, RowsMove, PublishedWasTold,
                          SuspensionIsReported, Active, WasClosed
  <2> QED
      BY <1>1, <2>2, MoveKeepsOrder
<1> QED
    BY <1>2, <1>3

-----------------------------------------------------------------------------
(* The dispatcher. *)

LEMMA DispatcherKeepsOrder ==
    ASSUME InOrder, NEW d \in Dispatchers,
           LoadNext(d) \/ Dispatch(d) \/ MarkPublished(d) \/ DispatcherDies(d)
    PROVE  InOrder'
<1>1. RowsOK /\ UNCHANGED <<order, outbox, run>>
      BY DEF InOrder, LoadNext, Dispatch, MarkPublished, DispatcherDies, books
<1>2. /\ disp[d] \in {<<"idle">>} \cup ({"send"} \X ToSet(outbox)) \cup ({"mark"} \X told)
      /\ DOMAIN disp = Dispatchers
      BY DEF InOrder, DispatchersOK
<1>3. ASSUME NEW x \in {<<"idle">>} \cup ({"send"} \X ToSet(outbox')) \cup ({"mark"} \X told'),
             disp' = [disp EXCEPT ![d] = x]
      PROVE  DispatcherMoves(d)
  <2>1. disp'[d] = x
        BY <1>2, <1>3
  <2> QED
      BY <1>3, <2>1 DEF DispatcherMoves
<1>4. CASE LoadNext(d)
  <2>1. RowsMove
        BY <1>4, RowsStay DEF LoadNext, world, books, recovery
  <2>2. PICK i \in DOMAIN outbox : disp' = [disp EXCEPT ![d] = <<"send", outbox[i]>>]
        BY <1>4 DEF LoadNext, Unpublished
  <2>3. <<"send", outbox[i]>> \in {"send"} \X ToSet(outbox')
        BY <1>1 DEF ToSet
  <2>4. DispatcherMoves(d)
        BY <1>3, <2>2, <2>3
  <2> QED
      BY <1>1, <2>1, <2>4, MoveKeepsOrder
<1>5. CASE Dispatch(d)
  <2>1. disp[d][1] = "send" /\ disp[d][2] \in ToSet(outbox)
        BY <1>2, <1>5 DEF Dispatch
  <2>2. PICK answer \in {"accepted", "uncertain", "retryable", "refused"} :
           /\ Trigger(disp[d][2], answer)
           /\ disp' = [disp EXCEPT ![d] = IF answer = "accepted" THEN <<"mark", disp[d][2]>> ELSE <<"idle">>]
        BY <1>5 DEF Dispatch
  <2>3. RowsMove /\ (answer = "accepted" => disp[d][2] \in told')
        BY <1>5, <2>1, <2>2, TriggerMoves DEF Dispatch, books, recovery
  <2>4. CASE answer = "accepted"
    <3>1. <<"mark", disp[d][2]>> \in {"mark"} \X told' /\ disp' = [disp EXCEPT ![d] = <<"mark", disp[d][2]>>]
          BY <2>2, <2>3, <2>4
    <3>2. DispatcherMoves(d)
          BY <1>3, <3>1
    <3> QED
        BY <1>1, <2>3, <3>2, MoveKeepsOrder
  <2>5. CASE answer # "accepted"
    <3>1. DispatcherMoves(d)
          BY <1>3, <2>2, <2>5
    <3> QED
        BY <1>1, <2>3, <3>1, MoveKeepsOrder
  <2> QED
      BY <2>4, <2>5
<1>6. CASE MarkPublished(d)
  <2>1. disp[d][2] \in told /\ published' = published \cup {disp[d][2]}
        BY <1>2, <1>6 DEF MarkPublished
  <2>2. RowsMove
        BY <1>1, <1>6, <2>1 DEF MarkPublished, world, recovery, RowsOK, RowsMove, PublishedWasTold,
                                SuspensionIsReported, Active, WasClosed
  <2>3. DispatcherMoves(d)
        BY <1>3, <1>6 DEF MarkPublished
  <2> QED
      BY <1>1, <2>2, <2>3, MoveKeepsOrder
<1>7. CASE DispatcherDies(d)
  <2>1. RowsMove
        BY <1>7, RowsStay DEF DispatcherDies, world, books, recovery
  <2>2. DispatcherMoves(d)
        BY <1>3, <1>7 DEF DispatcherDies
  <2> QED
      BY <1>1, <2>1, <2>2, MoveKeepsOrder
<1> QED
    BY <1>4, <1>5, <1>6, <1>7

-----------------------------------------------------------------------------
(* A recovery run. *)

(* The row that a run works on leaves the agenda only by its own hand. *)
LEMMA WithoutRow ==
    ASSUME InOrder, NEW o \in Orders
    PROVE  Without(o) \in Seq(Orders) /\ ToSet(agenda) \ {o} \subseteq ToSet(Without(o))
<1>1. agenda \in Seq(Orders)
      BY DEF InOrder, RowsOK
<1>2. CASE o \in ToSet(agenda)
  <2>1. Position(o) \in DOMAIN agenda /\ agenda[Position(o)] = o
        BY <1>2 DEF Position, ToSet
  <2> QED
      BY <1>1, <1>2, <2>1, RemovedRow DEF Without
<1> QED
    BY <1>1, <1>2 DEF Without

(* The rows a run adds are orders. *)
LEMMA SeededRows == \A rows \in SetToSeqs(Unseeded) : First(rows, SeedLimit) \in Seq(Orders)
<1> SUFFICES ASSUME NEW rows \in SetToSeqs(Unseeded) PROVE First(rows, SeedLimit) \in Seq(Orders)
    OBVIOUS
<1>1. Unseeded \subseteq Orders
      BY DEF Unseeded
<1>2. Cardinality(Unseeded) \in Nat
      BY <1>1, RecoveryAssumption, FS_Subset, FS_CardinalityType
<1>3. rows \in [1..Cardinality(Unseeded) -> Unseeded]
      BY DEF SetToSeqs
<1>4. rows \in Seq(Orders)
      BY <1>1, <1>2, <1>3
<1> QED
    BY <1>4, FirstRows, RecoveryAssumption DEF SeedLimit

(* A run looks for work: new rows are due after all others, and claimed rows get its lease. *)
LEMMA ClaimKeepsOrder == ASSUME InOrder, NEW r \in Runs, Seed(r) \/ Claim(r) PROVE InOrder'
<1>1. RowsOK /\ run[r] \in RecoveryRuns /\ run[r].pc \in {"idle", "claim"} /\ run[r].claims = <<>>
      BY DEF InOrder, RunsOK, RunSound, Seed, Claim, At
<1>2. CASE Seed(r)
  <2>1. PICK rows \in SetToSeqs(Unseeded) : agenda' = agenda \o First(rows, SeedLimit)
        BY <1>2 DEF Seed
  <2>3. First(rows, SeedLimit) \in Seq(Orders)
        BY <2>1, SeededRows
  <2>4. agenda' \in Seq(Orders)
        BY <1>1, <2>1, <2>3, JoinedRows DEF RowsOK
  <2>5. RowsMove
        BY <1>1, <1>2, <2>4 DEF Seed, world, books, RowsOK, RowsMove, PublishedWasTold,
                                SuspensionIsReported, Active, WasClosed
  <2>6. RunMoves(r)
    <3> DEFINE x == [run[r] EXCEPT !.pc = "claim", !.note = "none"]
    <3>1. x \in RecoveryRuns /\ x.pc = "claim" /\ x.claims = <<>>
          BY <1>1 DEF RecoveryRuns, RunPlaces, Notes
    <3>2. run' = [run EXCEPT ![r] = x] /\ run'[r] = x
          BY <1>2 DEF Seed, Goto, InOrder, RunsOK
    <3> HIDE DEF x
    <3> QED
        BY <3>1, <3>2 DEF RunMoves, RunSound
  <2> QED
      BY <1>2, <2>5, <2>6, MoveKeepsOrder DEF Seed
<1>3. CASE Claim(r)
  <2>1. PICK rows \in DueFirst : LET batch == First(rows, BatchSize) IN
           /\ lease' = [o \in Orders |-> IF o \in ToSet(batch) THEN r ELSE lease[o]]
           /\ run' = [run EXCEPT ![r] = IF batch = <<>> THEN IdleRun
                                        ELSE [pc |-> "look", claims |-> batch, note |-> "none"]]
        BY <1>3 DEF Claim
  <2>2. RunMoves(r)
        BY <2>1, ClaimedRows, RunBegins
  <2>3. lease' \in [Orders -> Runs \cup {Nobody}]
        BY <1>1, <2>1 DEF RowsOK
  <2>4. RowsMove
        BY <1>1, <1>3, <2>3 DEF Claim, world, books, RowsOK, RowsMove, PublishedWasTold,
                                SuspensionIsReported, Active, WasClosed
  <2> QED
      BY <1>3, <2>2, <2>4, MoveKeepsOrder DEF Claim
<1> QED
    BY <1>2, <1>3

(* What a run has read decides where it goes: only an order that is paid is sent for, and only *)
(* one that is closed is put to rest.                                                          *)
LEMMA ReadingKeepsOrder ==
    ASSUME InOrder, NEW r \in Runs, Look(r) \/ ReadInbox(r) \/ PutOff(r) \/ Poll(r) \/ FailClaim(r)
    PROVE  InOrder'
<1>1. RowsOK /\ UNCHANGED <<world, books, recovery, disp, reopened>>
      BY DEF InOrder, Look, ReadInbox, PutOff, Poll, FailClaim
<1>2. RowsMove
      BY <1>1, RowsStay DEF world, books, recovery
<1>3. run[r].pc \notin {"idle", "claim"}
      BY DEF Look, ReadInbox, PutOff, Poll, FailClaim, At
<1>4. Cur(r) \in Orders /\ run[r] \in RecoveryRuns
      BY <1>3, CurrentClaim
<1>5. RunMoves(r)
  <2>1. CASE Look(r)
    <3>1. \/ Goto(r, "finish", "rest") /\ order[Cur(r)] = "closed"
          \/ Goto(r, "inbox", "pending")
          \/ /\ Goto(r, "inbox", "published") \/ Goto(r, "inbox", "unpublished")
             /\ order[Cur(r)] \in {"paid", "running"}
          BY <1>1, <1>4, <2>1 DEF Look, Active, RowsOK
    <3>2. order[Cur(r)] \in {"paid", "running"} => Cur(r) \in ToSet(outbox')
          BY <1>1, <1>4 DEF RowsOK, books
    <3>3. order[Cur(r)] = "closed" /\ Cur(r)' = Cur(r) => WasClosed(Cur(r))'
          BY <1>1 DEF WasClosed, books
    <3>4. CASE Goto(r, "finish", "rest") /\ order[Cur(r)] = "closed"
      <4>1. Cur(r)' = Cur(r)
            BY <1>3, <1>4, <3>4 DEF Goto, Cur, InOrder, RunsOK, RecoveryRuns
      <4> QED
          BY <1>3, <3>3, <3>4, <4>1, RunGoes DEF Notes
    <3> QED
        BY <1>3, <3>1, <3>2, <3>4, RunGoes DEF Notes
  <2>2. CASE ReadInbox(r)
    <3>1. run[r].pc = "inbox" /\ (run[r].note # "pending" => Cur(r) \in ToSet(outbox'))
          BY <1>1, <2>2 DEF ReadInbox, At, InOrder, RunsOK, RunSound, books
    <3>2. \/ Goto(r, "resume", "none")
          \/ Goto(r, "poll", run[r].note)
          \/ Goto(r, "send", run[r].note) /\ run[r].note # "pending"
          BY <2>2 DEF ReadInbox
    <3>3. run[r].note \in Notes /\ "none" \in Notes
          BY <1>4 DEF RecoveryRuns, Notes
    <3> QED
        BY <1>3, <3>1, <3>2, <3>3, RunGoes
  <2>3. CASE PutOff(r) \/ FailClaim(r)
        BY <1>3, <2>3, RunGoes DEF PutOff, FailClaim, Notes
  <2>4. CASE Poll(r)
    <3>1. stripe[Cur(r)] \in {"open", "paid", "expired"}
          BY <1>1, <1>4 DEF RowsOK
    <3>2. \/ Goto(r, "finish", "later")
          \/ Goto(r, "apply_poll", "paid") \/ Goto(r, "apply_poll", "expired")
          BY <2>4, <3>1 DEF Poll
    <3> QED
        BY <1>3, <3>2, RunGoes DEF Notes
  <2> QED
      BY <2>1, <2>2, <2>3, <2>4 DEF Look
<1> QED
    BY <1>1, <1>2, <1>5, MoveKeepsOrder

(* A payment is settled under the lease. *)
LEMMA ResumeKeepsOrder ==
    ASSUME InOrder, NEW r \in Runs, Resume(r) \/ ApplyPoll(r)
    PROVE  InOrder'
<1>1. run[r].pc \notin {"idle", "claim"} /\ UNCHANGED <<world, published, recovery, disp, reopened>>
      BY DEF Resume, ApplyPoll, At
<1>2. Cur(r) \in Orders
      BY <1>1, CurrentClaim
<1>3. NextClaim(r) \/ \E note \in {"now", "later", "attend"} : Goto(r, "finish", note)
      BY DEF Resume, ApplyPoll, Outcome
<1>4. RunMoves(r)
      BY <1>1, <1>3, NextClaimMoves, RunGoes DEF Notes
<1>5. UNCHANGED <<order, outbox>> \/ \E target : Settle(Cur(r), target)
      BY DEF Resume, ApplyPoll
<1>6. RowsMove
      BY <1>1, <1>2, <1>5, RowsStay, SettleMoves DEF world, recovery
<1> QED
    BY <1>1, <1>4, <1>6, MoveKeepsOrder

LEMMA SendKeepsOrder == ASSUME InOrder, NEW r \in Runs, SendOutbox(r) PROVE InOrder'
<1>1. run[r].pc = "send" /\ UNCHANGED <<books, recovery, disp, reopened>>
      BY DEF SendOutbox, At
<1>2. Cur(r) \in ToSet(outbox)
      BY <1>1 DEF InOrder, RunsOK, RunSound
<1>3. PICK answer \in {"accepted", "uncertain", "retryable", "refused"} :
         /\ Trigger(Cur(r), answer)
         /\ \/ answer = "accepted" /\ Goto(r, "mark", "none")
            \/ Goto(r, "finish", "attend") \/ Goto(r, "finish", "later")
      BY DEF SendOutbox
<1>4. RowsMove /\ (answer = "accepted" => Cur(r) \in told')
      BY <1>1, <1>2, <1>3, TriggerMoves DEF books, recovery
<1>5. RunMoves(r)
      BY <1>1, <1>3, <1>4, RunGoes DEF Notes
<1> QED
    BY <1>1, <1>4, <1>5, MoveKeepsOrder

LEMMA MarkKeepsOrder == ASSUME InOrder, NEW r \in Runs, MarkWithLease(r) PROVE InOrder'
<1>1. run[r].pc = "mark" /\ UNCHANGED <<world, order, event, outbox, recovery, disp, reopened>>
      BY DEF MarkWithLease, At
<1>2. Cur(r) \in told
      BY <1>1 DEF InOrder, RunsOK, RunSound
<1>3. NextClaim(r) \/ Goto(r, "finish", "later")
      BY DEF MarkWithLease
<1>4. RunMoves(r)
      BY <1>1, <1>3, NextClaimMoves, RunGoes DEF Notes
<1>5. RowsMove
      BY <1>1, <1>2 DEF MarkWithLease, world, recovery, InOrder, RowsOK, RowsMove, PublishedWasTold,
                        SuspensionIsReported, Active, WasClosed
<1> QED
    BY <1>1, <1>4, <1>5, MoveKeepsOrder

(* A row is suspended when its order is closed, or together with a finding. *)
LEMMA FinishKeepsOrder == ASSUME InOrder, NEW r \in Runs, Finish(r) PROVE InOrder'
<1> DEFINE o == Cur(r)
<1>1. run[r].pc = "finish" /\ UNCHANGED <<world, books, disp, reopened>>
      BY DEF Finish, At
<1>2. o \in Orders /\ (run[r].note = "rest" => WasClosed(o)) /\ RowsOK
      BY <1>1, CurrentClaim DEF InOrder, RunsOK, RunSound
<1>3. RunMoves(r)
      BY <1>1, NextClaimMoves DEF Finish
<1> HIDE DEF o
<1>4. RowsMove
  <2>1. CASE UNCHANGED <<agenda, suspended, findings, lease>>
        BY <1>1, <2>1, RowsStay DEF world, books
  <2>2. CASE /\ agenda' = Append(Without(o), o) \/ agenda' = Without(o)
             /\ suspended' = IF run[r].note \in {"rest", "attend"} THEN suspended \cup {o} ELSE suspended
             /\ findings' = IF run[r].note = "attend" THEN findings \cup {o} ELSE findings
             /\ lease' = [lease EXCEPT ![o] = Nobody]
    <3>1. agenda' \in Seq(Orders)
      <4>1. Without(o) \in Seq(Orders)
            BY <1>2, WithoutRow
      <4>2. Append(Without(o), o) \in Seq(Orders)
            BY <1>2, <4>1
      <4> QED
          BY <2>2, <4>1, <4>2
    <3>2. lease' \in [Orders -> Runs \cup {Nobody}]
          BY <1>2, <2>2 DEF RowsOK
    <3>3. suspended' \subseteq Orders /\ SuspensionIsReported'
          BY <1>1, <1>2, <2>2 DEF RowsOK, SuspensionIsReported, Active, WasClosed, books
    <3> QED
        BY <1>1, <1>2, <3>1, <3>2, <3>3 DEF world, books, RowsOK, RowsMove, PublishedWasTold, WasClosed
  <2> QED
      BY <2>1, <2>2 DEF Finish, o
<1> QED
    BY <1>1, <1>3, <1>4, MoveKeepsOrder

LEMMA DyingKeepsOrder == ASSUME InOrder, NEW r \in Runs, RunDies(r) PROVE InOrder'
<1>1. RowsMove
      BY RowsStay DEF RunDies, world, books, recovery
<1>2. IdleRun \in RecoveryRuns /\ IdleRun.claims = <<>> /\ IdleRun.pc = "idle"
      BY DEF IdleRun, RecoveryRuns, RunPlaces, Notes
<1>3. run' = [run EXCEPT ![r] = IdleRun] /\ run'[r] = IdleRun
      BY DEF RunDies, InOrder, RunsOK
<1>4. RunMoves(r)
      BY <1>2, <1>3 DEF RunMoves, RunSound
<1> QED
    BY <1>1, <1>4, MoveKeepsOrder DEF RunDies

-----------------------------------------------------------------------------
LEMMA OrderIsKept == InOrder /\ [Next]_vars => InOrder'
<1> SUFFICES ASSUME InOrder, [Next]_vars PROVE InOrder'
    OBVIOUS
<1>1. CASE UNCHANGED vars
      BY <1>1, RowsStay, MoveKeepsOrder DEF vars, world, books, recovery
<1>2. ASSUME NEW o \in Orders,
             StripeStep(o) \/ Webhook(o) \/ WebhookDies(o) \/ Age(o) \/ Write(o) \/ StopDriving(o)
                \/ FallDue(o) \/ Expire(o)
      PROVE  InOrder'
      BY <1>2, PaymentKeepsOrder, WriteKeepsOrder, TimeKeepsOrder
<1>3. ASSUME NEW d \in Dispatchers,
             LoadNext(d) \/ Dispatch(d) \/ MarkPublished(d) \/ DispatcherDies(d)
      PROVE  InOrder'
      BY <1>3, DispatcherKeepsOrder
<1>4. ASSUME NEW r \in Runs, RunStep(r) \/ FailClaim(r) \/ RunDies(r) PROVE InOrder'
      BY <1>4, ClaimKeepsOrder, ReadingKeepsOrder, ResumeKeepsOrder, SendKeepsOrder, MarkKeepsOrder,
         FinishKeepsOrder, DyingKeepsOrder DEF RunStep
<1>5. CASE Heal
      BY <1>5, RowsStay, MoveKeepsOrder DEF Heal, world, books, recovery
<1> QED
    BY <1>1, <1>2, <1>3, <1>4, <1>5 DEF Next

LEMMA InitIsInOrder == Init => InOrder
<1> SUFFICES ASSUME Init PROVE InOrder
    OBVIOUS
<1>1. RowsOK
      BY DEF Init, RowsOK, PublishedWasTold, SuspensionIsReported
<1>2. DispatchersOK
      BY DEF Init, DispatchersOK
<1>3. IdleRun \in RecoveryRuns /\ IdleRun.claims = <<>> /\ IdleRun.pc = "idle"
      BY DEF IdleRun, RecoveryRuns, RunPlaces, Notes
<1>4. RunsOK
      BY <1>3 DEF Init, RunsOK, RunSound
<1> QED
    BY <1>1, <1>2, <1>4 DEF InOrder

LEMMA RecoveryIsInOrder == Spec => []InOrder
BY InitIsInOrder, OrderIsKept, PTL DEF Spec

(* An order is marked as published only if n8n once accepted its trigger, and n8n is only told of *)
(* orders that were paid, whoever sends the trigger and whatever answers get lost.                *)
THEOREM PublicationsWereTold == Spec => []PublishedWasTold
<1>1. InOrder => PublishedWasTold
      BY DEF InOrder, RowsOK
<1> QED
    BY <1>1, RecoveryIsInOrder, PTL

(* Recovery stops looking after an active order only when an operator has a finding or a late *)
(* request has reopened the order after it was closed, whatever requests write and when.      *)
THEOREM SuspensionsAreReported == Spec => []SuspensionIsReported
<1>1. InOrder => SuspensionIsReported
      BY DEF InOrder, RowsOK
<1> QED
    BY <1>1, RecoveryIsInOrder, PTL
-----------------------------------------------------------------------------
(* The lease.                                                              *)

(* What a step may not do to the row that r works on under a lease of its own. *)
Untouched(r) ==
    /\ lease'[Cur(r)] = r
    /\ Cur(r) \in suspended <=> Cur(r) \in suspended'
    /\ Cur(r) \in ToSet(agenda) => Cur(r) \in ToSet(agenda')

(* Another run claims only rows that are free or whose lease has passed. *)
LEMMA ClaimIsFenced ==
    ASSUME InOrder, NEW r \in Runs, run[r].claims # <<>>, Current(r), NEW p \in Runs, Claim(p)
    PROVE  Untouched(r)
<1>1. Cur(r) \in Orders
      BY CurrentClaim DEF InOrder, RunsOK, RunSound
<1>2. PICK rows \in DueFirst :
         lease' = [o \in Orders |-> IF o \in ToSet(First(rows, BatchSize)) THEN p ELSE lease[o]]
      BY DEF Claim
<1>3. Cur(r) \notin Claimable
      BY RecoveryAssumption DEF Current, Claimable
<1>4. Cur(r) \notin ToSet(First(rows, BatchSize))
      BY <1>3, ClaimedRows
<1>5. lease'[Cur(r)] = r
      BY <1>1, <1>2, <1>4 DEF Current
<1> QED
    BY <1>5 DEF Claim, Untouched

(* Another run writes only the row that its own lease covers. *)
LEMMA FinishIsFenced ==
    ASSUME InOrder, NEW r \in Runs, run[r].claims # <<>>, Current(r), NEW p \in Runs \ {r}, Finish(p)
    PROVE  Untouched(r)
<1> DEFINE o == Cur(p)
<1>1. Cur(r) \in Orders /\ o \in Orders /\ agenda \in Seq(Orders) /\ DOMAIN lease = Orders
      BY CurrentClaim DEF InOrder, RowsOK, RunsOK, RunSound, Finish, At
<1>2. CASE Current(p)
  <2>1. o # Cur(r) /\ lease[Cur(r)] = r
        BY <1>2 DEF Current
  <2>2. /\ agenda' = Append(Without(o), o) \/ agenda' = Without(o)
        /\ suspended' = suspended \/ suspended' = suspended \cup {o}
        /\ lease' = [lease EXCEPT ![o] = Nobody]
        BY <1>2 DEF Finish
  <2> HIDE DEF o
  <2>3. Without(o) \in Seq(Orders) /\ ToSet(agenda) \ {o} \subseteq ToSet(Without(o))
        BY <1>1, WithoutRow
  <2>4. ToSet(agenda) \ {o} \subseteq ToSet(agenda')
    <3>1. ToSet(Append(Without(o), o)) = ToSet(Without(o)) \cup {o}
          BY <1>1, <2>3, AppendedRow
    <3> QED
        BY <2>2, <2>3, <3>1
  <2> QED
      BY <1>1, <2>1, <2>2, <2>4 DEF Untouched
<1>3. CASE ~Current(p)
      BY <1>3 DEF Finish, Untouched, Current
<1> QED
    BY <1>2, <1>3

(* New rows are due after the others, and rows fall due; none of the others leaves. *)
LEMMA SeedIsFenced ==
    ASSUME InOrder, NEW r \in Runs, Current(r),
           (\E p \in Runs : Seed(p)) \/ (\E o \in Orders : FallDue(o))
    PROVE  Untouched(r)
<1>1. agenda \in Seq(Orders) /\ UNCHANGED <<lease, suspended>>
      BY DEF InOrder, RowsOK, Seed, FallDue
<1>2. CASE \E p \in Runs : Seed(p)
  <2>1. PICK rows \in SetToSeqs(Unseeded) : agenda' = agenda \o First(rows, SeedLimit)
        BY <1>2 DEF Seed
  <2>2. First(rows, SeedLimit) \in Seq(Orders)
        BY <2>1, SeededRows
  <2>3. ToSet(agenda) \subseteq ToSet(agenda')
        BY <1>1, <2>1, <2>2, JoinedRows
  <2> QED
      BY <1>1, <2>3 DEF Untouched, Current
<1>3. CASE \E o \in Orders : FallDue(o)
      BY <1>1, <1>3, AppendedRow DEF FallDue, Untouched, Current
<1> QED
    BY <1>2, <1>3

(* A run that lost its lease cannot touch the row of the run that has it now: while a run works on *)
(* a claim and its lease is current, only the run itself changes the row or the lease.             *)
THEOREM StaleRunsCannotWrite == Spec => StaleRunsAreFenced
<1> DEFINE Fence == \A r \in Runs : (run[r].claims # <<>> /\ Current(r) /\ run'[r] = run[r]) => Untouched(r)
<1>1. ASSUME InOrder, [Next]_vars, NEW r \in Runs, run[r].claims # <<>>, Current(r), run'[r] = run[r]
      PROVE  Untouched(r)
  <2>1. CASE UNCHANGED <<lease, suspended, agenda>>
        BY <1>1, <2>1 DEF Untouched, Current
  <2>2. ASSUME NEW p \in Runs, Finish(p) PROVE Untouched(r)
    <3>1. CASE p = r
      <4>1. run'[r].pc \in {"idle", "look"}
            BY <2>2, <3>1, <1>1 DEF Finish, NextClaim, IdleRun, InOrder, RunsOK
      <4>2. run[r].pc = "finish"
            BY <2>2, <3>1 DEF Finish, At
      <4> QED
          BY <1>1, <4>1, <4>2
    <3> QED
        BY <1>1, <2>2, <3>1, FinishIsFenced
  <2>3. ASSUME NEW p \in Runs, RunStep(p) \/ FailClaim(p) \/ RunDies(p)
        PROVE  UNCHANGED <<lease, suspended, agenda>> \/ Seed(p) \/ Claim(p) \/ Finish(p)
        BY <2>3 DEF RunStep, Look, ReadInbox, Resume, Poll, ApplyPoll, SendOutbox, MarkWithLease, PutOff,
                    FailClaim, RunDies, recovery
  <2>4. ASSUME NEW o \in Orders,
               StripeStep(o) \/ Webhook(o) \/ WebhookDies(o) \/ Age(o) \/ Write(o) \/ StopDriving(o)
                  \/ FallDue(o) \/ Expire(o)
        PROVE  UNCHANGED <<lease, suspended, agenda>> \/ FallDue(o)
        BY <2>4 DEF StripeStep, Webhook, WebhookDies, Age, Write, StopDriving, Expire, recovery
  <2>5. ASSUME NEW d \in Dispatchers, LoadNext(d) \/ Dispatch(d) \/ MarkPublished(d) \/ DispatcherDies(d)
        PROVE  UNCHANGED <<lease, suspended, agenda>>
        BY <2>5 DEF LoadNext, Dispatch, MarkPublished, DispatcherDies, recovery
  <2>6. \/ UNCHANGED <<lease, suspended, agenda>>
        \/ \E p \in Runs : Seed(p) \/ Claim(p) \/ Finish(p)
        \/ \E o \in Orders : FallDue(o)
        BY <1>1, <2>3, <2>4, <2>5 DEF Next, Heal, vars, recovery
  <2> QED
      BY <1>1, <2>1, <2>2, <2>6, ClaimIsFenced, SeedIsFenced
<1>2. InOrder /\ [Next]_vars => [Fence]_vars
      BY <1>1
<1>3. Fence => \A r \in Runs :
         (run[r].claims # <<>> /\ Current(r) /\ run'[r] = run[r]) =>
            /\ lease'[Cur(r)] = r
            /\ Cur(r) \in suspended <=> Cur(r) \in suspended'
            /\ Cur(r) \in ToSet(agenda) => Cur(r) \in ToSet(agenda')
      BY DEF Untouched
<1> HIDE DEF Fence
<1> QED
    BY <1>2, <1>3, RecoveryIsInOrder, PTL DEF Spec, StaleRunsAreFenced
=============================================================================
