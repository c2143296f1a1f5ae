------------------------ MODULE CommerceCheckout_proofs ------------------------
(***************************************************************************)
(* Proofs about CommerceCheckout for any number of concurrent requests,    *)
(* sessions and intents.                                                   *)
(***************************************************************************)
EXTENDS CommerceCheckout, FiniteSetTheorems, TLAPS

RequestRecords ==
    [pc: {"idle"} \cup Working \cup Answers,
     intent: Intents \cup {NoIntent},
     seen: {"none", "pending", "paid", "running", "expired"}, made: Sessions \cup {NoSession}]

\* What Inductive says of the requests.
RequestsOK == req \in [Requests -> RequestRecords] /\ \A q \in Requests : RequestSound(q)

(* A record that fits the key and the order may replace any request, while    *)
(* the key keeps its intent and the order its session.                        *)
LEMMA OneRequest ==
    ASSUME RequestsOK, NEW q \in Requests, NEW r \in RequestRecords,
           req' = [req EXCEPT ![q] = r],
           intent \in {NoIntent, intent'}, checkout.id \in {NoSession, checkout'.id},
           r.pc # "idle" => r.intent \in Intents,
           r.pc \in {"load", "create", "bind", "answer", "url"} => r.intent = intent',
           r.pc = "bind" => r.made \in Sessions,
           r.pc = "answer" => r.made \in {NoSession, checkout'.id}
    PROVE  RequestsOK'
<1>1. req' \in [Requests -> RequestRecords]
      BY DEF RequestsOK
<1>2. ASSUME NEW p \in Requests PROVE RequestSound(p)'
  <2>1. CASE p = q
    <3>1. req'[p] = r
          BY <2>1 DEF RequestsOK
    <3> QED
        BY <3>1 DEF RequestSound, At
  <2>2. CASE p # q
    <3>1. req'[p] = req[p]
          BY <2>2 DEF RequestsOK
    <3>2. RequestSound(p)
          BY DEF RequestsOK
    <3> QED
        BY <3>1, <3>2, CheckoutAssumption DEF RequestSound, At
  <2> QED
      BY <2>1, <2>2
<1> QED
    BY <1>1, <1>2 DEF RequestsOK

(* Answering keeps the requests sound: a URL is only answered about the key's *)
(* intent.                                                                    *)
LEMMA AnswerSound ==
    ASSUME RequestsOK, NEW q \in Requests, NEW a \in Answers, Answer(q, a),
           req[q].pc # "idle", a = "url" => req[q].intent = intent',
           intent \in {NoIntent, intent'}, checkout.id \in {NoSession, checkout'.id}
    PROVE  RequestsOK'
<1> DEFINE r == [Idle EXCEPT !.pc = a, !.intent = req[q].intent]
<1>1. r \in RequestRecords /\ r.pc = a /\ r.intent = req[q].intent
      BY DEF RequestsOK, RequestRecords, Idle, Answers
<1>2. req[q].intent \in Intents
      BY DEF RequestsOK, RequestSound
<1>3. req' = [req EXCEPT ![q] = r]
      BY DEF Answer
<1> HIDE DEF r
<1> QED
    BY <1>1, <1>2, <1>3, OneRequest DEF Answers

LEMMA SameRequests ==
    ASSUME RequestsOK, UNCHANGED <<req, intent, checkout>> PROVE RequestsOK'
BY DEF RequestsOK, RequestSound, At

(* Steps of the client, its customer, Stripe and the webhook.                 *)
LEMMA RequestsNext == TypeOK /\ RequestsOK /\ [Next]_vars => RequestsOK'
<1> SUFFICES ASSUME TypeOK, RequestsOK, [Next]_vars PROVE RequestsOK'
    OBVIOUS
<1> USE CheckoutAssumption
<1>0. checkout.id \in Sessions \cup {NoSession} /\ checkout.url \in {checkout.id, NoSession}
      BY DEF TypeOK
<1>1. ASSUME NEW q \in Requests, Post(q) PROVE RequestsOK'
  <2>1. PICK i \in Intents :
            req' = [req EXCEPT ![q] = [Idle EXCEPT !.pc = "posted", !.intent = i]]
        BY <1>1 DEF Post
  <2> DEFINE r == [Idle EXCEPT !.pc = "posted", !.intent = i]
  <2>2. r \in RequestRecords /\ r.pc = "posted" /\ r.intent \in Intents
        BY DEF RequestRecords, Working, Idle, Answers
  <2>3. req' = [req EXCEPT ![q] = r] /\ intent' = intent /\ checkout' = checkout
        BY <1>1, <2>1 DEF Post
  <2> HIDE DEF r
  <2> QED
      BY <2>2, <2>3, OneRequest
<1>2. ASSUME NEW q \in Requests, LookUp(q) \/ Insert(q) \/ Reread(q) PROVE RequestsOK'
  <2>1. /\ checkout' = checkout /\ intent \in {NoIntent, intent'}
        /\ req[q].pc \in {"posted", "insert", "reread"}
        BY <1>2 DEF LookUp, Insert, Reread, At
  <2>2. req[q] \in RequestRecords /\ req[q].intent \in Intents
        BY <2>1 DEF RequestsOK, RequestSound
  <2>3. ASSUME NEW c \in {"insert", "reread", "load"}, req' = [req EXCEPT ![q].pc = c],
               c = "load" => req[q].intent = intent'
        PROVE  RequestsOK'
    <3> DEFINE r == [req[q] EXCEPT !.pc = c]
    <3>1. r \in RequestRecords /\ r.pc = c /\ r.intent = req[q].intent
          BY <2>2 DEF RequestRecords, Working
    <3>2. req' = [req EXCEPT ![q] = r]
          BY <2>3
    <3>3. r.intent \in Intents /\ (r.pc = "load" => r.intent = intent')
          BY <2>2, <2>3, <3>1
    <3>4. r.pc \notin {"create", "bind", "answer", "url"}
          BY <2>3, <3>1
    <3> HIDE DEF r
    <3> QED
        BY <2>1, <3>1, <3>2, <3>3, <3>4, OneRequest
  <2>4. CASE Answer(q, "conflict")
        BY <2>1, <2>4, AnswerSound DEF Answers
  <2>5. CASE LookUp(q)
    <3>1. CASE intent = NoIntent /\ req' = [req EXCEPT ![q].pc = "insert"]
          BY <2>3, <3>1
    <3>2. CASE req[q].intent = intent' /\ req' = [req EXCEPT ![q].pc = "load"]
          BY <2>3, <3>2
    <3> QED
        BY <2>4, <2>5, <3>1, <3>2 DEF LookUp
  <2>6. CASE Insert(q)
        BY <2>3, <2>6 DEF Insert
  <2>7. CASE Reread(q)
        BY <2>3, <2>4, <2>7 DEF Reread
  <2> QED
      BY <1>2, <2>5, <2>6, <2>7
<1>3. ASSUME NEW q \in Requests, Load(q) PROVE RequestsOK'
  <2> DEFINE c == IF checkout.url = NoSession THEN "create" ELSE "answer"
             r == [req[q] EXCEPT !.pc = c, !.seen = order, !.made = checkout.url]
  <2>1. req[q] \in RequestRecords /\ req[q].intent \in Intents /\ req[q].intent = intent
        BY <1>3 DEF Load, At, RequestsOK, RequestSound
  <2>2. order \in {"none", "pending", "paid", "running", "expired"}
        BY DEF TypeOK
  <2>3. r \in RequestRecords /\ r.pc = c /\ r.intent = req[q].intent /\ r.made = checkout.url
        BY <1>0, <2>1, <2>2 DEF RequestRecords, Working
  <2>4. req' = [req EXCEPT ![q] = r] /\ intent' = intent /\ checkout' = checkout
        BY <1>3, <2>1 DEF Load, RequestsOK, RequestRecords
  <2>5. c \in {"create", "answer"}
        OBVIOUS
  <2> HIDE DEF r, c
  <2> QED
      BY <1>0, <2>1, <2>3, <2>4, <2>5, OneRequest
<1>4. ASSUME NEW q \in Requests, Create(q) PROVE RequestsOK'
  <2>1. PICK s \in Sessions : req' = [req EXCEPT ![q].pc = "bind", ![q].made = s]
        BY <1>4 DEF Create
  <2> DEFINE r == [req[q] EXCEPT !.pc = "bind", !.made = s]
  <2>2. req[q] \in RequestRecords /\ req[q].intent \in Intents /\ req[q].intent = intent
        BY <1>4 DEF Create, At, RequestsOK, RequestSound
  <2>3. r \in RequestRecords /\ r.pc = "bind" /\ r.intent = req[q].intent /\ r.made = s
        BY <2>2 DEF RequestRecords, Working
  <2>4. req' = [req EXCEPT ![q] = r] /\ intent' = intent /\ checkout' = checkout
        BY <1>4, <2>1 DEF Create, RequestsOK
  <2> HIDE DEF r
  <2> QED
      BY <2>2, <2>3, <2>4, OneRequest
<1>5. ASSUME NEW q \in Requests, Bind(q) PROVE RequestsOK'
  <2>1. /\ req[q] \in RequestRecords /\ req[q].intent \in Intents /\ req[q].intent = intent
        /\ req[q].made \in Sessions /\ req[q].pc = "bind"
        BY <1>5 DEF Bind, At, RequestsOK, RequestSound
  <2>2. intent' = intent /\ checkout.id \in {NoSession, checkout'.id}
        BY <1>5 DEF Bind
  <2>3. CASE checkout.id \in {NoSession, req[q].made}
    <3> DEFINE r == [req[q] EXCEPT !.pc = "answer", !.made = checkout'.url]
    <3>1. checkout'.url \in {NoSession, checkout'.id} /\ checkout'.id = req[q].made
          BY <1>0, <1>5, <2>1, <2>3 DEF Bind
    <3>2. /\ r \in RequestRecords /\ r.pc = "answer"
          /\ r.intent = req[q].intent /\ r.made = checkout'.url
          BY <2>1, <3>1 DEF RequestRecords, Working
    <3>3. req' = [req EXCEPT ![q] = r]
          BY <1>5, <2>3 DEF Bind, RequestsOK
    <3> HIDE DEF r
    <3> QED
        BY <2>1, <2>2, <3>1, <3>2, <3>3, OneRequest
  <2>4. CASE checkout.id \notin {NoSession, req[q].made}
    <3>1. Answer(q, "unavailable") /\ "unavailable" \in Answers
          BY <1>5, <2>4 DEF Bind, Answers
    <3> QED
        BY <2>1, <2>2, <3>1, AnswerSound
  <2> QED
      BY <2>3, <2>4
<1>6. ASSUME NEW q \in Requests, Reply(q) PROVE RequestsOK'
  <2>1. req[q].pc = "answer" /\ req[q].intent = intent
        BY <1>6 DEF Reply, At, RequestsOK, RequestSound
  <2>2. intent' = intent /\ checkout' = checkout
        BY <1>6 DEF Reply
  <2>3. PICK a \in {"url", "internal_error"} : Answer(q, a)
        BY <1>6 DEF Reply
  <2> QED
      BY <2>1, <2>2, <2>3, AnswerSound DEF Answers
<1>7. ASSUME NEW q \in Requests, Fail(q) PROVE RequestsOK'
      BY <1>7, AnswerSound DEF Fail, Working, Answers
<1>8. ASSUME NEW s \in Sessions, Webhook(s) PROVE RequestsOK'
  <2>1. /\ req' = req /\ intent' = intent
        /\ checkout.id \in {NoSession, checkout'.id}
        BY <1>8 DEF Webhook, TypeOK
  <2>2. ASSUME NEW q \in Requests PROVE RequestSound(q)'
        BY <2>1 DEF RequestsOK, RequestSound, At
  <2> QED
      BY <2>1, <2>2 DEF RequestsOK
<1>9. ASSUME NEW s \in Sessions, Move(s) PROVE RequestsOK'
      BY <1>9, SameRequests DEF Move
<1>10. CASE ForgetKey \/ Fulfil \/ UNCHANGED vars
      BY <1>10, SameRequests DEF ForgetKey, Fulfil, vars
<1> QED
    BY <1>1, <1>2, <1>3, <1>4, <1>5, <1>6, <1>7, <1>8, <1>9, <1>10 DEF Next

(* The rows and Stripe stay in their domains.                                *)
LEMMA RowsNext ==
    TypeOK /\ RequestsOK /\ [Next]_vars
    => /\ session' \in [Sessions -> {"none", "open", "paid", "expired"}]
       /\ key' \in Sessions \cup {NoSession}
       /\ intent' \in Intents \cup {NoIntent}
       /\ order' \in {"none", "pending", "paid", "running", "expired"}
       /\ checkout' \in [id: Sessions \cup {NoSession}, url: Sessions \cup {NoSession}]
       /\ checkout'.url \in {checkout'.id, NoSession}
<1> SUFFICES ASSUME TypeOK, RequestsOK, [Next]_vars
             PROVE  /\ session' \in [Sessions -> {"none", "open", "paid", "expired"}]
                    /\ key' \in Sessions \cup {NoSession}
                    /\ intent' \in Intents \cup {NoIntent}
                    /\ order' \in {"none", "pending", "paid", "running", "expired"}
                    /\ checkout' \in [id: Sessions \cup {NoSession}, url: Sessions \cup {NoSession}]
                    /\ checkout'.url \in {checkout'.id, NoSession}
    OBVIOUS
<1> USE CheckoutAssumption DEF TypeOK
<1>1. ASSUME NEW q \in Requests, Post(q) \/ Load(q) \/ Reply(q) \/ Fail(q)
      PROVE  UNCHANGED <<session, key, intent, order, checkout>>
      BY <1>1 DEF Post, Load, Reply, Fail
<1>2. ASSUME NEW q \in Requests, LookUp(q) \/ Insert(q) \/ Reread(q)
      PROVE  /\ UNCHANGED <<session, key, checkout>>
             /\ intent' \in {intent, req[q].intent} /\ order' \in {order, "pending"}
             /\ req[q].intent \in Intents
      BY <1>2 DEF LookUp, Insert, Reread, At, RequestsOK, RequestSound
<1>3. ASSUME NEW q \in Requests, Create(q)
      PROVE  /\ UNCHANGED <<intent, order, checkout>> /\ key' \in Sessions
             /\ session' \in [Sessions -> {"none", "open", "paid", "expired"}]
      BY <1>3 DEF Create
<1>4. ASSUME NEW q \in Requests, Bind(q)
      PROVE  /\ UNCHANGED <<session, key, intent, order>>
             /\ checkout' \in [id: Sessions \cup {NoSession}, url: Sessions \cup {NoSession}]
             /\ checkout'.url \in {checkout'.id, NoSession}
      BY <1>4 DEF Bind, At, RequestsOK, RequestSound
<1>5. ASSUME NEW s \in Sessions, Move(s)
      PROVE  /\ UNCHANGED <<key, intent, order, checkout>>
             /\ session' \in [Sessions -> {"none", "open", "paid", "expired"}]
      BY <1>5 DEF Move
<1>6. ASSUME NEW s \in Sessions, Webhook(s)
      PROVE  /\ UNCHANGED <<session, key, intent>> /\ order' \in {"paid", "expired"}
             /\ checkout' \in [id: Sessions \cup {NoSession}, url: Sessions \cup {NoSession}]
             /\ checkout'.url \in {checkout'.id, NoSession}
      BY <1>6 DEF Webhook
<1>7. CASE ForgetKey \/ Fulfil \/ UNCHANGED vars
      BY <1>7 DEF ForgetKey, Fulfil, vars
<1> QED
    BY <1>1, <1>2, <1>3, <1>4, <1>5, <1>6, <1>7 DEF Next

(* Only the URL of the bound session is ever given out.                       *)
LEMMA ShopNext == Inductive /\ [Next]_vars => shop' \subseteq {checkout'.id} \ {NoSession}
<1> SUFFICES ASSUME Inductive, [Next]_vars
             PROVE  shop' \subseteq {checkout'.id} \ {NoSession}
    OBVIOUS
<1> USE DEF Inductive
<1>1. ASSUME NEW q \in Requests,
             \/ Post(q) \/ LookUp(q) \/ Insert(q) \/ Reread(q)
             \/ Load(q) \/ Create(q) \/ Fail(q)
      PROVE  UNCHANGED <<shop, checkout>>
      BY <1>1 DEF Post, LookUp, Insert, Reread, Load, Create, Fail
<1>2. ASSUME NEW q \in Requests, Bind(q)
      PROVE  shop' \subseteq {checkout'.id} \ {NoSession}
      BY <1>2 DEF Bind
<1>3. ASSUME NEW q \in Requests, Reply(q)
      PROVE  shop' \subseteq {checkout'.id} \ {NoSession}
  <2>1. req[q].made \in {NoSession, checkout.id} /\ checkout' = checkout
        BY <1>3 DEF Reply, RequestSound, At
  <2>2. shop' = shop \/ (req[q].made # NoSession /\ shop' = shop \cup {req[q].made})
        BY <1>3 DEF Reply
  <2> QED
      BY <2>1, <2>2
<1>4. ASSUME NEW s \in Sessions, Move(s) \/ Webhook(s)
      PROVE  shop' \subseteq {checkout'.id} \ {NoSession}
  <2>1. shop' = shop /\ checkout.id \in {NoSession, checkout'.id}
        BY <1>4 DEF Move, Webhook, TypeOK
  <2> QED
      BY <2>1
<1>5. CASE ForgetKey \/ Fulfil \/ UNCHANGED vars
      BY <1>5 DEF ForgetKey, Fulfil, vars
<1> QED
    BY <1>1, <1>2, <1>3, <1>4, <1>5 DEF Next

-----------------------------------------------------------------------------

LEMMA InitInductive == Init => Inductive
<1> SUFFICES ASSUME Init PROVE Inductive
    OBVIOUS
<1>1. Idle \in RequestRecords /\ Idle.pc = "idle"
      BY DEF Idle, RequestRecords
<1>2. req \in [Requests -> RequestRecords] /\ \A q \in Requests : req[q].pc = "idle"
      BY <1>1 DEF Init
<1>3. TypeOK
      BY <1>2 DEF Init, TypeOK, RequestRecords
<1> QED
    BY <1>2, <1>3 DEF Init, Inductive, RequestSound, At

LEMMA NextInductive == Inductive /\ [Next]_vars => Inductive'
<1> SUFFICES ASSUME Inductive, [Next]_vars PROVE Inductive'
    OBVIOUS
<1>1. TypeOK /\ RequestsOK
      BY DEF Inductive, TypeOK, RequestsOK, RequestRecords
<1>2. RequestsOK'
      BY <1>1, RequestsNext
<1>3. shop' \subseteq {checkout'.id} \ {NoSession}
      BY ShopNext
<1>4. shop' \subseteq Sessions
      BY <1>1, <1>3, RowsNext
<1>5. TypeOK'
      BY <1>1, <1>2, <1>4, RowsNext DEF TypeOK, RequestsOK, RequestRecords
<1> QED
    BY <1>2, <1>3, <1>5 DEF Inductive, RequestsOK

(* The rows, Stripe and every request stay as Inductive says.                 *)
THEOREM Invariance == Spec => []Inductive
BY InitInductive, NextInductive, PTL DEF Spec

(* The state stays in its domains, and a stored URL is the bound session's.   *)
THEOREM TypeCorrect == Spec => []TypeOK
<1>1. Inductive => TypeOK
      BY DEF Inductive
<1> QED
    BY <1>1, Invariance, PTL

(* create_order never has two sessions of an order for sale, whatever clients *)
(* retry, processes lose and Stripe forgets.                                  *)
THEOREM OneSession == Spec => []OneSessionForSale
<1>1. Inductive => OneSessionForSale
  <2> SUFFICES ASSUME Inductive PROVE OneSessionForSale
      OBVIOUS
  <2>1. shop = {} \/ shop = {checkout.id}
        BY DEF Inductive
  <2>2. Cardinality(shop) \in {0, 1}
        BY <2>1, FS_EmptySet, FS_Singleton
  <2> QED
      BY <2>1, <2>2 DEF OneSessionForSale
<1> QED
    BY <1>1, Invariance, PTL

(* get_or_create_order lets a key be answered about its first intent only.    *)
THEOREM KeyKeepsIntent == Spec => []KeyMeansOneIntent
<1>1. Inductive => KeyMeansOneIntent
      BY DEF Inductive, RequestSound, KeyMeansOneIntent, At
<1> QED
    BY <1>1, Invariance, PTL
=============================================================================
