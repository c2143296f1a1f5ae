--------------------------- MODULE CommerceCheckout ---------------------------
(***************************************************************************)
(* POST /v1/orders: OrderService.create_order, retried and raced by a       *)
(* client under one Idempotency-Key.  The order is committed before Stripe  *)
(* is asked for a Checkout Session, the session is bound before its URL is  *)
(* answered, and Stripe finds the session again by our operation key for as *)
(* long as it remembers the key.  One key, so one order.                    *)
(***************************************************************************)
EXTENDS Naturals, FiniteSets

CONSTANTS
    Requests,   \* concurrent POSTs
    Sessions,   \* Checkout Sessions Stripe may create
    Intents,    \* purchase intents a client may send under the key
    NoSession, NoIntent

ASSUME CheckoutAssumption == NoSession \notin Sessions /\ NoIntent \notin Intents

VARIABLES
    session,   \* Stripe's sessions: none, open, paid or expired (external)
    key,       \* the session Stripe remembers under the operation key (external)
    shop,      \* URLs that reached a customer (external)
    intent,    \* order_idempotency: the hash the key is bound to
    order,     \* none, pending, paid, running or expired
    checkout,  \* checkout_sessions: session id and URL
    req        \* the POST each slot is serving: [pc, intent, seen, made]

vars == <<session, key, shop, intent, order, checkout, req>>

Working == {"posted", "insert", "reread", "load", "create", "bind", "answer"}
Answers == {"url", "conflict", "unavailable", "internal_error"}
Idle == [pc |-> "idle", intent |-> NoIntent, seen |-> "none", made |-> NoSession]
At(q, pc) == req[q].pc = pc
Answer(q, answer) == req' = [req EXCEPT ![q] = [Idle EXCEPT !.pc = answer, !.intent = req[q].intent]]

Init ==
    /\ session = [s \in Sessions |-> "none"] /\ key = NoSession /\ shop = {}
    /\ intent = NoIntent /\ order = "none"
    /\ checkout = [id |-> NoSession, url |-> NoSession]
    /\ req = [q \in Requests |-> Idle]

-----------------------------------------------------------------------------
(* The client, its customer and Stripe.                                    *)

Post(q) ==
    /\ req[q].pc \in {"idle"} \cup Answers
    /\ \E i \in Intents : req' = [req EXCEPT ![q] = [Idle EXCEPT !.pc = "posted", !.intent = i]]
    /\ UNCHANGED <<session, key, shop, intent, order, checkout>>

\* A customer pays at a URL, or the session expires; the key outlives neither.
Move(s) ==
    /\ session[s] = "open"
    /\ \E final \in {"expired"} \cup (IF s \in shop THEN {"paid"} ELSE {}) :
          session' = [session EXCEPT ![s] = final]
    /\ UNCHANGED <<key, shop, intent, order, checkout, req>>

ForgetKey == /\ key # NoSession /\ key' = NoSession
             /\ UNCHANGED <<session, shop, intent, order, checkout, req>>

\* The webhook of a final session applies, and binds an order without a session.
Webhook(s) ==
    /\ session[s] \in {"paid", "expired"} /\ order = "pending"
    /\ checkout.id \in {NoSession, s}
    /\ order' = session[s]
    /\ checkout' = [checkout EXCEPT !.id = s]
    /\ UNCHANGED <<session, key, shop, intent, req>>

Fulfil == /\ order = "paid" /\ order' = "running"
          /\ UNCHANGED <<session, key, shop, intent, checkout, req>>

-----------------------------------------------------------------------------
(* create_order.                                                           *)

\* get_or_create_order: the row of the key, read in a transaction of its own.
LookUp(q) ==
    /\ At(q, "posted")
    /\ CASE intent = NoIntent -> req' = [req EXCEPT ![q].pc = "insert"]
         [] intent = req[q].intent -> req' = [req EXCEPT ![q].pc = "load"]
         [] OTHER -> Answer(q, "conflict")
    /\ UNCHANGED <<session, key, shop, intent, order, checkout>>

\* No row was seen: the order, the key and its checkout are inserted together,
\* unless another request's key got there first and all of it is rolled back.
Insert(q) ==
    /\ At(q, "insert")
    /\ IF intent = NoIntent
       THEN intent' = req[q].intent /\ order' = "pending" /\ req' = [req EXCEPT ![q].pc = "load"]
       ELSE req' = [req EXCEPT ![q].pc = "reread"] /\ UNCHANGED <<intent, order>>
    /\ UNCHANGED <<session, key, shop, checkout>>

\* (mutant) The loser of the race takes the winner's order for its own.
RereadAnyIntent(q) ==
    /\ At(q, "reread")
    /\ req' = [req EXCEPT ![q].pc = "load"]
    /\ UNCHANGED <<session, key, shop, intent, order, checkout>>

\* The loser reads the winner's row and compares the intents again.
Reread(q) ==
    /\ At(q, "reread")
    /\ IF intent = req[q].intent THEN req' = [req EXCEPT ![q].pc = "load"]
       ELSE Answer(q, "conflict")
    /\ UNCHANGED <<session, key, shop, intent, order, checkout>>

\* load_order_and_checkout: the order state seen here is the one answered about.
Load(q) ==
    /\ At(q, "load")
    /\ req' = [req EXCEPT ![q].pc = IF checkout.url = NoSession THEN "create" ELSE "answer",
                          ![q].seen = order, ![q].made = checkout.url]
    /\ UNCHANGED <<session, key, shop, intent, order, checkout>>

\* create_checkout: Stripe repeats the session of the key, or makes a new one.
Create(q) ==
    /\ At(q, "create")
    /\ \E s \in Sessions :
          /\ IF key = NoSession THEN session[s] = "none" /\ session' = [session EXCEPT ![s] = "open"]
             ELSE s = key /\ UNCHANGED session
          /\ key' = s
          /\ req' = [req EXCEPT ![q].pc = "bind", ![q].made = s]
    /\ UNCHANGED <<shop, intent, order, checkout>>

\* (mutant) The session of the latest answer replaces the bound one.
BindRebinding(q) ==
    /\ At(q, "bind")
    /\ checkout' = [id |-> req[q].made, url |-> req[q].made]
    /\ req' = [req EXCEPT ![q].pc = "answer", ![q].made = checkout'.url]
    /\ UNCHANGED <<session, key, shop, intent, order>>

\* (mutant) The latest URL is stored beside whatever session is bound.
BindUrlAlways(q) ==
    LET s == req[q].made IN
    /\ At(q, "bind")
    /\ checkout' = [id |-> IF checkout.id = NoSession THEN s ELSE checkout.id, url |-> s]
    /\ req' = [req EXCEPT ![q].pc = "answer"]
    /\ UNCHANGED <<session, key, shop, intent, order>>

\* bind_checkout: the first session stays; the row, not the reply, is answered.
Bind(q) ==
    LET s == req[q].made IN
    /\ At(q, "bind")
    /\ checkout' = IF checkout.id = NoSession THEN [id |-> s, url |-> s] ELSE checkout
    /\ IF checkout.id \in {NoSession, s}
       THEN req' = [req EXCEPT ![q].pc = "answer", ![q].made = checkout'.url]
       ELSE Answer(q, "unavailable")
    /\ UNCHANGED <<session, key, shop, intent, order>>

Reply(q) ==
    /\ At(q, "answer")
    /\ IF req[q].seen = "pending" /\ req[q].made # NoSession
       THEN Answer(q, "url") /\ shop' = shop \cup {req[q].made}
       ELSE Answer(q, "internal_error") /\ UNCHANGED shop
    /\ UNCHANGED <<session, key, intent, order, checkout>>

\* Stripe or the database fails, or the process dies; Stripe may have created.
Fail(q) ==
    /\ req[q].pc \in Working
    /\ Answer(q, "unavailable")
    /\ UNCHANGED <<session, key, shop, intent, order, checkout>>

Next ==
    \/ \E q \in Requests :
          \/ Post(q) \/ LookUp(q) \/ Insert(q) \/ Reread(q)
          \/ Load(q) \/ Create(q) \/ Bind(q) \/ Reply(q) \/ Fail(q)
    \/ \E s \in Sessions : Move(s) \/ Webhook(s)
    \/ ForgetKey \/ Fulfil

Spec == Init /\ [][Next]_vars

-----------------------------------------------------------------------------
(* Properties.                                                             *)

\* The rows, Stripe and the requests stay in their domains; a URL belongs to the bound session.
TypeOK ==
    /\ session \in [Sessions -> {"none", "open", "paid", "expired"}]
    /\ key \in Sessions \cup {NoSession} /\ shop \subseteq Sessions
    /\ intent \in Intents \cup {NoIntent}
    /\ order \in {"none", "pending", "paid", "running", "expired"}
    /\ checkout \in [id: Sessions \cup {NoSession}, url: Sessions \cup {NoSession}]
    /\ checkout.url \in {checkout.id, NoSession}
    /\ req \in [Requests -> [pc: {"idle"} \cup Working \cup Answers,
                             intent: Intents \cup {NoIntent},
                             seen: {"none", "pending", "paid", "running", "expired"},
                             made: Sessions \cup {NoSession}]]

(* However often a client retries, and whatever Stripe remembers, one session  *)
(* of the order is ever for sale: a customer cannot pay the order twice.       *)
OneSessionForSale ==
    /\ Cardinality(shop) <= 1
    /\ shop \subseteq {checkout.id}

(* A key answers about the intent it was first used with only, also to the      *)
(* requests that found no row and lost the race to insert one.                   *)
KeyMeansOneIntent == \A q \in Requests : At(q, "url") => req[q].intent = intent

(* What makes these inductive: a request past the key check is about the key's  *)
(* intent, and a URL about to be answered is that of the bound session.          *)
RequestSound(q) ==
    /\ req[q].pc # "idle" => req[q].intent \in Intents
    /\ req[q].pc \in {"load", "create", "bind", "answer", "url"} => req[q].intent = intent
    /\ At(q, "bind") => req[q].made \in Sessions
    /\ At(q, "answer") => req[q].made \in {NoSession, checkout.id}

Inductive ==
    /\ TypeOK /\ shop \subseteq {checkout.id} \ {NoSession}
    /\ \A q \in Requests : RequestSound(q)
=============================================================================
