# SiteScore: TLA+ models and proofs

SiteScore sells location reports. A customer orders and pays through Stripe
Checkout, `sitescore-commerce` has the analysis made by `sitescore-api`, mails a
download link through Postmark, and gives the money back when the report cannot
be made. n8n drives the orders, a recovery run takes up what was dropped. The
analysis itself asks half a dozen providers about one place, ranks what it
measured against a benchmark, and turns scores and the operator's own figures
into a decision, a confidence and a report whose words a language model selects.

The first half is short requests of several processes over rows of a PostgreSQL
database, with calls to third parties between the transactions; the second is one
long computation over objects that only their own factories may vouch for. Every
path below is relative to the repository.

Each module can be parsed with `tlasany M.tla`, each configuration run with
`tlc -config X.cfg M`, and `tlapm M.tla` checks the proofs of the modules whose
names end in `_proofs`.

## Inventory

| Part | State it keeps | Operations | Modelled in |
|---|---|---|---|
| commerce, checkout creation (`service.py`, `checkout.py`, `db.py`) | `orders`, `order_idempotency`, `checkout_sessions` | `POST /v1/orders` | `CommerceCheckout` |
| commerce, payment authority (`webhook.py`, `db.py`, `recovery_lineage.py`, `recovery_atomic.py`) | `orders`, `checkout_sessions`, `stripe_event_inbox`, `outbox_events`, `payment_poll_receipts` | signed webhook, inbox resume, payment poll | `CommercePayment`, `PaymentAuthority` |
| commerce, fulfillment and refunds (`fulfillment.py`, `fulfillment_runtime.py`) | `orders`, `fulfillment_bindings`, `refund_eligibility`, `refund_operations` | `POST .../advance` | `CommerceFulfillment` |
| commerce, delivery (`delivery.py`, `delivery_runtime.py`, `delivery_admin.py`) | `delivery_attempts`, `delivery_grants` | `POST .../deliver`, grant revocation, download | `CommerceDelivery` |
| commerce, dispatcher and recovery (`dispatcher.py`, `recovery.py`, `recovery_atomic.py`, `recovery_lineage.py`) | `outbox_events.published_at`, `recovery_state`, `recovery_findings` | one-shot dispatch, `POST /v1/automation/recovery/run` | `CommerceRecovery` |
| api, lifecycle, worker, dispatcher, reports (`lifecycle.py`, `worker.py`, `dispatcher.py`, `tasks.py`, `celery_app.py`, `report_artifacts.py`) | `analyses`, `dispatch_outbox`, `reports`, object store, advisory locks, Celery queue | submit, retrieve, dispatch, execute, reconcile, content | `AnalysisWorker`, `AnalysisService` |
| api, acquisition and execution (`acquisition.py`, `execution.py`, `outcomes.py`) | evidence and objects of one analysis, artifact store | `acquire`, `execute` | `AnalysisPipeline` |
| providers (`sitescore-providers`) | none | geocoder, geography, ACS, routing, network, Overture, GTFS | `ProviderEvidence`, `CatchmentEvidence`, `TransitService` |
| data (`sitescore-data`) | none | contracts, feature surface, readiness validator | `SiteFeatures` |
| metrics, benchmarks (`sitescore-metrics`, `sitescore-benchmarks`) | none | measurements, frame, distribution, midrank, composites | `BenchmarkScores` |
| pipeline (`sitescore-pipeline`) | its registries | assembly, readiness, terminal | `FeatureAssembly`, `AnalysisPipeline` |
| application layer (`sitescore-app`) | its registries | gate, aggregation, adapter, use case | `ScoreAuthority`, `AnalysisPipeline` |
| core (`sitescore-core`) | none | costs, revenue, location, financial, decision, confidence | `CoreAnalysis` |
| report (`sitescore-report`) | its registries | facts, context, draft validation, fallback, rendering | `ReportNarrative`, `AnalysisPipeline` |
| n8n workflows (`automation/n8n`) | its executions | order loop, recovery schedule | as the environment |
| api HTTP surface, settings, migrations, spatial contracts, containers | none | validation, authentication, start scripts | not modelled |

How they interact: the webhook and the poll both move an order to paid, and put
one `order.paid.v1` row into the outbox in the same transaction. The dispatcher,
or the recovery in its place, posts the row to n8n, which starts an execution
that calls `advance` and `deliver` until the order is at rest or its 60 polls are
used up. `advance` submits the analysis to sitescore-api, whose own outbox and
dispatcher hand it to Celery; a worker takes an advisory lock, runs acquisition and
execution, marks a success before it renders the report, and writes result and
report in one transaction. Recovery runs every five minutes, claims active orders
under leases and resumes whatever an earlier process dropped, the trigger included.

What is hard, in the commerce and worker parts: no lock is held over a call to a third party, so each
request decides on rows and evidence it read in an earlier transaction; requests
for one order overlap (retries, replayed triggers, recovery, operators);
webhooks and tasks are repeated, reordered or lost; any process may die between two
transactions; and orders must nevertheless end. In the analysis: a provider may
answer anything; four authorities decide, far from where they are withheld, whether
a score may exist at all; objects are shared while they are being used; and numbers
meet thresholds, zeros and days that end after midnight. `PROJECT.json` lists each
hazard at its line.

What makes each part correct:

- checkout: a customer can never pay one order twice, and a key answers about one intent;
- payment: one irrevocable outcome per order, backed by Stripe's lineage, announced exactly once, and never lost;
- fulfillment: the order says what sitescore-api says, a refund needs a proven failure, an order is called refunded only when money went back, and every order ends;
- delivery: fulfilled rests on an acceptance, no attempt is begun after one, a refund beside a queued mail needs a report that was taken back;
- recovery: a run that lost its lease changes nothing, an order is given up only with a finding, every payment is served;
- worker: a success in time is never timed out, a ready report has its own bytes, every analysis ends;
- analysis: what is published follows from the measurements alone, needs every authority, fails only for a provider's sake, compares like with like, and the report says nothing else.

## Modules

A transaction is one action, and so is a call to a third party. What a request
carries from one step to the next is its *job* (`job`, `run`, `req`, `disp`): that
is where evidence gets old. Payloads, timestamps, response validation and the
conflicts it reports, counters and audit rows are left out unless named here.

**CommercePayment**. `Handlers` are webhook requests, `Recoverers` are claims of
a recovery run. A job goes through `Receive` (the inbox insert), `ScreenEvent`,
`LoadOrder`, `RetrieveEvidence` (Stripe's answer now) and `ApplyEvent`, or
`StartPoll`, `RetrieveEvidence`, `ApplyPoll`; `Reject...`, `Ignore...` and
`ClosePoll` are the early returns. Which order a session names, and which order,
type and version an event has, are constants; `StripeEdges` is the graph of
states Stripe may go through. `Stages` are the states that fulfillment may give a
paid order, all of which `Fulfill` may assume at any time: it does more than
fulfillment does. `Abandon` is a crash, a lost lease or a database error at any
step, `LoadFails` the one database error that the webhook takes for something else: an
order it could not load counts as missing, and its event needs attention for ever. Leases are absent: the row locks alone carry these properties.
`suspended` orders wait for the ten years that a finding puts them off.
`PaymentAuthority` is the abstract promise: a truth per order, pending once and
then fixed, and announced in the step that makes it paid.

**AnalysisService** is the promise of sitescore-api: resource states, a report
that appears with the completed analysis. `ReportMayFail` says whether a report
shown as ready may turn failed, as `_transition_resource_to_failed` may do when
a worker cannot confirm its own commit. CommerceFulfillment uses it as its
environment, AnalysisWorker implements it.

**CommerceFulfillment** instantiates `AnalysisService` and has `Workers`, each
serving one `/advance` of one order: `ReadStatus` dispatches on what the rows
say, then come the analysis steps (`PrepareAnalysis`, `SubmitAnalysis`,
`PollAnalysis`, `BindAnalysis`), the report steps, and the refund steps from
`Reprove` to `BindRefund`. Stripe holds our refund (whose creation is idempotent
and repeats its first reply), a refund of an operator, and whether the payment
intent matches. `MarkAttention` is the hand-over to a person. `failing` lets any
call or transaction fail (`Abandon`); `Heal` ends that. A refund Stripe once called
succeeded stays so.

**CommerceDelivery** extends it with `Carriers`, each serving one `/deliver` of
the same order: acceptance convergence, exhaustion, context, fresh report
evidence, the attempt and its grant, the send, and the record of its answer.
`mail` is what Postmark has queued, also when its answer is lost. `EndGrant` is
expiry or revocation of a grant, `Opens` whether its link still opens the report.
`MoneyOrReport` says what the code means to exclude and does not (see findings),
`RefundAfterMailMeansRetraction` how much of it holds. `ComesToRest` excepts one order by
name, the `Undeliverable` one whose bound report was taken back.

**CommerceRecovery** has orders reduced to pending, paid, running and closed, and
`Runs` that seed, claim a batch, look at each order, resume its inbox event, poll
or send the trigger, and finish. `agenda` holds the rows that are due, the oldest
first, `later` those that back off, `suspended` those given up; `Expire` ends a
lease, `FallDue` a backoff, `Age` makes an event stale. A lease token is the run's
name. `Dispatchers` load, send and mark without a lock. `Write` is a request of an n8n
execution, which may outlive the execution and writes what it saw whatever the order has
become: it closes the order, or puts it in progress, be it closed or not (`reopened`
remembers that one was). `StopDriving` ends an execution, at any time.

**CommerceCheckout** has `Requests` that POST under one key: `LookUp`, then, where no
row was seen, `Insert`, which only one of several requests wins, and `Reread` for the
losers, then `Load`, `Create`, `Bind`, `Reply`. `key` is the session Stripe finds by the
operation key until `ForgetKey`; `Webhook` binds an unbound order and settles it.

**AnalysisWorker** is one analysis inside sitescore-api. `Submit` writes analysis
and outbox row, `Dispatchers` publish and mark (`LoadPending`, `Publish`, `Mark`),
`tasks` are copies of the Celery task at the broker. A worker takes a copy and the
advisory lock (`Start`; without the lock the copy is acknowledged), then `Begin`,
`Execute`, `NotScoreReady` or `Protect` (the success marker, which stops the clock),
`Render`, `Confirm` (upload and its confirmation), `Pair` (result and report in one
commit), and after a commit of unknown outcome `Reconcile` and the ways to a
terminal pair: `FailResource`, `CompleteFailed`, `FailPair` and, when the commit of that is
unknown too, `Recheck`, which may find the report of another worker and fail it. `Deadline` and `Expire`
are the clock and those who act on it, `ReadRow` and `ReadObject` a download.
Faults are counted: `Raise` and the handler `Handle`, `Crash` (the task comes back),
`LoseTask` (a hard time limit acknowledges it), `LoseLock` (the session ends, the
worker goes on); `faults` remembers which of the last two happened, since some promises
hold until then. `finite` says whether the result has a form in the database.

**SiteFeatures, BenchmarkScores, FeatureAssembly, CoreAnalysis, ReportNarrative**
are the computations of the packages in the inventory, without state: a constructor
that validates is a predicate, a function that computes an operator. Scores are
whole percents, category scores tenths, coverage ratios are compared by
cross-multiplication; the identity of content replaces its hash. Where floating
point decides, at a final score on a threshold, both outcomes are possible.
`Authorities` are the four things that this release withholds on purpose and that
the test suites replace by controlled objects: a resolved frame, resolved
reductions, an approved composite, and benchmark references.

**ProviderEvidence, CatchmentEvidence, TransitService** are what each client makes
of an answer: `HttpOutcomes` and what may be wrong with a body are data, a parser
that raises is a predicate, and `Kept` is what the artifact store keeps under the
persistence policy. Transit counts departures per hour and weekday from the GTFS
calendars, frequencies and stop times: a departure is twelve units and an hour at a
headway its share of them, a count the number of units that fall on an hour of a date,
and the median of the dates of a weekday an order statistic of their counts.
`ServiceDates` are the service days that the builder looks at, as far back as `LookBack`;
`EveryServiceDate` are those that have a departure on a reference date, taken from what a
service day adds and from nothing the builder decides.

**ScoreAuthority** is the chain of attestations. Every factory of pipeline, app,
api outcomes and report records in a registry what the object it made contains
(`Attests`); whoever consumes an object asks that registry and those that it rests
on (`Consults`, `Resolved`).

**AnalysisPipeline** composes all of them into one analysis: `Acquisition` (one
action per provider call), `Judgement` (measure, assemble, readiness, terminal, gate,
refusal), `Scored` (aggregation, adapter, core, use case, completed outcome) and
`Reported` (facts, domain, context, the model, validation, narrative, rendering,
publication). `part` is what the objects contain now, `seal` what their registries
remember, `held` a value computed between two looks at its authority. `Change`
overwrites one object, once; a value put back in time is beyond what
any registry can see, and two changes could do that. The evidence comes from the
providers, or at once from the controlled source of the test suites.

The `MC...` modules hold the values of constants and the symmetries; definitions
marked `(mutant)` are faulty versions of the definition below them, which the
runs are known to catch.

## Runs

| Run | Instance | Shows |
|---|---|---|
| `payment_mix` | 2 orders, 3 sessions of which 2 unbound ones of one order, 3 events, one without candidate and one naming the wrong order; one webhook, one recovery, one fault | types, `PaidAuthority`, `ProcessedEventsHold`, `ProviderAgreement`, `PollsTellTheTruth`, `BindingIsFinal`, and that the abstract authority is implemented |
| `payment_live` | 1 order, its event, one of an unsupported type, one of another version | `LeftoverEventsSettle`, `LostWebhooksHeal` |
| `fulfillment_race` | 2 workers, 2 carriers, three of them at a time, 2 attempts, reports that may fail, an operator's full refund | `FulfillmentIsEvidence`, `RefundJustified`, `MoneyReturnedIsReal`, `RefundAfterMailMeansRetraction`, `NoAttemptAfterAcceptance` |
| `delivery_race` | 1 worker, 2 carriers, 3 attempts, reports that may fail, grants that end | types, `FulfilledMeansAccepted`, `ComesToRest` |
| `recovery_race` | 1 order, 2 runs, 1 dispatcher, refusals, late requests that reopen the order | `PublishedWasTold`, `SuspensionIsReported`, `StaleRunsAreFenced` |
| `recovery_live` | 2 orders, 1 run, 1 claim at a time, no webhook, no dispatcher, refusals, n8n executions that are not fair | `PaymentsAreServed` |
| `checkout_race` | 2 requests, 3 sessions, 2 intents | types, `OneSessionForSale`, `KeyMeansOneIntent` |
| `worker_race` | 2 workers, 1 dispatcher, 1 reader, 2 copies, 3 faults, locks and tasks may be lost | types, `SuccessIsProtected`, `ServedIsTheReport`, `ReadyHasItsObject`, `WorkIsNeverForgotten`, `ImplementsService`, `AnalysisEnds`, `ProtectedSuccessCompletes` |
| `pipeline` | ten deployments, every answer of every provider, all subsets of the authorities, eight commands, varied measurements, all answers of the language model, one overwrite | `PublishedIsWhatWasMeasured`, `ScoresNeedAuthority`, `RaisesOnlyForCause`, `ReportSaysWhatWasPublished`, `ReportIsAlwaysWritten`, `ComparedLikeWithLike`, `NoDepartureIsLost`, `BetterIsNeverWorse` |
| `refund_stranded` | 2 workers, reports stay ready | `Converges` is violated: see findings |
| `money_and_report` | 2 workers, 1 carrier, reports that may fail | `MoneyOrReport` is violated |
| `departures_lost` | the feeds and deployments of `pipeline` that acquire | `EveryDepartureCounts` is violated |

Why the bounds are enough: the rows are locked one at a time and a request keeps
no state but its job, so two requests of a kind already show every stale read and
every overtaking; a third only repeats one of them. In `payment_mix` two sessions
of one order are what makes a binding contentious and a second order what makes
misrouting possible. Three attempts is the code's own limit (`DELIVERY_MAX_ATTEMPTS`);
`fulfillment_race` has two, so that both the attempt that may be retried and the last one
occur. Two orders
with a batch of one are the smallest queue in which one can starve the other.
`MaxFaults` bounds the faults of the payment and worker runs: three let a lost
commit be followed by a lost reconciliation and a lost failure of the report.
`MaxTasks` is the least number with which a task is delivered twice, `ReportIds`
enough that a new rendering always has an id; one dispatcher that fails to mark a row
publishes it twice as well as two would. `fulfillment_race` checks some states and does not go
on from them (`ThreeAtATime`): those after `Heal`, since an outage that does not end lets every
call fail or not, so that what follows its end is among what an outage allows; those with all
four requests under way, which make the run too long, and those with a grant that ended,
which `delivery_race` has. All five of its properties are theorems without these bounds.
A partial or wrongly tagged refund of an operator takes the branch that a full one beside a
failed refund of ours takes, and the proofs are about all of them. In `pipeline` a service day has three hours
(`HoursPerDay`), which changes no rule but the day's length, and an ACS request six
columns (`MaxVariables`), so that four keys need two requests; a deployment has four
cells, of which one is outside and one excluded. Among the feeds one has a window that is
shifted into the next day (`Overnight`) and one a window shifted by more than two
(`LongHaul`). `MaxChanges` is one. There are no other bounds: everything
else is finite by itself. Deadlock is not checked where an order can come to rest
with nobody left to call, where the finite events can be used up, and where an
analysis is over.

Fairness. A request that is being served goes on (weak fairness of its steps):
requests have HTTP timeouts and no unbounded loop. A new request is called again
while the order is open, as n8n's loop and the trigger replay do. sitescore-api
finishes an analysis, Stripe settles a refund, and an outage ends. The recovery
comes back to each order: strong fairness per order, since another claim may take
its turn away in between. In `CommerceRecovery` that is derived from
the agenda, not assumed: only the clock (`Age`, `FallDue`, `Expire`), the steps of
a run, the end of the outage and, strongly, the reading of a stale event (an order that does
not change is, at one of its claims, past the cutoff) are fair. No webhook, dispatcher,
operator or n8n execution is fair, and so what is promised is that n8n is brought to
work on a paid order again and again, not that the order advances: `refund_stranded` has one
that no request advances. In the liveness run of payment, suspension ends the promise.
In `worker_race` the drain and the reconciliation are on the Celery beat, the clock
goes on, and a worker serves what it takes, also when it finds that the connection of its
lock is gone; nothing that fails is fair, and faults are finite, while an unstorable result is
refused every time.

## Proofs

`CommercePayment_proofs` proves, for any orders, sessions, events, processes,
Stripe behaviour and bound on faults that satisfy `CommercePayment`'s assumption
on the types of its constants:

- `TypeCorrect`, `PaidOrdersHaveAuthority`, `OutboxExactlyForPaid`,
  `ProcessedEventsAreTrue` and `PollReceiptsAreTrue`: the invariants of the same
  content that the runs check;
- `BindingsAreFinal`, the action property;
- `ImplementsAuthority`: every behaviour is one of `PaymentAuthority`;
- `OrdersAgreeWithStripe`: `ProviderAgreement`, if Stripe's answers about a session that
  is paid or expired are final.

None of the invariants is inductive alone. A process applies evidence of which
only its job knows that Stripe gave it, for which session and which order; so
`Inductive` adds `JobsSound` (a job carries an event and evidence of the session and
order it is about, and once screened an event that fits them and whose candidate
names no other order) and `OrdersSound` (an order is pending, expired or paid, and a
pending one has no event that settled it) to the five. `Invariance` rests on `TypeNext`, `JobsNext`, `NextEffect` (what one
step can do to the rows of one order: nothing, one of the two transitions, a
binding or a downstream stage) and `TruthNext`. The refinement follows from
`NextEffect` through `AuthorityStep`. Since provider edges are a constant, all but the
last of these hold of a Stripe that contradicts itself. Only `OrdersAgreeWithStripe` has a
hypothesis about it, `AnswersAreFinal`: no edge of `StripeEdges` leaves a complete and
paid session or an expired one. An answer is judged long after it was given, so its
invariant `Agreement` says of everything that holds one (an order, a job between
retrieval and application) that what it last heard, if it was a final word, still stands.

`CommerceCheckout_proofs` proves, for any number of requests, sessions and intents:
`TypeCorrect`, `OneSession` (`OneSessionForSale`) and `KeyKeepsIntent`
(`KeyMeansOneIntent`). Its `Inductive` adds `RequestSound`: a request past the key
check is about the intent of the key, and a URL about to be answered is that of the
bound session. Each request changes by one record at a time (`OneRequest`),
`RequestsNext` follows from that, and `ShopNext` and `RowsNext` say the rest.

`AnalysisWorker_proofs` proves, for any number of workers, dispatchers, readers,
report identifiers, copies of the task and faults:

- `TypeCorrect`, `SuccessStaysProtected`, `ReadersGetTheReport` and
  `ImplementsAnalysisService` with tasks and locks lost at any time. `Inductive` says
  what makes them hold without the lock: a busy worker has an analysis (`JobSound`),
  one past its first look a running or ended one, one past the rendering an
  artifact with an identifier of its own; the report is set once, by the commit that
  completes the analysis. Every step of a worker is a `JobMove` (its own record, and at
  most one copy of the task put back) and a `RowsMove` (rows that are sound, never go
  back, and show the service one of its steps or none). Four lemmas say how the rows
  can move (stay, stop, pair, retract), three how a job can (an answer, a record, a place in
  its program), and each step of a worker has one that puts them together;
- `WorkStays` (`WorkIsNeverForgotten`), until a task is lost: an analysis that is
  queued, or running with its success, is pending, at the broker or in the hands of a
  worker, since a step that puts its task away has ended it (`TasksAreAnswered`);
- `ReadyReportsAreStored` (`ReadyHasItsObject`), until a lock is lost: before only the holder of
  the lock is busy, and from the upload to the reconciliation the stored bytes are those of its
  artifact (`Holder`).

The last two properties name those conditions themselves, and runs and proofs are about
states in which they hold and others in which they do not; `LossesStay` carries them through a
step: what a failure has lost stays lost.

`CommerceFulfillment_proofs` proves, for any workers, any refunds of an operator, reports
that may turn failed and any point at which calls fail:

- `FulfillmentIsTyped`, `FulfillmentRestsOnEvidence` (`FulfillmentIsEvidence`),
  `RefundsAreJustified` (`RefundJustified`) and `RefundedMeansMoneyBack`
  (`MoneyReturnedIsReal`).

A worker acts on rows it read transactions ago while the api, Stripe, operators and other
workers move on. `Sustained` therefore says of every kind of evidence what survives such a
delay (an ended analysis, a failed report, money that went back; `WorldMoves` is how the
world may change), of every place in a request's program what it relies on (`Sound`), that
an eligibility row names a failure that happened, and that Stripe has a refund of ours only
behind such a row. Each action's lemma shows that it `Advances` the invariant and the world.

`CommerceDelivery_proofs` extends that, for any workers, carriers and attempts:

- `DeliveryIsTyped` (`DeliveryTypeOK`), `FulfilledRestsOnAcceptance`
  (`FulfilledMeansAccepted`), `OnlyRetractionRefundsMail` (`RefundAfterMailMeansRetraction`)
  and `AcceptanceEndsAttempts`, the action property `NoAttemptAfterAcceptance`, all of them
  whether the api takes ready reports back or not.

`Carried` adds to `Sustained` what a carrier may rely on (it has seen the report ready, it
alone writes the outcome of the attempt it has in hand), that an accepted attempt is in
the mail and mail is only sent of a report that was shown. A report that was shown and is
failed was taken back, which is why the refund beside a mail can only name that.

`CommerceRecovery_proofs` proves, for any finite number of orders and any runs and
dispatchers, among which is not the name `Nobody` of no lease:

- `PublicationsWereTold` (`PublishedWasTold`), `SuspensionsAreReported`
  (`SuspensionIsReported`) and `StaleRunsCannotWrite`, the action property
  `StaleRunsAreFenced`.

`SuspensionIsReported` excepts the orders that a late request has reopened, and with
reason: such an order is active and nobody looks after it (see findings).
`InOrder` says that a paid order that is not closed has its row in the outbox, that a
dispatcher or a run about to send holds such a row and one about to mark an order it
told n8n of, and that a run puts an order to rest only when it is closed or was reopened since. `FirstRows`,
`AppendedRow` and `JoinedRows` are the facts about taking claims from the head of the
agenda and putting them back.

`CoreAnalysis_proofs` is about the engines as functions, for every accepted input:

- `BetterScoresAreNeverWorse`: in each sector, of two sets of category scores the one that
  is nowhere lower has no lower final score, penalties for gaps and cuts for weak
  categories included; and `ScoresStayWithinAHundredPoints`;
- `ScenariosAreOrdered`: the revenue scenarios that an engine computes are never negative
  and in order, as the constructor of `RevenueScenarios` demands, so that the model, which
  has no such failure, leaves nothing out;
- `BetterPlansAreNeverWorse`: a site with no lower scores, no lower revenues and no higher
  bills is given no worse decision, neither of the place nor of the money, no heavier rent and
  no new failure of the stress test. Of a new loss the same is true but for one case (see
  findings), which is why the theorem names it;
- `OneGradeButOnAThreshold`: the band and the class of a decision name the same grade of
  site, except on a threshold, where the finding below is: there the class is one above.

Quotients are cut and a coverage may be infinite, so these do not follow from real
arithmetic: `DivisionIsMonotone` and `QuotientIsMonotone` say what cutting keeps,
`CoverageGrows`, `SeverityFalls` and `LossesAreNotNew` go through the figures one by one, and
`DecisionRises` through the table of the classes.

`AnalysisPipeline_proofs` proves, for any deployments, commands, answers, measurements,
drafts and authorities that satisfy `PipelineAssumption`:

- `ChainIsKept` and from it `MeasuredIsWhatIsPublished` (`PublishedIsWhatWasMeasured`),
  `AuthorityIsNeeded` (`ScoresNeedAuthority`), `ReportsAreTrue`
  (`ReportSaysWhatWasPublished`), `ReportsAreWritten` (`ReportIsAlwaysWritten`),
  `ComparisonsAreFair` (`ComparedLikeWithLike`) and `BetterCategoriesNeverHurt`
  (`BetterIsNeverWorse`);
- `DeparturesAreKept` (`NoDepartureIsLost`);
- `BetterMeasurementsScoreHigher` and `BetterFeaturesAreNeverWorse`: against one benchmark the
  better measurement has no lower score, be better more or, for competition, less, and no
  lower feature makes a lower final score. With `BetterPlansAreNeverWorse` they lead from what is
  measured to the decision;
- `OnlyForCause` (`RaisesOnlyForCause`): an analysis that nobody interferes with fails only
  at a provider, and is given up only for a figure that is not finite.

One object of the chain may be overwritten at any moment, so no statement about the
objects themselves is inductive. `Chain` is about the registries: what each of them
attests is what the code computes from what the registries before it attest (`Right`);
the registries are filled in the order of the stages and none is emptied (`Ordered`);
each object equals what is attested of it until something is overwritten (`Agreed`);
and a value held between two looks at its authority was computed from attested ones
(`HeldOK`). A stage makes its object only after it has resolved those it rests on, which
is what turns "attested" into "this object" (`TrustedIsRight`, `UntouchedIsTrusted`);
`Advancing` and `Making` are the two ways in which a stage moves the invariant on, and
each factory has one lemma. That a score needs authority then is a computation backwards
through the attested parts (`ReadyMeansAuthorised`); that a report is true follows from
what draft validation and the fallback let through.

The departures need no invariant but arithmetic over a feed of any size. A profile counts
a set of units, so looking at more days can only add (`MoreDaysCountMore`), the k-th
smallest of counts that grew is not smaller (`RankedGrows`), and with it the medians
(`MedianGrows`). Of the days with a departure on consecutive reference dates none lies further
back than the days looked at (`LookBackIsFarEnough`): no departure is later than the times that
`LookBack` is taken from, but for the shift of a window, which its one more day covers if
it is a day at most. That a profile counts none in excess needs no such condition. That a finite set of
numbers has a least and a greatest element, which the minima and maxima of the model
need, is proved by a minimal counterexample among its subsets, as the induction theorems
take an operator.

`Smooth` is the invariant of `OnlyForCause`: while nothing is overwritten, the providers have
given metrics by the stage that uses them (`Informed`), and past the gate the readiness that
follows from the evidence is the one that the stage belongs to (`Decided`). Its steps
are one lemma for each constructor of the chain, which says that it accepts what the factory
before it makes: what the providers hand over are metrics (`TransitIsAMetric`,
`AcsIsAMetric`), each is measured and each cell of the frame with it
(`EverythingIsMeasured`), percentiles and shares are whole percents (`FeaturesAreAccepted`),
any derived readiness is consistent (`ReadinessIsAccepted`), the terminal keeps the
deployment's own lineage (`TerminalIsAccepted`), a ready location has a score for every
feature and its weighted categories stay within a hundred points (`InputIsAccepted`), and
only no fixed costs, or a rent without revenue, make a figure infinite (`InfiniteForCause`).

The assumptions beyond types, and why the code grants them: frames, feeds and reference
dates are finite (they are files and tuples); the command satisfies the request models
of the API (`CommandGiven`: Pydantic refuses anything else before an analysis exists), the
deployment its settings and the contracts of the frame (`DeploymentGiven`), and the metrics
that no provider of the release measures are metrics, a pressure among them calibrated, as
the data contracts construct no others (`MeasurementsGiven`); a draft of the model has the
types its schema enforces; `MaxChanges` is at most one (two changes could put a value back
in time, which no registry can notice); orders are rows of a table and lease tokens fresh.

Only model-checked: the liveness of payment, delivery, recovery and worker
(`LeftoverEventsSettle`, `LostWebhooksHeal`, `ComesToRest`, `PaymentsAreServed`,
`AnalysisEnds`, `ProtectedSuccessCompletes`), as fairness and ENABLED are beyond the prover.
Every other property of a passing run is a theorem.

## Findings

- `refund_stranded`: with two overlapping `/advance` requests, an older analysis or
  report state bound late sets the fulfillment state back under a refund in
  flight. The order then is `refund_pending` with a fulfillment state that
  `advance` does not treat as refundable; nobody reconciles it any more.
- `money_and_report`: `bind_report` (`fulfillment.py:437`) asks nothing of the order's state.
  When sitescore-api takes a ready report back (`worker.py:366`), a request that asked for it
  before the delivery and binds the answer after it makes the fulfilled order
  `report_failed`, and the next one refunds it, although a fulfilled order is "not
  automatically refundable" (`fulfillment.py:484`). The customer has the mail and the money,
  if not an open report any more: the link is judged by the order.
- `departures_lost`: how far back the profile looks is taken from the stop times and the ends of
  the windows (`transit/builders.py:106`), not from the boarding offset by which the runs of a
  window are shifted (`builders.py:134-139`). A frequency trip that takes more than a day
  to reach the site loses departures on the first reference dates. No feed of a city has such a
  trip; the documents except none.

Seen while modelling, without a run of their own. In commerce:

- Of two overlapping `/deliver` requests one is accepted and fulfils the order, and the
  rejection of the other turns it into `delivery_failed` (`delivery.py:471`); a late
  `bind_report` puts it back to delivery pending. The audit calls fulfilled terminal.
- Recovery puts a closed order off for ten years (`recovery.py:794`), relying on what the
  audit says, that terminal states are not reopened. The same late bind reopens it: it is
  active, nobody claims it and no operator is told (`reopened` in `SuspensionIsReported`).
- `bind_analysis` and `bind_refund` overwrite a refunded order as `bind_report` does a
  fulfilled one.
- A failure of the database while a webhook loads its order is taken for a missing order
  (`webhook.py:237`): the event needs attention for ever and Stripe is told that all is well.
  Only polling finds the payment then (`payment_live` says that it does).
- A poll overtakes a webhook that died. The stale event is resumed when the order
  is already in progress, is judged an invalid transition (`db.py:410`), and recovery
  suspends a healthy order.
- An acceptance that arrives after another attempt has failed the order is thrown
  away (`delivery.py:433`); a report that turns failed after it was bound as ready is
  asked to be delivered for ever (`delivery.py:556`, `Undeliverable` in `ComesToRest`); a POST repeated after the order was paid gets an
  internal error and not the order (`service.py:71`).

In the worker:

- A business without fixed costs, or with rent and no revenue, has an infinite
  coverage or burden (`engines/financial.py:34`). The worker records the success, and
  the database refuses the result every time: the task is retried for ever, and the
  paid order neither gets its report nor its money. `AnalysisEnds` says so.
- A success marker followed by a hard time limit: the task is acknowledged
  (`task_acks_on_failure_or_timeout`) and `reconcile_expired` excludes marked rows, so
  nobody takes the analysis up (a lost task in `AnalysisEnds`).
- A worker that lost its lock goes on: it may overwrite the stored object under a
  ready report, whose check compares only the length and type, and it may fail or
  time out an analysis that another live worker owns. Looking for its own lost failure
  (`worker.py:538`) it may find the ready report of that worker, and fails it. Readers are still never
  served other bytes. A commit that lands after it was looked for is not modelled.

In the analysis:

- A business without any revenue, and without rent, is not flagged as losing money, however
  high its other bills: its margin is set to zero (`engines/financial.py:37`), and the flag
  asks for a negative one (`engines/decision.py:59`). One with a little revenue is flagged.
- The band of a location is taken from the unrounded score (`engines/location.py:46`),
  the decision from the rounded one: a coffee site with categories 79.2, 71.8, 76.6
  and 64.6 is "Strong Location" in the headline and `conditional` in its band.
- Service days before the first reference date are looked at, those before a later
  one after a gap are not (`transit/builders.py:108`), so departures after midnight
  are lost when the reference dates are not consecutive.
- The API assembles without benchmark references and its provider metrics are
  diagnostic only, so no analysis of the shipped release ever becomes score ready,
  nor would it with all four authorities granted.
- `GeographicLevel.ZIP` is `"zip"` where the providers say `"zcta"`; the pipeline's
  registries hold their objects for the life of the process; competition raises
  without an area or with a single walking scale; later sources overwrite earlier
  ones of the same id; GTFS bytes are stored whatever the persistence policy; Overture
  records are not checked against their bytes; a calibration that is not applicable
  passes readiness; features changed between the terminal factory's check and the
  application's registration are attested (one step here); measurements overwritten
  before the assembly are not noticed.
- A draft of the language model may leave out the caveat that empirical validation is
  pending, and severe risks; the fallback always has them. A missing OpenAI
  credential fails every report, although a fallback exists, because the client is
  made outside of the `try` (`narrative.py`, `OpenAI()`).

## Not modelled

Run, audit and attempt counters; HTTP, signatures, authentication, settings and
migrations; the n8n nodes one by one; the signal handling of the dispatcher
supervisor; spatial contracts, which are value objects; the parking and road
clients, `build_pipeline_error_result` and the other parts that no executor calls;
floating point, but for scores on a threshold; byte-level parsing; charts and PDF layout.

## Plan

Done: all modules above, and a theorem for every safety invariant, action property and
refinement that the runs check. What would extend the project most: the HTTP surface of
sitescore-api, whose request identity is what `Submit` stands for, and more than one overwritten object per
analysis, with a model of values that are put back.
