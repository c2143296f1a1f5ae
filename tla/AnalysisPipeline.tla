-------------------------- MODULE AnalysisPipeline --------------------------
(***************************************************************************)
(* One canonical analysis, from the command that was admitted to the result  *)
(* and the report that the worker publishes: CanonicalProviderEvidenceSource.acquire step *)
(* by step (each provider may answer anything its parser tells apart), then  *)
(* CanonicalAnalysisExecutor.execute and the factories that it calls.        *)
(*                                                                         *)
(* The evidence source is the deployment's ("provider") or the object that   *)
(* stands for it in the program's tests ("controlled"), which hands over the *)
(* evidence at once.  While an analysis runs, whoever holds one of its        *)
(* objects may overwrite what it contains once it is registered (Change):    *)
(* the factories promise that nothing made from such an object is published. *)
(* It happens once; a value put back in time is beyond what they can see.    *)
(* Whatever raises ends the analysis as failed; once the worker has recorded *)
(* its success, which it does as soon as the executor answers, nothing does:  *)
(* a report that cannot be made is a failed report, and an execution whose    *)
(* result cannot be published any more is thrown away and retried.           *)
(***************************************************************************)
EXTENDS ScoreAuthority, ReportNarrative, CatchmentEvidence, TransitService

CONSTANTS Setups,          \* [source, command, d, granted, site, cells]: what one analysis is given
          GeocodeReplies, GeographyReplies, AcsReplies, IsochroneReplies,
          Networks,        \* [network, areas]: the pinned network file and the areas, as loaded
          PartitionSets,   \* the Overture partitions, as loaded
          Feeds,           \* [feed, reach]: the GTFS feed and the stops in reach, as loaded
          BenchmarkSets,   \* the sets of keys that the benchmark loader returns
          NarrativeReplies,\* what the language model, or its client, does
          MaxChanges       \* how many times the objects of one analysis are overwritten

(* What an analysis starts from was made by constructors: the request by the API's models, the        *)
(* deployment by its settings, the frame and the metrics by the contracts of their packages.          *)
MetricGiven(m) == m.value \in Int /\ m.availability \in Availability /\ MetricValue(m)
CommandGiven(c) ==
    c.sector \in Sectors /\ RevenueInput(c.sector, c.revenue) /\ OperatingCosts(c.costs)
DeploymentGiven(x) ==
    /\ \A key \in DOMAIN x.widths : x.widths[key] \in Widths
    /\ x.income \in Int \ {NoValue} /\ x.scale \in x.budget
    /\ x.dates \in SUBSET Int /\ IsFiniteSet(x.dates)
    /\ IsFiniteSet(x.frame.cells) /\ EvidencePolicy(x.policy)
    /\ \A b, c \in x.frame.cells : b.id = c.id => b = c
    /\ \A c \in x.frame.cells : BoundaryIntersection(c.diagnostic)
    /\ DOMAIN x.quality.coverage \subseteq Categories
    /\ DOMAIN x.quality.qualities \subseteq DOMAIN InputWeight /\ x.quality.age \in Nat \cup {NoAge}
(* A pressure that somebody reduced to a number was calibrated. *)
MeasurementsGiven(s) ==
    /\ \A key \in MetricKeys :
          MetricGiven(s.site[key]) /\ \A c \in s.d.frame.cells : MetricGiven(s.cells[key][c.id].metric)
    /\ s.site["competition_pressure"].value # NoValue =>
           s.site["competition_pressure"].calibration = "calibrated"

ASSUME PipelineAssumption ==
    /\ MaxChanges \in 0..1
    /\ \A s \in Setups :
          /\ s.source \in {"provider", "controlled"} /\ s.granted \subseteq Authorities
          /\ CommandGiven(s.command) /\ DeploymentGiven(s.d) /\ MeasurementsGiven(s)
    /\ \A loaded \in Networks : \A scale \in DOMAIN loaded.areas : loaded.areas[scale] \in Int
    /\ \A loaded \in Feeds : FiniteFeed(loaded.feed)
    /\ \A reply \in NarrativeReplies : reply.model = "answered" =>
          \A s \in NarrativeSections : reply.draft.sections[s] \in Seq([claim: ClaimIds, echoes: BOOLEAN])

VARIABLES setup,      \* the command, the deployment and the authorities of this analysis
          stage,      \* what is done next; "done" when the analysis is over
          evidence,   \* what the providers gave so far
          store,      \* the artifact store
          part,       \* what the objects made so far contain
          seal,       \* what their registries remember
          held,       \* a value computed from authority, before the authority is asked again
          outcome,    \* the end of the analysis
          changes
vars == <<setup, stage, evidence, store, part, seal, held, outcome, changes>>

d == setup.d
granted == setup.granted
command == setup.command

AcquisitionStages ==
    {"geocode", "geography", "acs", "demographics", "isochrone", "network", "overture", "transit",
     "benchmarks"}
ScoringStages ==
    {"measure", "assemble", "readiness", "terminal", "gate", "refuse", "publish_refusal", "score",
     "aggregate", "categories", "aggregated", "adapt", "adapted", "analyze", "analyzed", "complete"}

Nothing == <<>>
Updated(old, new) == [x \in DOMAIN old \cup DOMAIN new |-> IF x \in DOMAIN new THEN new[x] ELSE old[x]]
Undecided == [status |-> "none", body |-> Nothing]

Init ==
    /\ setup \in Setups
    /\ stage = IF setup.source = "provider" THEN "geocode" ELSE "measure"
    /\ evidence = Nothing /\ store = d.pinned
    /\ part = Nothing /\ seal = Nothing /\ held = Nothing
    /\ outcome = Undecided /\ changes = 0

Over(status, body) == outcome' = [status |-> status, body |-> body] /\ stage' = "done"
Raise == Over("failed", stage)

-----------------------------------------------------------------------------
(* Acquisition *)

Policy(provider) == d.persistence[provider]

Acquired(usable, next, new) ==
    /\ IF usable THEN stage' = next /\ evidence' = Updated(evidence, new) /\ UNCHANGED outcome
       ELSE Raise /\ UNCHANGED evidence
    /\ UNCHANGED <<setup, part, seal, held, changes>>

Geocode ==
    /\ stage = "geocode"
    /\ \E reply \in GeocodeReplies :
          /\ store' = store \cup Kept(Policy("census"), "geocode", reply)
          /\ Acquired(/\ Parsed(Policy("census"), reply)
                      /\ GeocodeEvidence(reply.body, d) /\ Accepted(reply.body, d),
                      "geography", [coordinates |-> reply.body.candidates[1].at])

Geography ==
    /\ stage = "geography"
    /\ \E reply \in GeographyReplies :
          /\ store' = store \cup Kept(Policy("census"), "geography", reply)
          /\ Acquired(/\ Parsed(Policy("census"), reply)
                      /\ GeographyEvidence(reply.body, d) /\ InScope(reply.body, d)
                      /\ GeographyRefs(reply.body, d) # {},
                      "acs",
                      [location |-> ResolvedLocation(evidence["coordinates"], reply.body, d),
                       cells |-> {}, answered |-> 0])

Selected == SelectGeography(evidence["location"], d)
Plan == QueryPlan(d.keys, d.widths)

(* One request for each chunk of the plan; all of them before any of the builders. *)
Acs ==
    /\ stage = "acs"
    /\ \E reply \in AcsReplies :
          LET chunk == evidence["answered"] + 1
              plannable == Selected.type # None
          IN /\ store' = IF plannable THEN store \cup Kept(Policy("acs"), AcsRequest(chunk), reply)
                         ELSE store
             /\ Acquired(/\ plannable /\ Parsed(Policy("acs"), reply)
                         /\ StatisticalEvidence(reply.body, Selected, Plan[chunk]),
                         IF chunk < Len(Plan) THEN "acs" ELSE "demographics",
                         [cells |-> evidence["cells"] \cup RowEvidence(reply.body, Plan[chunk]),
                          answered |-> chunk])

Demographics ==
    /\ stage = "demographics"
    /\ Acquired(DemographicEvidence(evidence["cells"], d), "isochrone",
                [demographics |-> DemographicSnapshot(evidence["cells"], Selected, Plan, d)])
    /\ UNCHANGED store

Isochrone ==
    /\ stage = "isochrone"
    /\ \E reply \in IsochroneReplies :
          /\ store' = store \cup Kept(Policy("routing"), "isochrone", reply)
          /\ Acquired(Parsed(Policy("routing"), reply) /\ IsochroneEvidence(reply.body, d.budget),
                      "network", [isochrone |-> reply.body])

(* The network is kept before its policy and the areas are looked at. *)
Network ==
    /\ stage = "network"
    /\ \E loaded \in Networks :
          /\ store' = IF loaded.network.pinned THEN store \cup {RawArtifact("network")} ELSE store
          /\ Acquired(/\ NetworkSource(loaded.network, Policy("network"))
                      /\ FrozenResultAccepted(evidence["isochrone"], loaded.areas, d.budget),
                      "overture",
                      [catchments |-> PedestrianFrozenResult(evidence["coordinates"], loaded.areas,
                                         d.budget, {SourceMetadata("network"), SourceMetadata("isochrone")})])

(* The catchments that the API asks about have no members and no known coverage. *)
Overture ==
    /\ stage = "overture"
    /\ \E partitions \in PartitionSets :
          Acquired(/\ \A p \in partitions :
                         PartitionAccepted(p, RawArtifact(p.artifact) \in store, Policy("overture"), d.release)
                   /\ CompetitionCatchmentPolicy(evidence["catchments"])
                   /\ ~CompetitionRaises(partitions, d),
                   "transit",
                   [partitions |-> partitions,
                    competition |-> CompetitionSnapshot(partitions, MeasurementDefinition(d), d,
                          {SourceMetadata(p.artifact) : p \in partitions})])
    /\ UNCHANGED store

(* Only an intact feed is kept; what it does not say of its validity is unknown, not zero. *)
TransitMetric(feed, reach) ==
    LET refs == {SourceMetadata("gtfs"), SourceMetadata("network"), SourceMetadata("isochrone")}
        validity == Validity(feed, d.dates)
        profile == WeeklyServiceProfile(feed, reach, d.pickups, d.dates)
    IN IF validity \in {"valid", "derived_validity"}
       THEN DiagnosticMetric(MeanDepartures(profile), refs)
       ELSE [value |-> NoValue, availability |-> "unknown",
             quality |-> IF validity = "unknown" THEN "degraded" ELSE "missing",
             eligibility |-> "ineligible", calibration |-> "uncalibrated", is_proxy |-> FALSE,
             refs |-> refs,
             reasons |-> {IF validity = "unknown" THEN "gtfs_validity_unknown"
                          ELSE "gtfs_out_of_validity"}]

Profiled(feed) == Validity(feed, d.dates) \in {"valid", "derived_validity"}

Transit ==
    /\ stage = "transit"
    /\ \E loaded \in Feeds :
          /\ store' = IF loaded.pinned THEN store \cup {RawArtifact("gtfs")} ELSE store
          /\ Acquired(/\ loaded.pinned /\ ParsedFeed(loaded.feed)
                      /\ ReachKnown(loaded.feed, loaded.reach)
                      /\ Profiled(loaded.feed) =>
                             ~ProfileRaises(loaded.feed, loaded.reach, d.pickups, d.dates),
                      "benchmarks",
                      [transit |-> TransitMetric(loaded.feed, loaded.reach), feed |-> loaded])

(* The sources that the finished evidence cites. *)
Sources ==
    {SourceMetadata(r) : r \in {"geocode", "geography", "network", "isochrone", "gtfs"}}
    \cup evidence["demographics"].refs \cup evidence["competition"].refs

Benchmarks ==
    /\ stage = "benchmarks"
    /\ \E keys \in BenchmarkSets :
          Acquired(keys = MetricKeys, "measure", [sources |-> Sources])
    /\ UNCHANGED store

-----------------------------------------------------------------------------
(* The factories: each asks the registries it depends on, makes an object and registers it. *)

Proceed(next, made, registries, holding) ==
    /\ part' = Updated(part, made)
    /\ seal' = Updated(seal, [r \in registries |-> Attested(r, Updated(part, made))])
    /\ held' = holding /\ stage' = next
    /\ UNCHANGED <<setup, evidence, store, outcome, changes>>
Abort == Raise /\ UNCHANGED <<setup, evidence, store, part, seal, held, changes>>
Trusted(registry) == Resolved(registry, part, seal)

(* Measurements of the site and of the cells of the frame, each normalized against its distribution. *)
SiteMetric(key) ==
    CASE setup.source = "provider" /\ key = "household_income" -> evidence["demographics"].income
      [] setup.source = "provider" /\ key = "walkable_reach_area_km2" ->
             evidence["catchments"][d.scale].area
      [] setup.source = "provider" /\ key = "transit_service_departure_equivalents_per_hour" ->
             evidence["transit"]
      [] OTHER -> setup.site[key]
Observed(key, metric, definition, bundle, scope) ==
    [metric |-> metric, roles |-> EvidenceRoles[key], scope |-> scope, refs |-> metric.refs,
     definition |-> definition, bundle |-> bundle]
SiteSubject == [kind |-> "site", scopes |-> {"this-site"}]
SiteMeasurement(key) ==
    Measure(key, SiteSubject,
            Observed(key, SiteMetric(key), MeasurementDefinition(d), d.bundle, "this-site"), granted)

Frame == [d.frame EXCEPT !.cells = IF "frame" \in granted THEN @ ELSE {}]
Lattice ==
    [projection |-> "frame" \in granted, anchored |-> "frame" \in granted,
     resolution |-> [resolved |-> TRUE, size |-> 250]]
Attempt(key, cell) ==
    LET x == setup.cells[key][cell]
        observed == Observed(key, x.metric, x.definition, x.bundle, cell)
    IN [cell |-> cell, frame |-> Frame.id,
        measurement |-> Measure(key, CellSubject(Frame.id, cell, observed), observed, granted)]
Benchmark(key) ==
    LET eligible == EligibleCells(Frame, d.policy, granted)
    IN [key |-> key, frame |-> Frame.id, eligible |-> eligible,
        attempts |-> {Attempt(key, cell) : cell \in eligible}]
Results ==
    [n \in DirectFeatures |-> NormalizeFeature(SiteMeasurement(MetricOf[n]), Benchmark(MetricOf[n]))]

Measured ==
    /\ CommercialFrame(Frame, Lattice, d.policy, granted)
    /\ \A key \in MetricKeys :
          /\ DerivedMetricMeasurement(SiteMeasurement(key), granted)
          /\ BenchmarkMeasurementSet(Benchmark(key))
          /\ \A a \in Benchmark(key).attempts :
                BenchmarkCellMeasurement(a, Benchmark(key).eligible, granted)

MeasureAndNormalize ==
    /\ stage = "measure"
    /\ IF Measured THEN Proceed("assemble", [results |-> Results], {}, Nothing) ELSE Abort

(* The executor passes no benchmark bindings. *)
Bindings(results) ==
    IF "bindings" \in granted THEN {Binding(results[n]) : n \in {CompetitionFeature, TransitFeature}}
    ELSE {}
AssemblyOf(results) == Assemble(results, RoadParkingComposite(granted), Bindings(results))

AssembleFeatures ==
    /\ stage = "assemble"
    /\ LET results == part["results"]
           a == AssemblyOf(results)
       IN IF AssemblyInputs(results, Bindings(results)) /\ NormalizedLocationFeatures(a.features)
          THEN Proceed("readiness",
                       [features |-> a.features,
                        policies |-> [policies |-> a.policies, compatibility |-> a.compatibility,
                                      approved |-> a.approved]],
                       {"assembly"}, Nothing)
          ELSE Abort

DeriveScoringReadiness ==
    /\ stage = "readiness"
    /\ LET r == DeriveReadiness(
                    [features |-> part["features"], policies |-> part["policies"].policies,
                     compatibility |-> part["policies"].compatibility,
                     approved |-> part["policies"].approved])
       IN IF Trusted("assembly") /\ ScoringReadinessResult(r)
          THEN Proceed("terminal", [readiness |-> r], {"readiness"}, Nothing)
          ELSE Abort

(* The road and parking metrics of the terminal are unknown, always. *)
UnknownMetric(reason) ==
    [value |-> NoValue, availability |-> "unknown", quality |-> "missing", eligibility |-> "ineligible",
     calibration |-> "uncalibrated", is_proxy |-> FALSE, refs |-> {}, reasons |-> {reason}]
DerivedMetrics(results) ==
    Updated([road_reachable_area_km2 |-> UnknownMetric("road_reduction_policy_unresolved")],
            [key \in MetricKeys |-> results[CHOOSE n \in DirectFeatures : MetricOf[n] = key].site.metric])

BuildPipelineResult ==
    /\ stage = "terminal"
    /\ LET derived == DerivedMetrics(part["results"])
           t == Terminal(part["features"], part["readiness"], TRUE, derived,
                         [transit |-> d.bundle, competition |-> MeasurementDefinition(d)])
       IN IF /\ Trusted("readiness")
             /\ TerminalAccepted(part["results"], part["readiness"], TRUE, derived)
             /\ RealDataPipelineResult(t)
          THEN Proceed("gate", [terminal |-> [status |-> t.status, sector |-> command.sector]],
                       {"pipeline"}, Nothing)
          ELSE Abort

(* The executor's own look at the terminal; what follows does not rely on it. *)
Gate == GateState(part["terminal"], part["readiness"])
EvaluateGate ==
    /\ stage = "gate"
    /\ CASE Gate = "not_score_ready" -> Proceed("refuse", Nothing, {}, Nothing)
         [] Gate = "eligible" -> Proceed("score", Nothing, {}, Nothing)
         [] OTHER -> Abort

BuildNotScoreReady ==
    /\ stage = "refuse"
    /\ IF Trusted("pipeline") /\ Gate = "not_score_ready"
       THEN Proceed("publish_refusal", [projection |-> Projection(part["readiness"])], {"not_ready"}, Nothing)
       ELSE Abort
PublishNotScoreReady ==
    /\ stage = "publish_refusal"
    /\ IF Trusted("not_ready") /\ Gate = "not_score_ready"
       THEN Over("not_score_ready", part["projection"]) ELSE Raise
    /\ UNCHANGED <<setup, evidence, store, part, seal, held, changes>>

BuildScoringInput ==
    /\ stage = "score"
    /\ IF Trusted("pipeline") /\ BoundGate(seal) = "eligible"
       THEN Proceed("aggregate", Nothing, {"scoring"}, Nothing) ELSE Abort

(* A result is computed between two looks at the authority that it is computed from. *)
BeginAggregation ==
    /\ stage = "aggregate"
    /\ IF Trusted("scoring") THEN Proceed("categories", Nothing, {}, Nothing) ELSE Abort
ComputeCategories ==
    /\ stage = "categories"
    /\ IF MetricScores(part["features"])
       THEN Proceed("aggregated", Nothing, {}, CategoryScoresOf(command.sector, part["features"]))
       ELSE Abort
EndAggregation ==
    /\ stage = "aggregated"
    /\ IF Trusted("scoring") THEN Proceed("adapt", [category |-> held], {"category"}, Nothing) ELSE Abort

Level == IF setup.source = "provider" THEN GeographicLevel(Selected) ELSE d.level
BeginAdapter ==
    /\ stage = "adapt"
    /\ IF Trusted("category")
       THEN Proceed("adapted", Nothing, {},
                    CoreInput(command, seal["category"]["category"], d.quality, Level))
       ELSE Abort
EndAdapter ==
    /\ stage = "adapted"
    /\ IF Trusted("category") /\ AnalysisInput(held)
       THEN Proceed("analyze", [core |-> held], {"core"}, Nothing) ELSE Abort

(* A final score on a threshold may be computed a hair under it. *)
OnThreshold(i) == FinalScore(i.sector, i.scores) \in {StrongMin, ConditionalMin}
AnalyzeCore ==
    /\ stage = "analyze"
    /\ \E below \in BOOLEAN :
          /\ below => OnThreshold(part["core"])
          /\ IF Trusted("core") THEN Proceed("analyzed", Nothing, {}, Analyze(part["core"], below))
             ELSE Abort
EndAnalysis ==
    /\ stage = "analyzed"
    /\ IF Trusted("core") THEN Proceed("complete", [analysis |-> held], {"analysis"}, Nothing) ELSE Abort

BuildCompleted ==
    /\ stage = "complete"
    /\ IF Trusted("analysis") THEN Proceed("report", [body |-> part["analysis"]], {"completed"}, Nothing)
       ELSE Abort

-----------------------------------------------------------------------------
(* The report, and the worker's last look.  The success is recorded by now. *)

GiveUp == Over("retried", stage) /\ UNCHANGED <<setup, evidence, store, part, seal, held, changes>>
FailReport(reason) ==
    Proceed("publish", [report |-> [state |-> "failed", reason |-> reason]], {}, Nothing)

BeginReport ==
    /\ stage = "report"
    /\ IF Trusted("completed") THEN Proceed("facts", Nothing, {}, Nothing) ELSE GiveUp

BeginFacts ==
    /\ stage = "facts"
    /\ IF Trusted("analysis")
       THEN Proceed("projected", Nothing, {}, CanonicalReportFacts(part["analysis"]))
       ELSE FailReport("facts")
EndFacts ==
    /\ stage = "projected"
    /\ IF Trusted("analysis") THEN Proceed("domain", [facts |-> held], {"facts"}, Nothing)
       ELSE FailReport("facts")
BuildDomain ==
    /\ stage = "domain"
    /\ IF Trusted("facts") THEN Proceed("context", Nothing, {"report_domain"}, Nothing)
       ELSE FailReport("domain")

BeginContext ==
    /\ stage = "context"
    /\ IF Trusted("report_domain")
       THEN Proceed("contextual", Nothing, {}, NarrativeContext(part["facts"]))
       ELSE FailReport("context")
EndContext ==
    /\ stage = "contextual"
    /\ IF Trusted("report_domain") /\ ~ContextRaises(held)
       THEN Proceed("ask", [context |-> held], {"context"}, Nothing) ELSE FailReport("context")

(* Without a model the fallback is written at once.  A client that cannot be made, and a context
   with a figure that JSON has no form for, are refusals that no fallback replaces. *)
Ask ==
    /\ stage = "ask"
    /\ \E reply \in NarrativeReplies :
          IF Trusted("context") /\ (reply.model # "unconfigured" =>
                reply.model # "no_client" /\ Publishable(part["analysis"]))
          THEN Proceed("validate", Nothing, {}, reply) ELSE FailReport(reply.model)

(* What the model selected, if it is what the context approves; else the fallback. *)
ValidateDraft ==
    /\ stage = "validate"
    /\ LET context == part["context"]
           usable == held.model = "answered" /\ NarrativeDraft(held.draft) /\ ValidDraft(held.draft, context)
       IN IF Trusted("context") /\ (usable \/ ~FallbackRaises(context))
          THEN Proceed("narrate", Nothing, {}, IF usable THEN held.draft ELSE FallbackDraft(context))
          ELSE FailReport("validate")
Narrate ==
    /\ stage = "narrate"
    /\ IF Trusted("context")
       THEN Proceed("render", [narrative |-> Narrative(held, part["facts"])], {"narrative"}, Nothing)
       ELSE FailReport("narrate")

(* The sources are looked at before the template is filled and after the pages are set. *)
BeginRender ==
    /\ stage = "render"
    /\ IF Trusted("narrative")
       THEN Proceed("rendered", Nothing, {}, [facts |-> part["facts"], narrative |-> part["narrative"]])
       ELSE FailReport("render")
EndRender ==
    /\ stage = "rendered"
    /\ IF Trusted("narrative")
       THEN Proceed("publish", [report |-> Updated(held, [state |-> "ready"])], {}, Nothing)
       ELSE FailReport("render")

(* The pair: the worker asks once more, and the database has no form for an infinite figure. *)
PublishCompleted ==
    /\ stage = "publish"
    /\ IF Trusted("completed") /\ Publishable(part["body"])
       THEN /\ Over("completed", [result |-> part["body"], report |-> part["report"]])
            /\ UNCHANGED <<setup, evidence, store, part, seal, held, changes>>
       ELSE GiveUp

-----------------------------------------------------------------------------
(* Other contents for one of the objects. *)
Overwritten(p) ==
    LET x == part[p]
    IN CASE p = "results" -> [x EXCEPT !["household_income_score"].score = (@ + 1) % 101]
         [] p = "features" -> [x EXCEPT !.metric[CompetitionFeature].value = (@ + 51) % 101]
         [] p = "policies" -> [x EXCEPT !.approved = {}]
         [] p = "terminal" -> [x EXCEPT !.status =
                IF @ = "score_ready" THEN "not_score_ready" ELSE "score_ready"]
         [] p \in {"readiness", "projection"} -> [x EXCEPT !.is_score_ready = ~@]
         [] p = "category" -> [x EXCEPT !.demand = (@ + 500) % 1001]
         [] p = "core" -> [x EXCEPT !.costs.rent = @ + 1]
         [] p \in {"analysis", "body"} -> [x EXCEPT !.decision.class =
                IF @ = "dead_end" THEN "hidden_gem" ELSE "dead_end"]
         [] p = "facts" -> [x EXCEPT !.confidence.label = IF @ = "high" THEN "low" ELSE "high"]
         [] p = "context" -> [x EXCEPT !.claims = ClaimIds \ @]
         [] p = "narrative" -> [x EXCEPT !["risk"] = <<>>, !["caveat"] = <<>>]

Change(p) ==
    /\ stage # "done" /\ changes < MaxChanges /\ \E r \in DOMAIN seal : p \in Attests[r]
    /\ part' = [part EXCEPT ![p] = Overwritten(p)] /\ changes' = changes + 1
    /\ UNCHANGED <<setup, stage, evidence, store, seal, held, outcome>>

Acquisition ==
    \/ Geocode \/ Geography \/ Acs \/ Demographics \/ Isochrone \/ Network \/ Overture \/ Transit
    \/ Benchmarks
Judgement ==
    \/ MeasureAndNormalize \/ AssembleFeatures \/ DeriveScoringReadiness \/ BuildPipelineResult
    \/ EvaluateGate \/ BuildNotScoreReady \/ PublishNotScoreReady
Scored ==
    \/ BuildScoringInput \/ BeginAggregation \/ ComputeCategories \/ EndAggregation
    \/ BeginAdapter \/ EndAdapter \/ AnalyzeCore \/ EndAnalysis \/ BuildCompleted
Reported ==
    \/ BeginReport \/ BeginFacts \/ EndFacts \/ BuildDomain \/ BeginContext \/ EndContext
    \/ Ask \/ ValidateDraft \/ Narrate \/ BeginRender \/ EndRender \/ PublishCompleted

Next == Acquisition \/ Judgement \/ Scored \/ Reported \/ \E p \in Parts : Change(p)
Spec == Init /\ [][Next]_vars

-----------------------------------------------------------------------------
(* Whoever overwrites an object, and whenever: what is published is what follows from the          *)
(* measurements, the benchmarks and the command alone.  A refusal carries the reasons of the same. *)
PublishedIsWhatWasMeasured ==
    /\ outcome.status = "completed" =>
           LET scores == CategoryScoresOf(command.sector, AssemblyOf(Results).features)
           IN \E below \in BOOLEAN :
                 outcome.body.result = Analyze(CoreInput(command, scores, d.quality, Level), below)
    /\ outcome.status = "not_score_ready" =>
           outcome.body = Projection(DeriveReadiness(AssemblyOf(Results)))

(* No score is published, or even recorded as a success, unless the caller brought each of the four *)
(* withheld authorities, which nothing asks for by name: one that is missing is felt three objects  *)
(* later.  Nor does the evidence of the real providers ever score: none of it is eligible.          *)
ScoresNeedAuthority ==
    outcome.status \in {"completed", "retried"} => granted = Authorities /\ setup.source = "controlled"

(* Nothing that a factory makes is refused by the constructor it is handed to: an analysis that     *)
(* nobody interferes with fails only at a provider, and is only retried, which it then is for ever, *)
(* because its figures are not finite.                                                              *)
RaisesOnlyForCause ==
    changes = 0 =>
        /\ outcome.status = "failed" => outcome.body \in AcquisitionStages
        /\ outcome.status = "retried" =>
               \/ FixedCosts(command.costs) = 0
               \/ command.costs.rent > 0 /\ Revenue(command.revenue)["base"] = 0

(* Whatever the language model answers and whoever overwrites an object meanwhile: a ready report    *)
(* states the facts of the result that is published with it, gives that decision and nothing else as *)
(* its summary, makes no claim the result does not support, and says that validation or confidence   *)
(* is lacking in at least one caveat.                                                               *)
Claimed(report) == UNION {{x.claim : x \in ToSet(report.narrative[s])} : s \in NarrativeSections}
ReportSaysWhatWasPublished ==
    outcome.status = "completed" /\ outcome.body.report.state = "ready" =>
        LET report == outcome.body.report
            facts == CanonicalReportFacts(outcome.body.result)
        IN /\ report.facts = facts
           /\ report.narrative["executive_summary"] = <<Sentence("canonical_decision", facts)>>
           /\ Claimed(report) \subseteq ActiveClaims(facts)
           /\ \A s \in NarrativeSections : \A x \in ToSet(report.narrative[s]) :
                  x = Sentence(x.claim, facts) /\ ClaimContract[x.claim].section = s
           /\ report.narrative["caveat"] # <<>>

(* No answer of the language model costs the customer the report; only a client that cannot be       *)
(* made does.                                                                                       *)
ReportIsAlwaysWritten ==
    changes = 0 /\ outcome.status = "completed" /\ outcome.body.report.state = "failed" =>
        outcome.body.report.reason = "no_client"

(* A competition or transit score is earned against cells measured under the site's own definition. *)
ComparedLikeWithLike ==
    changes = 0 /\ "features" \in DOMAIN part =>
        \A n \in {CompetitionFeature, TransitFeature} :
            part["features"].metric[n].value # NoValue =>
                \A cell \in part["results"][n].benchmark.eligible :
                    LET x == setup.cells[MetricOf[n]][cell]
                    IN IF n = CompetitionFeature THEN x.definition = MeasurementDefinition(d)
                       ELSE x.bundle = d.bundle

(* No departure is counted in excess, whatever the reference dates.  When they are consecutive, and  *)
(* no window of a trip is shifted back or by more than a day, every departure on one of them counts,  *)
(* those after midnight, of the service days before it, included.                                     *)
Consecutive(dates) == \A x, y \in dates : x..y \subseteq dates
ShiftedByADayAtMost(feed, reach) ==
    \A trip \in DOMAIN feed.trips :
        feed.trips[trip].windows = {} \/ Contributions(feed, trip, reach, d.pickups) = {}
        \/ Offset(feed, trip, reach, d.pickups) \in 0..HoursPerDay
NoDepartureIsLost ==
    stage = "benchmarks" /\ Profiled(evidence["feed"].feed) =>
        LET feed == evidence["feed"].feed
            reach == evidence["feed"].reach
            profile == WeeklyServiceProfile(feed, reach, d.pickups, d.dates)
            full == Profile(feed, reach, d.pickups, d.dates, EveryServiceDate(feed, reach, d.pickups, d.dates))
        IN /\ \A bin \in Bins : profile[bin] <= full[bin]
           /\ Consecutive(d.dates) /\ ShiftedByADayAtMost(feed, reach) => profile = full

(* What the documents say of any feed: stop times past 24:00 "contribute to following-day clock      *)
(* bins", and the runs of a window are "shifted by the selected reachable stop offset".  Does not     *)
(* hold: the days looked back at know the times of the feed but not the offset, so that a trip that   *)
(* takes days to reach the site loses departures on the first reference dates.                        *)
EveryDepartureCounts ==
    stage = "benchmarks" /\ Profiled(evidence["feed"].feed) /\ Consecutive(d.dates) =>
        LET feed == evidence["feed"].feed
            reach == evidence["feed"].reach
        IN WeeklyServiceProfile(feed, reach, d.pickups, d.dates)
              = Profile(feed, reach, d.pickups, d.dates, EveryServiceDate(feed, reach, d.pickups, d.dates))

(* With everything else as it was published, a better category never makes the location worse. *)
BetterIsNeverWorse ==
    outcome.status = "completed" =>
        LET i == outcome.body.result.input
        IN \A c \in Categories, v \in {50 * k : k \in 0..20} :
              v >= i.scores[c] =>
                  FinalScore(i.sector, [i.scores EXCEPT ![c] = v]) >= FinalScore(i.sector, i.scores)
=============================================================================
