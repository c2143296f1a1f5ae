-------------------------- MODULE FeatureAssembly --------------------------
(***************************************************************************)
(* sitescore-pipeline: the six normalization results, the age fallback and  *)
(* the road/parking composite become one feature surface with its policies; *)
(* readiness is derived from that surface and the terminal result from the  *)
(* readiness.  Here is what each of them computes; which of them is still   *)
(* the object that its factory made is the matter of ScoreAuthority.        *)
(***************************************************************************)
EXTENDS BenchmarkScores

DirectVersion == "1.0"
AgeFallbackRef == "age-fallback"
CompositeRef == "comb005"
CompositeVersion == "comb005/1.0"

-----------------------------------------------------------------------------
(* A binding names the distribution and the frame of an actual result. *)
Binding(result) == [result |-> result, benchmark |-> result.benchmark, frame |-> result.benchmark.frame,
                    refs |-> {"benchmark-artifact"}]
BenchmarkReferenceBinding(b) == b.benchmark = b.result.benchmark /\ b.frame = b.result.benchmark.frame

\* (mutant) A metric without a score keeps the eligibility of its site.
UnavailableStateStillEligible(result) ==
    LET m == result.site.metric
    IN [availability |-> "unknown", quality |-> "degraded", eligibility |-> m.eligibility,
        calibration |-> m.calibration]
UnavailableState(result) ==
    LET m == result.site.metric
        unknown == IF m.availability = "available" THEN "unknown" ELSE m.availability
    IN CASE result.state = "site_metric_not_available" ->
              [availability |-> unknown,
               quality |-> IF unknown = "unknown" /\ m.quality = "full" THEN "degraded" ELSE m.quality,
               eligibility |-> IF m.eligibility = "eligible" THEN "ineligible" ELSE m.eligibility,
               calibration |-> m.calibration]
         [] result.state = "site_metric_not_eligible" ->
              [availability |-> "unknown", quality |-> "degraded",
               eligibility |-> m.eligibility, calibration |-> m.calibration]
         [] result.state = "site_metric_not_calibrated" ->
              [availability |-> "unknown", quality |-> "degraded",
               eligibility |-> "ineligible", calibration |-> "uncalibrated"]
         [] OTHER ->
              [availability |-> "unknown", quality |-> "degraded",
               eligibility |-> "ineligible", calibration |-> "calibrated"]

DirectMetric(result, bindings) ==
    LET m == result.site.metric
        refs == m.refs \cup UNION {b.refs : b \in {x \in bindings : x.result = result}}
        down == UnavailableState(result)
    IN IF result.state = "available"
       THEN [value |-> result.score, availability |-> "available", quality |-> m.quality,
             eligibility |-> "eligible", calibration |-> "calibrated", is_proxy |-> m.is_proxy,
             refs |-> refs, reasons |-> {}]
       ELSE [value |-> NoValue, availability |-> down.availability, quality |-> down.quality,
             eligibility |-> down.eligibility, calibration |-> down.calibration,
             is_proxy |-> m.is_proxy, refs |-> refs, reasons |-> {result.state}]

AgeMetric ==
    [value |-> 50, availability |-> "available", quality |-> "full", eligibility |-> "eligible",
     calibration |-> "uncalibrated", is_proxy |-> TRUE, refs |-> {AgeFallbackRef},
     reasons |-> {AgeReason}]

RoadParkingMetric(composite) ==
    IF composite.state = "available"
    THEN [value |-> composite.score, availability |-> "available", quality |-> "full",
          eligibility |-> "eligible", calibration |-> "calibrated", is_proxy |-> FALSE,
          refs |-> {CompositeRef}, reasons |-> {}]
    ELSE [value |-> NoValue, availability |-> "unknown", quality |-> "degraded",
          eligibility |-> "ineligible", calibration |-> "uncalibrated", is_proxy |-> FALSE,
          refs |-> {}, reasons |-> {"comb005_policy_not_approved"}]

-----------------------------------------------------------------------------
(* assemble_normalized_location_features *)

(* results: one normalization result for each direct feature; the rest of the metrics follow. *)
Features(results, composite, bindings) ==
    LET metric == [n \in FeatureNames |->
            CASE n \in DirectFeatures -> DirectMetric(results[n], bindings)
              [] n = AgeFeature -> AgeMetric
              [] n = RoadParkingFeature -> RoadParkingMetric(composite)]
        bound(n) == {b \in bindings : b.result = results[n]}
        benchmark(n) == IF bound(n) = {} THEN None ELSE "bound"
        version == IF composite.state = "available" THEN CompositeVersion ELSE None
    IN [metric |-> metric,
        refs |-> UNION {metric[n].refs : n \in FeatureNames},
        benchmark_refs |-> UNION {b.refs : b \in bound(CompetitionFeature) \cup bound(TransitFeature)},
        competition_benchmark |-> benchmark(CompetitionFeature),
        transit_benchmark |-> benchmark(TransitFeature),
        definition |-> results[CompetitionFeature].site.lineage,
        bundle |-> results[TransitFeature].site.lineage,
        version |-> [n \in {CompetitionFeature, TransitFeature, RoadParkingFeature} |->
            IF n = RoadParkingFeature THEN version ELSE DirectVersion]]

Policies(composite) ==
    [n \in FeatureNames |->
        CASE n \in DirectFeatures ->
                [required |-> DirectVersion, resolved |-> DirectVersion, fallback |-> None]
          [] n = AgeFeature ->
                [required |-> DirectVersion, resolved |-> DirectVersion, fallback |-> AgeFallbackPolicy]
          [] n = RoadParkingFeature ->
                [required |-> None, fallback |-> None,
                 resolved |-> IF composite.state = "available" THEN CompositeVersion ELSE None]]

LineageOf(s) == IF BenchmarkLineage(s) = <<>> THEN None ELSE BenchmarkLineage(s)[2]

AssemblyInputs(results, bindings) ==
    /\ DOMAIN results = DirectFeatures
    /\ \A n \in DirectFeatures : FeatureNormalizationResult(results[n]) /\ results[n].site.key = MetricOf[n]
    /\ \A b \in bindings : BenchmarkReferenceBinding(b) /\ \E n \in DirectFeatures : b.result = results[n]
    /\ \A b, c \in bindings : b.result.site.key = c.result.site.key => b = c

Assemble(results, composite, bindings) ==
    [features |-> Features(results, composite, bindings), results |-> results,
     policies |-> Policies(composite),
     compatibility |->
         [definition |-> LineageOf(results[CompetitionFeature].benchmark),
          bundle |-> LineageOf(results[TransitFeature].benchmark)],
     approved |-> {AgeFallbackPolicy}]

-----------------------------------------------------------------------------
(* derive_scoring_readiness and build_real_data_pipeline_result *)

DeriveReadiness(assembly) == Validate(assembly)

(* The terminal's real-unit metrics must be those that were normalized. *)
DerivedMetricsCoherent(results, derived) ==
    \A n \in DirectFeatures : derived[MetricOf[n]] = results[n].site.metric

TerminalAccepted(results, readiness, location, derived) ==
    /\ DerivedMetricsCoherent(results, derived)
    /\ readiness.is_score_ready => location

Terminal(features, readiness, location, derived, evidence) ==
    [status |-> IF readiness.is_score_ready THEN "score_ready" ELSE "not_score_ready",
     location |-> location, readiness |-> readiness, features |-> features, derived |-> derived,
     transit |-> evidence.transit, competition |-> evidence.competition]
=============================================================================
