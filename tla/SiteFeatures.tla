---------------------------- MODULE SiteFeatures ----------------------------
(***************************************************************************)
(* The contracts of sitescore-data: a metric value with its four states,    *)
(* the derived and the normalized feature surface, the readiness validator  *)
(* and the terminal envelope.  A constructor that validates its fields is a *)
(* predicate here, a function that computes is an operator.  Lists whose    *)
(* order carries no meaning are sets; scores are whole percents.            *)
(***************************************************************************)
EXTENDS Integers, FiniteSets

NoValue == -1        \* a metric's None
None == "none"       \* the None of references, versions and identities

Availability == {"available", "missing", "unavailable", "unknown", "not_applicable"}
Quality == {"full", "degraded", "missing", "not_applicable"}
Eligibility == {"eligible", "diagnostic_only", "ineligible", "not_applicable"}
Calibration == {"calibrated", "uncalibrated", "not_applicable"}

AllowedQuality ==
    [available |-> {"full", "degraded"}, missing |-> {"missing"}, unavailable |-> {"missing"},
     unknown |-> {"degraded", "missing"}, not_applicable |-> {"not_applicable"}]

MetricValue(m) ==
    /\ m.availability = "not_applicable" =>
           m.eligibility = "not_applicable" /\ m.calibration = "not_applicable"
    /\ m.availability # "available" => m.eligibility # "eligible"
    /\ m.availability = "available" <=> m.value # NoValue
    /\ m.availability = "available" => m.refs # {}
    /\ m.quality \in AllowedQuality[m.availability]

-----------------------------------------------------------------------------
(* Feature surfaces *)

CompetitionFeature == "competition_opportunity_score"
TransitFeature == "transit_access_score"
AgeFeature == "age_target_concentration_score"
RoadParkingFeature == "road_parking_access_score"
DirectFeatures == {"walkable_population_score", "target_population_density_score",
                   CompetitionFeature, "walkable_reach_area_score", TransitFeature,
                   "household_income_score"}
FeatureNames == DirectFeatures \cup {AgeFeature, RoadParkingFeature}

MetricOf ==
    [walkable_population_score |-> "walkable_population",
     target_population_density_score |-> "target_population_density",
     competition_opportunity_score |-> "competition_pressure",
     walkable_reach_area_score |-> "walkable_reach_area_km2",
     transit_access_score |-> "transit_service_departure_equivalents_per_hour",
     household_income_score |-> "household_income"]

AgeReason == "age_affinity_not_calibrated"
AgeFallbackPolicy == "age_neutral_fallback/1.0"

DerivedLocationMetrics(d) ==
    /\ \A k \in DOMAIN d : MetricValue(d[k])
    /\ \A k \in {"competition_pressure", "road_reachable_area_km2"} :
           d[k].value # NoValue => d[k].calibration = "calibrated"

NormalizedScore(m) == MetricValue(m) /\ m.value \in {NoValue} \cup 0..100

NeutralAge(m) == m.value = 50 /\ m.is_proxy /\ AgeReason \in m.reasons

NormalizedLocationFeatures(f) ==
    /\ \A n \in FeatureNames : NormalizedScore(f.metric[n]) /\ f.metric[n].refs \subseteq f.refs
    /\ LET age == f.metric[AgeFeature]
       IN age.value # NoValue /\ age.calibration = "uncalibrated" => NeutralAge(age)
    /\ f.benchmark_refs \subseteq f.refs

-----------------------------------------------------------------------------
(* ScoringReadinessValidator.validate *)

ResolvedVersion(f, n, policy) ==
    IF n \in {CompetitionFeature, TransitFeature, RoadParkingFeature}
    THEN f.version[n] ELSE policy.resolved

VersionReasons(resolved, policy) ==
    {r \in {"policy_not_configured", "policy_version_mismatch"} :
        /\ policy.required # None /\ resolved # policy.required
        /\ r = "policy_not_configured" <=> resolved = None}

StateReasons(m) ==
    {r \in {"missing_required_feature", "insufficient_data_quality",
            "feature_diagnostic_only", "feature_ineligible"} :
        \/ r = "missing_required_feature" /\ m.availability # "available"
        \/ r = "insufficient_data_quality" /\ m.quality \notin {"full", "degraded"}
        \/ r = "feature_diagnostic_only" /\ m.eligibility = "diagnostic_only"
        \/ r = "feature_ineligible" /\ m.eligibility \notin {"eligible", "diagnostic_only"}}

ValidAgeFallback(n, m, policy, approved) ==
    /\ n = AgeFeature /\ policy.fallback = AgeFallbackPolicy /\ policy.fallback \in approved
    /\ NeutralAge(m) /\ m.availability = "available" /\ m.eligibility = "eligible"

CalibrationReasons(n, m, policy, approved) ==
    {r \in {"feature_uncalibrated", "age_fallback_policy_invalid"} :
        /\ m.calibration = "uncalibrated" /\ ~ValidAgeFallback(n, m, policy, approved)
        /\ r = "feature_uncalibrated" \/ (n = AgeFeature /\ policy.fallback # None)}

CompetitionReasons(f, compatibility) ==
    IF \/ None \in {f.competition_benchmark, f.definition, compatibility.definition}
       \/ f.definition # compatibility.definition
    THEN {"competition_measurement_mismatch"} ELSE {}

TransitReasons(f, compatibility) ==
    IF \/ None \in {f.transit_benchmark, f.bundle, compatibility.bundle}
       \/ f.bundle # compatibility.bundle
    THEN {"transit_source_bundle_mismatch"} ELSE {}

RoadParkingReasons(f) ==
    LET m == f.metric[RoadParkingFeature]
    IN IF /\ m.availability = "available" /\ m.eligibility = "eligible"
          /\ m.calibration = "calibrated" /\ f.version[RoadParkingFeature] # None
       THEN {} ELSE {"road_parking_composite_unavailable"}

FeatureReasons(f, n, policy, compatibility, approved) ==
    VersionReasons(ResolvedVersion(f, n, policy), policy)
    \cup StateReasons(f.metric[n])
    \cup CalibrationReasons(n, f.metric[n], policy, approved)
    \cup (CASE n = CompetitionFeature -> CompetitionReasons(f, compatibility)
            [] n = TransitFeature -> TransitReasons(f, compatibility)
            [] n = RoadParkingFeature -> RoadParkingReasons(f)
            [] OTHER -> {})

(* Readiness demands a policy for exactly the eight features and lets an approval name only the age. *)
Validate(a) ==
    LET reasons == [n \in FeatureNames |->
            FeatureReasons(a.features, n, a.policies[n], a.compatibility, a.approved)]
    IN [is_score_ready |-> UNION {reasons[n] : n \in FeatureNames} = {},
        reasons |-> reasons,
        missing |-> {n \in FeatureNames : a.features.metric[n].availability # "available"},
        insufficient |-> {n \in FeatureNames :
            a.features.metric[n].quality \notin {"full", "degraded"}}]

ScoringReadinessResult(r) ==
    /\ r.missing = {n \in FeatureNames : "missing_required_feature" \in r.reasons[n]}
    /\ r.insufficient = {n \in FeatureNames : "insufficient_data_quality" \in r.reasons[n]}
    /\ r.is_score_ready <=> \A n \in FeatureNames : r.reasons[n] = {}

-----------------------------------------------------------------------------
(* RealDataPipelineResult *)

ScoreReadyTerminal(t) == t.location /\ t.readiness.is_score_ready

LineageMatches(t) ==
    /\ None \in {t.features.bundle, t.transit} \/ t.features.bundle = t.transit
    /\ None \in {t.features.definition, t.competition} \/ t.features.definition = t.competition

RealDataPipelineResult(t) ==
    /\ LineageMatches(t) /\ DerivedLocationMetrics(t.derived)
    /\ IF t.status = "score_ready" THEN ScoreReadyTerminal(t) ELSE ~t.readiness.is_score_ready

ReadyCategoryScorePayload(readiness, scores) ==
    readiness.is_score_ready /\ \A c \in DOMAIN scores : scores[c] \in 0..100
=============================================================================
