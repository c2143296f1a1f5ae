-------------------------- MODULE BenchmarkScores --------------------------
(***************************************************************************)
(* sitescore-metrics and sitescore-benchmarks: what one measurement says,   *)
(* which cells of a commercial frame may be compared with, the distribution *)
(* of their measurements, and the score a site earns against it.            *)
(*                                                                         *)
(* This release withholds four authorities on purpose (it refuses a         *)
(* resolved frame, a resolved reduction of three of the metrics, an         *)
(* approved road/parking composite, and it binds no benchmark reference).   *)
(* granted names those that the caller replaced by a controlled object, as  *)
(* the test suites do; {} is the release as it is shipped.  Identities are  *)
(* hashes of content and are modelled by the content itself.                *)
(***************************************************************************)
EXTENDS SiteFeatures

Authorities == {"frame", "reductions", "composite", "bindings"}

-----------------------------------------------------------------------------
(* sitescore-metrics *)

EvidenceRoles ==
    [walkable_population |-> {"demographic_snapshot", "isochrone_snapshot"},
     target_population_density |-> {"demographic_snapshot"},
     household_income |-> {"demographic_snapshot"},
     competition_pressure |-> {"competition_snapshot"},
     walkable_reach_area_km2 |-> {"isochrone_snapshot"},
     transit_service_departure_equivalents_per_hour |-> {"transit_snapshot"}]
MetricKeys == DOMAIN EvidenceRoles

PassThroughMetrics ==
    {"household_income", "walkable_reach_area_km2",
     "transit_service_departure_equivalents_per_hour"}
UnresolvedReason ==
    [walkable_population |-> "population_allocation_policy_unresolved",
     target_population_density |-> "target_population_definition_unresolved",
     competition_pressure |-> "competition_reduction_policy_unresolved"]

IsResolved(key, granted) == key \in PassThroughMetrics \/ "reductions" \in granted

(* Transit and competition carry the lineage that their comparison demands. *)
RequiredLineage(key, evidence) ==
    CASE key = "transit_service_departure_equivalents_per_hour" -> evidence.bundle
      [] key = "competition_pressure" -> evidence.definition
      [] OTHER -> None

UnresolvedValue(key, evidence) ==
    [value |-> NoValue, availability |-> "unknown", quality |-> "missing",
     eligibility |-> "ineligible", calibration |-> "uncalibrated", is_proxy |-> FALSE,
     refs |-> evidence.refs, reasons |-> {UnresolvedReason[key]}]

(* evidence: the snapshots one metric is measured from, with the value the provider derived. *)
Measure(key, subject, evidence, granted) ==
    [key |-> key, subject |-> subject, evidence |-> evidence, lineage |-> RequiredLineage(key, evidence),
     metric |-> IF IsResolved(key, granted) THEN evidence.metric ELSE UnresolvedValue(key, evidence)]

DerivedMetricMeasurement(x, granted) ==
    /\ MetricValue(x.metric)
    /\ x.evidence.roles = EvidenceRoles[x.key]
    /\ x.metric.availability = "available" => IsResolved(x.key, granted)
    /\ x.lineage = RequiredLineage(x.key, x.evidence)
    /\ IF IsResolved(x.key, granted)
       THEN x.metric = x.evidence.metric /\ x.evidence.scope \in x.subject.scopes
       ELSE x.metric = UnresolvedValue(x.key, x.evidence)

-----------------------------------------------------------------------------
(* The commercial frame *)

ProjectionPolicy(resolved, granted) == resolved => "frame" \in granted
CellResolutionPolicy(p) == p.resolved <=> p.size > 0
LatticeResolved(lattice) == lattice.projection /\ lattice.resolution.resolved
LatticePolicy(lattice, granted) ==
    /\ ProjectionPolicy(lattice.projection, granted)
    /\ CellResolutionPolicy(lattice.resolution)
    /\ lattice.anchored <=> LatticeResolved(lattice)
LatticeCellArtifact(lattice) == LatticeResolved(lattice)

(* Evidence is classified and applied to a cell by policies this release leaves unresolved. *)
Classification(record, granted) ==
    IF "frame" \in granted THEN record.disposition ELSE "unresolved"
Applicability(record, granted) ==
    IF "frame" \in granted THEN record.applicability ELSE "unresolved"
EvidenceItem(record, granted) ==
    [class |-> record.class, disposition |-> Classification(record, granted),
     applicability |-> Applicability(record, granted)]

EvidencePolicy(policy) == policy.conflict = "unknown" /\ policy.insufficient = "unknown"
CellEligibility(items, policy) ==
    LET usable == {i \in items : i.applicability = "applicable" /\ i.disposition # "unresolved"}
        positive == \E i \in usable : i.disposition = "positive" /\ i.class \in policy.positive
        exclusion == \E i \in usable :
                        i.disposition = "explicit_exclusion" /\ i.class \in policy.exclusion
    IN CASE positive /\ ~exclusion -> "eligible"
         [] exclusion /\ ~positive -> "ineligible"
         [] OTHER -> "unknown"

BoundaryIntersection(d) ==
    IF d.available THEN d.cell > 0 /\ d.intersection \in 0..d.cell
    ELSE d.cell = NoValue /\ d.intersection = NoValue
BoundaryMembership(cell, granted) == IF "frame" \in granted THEN cell.membership ELSE "unresolved"

FrameCell(cell, policy, granted) ==
    [id |-> cell.id, membership |-> BoundaryMembership(cell, granted),
     eligibility |-> CellEligibility({EvidenceItem(r, granted) : r \in cell.records}, policy)]
CommercialFrame(frame, lattice, policy, granted) ==
    /\ LatticePolicy(lattice, granted) /\ EvidencePolicy(policy)
    /\ frame.cells # {} => LatticeCellArtifact(lattice)
    /\ \A c \in frame.cells : BoundaryIntersection(c.diagnostic)
    /\ Cardinality({c.id : c \in frame.cells}) = Cardinality(frame.cells)
EligibleCells(frame, policy, granted) ==
    {c.id : c \in {FrameCell(x, policy, granted) :
        x \in {y \in frame.cells : LET f == FrameCell(y, policy, granted)
                                 IN f.membership = "member" /\ f.eligibility = "eligible"}}}

-----------------------------------------------------------------------------
(* Attempts, population and distribution *)

CellSubject(frame, cell, evidence) ==
    [kind |-> "benchmark_cell", cell |-> cell, frame |-> frame, scopes |-> {evidence.scope}]

BenchmarkCellMeasurement(a, eligible, granted) ==
    /\ a.cell \in eligible
    /\ DerivedMetricMeasurement(a.measurement, granted)
    /\ a.measurement.subject = CellSubject(a.frame, a.cell, a.measurement.evidence)

BenchmarkMeasurementSet(s) ==
    /\ {a.cell : a \in s.attempts} = s.eligible
    /\ Cardinality(s.attempts) = Cardinality(s.eligible)
    /\ \A a \in s.attempts : a.frame = s.frame /\ a.measurement.key = s.key

Included(m) == m.value # NoValue /\ m.eligibility = "eligible" /\ m.calibration = "calibrated"
Candidates(s) == {a \in s.attempts : Included(a.measurement.metric)}
Compatibility(x) == <<x.key, x.lineage>>
HasConflict(s) == Cardinality({Compatibility(a.measurement) : a \in s.attempts}) > 1

DistributionState(s) ==
    CASE s.eligible = {} -> "empty_eligible_population"
      [] s.eligible # {} /\ HasConflict(s) -> "incompatible_measurement_lineage"
      [] s.eligible # {} /\ ~HasConflict(s) /\ Candidates(s) = {} -> "no_numeric_observations"
      [] OTHER -> "available"

BenchmarkLineage(s) ==
    IF HasConflict(s) \/ s.attempts = {} THEN <<>>
    ELSE Compatibility((CHOOSE a \in s.attempts : TRUE).measurement)

(* The mid-ECDF: the share of the observations below the site plus half of the share equal to it. *)
Percentile(value, s) ==
    LET number(a) == a.measurement.metric.value
        below == Cardinality({a \in Candidates(s) : number(a) < value})
        equal == Cardinality({a \in Candidates(s) : number(a) = value})
    IN (100 * (2 * below + equal)) \div (2 * Cardinality(Candidates(s)))

-----------------------------------------------------------------------------
(* Normalization of one site measurement against one distribution *)

LowerIsBetter == {"competition_pressure"}
TransformPercentile(key, percentile) ==
    IF key \in LowerIsBetter THEN 100 - percentile ELSE percentile

SiteGate(m) ==
    CASE m.value = NoValue \/ m.availability # "available" -> "site_metric_not_available"
      [] m.value # NoValue /\ m.eligibility # "eligible" -> "site_metric_not_eligible"
      [] m.value # NoValue /\ m.eligibility = "eligible" /\ m.calibration # "calibrated" ->
             "site_metric_not_calibrated"
      [] OTHER -> "open"

\* (mutant) The lineage of the benchmark is not compared with the site's.
NormalizationStateOfAnyLineage(site, s) ==
    LET gate == SiteGate(site.metric)
    IN CASE gate # "open" -> gate
         [] gate = "open" /\ DistributionState(s) # "available" -> "benchmark_not_available"
         [] OTHER -> "available"
NormalizationState(site, s) ==
    LET gate == SiteGate(site.metric)
    IN CASE gate # "open" -> gate
         [] gate = "open" /\ DistributionState(s) # "available" -> "benchmark_not_available"
         [] gate = "open" /\ DistributionState(s) = "available"
                /\ Compatibility(site) # BenchmarkLineage(s) -> "incompatible"
         [] OTHER -> "available"

NormalizeFeature(site, s) ==
    LET state == NormalizationState(site, s)
    IN [site |-> site, benchmark |-> s, state |-> state,
        score |-> IF state = "available"
                  THEN TransformPercentile(site.key, Percentile(site.metric.value, s)) ELSE NoValue]

FeatureNormalizationResult(r) ==
    r.site.subject.kind = "site" /\ r.site.key = r.benchmark.key /\ r.score \in {NoValue} \cup 0..100

(* COMB-005 is never approved: its result has no score whatever its components say. *)
\* (mutant) A composite that nobody approved is available.
RoadParkingCompositeApproved(granted) == [state |-> "available", score |-> 50]
RoadParkingComposite(granted) ==
    IF "composite" \in granted
    THEN [state |-> "available", score |-> 50] ELSE [state |-> "policy_not_approved", score |-> NoValue]
=============================================================================
