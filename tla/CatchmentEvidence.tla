------------------------- MODULE CatchmentEvidence -------------------------
(***************************************************************************)
(* sitescore-providers, walking and competition: the Valhalla isochrone     *)
(* becomes one catchment and one area for each walking scale, and the       *)
(* pinned Overture partitions become the competition snapshot of those      *)
(* catchments.  A scale is its number of minutes; a geometry is the request *)
(* that answered it; a measurement definition is what its hash covers.      *)
(***************************************************************************)
EXTENDS ProviderEvidence

-----------------------------------------------------------------------------
(* Valhalla: contours, snap, areas *)

(* Every contour answers one requested scale, every scale is answered once. *)
IsochroneEvidence(body, budget) ==
    /\ ToSet(body.contours) = budget
    /\ Len(body.contours) = Cardinality(budget)
    /\ Len(body.points) <= 2
    /\ Len(body.points) = 2 => "exact" \in ToSet(body.points)

(* Two points that are both the input do not say which of them is the snapped node. *)
SnapState(body) ==
    IF Len(body.points) = 2 /\ ToSet(body.points) = {"exact", "snapped"} THEN "resolved" ELSE "unknown"

(* The network file is kept only after it is found to be the pinned one. *)
NetworkSource(network, persistence) == network.pinned /\ persistence = "persist"
AreaEvidence(areas, budget) == DOMAIN areas = budget /\ \A scale \in budget : areas[scale] >= 0

FrozenResultAccepted(body, areas, budget) ==
    ~body.warnings /\ SnapState(body) = "resolved" /\ AreaEvidence(areas, budget)

DiagnosticMetric(value, refs) ==
    [value |-> value, availability |-> "available", quality |-> "full",
     eligibility |-> "diagnostic_only", calibration |-> "uncalibrated", is_proxy |-> FALSE,
     refs |-> refs, reasons |-> {}]

(* One catchment and one snapshot for each scale, both of the origin that was asked for. *)
PedestrianFrozenResult(origin, areas, budget, refs) ==
    [scale \in budget |->
        [catchment |-> [origin |-> origin, scale |-> scale],
         area |-> DiagnosticMetric(areas[scale], refs), refs |-> refs]]

-----------------------------------------------------------------------------
(* Overture: partitions, taxonomy, deduplication *)

OperatingStatuses == {"open", "temporarily_closed", "permanently_closed", "unknown"}
Precedence == <<"hierarchy", "primary", "basic_category">>   \* alternates never decide

PlaceLifecyclePolicy(policy) ==
    /\ policy.active \cap policy.excluded = {}
    /\ "permanently_closed" \in policy.excluded /\ "unknown" \notin policy.active

TaxonomyMapping(rules) ==
    /\ rules # {}
    /\ \A r, q \in rules : r.field = q.field /\ r.category = q.category => r = q
    /\ \A r \in rules : r.state # "conditional" => r.outcome = None

MatchingRules(place, rules, field) == {r \in rules : r.field = field /\ r.category \in place[field]}
TaxonomyMatches(place, rules) ==
    LET hits == {i \in 1..Len(Precedence) : MatchingRules(place, rules, Precedence[i]) # {}}
    IN IF hits = {} THEN {}
       ELSE MatchingRules(place, rules, Precedence[CHOOSE i \in hits : \A j \in hits : i <= j])

(* Rules that disagree decide nothing; a condition decides by its outcome, if it has one. *)
Taxonomy(place, rules) ==
    LET matches == TaxonomyMatches(place, rules)
        states == {r.state : r \in matches}
        outcomes == {r.outcome : r \in matches}
    IN CASE states \in {{"included"}, {"excluded"}} -> CHOOSE v \in states : TRUE
         [] states = {"conditional"} /\ outcomes \in {{"included"}, {"excluded"}} ->
                CHOOSE v \in outcomes : TRUE
         [] OTHER -> "unknown"

Qualifies(place, rules, policy) ==
    CASE place.status \in policy.excluded -> "excluded"
      [] place.status \in policy.active -> Taxonomy(place, rules)
      [] OTHER -> "unknown"

ConflictFree(places) == \A x, y \in places : x.id = y.id => x = y

(* A partition is in the store, its bytes are those of its descriptor, its policy persists. *)
PartitionAccepted(partition, stored, persistence, release) ==
    /\ stored /\ partition.intact
    /\ persistence = "persist"
    /\ \A place \in partition.places : place.release = release
    /\ ConflictFree(partition.places)

Places(partitions) == UNION {p.places : p \in partitions}

-----------------------------------------------------------------------------
(* The competition snapshot *)

MinCompetitionScales == 2
CompetitionCatchmentPolicy(result) ==
    /\ Cardinality(DOMAIN result) >= MinCompetitionScales
    /\ \A scale \in DOMAIN result : result[scale].area.value > 0

(* The hash of the release, the policies and the walking scales: a deployment's, never a site's. *)
MeasurementDefinition(d) == d.definition

CompetitionUnknown(definition, refs) ==
    [definition |-> definition, availability |-> "unknown", curve |-> <<>>, refs |-> refs,
     quality |-> IF refs = {} THEN "missing" ELSE "degraded"]

Members(membership, scale, partitions) == {x \in Places(partitions) : x.id \in membership[scale]}

Unresolved(membership, scale, partitions, d) ==
    \E place \in Members(membership, scale, partitions) :
        Qualifies(place, d.rules, d.lifecycle) = "unknown"

(* With a complete coverage every member must be known, up to the first scale that is unresolved. *)
MembershipKnown(membership, partitions, d) ==
    \A scale \in DOMAIN membership :
        (\A s \in DOMAIN membership : s < scale => ~Unresolved(membership, s, partitions, d)) =>
            membership[scale] \subseteq {x.id : x \in Places(partitions)}
CompetitionRaises(partitions, d) ==
    /\ d.coverage = "sufficient"
    /\ \/ ~ConflictFree(Places(partitions))
       \/ partitions = {}
       \/ ~MembershipKnown(d.membership, partitions, d)

(* Without a complete coverage, or with one member unresolved, there is no curve at all. *)
CompetitionSnapshot(partitions, definition, d, refs) ==
    IF \/ d.coverage # "sufficient"
       \/ \E scale \in DOMAIN d.membership : Unresolved(d.membership, scale, partitions, d)
    THEN CompetitionUnknown(definition, refs)
    ELSE [definition |-> definition, availability |-> "available", quality |-> "full", refs |-> refs,
          curve |-> [scale \in DOMAIN d.membership |->
              Cardinality({place.id : place \in {x \in Members(d.membership, scale, partitions) :
                  Qualifies(x, d.rules, d.lifecycle) = "included"}})]]
=============================================================================
