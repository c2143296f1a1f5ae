-------------------------- MODULE ProviderEvidence --------------------------
(***************************************************************************)
(* sitescore-providers, the part every provider shares and the two Census   *)
(* providers: what a client makes of one HTTP answer, what it keeps, and    *)
(* how the geocoder, the geography lookup and the ACS tables become the     *)
(* resolved location and the demographic snapshot.  An answer is a record   *)
(* of what the parsers can tell apart; a parser that raises is a predicate. *)
(***************************************************************************)
EXTENDS SiteFeatures, SequencesExt

CONSTANT MaxVariables     \* the columns that one ACS request may ask for; 50 in the program
ASSUME MaxVariablesAssumption == MaxVariables \in Nat /\ MaxVariables >= 4

PersistenceClasses == {"persist", "transient", "source_policy", "do_not_persist"}
HttpOutcomes == {"answered", "unreachable", "cut_short", "rate_limited", "denied",
                 "server_error", "rejected", "no_edges_near"}

-----------------------------------------------------------------------------
(* One acquisition: the policy is asked before the provider is. *)

PersistenceAllowed(persistence) == persistence \in {"persist", "transient"}
PolicyRejection(persistence) ==
    [source_policy |-> "persistence_policy_unresolved",
     do_not_persist |-> "artifact_persistence_required"][persistence]

(* Valhalla's error 171 says that no walkable edge is near, which is not a reach of zero. *)
ProviderFailure ==
    [unreachable |-> [code |-> "transport_unavailable", retryable |-> TRUE],
     rate_limited |-> [code |-> "http_429", retryable |-> TRUE],
     denied |-> [code |-> "http_authentication", retryable |-> FALSE],
     server_error |-> [code |-> "http_server_error", retryable |-> TRUE],
     rejected |-> [code |-> "http_request_rejected", retryable |-> FALSE],
     no_edges_near |-> [code |-> "no_suitable_edges_near_location", retryable |-> FALSE]]

(* The transport turns a refused or timed out call into a failure; a body cut short escapes it. *)
UrllibHTTPTransport(http) == IF http = "cut_short" THEN "raised" ELSE "returned"

Acquire(persistence, http) ==
    CASE ~PersistenceAllowed(persistence) ->
            [state |-> "policy_rejection", reason |-> PolicyRejection(persistence)]
      [] PersistenceAllowed(persistence) /\ UrllibHTTPTransport(http) = "raised" ->
            [state |-> "raised", reason |-> http]
      [] PersistenceAllowed(persistence) /\ http \in DOMAIN ProviderFailure ->
            [state |-> "provider_failure", reason |-> ProviderFailure[http].code]
      [] OTHER -> [state |-> "success", reason |-> None]

(* The store is addressed by content: what one request was answered, raw and as it was parsed. *)
RawArtifact(request) == <<"raw", request>>
ParsedArtifact(request) == <<"parsed", request>>
Garbage == [garbled |-> TRUE]     \* not UTF-8, not JSON, or not the root the parser expects

Kept(persistence, request, reply) ==
    {a \in {RawArtifact(request), ParsedArtifact(request)} :
        /\ Acquire(persistence, reply.http).state = "success"
        /\ a = ParsedArtifact(request) => reply.body # Garbage}
HasArtifact(persistence, reply) == Acquire(persistence, reply.http).state = "success"
Parsed(persistence, reply) == HasArtifact(persistence, reply) /\ reply.body # Garbage

(* A source is named after the raw artifact that its metadata describes. *)
SourceMetadata(request) == request

-----------------------------------------------------------------------------
(* Census: geocode, geography, resolved location *)

MatchState(body) ==
    CASE Len(body.candidates) = 0 -> "no_match"
      [] Len(body.candidates) = 1 -> "matched"
      [] OTHER -> "ambiguous"

GeocodeEvidence(body, d) == body.benchmark = d.benchmark
Accepted(body, d) ==
    /\ MatchState(body) = "matched"
    /\ d.match_types # {} => body.candidates[1].type \in d.match_types

(* Each layer answers under one of its keys, once; a required layer must answer. *)
Answers(body, layer) == {k \in layer.keys : body.records[k] # <<>>}
GeographyEvidence(body, d) ==
    /\ body.benchmark = d.benchmark /\ body.vintage = d.vintage
    /\ \A layer \in d.layers :
          /\ \A k \in layer.keys : Len(body.records[k]) <= 1
          /\ Cardinality(Answers(body, layer)) <= 1
          /\ layer.required => Answers(body, layer) # {}

GeographyRecord(type, geoid, d) ==
    [type |-> type, geoid |-> geoid, country |-> "US", version |-> d.vintage]
Nation == [id |-> "US", numeric |-> FALSE, length |-> 2, in_scope |-> TRUE]
GeographyRecords(body, d) ==
    {GeographyRecord(layer.type, body.records[CHOOSE k \in Answers(body, layer) : TRUE][1], d) :
        layer \in {l \in d.layers : Answers(body, l) # {}}}

(* Without a state nothing is resolved; a state outside the fifty and DC is refused. *)
GeographyRefs(body, d) ==
    LET records == GeographyRecords(body, d)
    IN IF \E r \in records : r.type = "state"
       THEN records \cup {GeographyRecord("country", Nation, d)} ELSE {}
InScope(body, d) == \A r \in GeographyRecords(body, d) : r.type = "state" => r.geoid.in_scope

ResolvedLocation(coordinates, body, d) ==
    [coordinates |-> coordinates, refs |-> GeographyRefs(body, d)]

-----------------------------------------------------------------------------
(* ACS: which geography, which requests, what one row says *)

GeoidLength == [tract |-> 11, block_group |-> 12]

SupportedGeography(ref, d) ==
    /\ ref.country = "US" /\ ref.type \in d.supported /\ ref.version \in d.versions
    /\ ref.geoid.numeric /\ ref.geoid.length = GeoidLength[ref.type]

SupportedRefs(location, d, type) == {r \in location.refs : r.type = type /\ SupportedGeography(r, d)}
(* None, or the finest of the two geographies that the manifest supports. *)
SelectGeography(location, d) ==
    CASE SupportedRefs(location, d, "block_group") # {} ->
            CHOOSE r \in SupportedRefs(location, d, "block_group") : TRUE
      [] SupportedRefs(location, d, "block_group") = {} /\ SupportedRefs(location, d, "tract") # {} ->
            CHOOSE r \in SupportedRefs(location, d, "tract") : TRUE
      [] OTHER -> [type |-> None]

GeographicLevel(ref) == IF ref.type = "zcta" THEN "zip" ELSE ref.type

(* An estimate and its margin of error, and an annotation for each if the manifest has it. *)
Widths == 2..4
Width(widths, chunk) == FoldLeft(LAMBDA total, key : total + widths[key], 0, chunk)

(* Greedy chunks over the sorted keys: a variable's columns are never split across requests. *)
QueryPlan(keys, widths) ==
    LET add(chunks, key) ==
            LET current == chunks[Len(chunks)]
            IN IF current # <<>> /\ Width(widths, current) + widths[key] > MaxVariables
               THEN Append(chunks, <<key>>)
               ELSE [chunks EXCEPT ![Len(chunks)] = Append(current, key)]
    IN FoldLeft(add, <<<<>>>>, keys)
CellState(cell) ==
    CASE cell \in {"null", "-666666666"} -> "missing"
      [] cell = "-999999999" -> "suppressed"
      [] cell = "-888888888" -> "not_applicable"
      [] cell = "annotated" -> "annotated"
      [] OTHER -> "value"

StatisticalEvidence(body, geography, chunk) ==
    /\ body.header = "exact" /\ Len(body.rows) <= 1
    /\ \A i \in 1..Len(body.rows) :
          /\ body.rows[i].geoid = geography.geoid
          /\ \A j \in 1..Len(chunk) : body.rows[i].cells[chunk[j]] # "text"
(* A row gives every variable of its request; no row gives none. *)
RowEvidence(body, chunk) ==
    IF body.rows = <<>> THEN {} ELSE {<<chunk[j], body.rows[1].cells[chunk[j]]>> : j \in 1..Len(chunk)}

EvidenceBundle(evidence, keys) ==
    /\ {e[1] : e \in evidence} = {keys[i] : i \in 1..Len(keys)}
    /\ Cardinality({e[1] : e \in evidence}) = Cardinality(evidence)
Cell(evidence, key) == (CHOOSE e \in evidence : e[1] = key)[2]

(* Only a whole, non-negative value counts people; what is missing is not zero. *)
CountsPeople(cell) == CellState(cell) = "value" /\ cell \notin {"negative", "fraction"}
DemographicEvidence(evidence, d) ==
    /\ EvidenceBundle(evidence, d.keys)
    /\ \A key \in d.age_components \cup {"total_population"} : CountsPeople(Cell(evidence, key))

AcsMetric(state, number, refs) ==
    LET metric(availability, quality, eligibility, calibration, reasons) ==
            [value |-> IF state = "value" THEN number ELSE NoValue, availability |-> availability,
             quality |-> quality, eligibility |-> eligibility, calibration |-> calibration,
             is_proxy |-> FALSE, refs |-> refs, reasons |-> reasons]
    IN CASE state = "value" -> metric("available", "full", "diagnostic_only", "uncalibrated", {})
         [] state \in {"missing", "suppressed"} ->
                metric("missing", "missing", "ineligible", "uncalibrated", {[missing |-> "acs_missing", suppressed |-> "acs_suppressed"][state]})
         [] state = "not_applicable" ->
                metric("not_applicable", "not_applicable", "not_applicable", "not_applicable", {})
         [] OTHER -> metric("unknown", "degraded", "ineligible", "uncalibrated",
                            {"acs_annotated_or_special"})

AcsRequest(chunk) == <<"acs-1", "acs-2", "acs-3">>[chunk]    \* no manifest here has more chunks
DemographicSnapshot(evidence, geography, plan, d) ==
    LET income == CellState(Cell(evidence, "household_income"))
        source(key) == SourceMetadata(AcsRequest(CHOOSE i \in DOMAIN plan : key \in ToSet(plan[i])))
        plain == \A e \in evidence : CellState(e[2]) = "value"
    IN [geography |-> geography, refs |-> {SourceMetadata(AcsRequest(i)) : i \in DOMAIN plan},
        income |-> AcsMetric(income, d.income, {source("household_income")}),
        quality |-> IF plain THEN "full" ELSE "degraded"]
=============================================================================
