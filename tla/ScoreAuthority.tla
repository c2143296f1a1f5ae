--------------------------- MODULE ScoreAuthority ---------------------------
(***************************************************************************)
(* sitescore-app, the outcomes of sitescore-api and sitescore-report: from    *)
(* the terminal result to what is published.  Every object of the chain is made *)
(* by a factory that records, in a registry of its own, what it attests;     *)
(* whoever consumes an object asks its registry, and the registries that     *)
(* one rests on, whether those contents are still what they were.  part is   *)
(* what the objects contain now, seal what each registry remembers.          *)
(***************************************************************************)
EXTENDS FeatureAssembly, CoreAnalysis

(* Which contents a registry attests, and which other registries it asks. *)
Attests ==
    [assembly |-> {"results", "features", "policies"}, readiness |-> {"readiness"},
     pipeline |-> {"terminal", "features", "readiness"}, scoring |-> {},
     category |-> {"category"}, core |-> {"core"}, analysis |-> {"analysis"},
     completed |-> {"body"}, not_ready |-> {"projection"},
     facts |-> {"facts"}, report_domain |-> {"facts"}, context |-> {"context"},
     narrative |-> {"narrative"}]
Registries == DOMAIN Attests
Parts == UNION {Attests[r] : r \in Registries}

Scoring == {"scoring", "pipeline"}
Analysis == {"analysis", "core", "category"} \cup Scoring
ReportDomain == {"report_domain", "facts"} \cup Analysis
Consults ==
    [assembly |-> {"assembly"}, readiness |-> {"readiness", "assembly"}, pipeline |-> {"pipeline"},
     scoring |-> Scoring, category |-> {"category"} \cup Scoring,
     core |-> {"core", "category"} \cup Scoring,
     analysis |-> Analysis, completed |-> {"completed"} \cup Analysis,
     not_ready |-> {"not_ready", "pipeline"},
     facts |-> {"facts"} \cup Analysis, report_domain |-> ReportDomain,
     context |-> {"context"} \cup ReportDomain,
     narrative |-> {"narrative", "context"} \cup ReportDomain]

Attested(registry, part) == [p \in Attests[registry] |-> part[p]]
\* (mutant) An object is trusted on its own word, without those that it rests on.
ResolvedAlone(registry, part, seal) ==
    registry \in DOMAIN seal /\ \A p \in Attests[registry] : part[p] = seal[registry][p]
Resolved(registry, part, seal) ==
    \A r \in Consults[registry] : r \in DOMAIN seal /\ \A p \in Attests[r] : part[p] = seal[r][p]

-----------------------------------------------------------------------------
(* The application gate *)

(* What the gate says of a terminal as it is; it grants nothing. *)
GateState(terminal, readiness) ==
    CASE terminal.status = "not_score_ready" -> "not_score_ready"
      [] terminal.status # "not_score_ready" /\ readiness.is_score_ready -> "eligible"
      [] OTHER -> "inconsistent_terminal_state"
(* The gate of the factory looks at what was registered instead. *)
BoundGate(seal) == GateState(seal["pipeline"]["terminal"], seal["pipeline"]["readiness"])

Projection(readiness) ==
    [is_score_ready |-> readiness.is_score_ready,
     reasons |-> UNION {readiness.reasons[n] : n \in FeatureNames}]

-----------------------------------------------------------------------------
(* Category aggregation: tenths of a point from whole percents and tenths of a weight. *)

DemandWeight ==
    [coffee |-> <<7, 2, 1>>, restaurant |-> <<5, 3, 2>>, gym |-> <<3, 4, 3>>, beauty |-> <<2, 4, 4>>]
AccessibilityWeight ==
    [coffee |-> <<5, 3, 2>>, restaurant |-> <<4, 3, 3>>, gym |-> <<1, 2, 7>>, beauty |-> <<1, 2, 7>>]

MetricScores(features) == \A n \in FeatureNames : features.metric[n].value \in 0..100

CategoryScoresOf(sector, features) ==
    LET score(n) == features.metric[n].value
        demand == DemandWeight[sector]
        access == AccessibilityWeight[sector]
    IN [demand |-> demand[1] * score("walkable_population_score")
                   + demand[2] * score("target_population_density_score")
                   + demand[3] * score(AgeFeature),
        competition |-> 10 * score(CompetitionFeature),
        accessibility |-> access[1] * score("walkable_reach_area_score")
                          + access[2] * score(TransitFeature) + access[3] * score(RoadParkingFeature),
        economics |-> 10 * score("household_income_score")]

-----------------------------------------------------------------------------
(* The adapter: trusted scores, the operator's own figures, the deployment's quality. *)
CoreInput(command, scores, quality, level) ==
    [sector |-> command.sector, scores |-> scores, revenue |-> command.revenue,
     costs |-> command.costs, coverage |-> quality.coverage, qualities |-> quality.qualities,
     level |-> level, age |-> quality.age]

(* What the database takes as the result of an analysis. *)
Publishable(body) == Storable(body.financial)
=============================================================================
