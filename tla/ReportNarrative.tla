--------------------------- MODULE ReportNarrative ---------------------------
(***************************************************************************)
(* sitescore-report: the facts that a report states, and its narrative.  The *)
(* language model writes no prose: it selects claims from a closed           *)
(* vocabulary, and what it selects is believed only when the facts make the   *)
(* claim active, in the section and with the evidence of the claim's          *)
(* contract.  Anything else is replaced by a draft made from the facts alone. *)
(*                                                                         *)
(* A draft is abstracted to what its validation compares: whether it echoes  *)
(* the canonical anchors, and for each section which claims it selects and    *)
(* whether each echoes the evidence keys of its contract.                     *)
(***************************************************************************)
EXTENDS CoreAnalysis, SequencesExt

(* The sections of a claim, and the least and largest number of its claims in a draft. *)
SectionBounds ==
    [executive_summary |-> 1..4, strength |-> 0..12, risk |-> 0..12, recommendation |-> 0..12,
     caveat |-> 1..12]
NarrativeSections == DOMAIN SectionBounds

Claim(section, evidence) == [section |-> section, evidence |-> evidence]
ClaimContract ==
    [canonical_decision |-> Claim("executive_summary", {"headline", "decision_class"}),
     structural_strong |-> Claim("strength", {"structural_band"}),
     financial_strong |-> Claim("strength", {"financial_band"}),
     confidence_high |-> Claim("strength", {"label"}),
     structural_weak |-> Claim("risk", {"structural_band"}),
     financial_non_viable |-> Claim("risk", {"financial_band"}),
     high_rent_burden |-> Claim("risk", {"risk_flags"}),
     severe_rent_burden |-> Claim("risk", {"risk_flags"}),
     stress_test_failed |-> Claim("risk", {"stress_test_failed"}),
     negative_base_margin |-> Claim("risk", {"risk_flags"}),
     review_rent |-> Claim("recommendation", {"risk_flags"}),
     review_downside |-> Claim("recommendation", {"stress_test_failed"}),
     review_cost_revenue |-> Claim("recommendation", {"risk_flags"}),
     structural_constraint |-> Claim("recommendation", {"decision_class", "structural_band"}),
     review_canonical_decision |-> Claim("recommendation", {"decision_class"}),
     empirical_validation_pending |-> Claim("caveat", {}),
     language_layer |-> Claim("caveat", {}),
     confidence_not_high |-> Claim("caveat", {"label"}),
     incomplete_evidence |-> Claim("caveat", {})]
ClaimIds == DOMAIN ClaimContract

-----------------------------------------------------------------------------
(* Facts and context *)

(* The fingerprint of the analysis stands for what it is computed from. *)
CanonicalReportFacts(analysis) ==
    [fingerprint |-> analysis.input, category_scores |-> analysis.input.scores,
     assumptions |-> [costs |-> analysis.input.costs, revenue |-> analysis.input.revenue],
     location |-> analysis.location, financial |-> analysis.financial,
     decision |-> analysis.decision,
     confidence |-> [overall |-> analysis.confidence, label |-> analysis.label],
     data_quality |-> [level |-> analysis.input.level, age |-> analysis.input.age,
                       coverage |-> analysis.input.coverage, qualities |-> analysis.input.qualities]]

UnknownAge == -1
QualityIsIncomplete(quality) ==
    \/ DOMAIN quality.coverage # Categories \/ DOMAIN quality.qualities # DOMAIN InputWeight
    \/ \E c \in DOMAIN quality.coverage : quality.coverage[c] \in {"missing", "degraded"}
    \/ \E n \in DOMAIN quality.qualities : quality.qualities[n] = "missing"
    \/ quality.age = UnknownAge

ClaimIsActive(claim, facts) ==
    LET decision == facts.decision
        high == facts.confidence.label = "high"
    IN CASE claim = "structural_strong" -> decision.band = "strong"
         [] claim = "financial_strong" -> decision.financial_band = "strong"
         [] claim = "confidence_high" -> high
         [] claim = "structural_weak" -> decision.band = "weak"
         [] claim = "financial_non_viable" -> decision.financial_band = "non_viable"
         [] claim = "high_rent_burden" -> "HIGH_RENT_BURDEN" \in decision.flags
         [] claim = "severe_rent_burden" -> "SEVERE_RENT_BURDEN" \in decision.flags
         [] claim \in {"stress_test_failed", "review_downside"} -> facts.financial.stress_test_failed
         [] claim \in {"negative_base_margin", "review_cost_revenue"} ->
                "NEGATIVE_BASE_OPERATING_MARGIN" \in decision.flags
         [] claim = "review_rent" ->
                {"HIGH_RENT_BURDEN", "SEVERE_RENT_BURDEN"} \cap decision.flags # {}
         [] claim = "structural_constraint" ->
                decision.band = "weak" \/ decision.class = "structural_risk"
         [] claim = "confidence_not_high" -> ~high
         [] claim = "incomplete_evidence" -> QualityIsIncomplete(facts.data_quality)
         [] OTHER -> TRUE

(* An empty list of flags is no evidence. *)
Evidence(facts) ==
    {"headline", "decision_class", "structural_band", "financial_band", "label", "stress_test_failed"}
    \cup {key \in {"risk_flags"} : facts.decision.flags # {}}

ActiveClaims(facts) == {c \in ClaimIds : ClaimIsActive(c, facts)}
NarrativeContext(facts) == [claims |-> ActiveClaims(facts), evidence |-> Evidence(facts)]
(* An active claim without its evidence is refused when the context is built. *)
ContextRaises(context) == \E c \in context.claims : ~(ClaimContract[c].evidence \subseteq context.evidence)

-----------------------------------------------------------------------------
(* Drafts: [echoes, sections], each section a sequence of [claim, echoes]. *)

(* What the provider's schema accepts. *)
NarrativeDraft(draft) == \A s \in NarrativeSections : Len(draft.sections[s]) \in SectionBounds[s]

Distinct(items) == Cardinality({item.claim : item \in ToSet(items)}) = Len(items)

\* (mutant) A claim of the vocabulary is believed, whether the facts support it or not.
ValidItemOfVocabulary(item, section, context) ==
    ClaimContract[item.claim].section = section /\ item.echoes

ValidItem(item, section, context) ==
    /\ item.claim \in context.claims /\ ClaimContract[item.claim].section = section
    /\ item.echoes /\ ClaimContract[item.claim].evidence \subseteq context.evidence

ValidDraft(draft, context) ==
    /\ draft.echoes
    /\ \A s \in NarrativeSections :
          /\ Distinct(draft.sections[s])
          /\ \A item \in ToSet(draft.sections[s]) : ValidItem(item, s, context)

Selection(claim) == [claim |-> claim, echoes |-> TRUE]
Selections(claims) == [i \in DOMAIN claims |-> Selection(claims[i])]
IfActive(claim, context) == IF claim \in context.claims THEN <<claim>> ELSE <<>>

\* (mutant) The downside is always to be reviewed.
FallbackRecommendationsAlways(context) ==
    IfActive("review_rent", context) \o <<"review_downside">>
    \o IfActive("review_cost_revenue", context) \o IfActive("structural_constraint", context)

FallbackRecommendations(context) ==
    IfActive("review_rent", context) \o IfActive("review_downside", context)
    \o IfActive("review_cost_revenue", context) \o IfActive("structural_constraint", context)

(* The claims of each section of the fallback, in its order. *)
FallbackClaims(section, context) ==
    CASE section = "executive_summary" -> <<"canonical_decision">>
      [] section = "strength" ->
             IfActive("structural_strong", context) \o IfActive("financial_strong", context)
             \o IfActive("confidence_high", context)
      [] section = "risk" ->
             IfActive("structural_weak", context) \o IfActive("financial_non_viable", context)
             \o IfActive("high_rent_burden", context) \o IfActive("severe_rent_burden", context)
             \o IfActive("stress_test_failed", context) \o IfActive("negative_base_margin", context)
      [] section = "recommendation" ->
             IF FallbackRecommendations(context) = <<>> THEN <<"review_canonical_decision">>
             ELSE FallbackRecommendations(context)
      [] section = "caveat" ->
             IfActive("empirical_validation_pending", context) \o IfActive("language_layer", context)
             \o IfActive("confidence_not_high", context) \o IfActive("incomplete_evidence", context)

FallbackDraft(context) ==
    [echoes |-> TRUE,
     sections |-> [s \in NarrativeSections |-> Selections(FallbackClaims(s, context))]]
(* The fallback selects from the approved claims and raises for any other. *)
FallbackRaises(context) ==
    \E s \in NarrativeSections : ~(ToSet(FallbackClaims(s, context)) \subseteq context.claims)

(* The sentence of a claim: two of them name the decision and the confidence label. *)
Sentence(claim, facts) ==
    [claim |-> claim,
     about |-> CASE claim = "canonical_decision" -> facts.decision.class
                 [] claim = "confidence_not_high" -> facts.confidence.label
                 [] OTHER -> "none"]
Narrative(draft, facts) ==
    [s \in NarrativeSections |->
        [i \in DOMAIN draft.sections[s] |-> Sentence(draft.sections[s][i].claim, facts)]]
=============================================================================
