----------------------- MODULE AnalysisPipeline_proofs -----------------------
(***************************************************************************)
(* Proofs about AnalysisPipeline for any set of commands, deployments and  *)
(* authorities, whatever the providers and the language model answer, and  *)
(* with one object of the analysis overwritten at any time, or none.       *)
(***************************************************************************)
EXTENDS AnalysisPipeline, CoreAnalysis_proofs, FiniteSetTheorems, SequenceTheorems, WellFoundedInduction,
        TLAPS

(* What follows from the measurements, the benchmarks and the command alone. *)
TrueAssembly == AssemblyOf(Results)
TrueReadiness == DeriveReadiness(TrueAssembly)
TrueScores == CategoryScoresOf(command.sector, TrueAssembly.features)
TrueInput == CoreInput(command, TrueScores, d.quality, Level)
TrueAnalyses == {Analyze(TrueInput, below) : below \in BOOLEAN}

Authorised == granted = Authorities /\ setup.source = "controlled"

(* A draft that selects active claims in their sections, and the narrative that it becomes. *)
Items == [claim: ClaimIds, echoes: BOOLEAN]
SoundDraft(draft, context) ==
    /\ \A s \in NarrativeSections :
          /\ draft.sections[s] \in Seq(Items)
          /\ \A x \in ToSet(draft.sections[s]) :
                x.claim \in context.claims /\ ClaimContract[x.claim].section = s
    /\ Len(draft.sections["executive_summary"]) = 1
    /\ draft.sections["caveat"] # <<>>
SoundNarrative(narrative, facts) ==
    /\ narrative["executive_summary"] = <<Sentence("canonical_decision", facts)>>
    /\ \A s \in NarrativeSections : \A x \in ToSet(narrative[s]) :
          /\ x.claim \in ActiveClaims(facts)
          /\ x = Sentence(x.claim, facts) /\ ClaimContract[x.claim].section = s
    /\ narrative["caveat"] # <<>>

-----------------------------------------------------------------------------
(* What a registry may attest of the contents of one part; analysed is the analysis of this run. *)
Right(p, v, analysed) ==
    /\ p = "results" => v = Results
    /\ p = "features" => v = TrueAssembly.features
    /\ p = "policies" => v = [policies |-> TrueAssembly.policies,
                              compatibility |-> TrueAssembly.compatibility,
                              approved |-> TrueAssembly.approved]
    /\ p = "readiness" => v = TrueReadiness
    /\ p = "projection" => v = Projection(TrueReadiness)
    /\ p = "category" => v = TrueScores
    /\ p = "core" => v = TrueInput
    /\ p = "analysis" => v = analysed /\ analysed \in TrueAnalyses
    /\ p = "body" => v = analysed
    /\ p = "facts" => v = CanonicalReportFacts(analysed)
    /\ p = "context" => v = NarrativeContext(CanonicalReportFacts(analysed))
    /\ p = "narrative" => SoundNarrative(v, CanonicalReportFacts(analysed))

Analysed == IF "analysis" \in DOMAIN seal THEN seal["analysis"]["analysis"] ELSE Nothing
TrueFacts == CanonicalReportFacts(Analysed)

(* Every registry remembers what is right, and while nobody overwrites anything it is what is there. *)
SealsAreRight(analysed) ==
    \A r \in DOMAIN seal : r \in Registries /\ \A p \in Attests[r] : Right(p, seal[r][p], analysed)
Agreed ==
    \A r \in DOMAIN seal : \A p \in Attests[r] :
        p \in DOMAIN part /\ (changes = 0 => part[p] = seal[r][p])

(* The registries that have made their object, stage by stage. *)
Judged == {"assembly", "readiness", "pipeline"}
ScoredSeals == Judged \cup {"scoring"}
AnalysedSeals == ScoredSeals \cup {"category", "core", "analysis"}
ReportSeals == AnalysedSeals \cup {"completed", "facts", "report_domain"}
SealedBy(s) ==
    CASE s = "readiness" -> {"assembly"}
      [] s = "terminal" -> {"assembly", "readiness"}
      [] s \in {"gate", "refuse", "score"} -> Judged
      [] s = "publish_refusal" -> Judged \cup {"not_ready"}
      [] s \in {"aggregate", "categories", "aggregated"} -> ScoredSeals
      [] s \in {"adapt", "adapted"} -> ScoredSeals \cup {"category"}
      [] s \in {"analyze", "analyzed"} -> ScoredSeals \cup {"category", "core"}
      [] s = "complete" -> AnalysedSeals
      [] s \in {"report", "facts", "projected"} -> AnalysedSeals \cup {"completed"}
      [] s = "domain" -> AnalysedSeals \cup {"completed", "facts"}
      [] s \in {"context", "contextual"} -> ReportSeals
      [] s \in {"ask", "validate", "narrate"} -> ReportSeals \cup {"context"}
      [] s \in {"render", "rendered"} -> ReportSeals \cup {"context", "narrative"}
      [] OTHER -> {}
Ordered ==
    /\ stage # "publish" => DOMAIN seal = SealedBy(stage)
    /\ stage = "publish" => AnalysedSeals \cup {"completed"} \subseteq DOMAIN seal

CoreStages == {"analyze", "analyzed", "complete"}
ReportStages ==
    {"report", "facts", "projected", "domain", "context", "contextual", "ask", "validate", "narrate",
     "render", "rendered", "publish"}
LicensedStages ==
    {"aggregate", "categories", "aggregated", "adapt", "adapted"} \cup CoreStages \cup ReportStages
JudgementStages ==
    {"measure", "assemble", "readiness", "terminal", "gate", "refuse", "publish_refusal", "score"}

(* What the evidence is, what the parts made so far are, and who is allowed to go on. *)
StageOK ==
    /\ stage \in AcquisitionStages \cup JudgementStages \cup LicensedStages
    /\ stage \in AcquisitionStages \cup {"measure"} => part = Nothing
    /\ stage = "assemble" => "results" \in DOMAIN part /\ part["results"] = Results
    /\ stage \in {"benchmarks"} \cup JudgementStages /\ setup.source = "provider" =>
           "transit" \in DOMAIN evidence /\ evidence["transit"].eligibility # "eligible"
    /\ stage \in LicensedStages => Authorised
    /\ stage \in CoreStages \cup ReportStages => AnalysisInput(TrueInput)

(* What was computed before the authority is asked again. *)
HeldOK ==
    /\ stage = "aggregated" =>
           held = CategoryScoresOf(command.sector, part["features"]) \/ held = TrueScores
    /\ stage = "adapted" => held = TrueInput
    /\ stage = "analyzed" => held \in TrueAnalyses
    /\ stage = "projected" => held = TrueFacts
    /\ stage = "contextual" => held = NarrativeContext(TrueFacts)
    /\ stage = "validate" => held \in NarrativeReplies
    /\ stage = "narrate" => SoundDraft(held, NarrativeContext(TrueFacts))
    /\ stage = "rendered" =>
           /\ held = [facts |-> TrueFacts, narrative |-> held.narrative]
           /\ SoundNarrative(held.narrative, TrueFacts)

ReportOK(report, analysed) ==
    /\ report.state = "ready" =>
           /\ report.facts = CanonicalReportFacts(analysed)
           /\ SoundNarrative(report.narrative, CanonicalReportFacts(analysed))
    /\ changes = 0 /\ report.state = "failed" =>
           report.reason = "no_client" \/ ~Publishable(analysed)

Assembled ==
    changes = 0 /\ "features" \in DOMAIN part =>
        part["features"] = TrueAssembly.features /\ part["results"] = Results

OutcomeOK ==
    /\ outcome.status = "completed" =>
           /\ outcome.body.result \in TrueAnalyses /\ AnalysisInput(TrueInput)
           /\ Publishable(outcome.body.result)
           /\ ReportOK(outcome.body.report, outcome.body.result)
    /\ outcome.status = "not_score_ready" => outcome.body = Projection(TrueReadiness)
    /\ outcome.status \in {"completed", "retried"} => Authorised

ReportMade == stage = "publish" => "report" \in DOMAIN part /\ ReportOK(part["report"], Analysed)

Going ==
    /\ outcome = Undecided
    /\ Ordered /\ SealsAreRight(Analysed) /\ Agreed
    /\ StageOK /\ HeldOK /\ ReportMade
Chain ==
    /\ changes \in Nat /\ setup \in Setups
    /\ Assembled /\ OutcomeOK
    /\ stage # "done" => Going
-----------------------------------------------------------------------------
(* The narrative: what the facts allow, whoever selects from it. *)

(* A claim is active only where the facts hold the evidence that its contract asks for. *)
LEMMA ActiveClaimsHaveEvidence ==
    ASSUME NEW facts PROVE ~ContextRaises(NarrativeContext(facts))
<1> DEFINE flagged == {"high_rent_burden", "severe_rent_burden", "negative_base_margin", "review_rent",
                       "review_cost_revenue"}
<1>1. ASSUME NEW c \in ClaimIds PROVE c \notin flagged => "risk_flags" \notin ClaimContract[c].evidence
  BY DEF ClaimIds, ClaimContract, Claim
<1>2. ASSUME NEW c \in ClaimIds
      PROVE  ClaimContract[c].evidence \subseteq
                 {"headline", "decision_class", "structural_band", "financial_band", "label",
                  "stress_test_failed", "risk_flags"}
  BY DEF ClaimIds, ClaimContract, Claim
<1>3. ASSUME NEW c \in flagged, ClaimIsActive(c, facts) PROVE facts.decision.flags # {}
  BY <1>3 DEF ClaimIsActive
<1>4. ASSUME NEW c \in ActiveClaims(facts) PROVE ClaimContract[c].evidence \subseteq Evidence(facts)
  BY <1>1, <1>2, <1>3 DEF ActiveClaims, Evidence
<1>5. QED
  BY <1>4 DEF ContextRaises, NarrativeContext

(* These three are true of any facts. *)
LEMMA SomeClaimsAreAlwaysActive ==
    ASSUME NEW facts
    PROVE  {"canonical_decision", "empirical_validation_pending", "language_layer",
            "review_canonical_decision"} \subseteq ActiveClaims(facts)
<1>1. ASSUME NEW c \in {"canonical_decision", "empirical_validation_pending", "language_layer",
                        "review_canonical_decision"}
      PROVE  c \in ClaimIds /\ ClaimIsActive(c, facts)
  BY DEF ClaimIds, ClaimContract, ClaimIsActive
<1>2. QED
  BY <1>1 DEF ActiveClaims

(* The claims of a section that a context approves. *)
Approved(section, context) == {c \in context.claims : c \in ClaimIds /\ ClaimContract[c].section = section}

LEMMA IfActiveIsApproved ==
    ASSUME NEW section, NEW context, NEW c \in ClaimIds, ClaimContract[c].section = section
    PROVE  IfActive(c, context) \in Seq(Approved(section, context))
<1>1. CASE c \in context.claims
  <2>1. c \in Approved(section, context)
    BY <1>1 DEF Approved
  <2>2. QED
    BY <1>1, <2>1 DEF IfActive
<1>2. CASE c \notin context.claims
  BY <1>2 DEF IfActive
<1>3. QED
  BY <1>1, <1>2

(* The fallback selects active claims, each in its own section, one decision and at least one caveat. *)
LEMMA FallbackClaimsAreApproved ==
    ASSUME NEW facts, NEW s \in NarrativeSections
    PROVE  LET context == NarrativeContext(facts)
           IN /\ FallbackClaims(s, context) \in Seq(Approved(s, context))
              /\ s = "caveat" => Len(FallbackClaims(s, context)) >= 1
<1> DEFINE context == NarrativeContext(facts)
<1>1. context.claims = ActiveClaims(facts)
  BY DEF NarrativeContext
<1> HIDE DEF context
<1>2. CASE s = "executive_summary"
  <2>1. "canonical_decision" \in Approved(s, context)
    BY <1>1, <1>2, SomeClaimsAreAlwaysActive DEF Approved, ClaimIds, ClaimContract, Claim
  <2>2. QED
    BY <1>2, <2>1 DEF FallbackClaims, context
<1>3. CASE s = "strength"
  <2>1. \A c \in {"structural_strong", "financial_strong", "confidence_high"} :
           c \in ClaimIds /\ ClaimContract[c].section = s
    BY <1>3 DEF ClaimIds, ClaimContract, Claim
  <2>2. \A c \in {"structural_strong", "financial_strong", "confidence_high"} :
           IfActive(c, context) \in Seq(Approved(s, context))
    BY <2>1, IfActiveIsApproved
  <2>3. QED
    BY <1>3, <2>2, ConcatProperties DEF FallbackClaims, context
<1>4. CASE s = "risk"
  <2> DEFINE claims == {"structural_weak", "financial_non_viable", "high_rent_burden", "severe_rent_burden",
                        "stress_test_failed", "negative_base_margin"}
  <2>1. \A c \in claims : c \in ClaimIds /\ ClaimContract[c].section = s
    BY <1>4 DEF ClaimIds, ClaimContract, Claim
  <2>2. \A c \in claims : IfActive(c, context) \in Seq(Approved(s, context))
    BY <2>1, IfActiveIsApproved
  <2>3. QED
    BY <1>4, <2>2, ConcatProperties DEF FallbackClaims, context
<1>5. CASE s = "recommendation"
  <2> DEFINE claims == {"review_rent", "review_downside", "review_cost_revenue", "structural_constraint"}
  <2>1. \A c \in claims : c \in ClaimIds /\ ClaimContract[c].section = s
    BY <1>5 DEF ClaimIds, ClaimContract, Claim
  <2>2. \A c \in claims : IfActive(c, context) \in Seq(Approved(s, context))
    BY <2>1, IfActiveIsApproved
  <2>3. FallbackRecommendations(context) \in Seq(Approved(s, context))
    BY <2>2, ConcatProperties DEF FallbackRecommendations
  <2>4. "review_canonical_decision" \in Approved(s, context)
    BY <1>1, <1>5, SomeClaimsAreAlwaysActive DEF Approved, ClaimIds, ClaimContract, Claim
  <2>5. QED
    BY <1>5, <2>3, <2>4 DEF FallbackClaims, context
<1>6. CASE s = "caveat"
  <2> DEFINE claims == {"empirical_validation_pending", "language_layer", "confidence_not_high",
                        "incomplete_evidence"}
             pending == IfActive("empirical_validation_pending", context)
             language == IfActive("language_layer", context)
             unsure == IfActive("confidence_not_high", context)
             incomplete == IfActive("incomplete_evidence", context)
  <2>1. \A c \in claims : c \in ClaimIds /\ ClaimContract[c].section = s
    BY <1>6 DEF ClaimIds, ClaimContract, Claim
  <2>2. \A c \in claims : IfActive(c, context) \in Seq(Approved(s, context))
    BY <2>1, IfActiveIsApproved
  <2>3. Len(pending) = 1
    BY <1>1, SomeClaimsAreAlwaysActive DEF IfActive
  <2>4. FallbackClaims(s, context) = pending \o language \o unsure \o incomplete
    BY <1>6 DEF FallbackClaims
  <2> HIDE DEF pending, language, unsure, incomplete
  <2>5. {pending, language, unsure, incomplete} \subseteq Seq(Approved(s, context))
    BY <2>2 DEF pending, language, unsure, incomplete
  <2>6. /\ pending \o language \in Seq(Approved(s, context))
        /\ Len(pending \o language) = Len(pending) + Len(language) /\ Len(language) >= 0
    BY <2>5, ConcatProperties, LenProperties
  <2>7. /\ pending \o language \o unsure \in Seq(Approved(s, context))
        /\ Len(pending \o language \o unsure) = Len(pending \o language) + Len(unsure) /\ Len(unsure) >= 0
    BY <2>5, <2>6, ConcatProperties, LenProperties
  <2>8. /\ pending \o language \o unsure \o incomplete \in Seq(Approved(s, context))
        /\ Len(pending \o language \o unsure \o incomplete) =
               Len(pending \o language \o unsure) + Len(incomplete)
        /\ Len(incomplete) >= 0
    BY <2>5, <2>7, ConcatProperties, LenProperties
  <2>9. QED
    BY <2>3, <2>4, <2>6, <2>7, <2>8, LenProperties DEF context
<1>7. QED
  BY <1>2, <1>3, <1>4, <1>5, <1>6 DEF NarrativeSections, SectionBounds
LEMMA FallbackIsSound ==
    ASSUME NEW facts
    PROVE  LET context == NarrativeContext(facts)
           IN ~FallbackRaises(context) /\ SoundDraft(FallbackDraft(context), context)
<1> DEFINE context == NarrativeContext(facts)
           claims(s) == FallbackClaims(s, context)
<1>1. ASSUME NEW s \in NarrativeSections
      PROVE  /\ claims(s) \in Seq(Approved(s, context))
             /\ s = "caveat" => Len(claims(s)) >= 1
  BY FallbackClaimsAreApproved
<1>2. claims("executive_summary") = <<"canonical_decision">>
  BY DEF FallbackClaims
<1> HIDE DEF context, claims
<1>3. ASSUME NEW s \in NarrativeSections, NEW i \in DOMAIN claims(s)
      PROVE  claims(s)[i] \in Approved(s, context)
  BY <1>1, LenProperties
<1>4. ASSUME NEW s \in NarrativeSections, NEW x \in ToSet(claims(s)) PROVE x \in context.claims
  BY <1>3 DEF ToSet, Approved
<1>5. ~FallbackRaises(context)
  BY <1>4 DEF FallbackRaises, claims
<1>6. ASSUME NEW s \in NarrativeSections
      PROVE  /\ FallbackDraft(context).sections[s] = [i \in 1..Len(claims(s)) |-> Selection(claims(s)[i])]
             /\ Len(claims(s)) \in Nat
  <2>1. DOMAIN claims(s) = 1..Len(claims(s)) /\ Len(claims(s)) \in Nat
    BY <1>1, LenProperties
  <2>2. FallbackDraft(context).sections[s] = [i \in DOMAIN claims(s) |-> Selection(claims(s)[i])]
    BY DEF FallbackDraft, Selections, claims
  <2>3. QED
    BY <2>1, <2>2
<1>7. ASSUME NEW s \in NarrativeSections, NEW i \in 1..Len(claims(s))
      PROVE  /\ Selection(claims(s)[i]) \in Items
             /\ Selection(claims(s)[i]).claim \in context.claims
             /\ ClaimContract[Selection(claims(s)[i]).claim].section = s
  <2>1. claims(s)[i] \in Approved(s, context)
    BY <1>1, <1>3, LenProperties
  <2>2. QED
    BY <2>1 DEF Approved, Selection, Items
<1>8. ASSUME NEW s \in NarrativeSections
      PROVE  LET selected == FallbackDraft(context).sections[s]
             IN /\ selected \in Seq(Items) /\ Len(selected) = Len(claims(s))
                /\ \A x \in ToSet(selected) : x.claim \in context.claims /\ ClaimContract[x.claim].section = s
  <2> DEFINE selected == [i \in 1..Len(claims(s)) |-> Selection(claims(s)[i])]
  <2>1. selected \in Seq(Items) /\ Len(selected) = Len(claims(s))
    BY <1>6, <1>7
  <2>2. \A x \in ToSet(selected) : x.claim \in context.claims /\ ClaimContract[x.claim].section = s
    BY <1>7 DEF ToSet
  <2>3. QED
    BY <1>6, <2>1, <2>2
<1>9. {"executive_summary", "caveat"} \subseteq NarrativeSections
  BY DEF NarrativeSections, SectionBounds
<1>10. Len(FallbackDraft(context).sections["executive_summary"]) = 1
  <2>1. Len(claims("executive_summary")) = 1
    BY <1>2
  <2>2. QED
    BY <1>8, <1>9, <2>1
<1>11. FallbackDraft(context).sections["caveat"] # <<>>
  <2>1. Len(FallbackDraft(context).sections["caveat"]) >= 1
    BY <1>1, <1>8, <1>9
  <2>2. QED
    BY <2>1, EmptySeq
<1>12. SoundDraft(FallbackDraft(context), context)
  BY <1>8, <1>10, <1>11 DEF SoundDraft
<1>13. QED
  BY <1>5, <1>12 DEF context

(* Only one claim belongs in the summary, so a draft without duplicates has it once. *)
LEMMA ValidDraftIsSound ==
    ASSUME NEW reply \in NarrativeReplies, NEW context, reply.model = "answered",
           NarrativeDraft(reply.draft), ValidDraft(reply.draft, context)
    PROVE  SoundDraft(reply.draft, context)
<1> DEFINE selected(s) == reply.draft.sections[s]
           summary == selected("executive_summary")
<1>1. ASSUME NEW s \in NarrativeSections
      PROVE  /\ selected(s) \in Seq(Items)
             /\ \A x \in ToSet(selected(s)) : x.claim \in context.claims /\ ClaimContract[x.claim].section = s
             /\ Distinct(selected(s)) /\ Len(selected(s)) \in SectionBounds[s]
  <2>1. selected(s) \in Seq(Items)
    BY PipelineAssumption DEF Items
  <2>2. QED
    BY <2>1 DEF ValidDraft, ValidItem, NarrativeDraft
<1>2. {"executive_summary", "caveat"} \subseteq NarrativeSections
  BY DEF NarrativeSections, SectionBounds
<1>3. /\ SectionBounds["executive_summary"] = 1..4 /\ SectionBounds["caveat"] = 1..12
  BY DEF SectionBounds
<1> HIDE DEF selected
<1>4. Len(summary) = 1
  <2> DEFINE named == {x.claim : x \in ToSet(summary)}
  <2>1. \A c \in ClaimIds : ClaimContract[c].section = "executive_summary" => c = "canonical_decision"
    BY DEF ClaimIds, ClaimContract, Claim
  <2>2. \A x \in ToSet(summary) : x.claim = "canonical_decision"
    <3>1. summary \in Seq(Items)
      BY <1>1, <1>2
    <3>2. ASSUME NEW x \in ToSet(summary) PROVE x \in Items
      BY <3>1, LenProperties DEF ToSet
    <3>3. ASSUME NEW x \in ToSet(summary) PROVE x.claim \in ClaimIds
      BY <3>2 DEF Items
    <3>4. QED
      BY <1>1, <1>2, <2>1, <3>3
  <2>3. Len(summary) = Cardinality(named)
    BY <1>1, <1>2 DEF Distinct
  <2>4. Len(summary) \in Nat /\ Len(summary) >= 1
    <3>1. Len(summary) \in 1..4
      BY <1>1, <1>2, <1>3
    <3>2. QED
      BY <3>1
  <2>5. named \in SUBSET {"canonical_decision"}
    BY <2>2
  <2>6. IsFiniteSet({"canonical_decision"}) /\ Cardinality({"canonical_decision"}) = 1
    BY FS_Singleton
  <2> HIDE DEF named
  <2>7. Cardinality(named) <= Cardinality({"canonical_decision"})
    BY <2>5, <2>6, FS_Subset
  <2> HIDE DEF summary
  <2>8. QED
    BY <2>3, <2>4, <2>6, <2>7
<1>5. selected("caveat") # <<>>
  <2>1. Len(selected("caveat")) \in 1..12
    BY <1>1, <1>2, <1>3
  <2>2. Len(<<>>) \notin 1..12
    BY EmptySeq
  <2>3. QED
    BY <2>1, <2>2
<1>6. QED
  BY <1>1, <1>4, <1>5 DEF SoundDraft, selected

(* Words are put to the claims of a sound draft and to nothing else. *)
LEMMA NarrativeIsSound ==
    ASSUME NEW facts, NEW draft, SoundDraft(draft, NarrativeContext(facts))
    PROVE  SoundNarrative(Narrative(draft, facts), facts)
<1> DEFINE selected(s) == draft.sections[s]
           told(s) == [i \in 1..Len(selected(s)) |-> Sentence(selected(s)[i].claim, facts)]
<1>1. ASSUME NEW s \in NarrativeSections
      PROVE  /\ selected(s) \in Seq(Items) /\ Len(selected(s)) \in Nat
             /\ DOMAIN selected(s) = 1..Len(selected(s))
             /\ Narrative(draft, facts)[s] = told(s)
  <2>1. selected(s) \in Seq(Items)
    BY DEF SoundDraft
  <2>2. Len(selected(s)) \in Nat /\ DOMAIN selected(s) = 1..Len(selected(s))
    BY <2>1, LenProperties
  <2>3. Narrative(draft, facts)[s] = [i \in DOMAIN selected(s) |-> Sentence(selected(s)[i].claim, facts)]
    BY DEF Narrative
  <2>4. QED
    BY <2>1, <2>2, <2>3
<1>2. ASSUME NEW s \in NarrativeSections, NEW i \in 1..Len(selected(s))
      PROVE  /\ selected(s)[i].claim \in ActiveClaims(facts)
             /\ ClaimContract[selected(s)[i].claim].section = s
  <2>1. selected(s)[i] \in ToSet(selected(s))
    BY <1>1 DEF ToSet
  <2>2. QED
    BY <2>1 DEF SoundDraft, NarrativeContext
<1>3. {"executive_summary", "caveat"} \subseteq NarrativeSections
  BY DEF NarrativeSections, SectionBounds
<1>4. ASSUME NEW s \in NarrativeSections, NEW x \in ToSet(Narrative(draft, facts)[s])
      PROVE  /\ x.claim \in ActiveClaims(facts)
             /\ x = Sentence(x.claim, facts) /\ ClaimContract[x.claim].section = s
  <2>1. PICK i \in 1..Len(selected(s)) : x = Sentence(selected(s)[i].claim, facts)
    BY <1>1 DEF ToSet
  <2>2. x.claim = selected(s)[i].claim
    BY <2>1 DEF Sentence
  <2>3. QED
    BY <1>2, <2>1, <2>2
<1>5. Narrative(draft, facts)["executive_summary"] = <<Sentence("canonical_decision", facts)>>
  <2>1. Len(selected("executive_summary")) = 1
    BY DEF SoundDraft
  <2>2. selected("executive_summary")[1].claim = "canonical_decision"
    <3>1. \A c \in ClaimIds : ClaimContract[c].section = "executive_summary" => c = "canonical_decision"
      BY DEF ClaimIds, ClaimContract, Claim
    <3>2. QED
      BY <1>2, <1>3, <2>1, <3>1 DEF ActiveClaims
  <2>3. told("executive_summary") = <<Sentence("canonical_decision", facts)>>
    <3> DEFINE sentence == Sentence("canonical_decision", facts)
    <3>1. told("executive_summary") = [i \in 1..1 |-> sentence]
      BY <2>1, <2>2
    <3> HIDE DEF sentence
    <3>2. [i \in 1..1 |-> sentence] = <<sentence>>
      OBVIOUS
    <3>3. QED
      BY <3>1, <3>2 DEF sentence
  <2>4. QED
    BY <1>1, <1>3, <2>3
<1>6. Narrative(draft, facts)["caveat"] # <<>>
  <2>1. selected("caveat") \in Seq(Items) /\ selected("caveat") # <<>>
    BY <1>1, <1>3 DEF SoundDraft
  <2>2. Len(selected("caveat")) >= 1
    BY <2>1, EmptySeq
  <2>3. 1 \in DOMAIN told("caveat")
    BY <1>1, <1>3, <2>2
  <2>4. told("caveat") # <<>>
    BY <2>3
  <2>5. QED
    BY <1>1, <1>3, <2>4
<1>7. QED
  BY <1>4, <1>5, <1>6 DEF SoundNarrative
-----------------------------------------------------------------------------
(* What the truth of an analysis rests on *)

LEMMA ResultsStay ==
    ASSUME UNCHANGED <<setup, evidence>> PROVE Results' = Results
<1>1. granted' = granted /\ d' = d
  BY DEF granted, d
<1>2. Frame' = Frame
  BY <1>1 DEF Frame
<1>3. \A key : SiteMetric(key)' = SiteMetric(key)
  BY <1>1 DEF SiteMetric
<1>4. \A key : SiteMeasurement(key)' = SiteMeasurement(key)
  BY <1>1, <1>3 DEF SiteMeasurement
<1>5. \A key, cell : Attempt(key, cell)' = Attempt(key, cell)
  BY <1>1, <1>2 DEF Attempt
<1>6. \A key : Benchmark(key)' = Benchmark(key)
  BY <1>1, <1>2, <1>5 DEF Benchmark
<1>7. QED
  BY <1>4, <1>6 DEF Results

(* Nothing that happens after the measurements changes what follows from them. *)
LEMMA TruthStays ==
    ASSUME UNCHANGED <<setup, evidence>>
    PROVE  /\ Results' = Results /\ TrueAssembly' = TrueAssembly /\ TrueReadiness' = TrueReadiness
           /\ TrueScores' = TrueScores /\ TrueInput' = TrueInput /\ TrueAnalyses' = TrueAnalyses
           /\ command' = command /\ (Authorised <=> Authorised')
<1>1. granted' = granted /\ d' = d /\ command' = command
  BY DEF granted, d, command
<1>2. Results' = Results
  BY ResultsStay
<1>3. TrueAssembly' = TrueAssembly
  BY <1>1, <1>2 DEF TrueAssembly, AssemblyOf, Bindings
<1>4. TrueReadiness' = TrueReadiness
  BY <1>3 DEF TrueReadiness
<1>5. TrueScores' = TrueScores
  BY <1>1, <1>3 DEF TrueScores
<1>6. Level' = Level
  BY <1>1 DEF Level, Selected
<1>7. TrueInput' = TrueInput
  BY <1>1, <1>5, <1>6 DEF TrueInput
<1>8. TrueAnalyses' = TrueAnalyses
  BY <1>7 DEF TrueAnalyses
<1>9. QED
  BY <1>1, <1>2, <1>3, <1>4, <1>5, <1>7, <1>8 DEF Authorised

LEMMA RightStays ==
    ASSUME UNCHANGED <<setup, evidence>>
    PROVE  \A p, v, analysed : Right(p, v, analysed)' <=> Right(p, v, analysed)
BY TruthStays DEF Right
-----------------------------------------------------------------------------
(* Readiness is felt only with every authority *)

(* A score that is not available has a state that is not available either. *)
LEMMA UnavailableStaysUnavailable ==
    ASSUME NEW result, NEW bindings, DirectMetric(result, bindings).availability = "available"
    PROVE  result.state = "available" /\ DirectMetric(result, bindings).value = result.score
<1>1. UnavailableState(result).availability # "available"
  BY DEF UnavailableState
<1>2. result.state = "available"
  BY <1>1 DEF DirectMetric
<1>3. QED
  BY <1>2 DEF DirectMetric

(* A site is only scored when its gate is open, against a distribution of its own lineage. *)
LEMMA AvailableMeansCompared ==
    ASSUME NEW site, NEW s, NormalizeFeature(site, s).state = "available"
    PROVE  /\ SiteGate(site.metric) = "open" /\ DistributionState(s) = "available"
           /\ Compatibility(site) = BenchmarkLineage(s)
BY DEF NormalizeFeature, NormalizationState, SiteGate, DistributionState

LEMMA OpenGateMeansGoodMetric ==
    ASSUME NEW m, SiteGate(m) = "open"
    PROVE  m.value # NoValue /\ m.eligibility = "eligible"
BY DEF SiteGate

LEMMA DirectMetricOfAFeature ==
    ASSUME NEW results, NEW composite, NEW bindings, NEW n \in DirectFeatures
    PROVE  /\ Features(results, composite, bindings).metric[n] = DirectMetric(results[n], bindings)
           /\ n \in FeatureNames
<1>1. n \in FeatureNames /\ n # AgeFeature /\ n # RoadParkingFeature
  BY DEF FeatureNames, DirectFeatures, AgeFeature, RoadParkingFeature, CompetitionFeature, TransitFeature
<1>2. QED
  BY <1>1 DEF Features

(* Readiness asks for each of the withheld authorities without naming one: a frame that is not resolved *)
(* has no cells, a reduction no value, a composite no score, and a feature without binding no benchmark. *)
LEMMA ReadyMeansAuthorised ==
    ASSUME setup \in Setups, TrueReadiness.is_score_ready,
           setup.source = "provider" => evidence["transit"].eligibility # "eligible"
    PROVE  Authorised
<1> DEFINE f == TrueAssembly.features
           reasons(n) == FeatureReasons(f, n, TrueAssembly.policies[n], TrueAssembly.compatibility,
                                        TrueAssembly.approved)
<1>1. ASSUME NEW n \in FeatureNames PROVE reasons(n) = {}
  BY DEF TrueReadiness, DeriveReadiness, Validate
<1>2. ASSUME NEW n \in FeatureNames PROVE f.metric[n].availability = "available"
  <2>1. StateReasons(f.metric[n]) = {}
    BY <1>1 DEF FeatureReasons
  <2>2. QED
    BY <2>1 DEF StateReasons
<1>3. ASSUME NEW n \in DirectFeatures
      PROVE  f.metric[n] = DirectMetric(Results[n], Bindings(Results)) /\ n \in FeatureNames
  BY DirectMetricOfAFeature DEF TrueAssembly, AssemblyOf, Assemble
<1>4. ASSUME NEW n \in DirectFeatures
      PROVE  /\ SiteGate(SiteMeasurement(MetricOf[n]).metric) = "open"
             /\ DistributionState(Benchmark(MetricOf[n])) = "available"
  <2>1. Results[n].state = "available"
    BY <1>2, <1>3, UnavailableStaysUnavailable
  <2>2. Results[n] = NormalizeFeature(SiteMeasurement(MetricOf[n]), Benchmark(MetricOf[n]))
    BY DEF Results
  <2>3. QED
    BY <2>1, <2>2, AvailableMeansCompared
<1>5. "reductions" \in granted
  <2>1. "walkable_population_score" \in DirectFeatures
        /\ MetricOf["walkable_population_score"] = "walkable_population"
    BY DEF DirectFeatures, MetricOf
  <2>2. SiteMeasurement("walkable_population").metric.value # NoValue
    BY <1>4, <2>1, OpenGateMeansGoodMetric
  <2>3. IsResolved("walkable_population", granted)
    BY <2>2 DEF SiteMeasurement, Measure, UnresolvedValue
  <2>4. QED
    BY <2>3 DEF IsResolved, PassThroughMetrics
<1>6. "frame" \in granted
  <2>1. CompetitionFeature \in DirectFeatures
    BY DEF DirectFeatures
  <2>2. Benchmark(MetricOf[CompetitionFeature]).eligible # {}
    BY <1>4, <2>1 DEF DistributionState
  <2>3. EligibleCells(Frame, d.policy, granted) # {}
    BY <2>2 DEF Benchmark
  <2>4. Frame.cells # {}
    BY <2>3 DEF EligibleCells
  <2>5. QED
    BY <2>4 DEF Frame
<1>7. "bindings" \in granted
  <2>1. CompetitionFeature \in FeatureNames
    BY DEF FeatureNames, DirectFeatures
  <2>2. CompetitionReasons(f, TrueAssembly.compatibility) = {}
    <3>1. \A features, policy, compatibility, approved :
             CompetitionReasons(features, compatibility) \subseteq
                 FeatureReasons(features, CompetitionFeature, policy, compatibility, approved)
      BY DEF FeatureReasons, CompetitionFeature, TransitFeature, RoadParkingFeature
    <3>2. QED
      BY <1>1, <2>1, <3>1
  <2>3. f.competition_benchmark # None
    BY <2>2 DEF CompetitionReasons
  <2>4. Bindings(Results) # {}
    BY <2>3 DEF TrueAssembly, AssemblyOf, Assemble, Features
  <2>5. QED
    BY <2>4 DEF Bindings
<1>8. "composite" \in granted
  <2>1. RoadParkingFeature \in FeatureNames /\ RoadParkingFeature \notin DirectFeatures
        /\ RoadParkingFeature # AgeFeature
    BY DEF FeatureNames, DirectFeatures, RoadParkingFeature, CompetitionFeature, TransitFeature, AgeFeature
  <2>2. f.metric[RoadParkingFeature] = RoadParkingMetric(RoadParkingComposite(granted))
    BY <2>1 DEF TrueAssembly, AssemblyOf, Assemble, Features
  <2>3. RoadParkingMetric(RoadParkingComposite(granted)).availability = "available"
    BY <1>2, <2>1, <2>2
  <2>4. QED
    BY <2>3 DEF RoadParkingMetric, RoadParkingComposite
<1>9. setup.source # "provider"
  <2>1. TransitFeature \in DirectFeatures
        /\ MetricOf[TransitFeature] = "transit_service_departure_equivalents_per_hour"
    BY DEF DirectFeatures, MetricOf, TransitFeature
  <2>2. SiteMeasurement("transit_service_departure_equivalents_per_hour").metric.eligibility = "eligible"
    BY <1>4, <2>1, OpenGateMeansGoodMetric
  <2>3. SiteMeasurement("transit_service_departure_equivalents_per_hour").metric =
            SiteMetric("transit_service_departure_equivalents_per_hour")
    BY DEF SiteMeasurement, Measure, IsResolved, PassThroughMetrics, Observed
  <2>4. setup.source = "provider" =>
            SiteMetric("transit_service_departure_equivalents_per_hour") = evidence["transit"]
    BY DEF SiteMetric
  <2>5. QED
    BY <2>2, <2>3, <2>4
<1>10. granted \subseteq Authorities /\ setup.source \in {"provider", "controlled"}
  BY PipelineAssumption DEF granted
<1>11. QED
  BY <1>5, <1>6, <1>7, <1>8, <1>9, <1>10 DEF Authorised, Authorities
-----------------------------------------------------------------------------
(* What is compared is of one lineage *)

(* What a function makes of a finite set is finite. *)
LEMMA ImageIsFinite ==
    ASSUME NEW S, IsFiniteSet(S), NEW f, f = [x \in S |-> f[x]]
    PROVE  IsFiniteSet({f[x] : x \in S})
<1> DEFINE T == {f[x] : x \in S}
<1>1. f \in Surjection(S, T)
  BY DEF Surjection
<1>2. QED
  BY <1>1, FS_Surjection

(* A distribution without a conflict has one lineage, and every attempt in it has that lineage. *)
LEMMA OneLineage ==
    ASSUME NEW s, IsFiniteSet(s.attempts), ~HasConflict(s), NEW a \in s.attempts
    PROVE  Compatibility(a.measurement) = BenchmarkLineage(s)
<1> DEFINE lineage == [x \in s.attempts |-> Compatibility(x.measurement)]
           lineages == {lineage[x] : x \in s.attempts}
           chosen == CHOOSE x \in s.attempts : TRUE
<1>1. IsFiniteSet(lineages) /\ Cardinality(lineages) \in Nat
  BY ImageIsFinite, FS_CardinalityType
<1>2. lineages = {Compatibility(x.measurement) : x \in s.attempts}
  OBVIOUS
<1>3. ~(Cardinality(lineages) > 1)
  BY <1>2 DEF HasConflict
<1>4. {lineage[a], lineage[chosen]} \in SUBSET lineages /\ chosen \in s.attempts
  OBVIOUS
<1>5. lineage[a] = lineage[chosen]
  <2>1. SUFFICES ASSUME lineage[a] # lineage[chosen] PROVE FALSE
    OBVIOUS
  <2>2. Cardinality({lineage[a], lineage[chosen]}) = 2
    <3>1. IsFiniteSet({lineage[a]}) /\ Cardinality({lineage[a]}) = 1
      BY FS_Singleton
    <3> HIDE DEF lineage
    <3>2. lineage[chosen] \notin {lineage[a]}
      BY <2>1
    <3>3. Cardinality({lineage[a]} \cup {lineage[chosen]}) = Cardinality({lineage[a]}) + 1
      BY <3>1, <3>2, FS_AddElement
    <3>4. {lineage[a]} \cup {lineage[chosen]} = {lineage[a], lineage[chosen]}
      OBVIOUS
    <3>5. QED
      BY <3>1, <3>3, <3>4
  <2>3. Cardinality({lineage[a], lineage[chosen]}) <= Cardinality(lineages)
    BY <1>1, <1>4, FS_Subset
  <2>4. QED
    BY <1>1, <1>3, <2>2, <2>3
<1>6. BenchmarkLineage(s) = Compatibility(chosen.measurement)
  BY DEF BenchmarkLineage
<1>7. QED
  BY <1>4, <1>5, <1>6

(* A competition or transit score is earned only against cells of the site's own lineage. *)
LEMMA LikeWithLike ==
    ASSUME setup \in Setups, NEW n \in {CompetitionFeature, TransitFeature},
           TrueAssembly.features.metric[n].value # NoValue,
           NEW cell \in Results[n].benchmark.eligible
    PROVE  LET x == setup.cells[MetricOf[n]][cell]
           IN IF n = CompetitionFeature THEN x.definition = MeasurementDefinition(d) ELSE x.bundle = d.bundle
<1> DEFINE key == MetricOf[n]
           site == SiteMeasurement(key)
           s == Benchmark(key)
           a == Attempt(key, cell)
<1>1. n \in DirectFeatures
  BY DEF DirectFeatures
<1>2. TrueAssembly.features.metric[n] = DirectMetric(Results[n], Bindings(Results))
  BY <1>1, DirectMetricOfAFeature DEF TrueAssembly, AssemblyOf, Assemble
<1>3. Results[n].state = "available"
  BY <1>2 DEF DirectMetric
<1>4. Results[n] = NormalizeFeature(site, s) /\ Results[n].benchmark = s
  BY <1>1 DEF Results, NormalizeFeature
<1>5. DistributionState(s) = "available" /\ Compatibility(site) = BenchmarkLineage(s)
  BY <1>3, <1>4, AvailableMeansCompared
<1>6. ~HasConflict(s)
  BY <1>5 DEF DistributionState
<1>7. cell \in s.eligible /\ a \in s.attempts
  BY <1>4 DEF Benchmark
<1>8. IsFiniteSet(s.attempts)
  <2> DEFINE attempt == [c \in s.eligible |-> Attempt(key, c)]
             cells == {y \in Frame.cells : LET f == FrameCell(y, d.policy, granted)
                                         IN f.membership = "member" /\ f.eligibility = "eligible"}
             framed == [x \in cells |-> FrameCell(x, d.policy, granted)]
             judged == {framed[x] : x \in cells}
             named == [c \in judged |-> c.id]
  <2>1. IsFiniteSet(Frame.cells)
    <3>1. IsFiniteSet(setup.d.frame.cells)
      BY PipelineAssumption DEF DeploymentGiven
    <3>2. Frame.cells \in SUBSET setup.d.frame.cells
      BY DEF Frame, d
    <3>3. QED
      BY <3>1, <3>2, FS_Subset
  <2>2. IsFiniteSet(cells)
    BY <2>1, FS_Subset
  <2>3. IsFiniteSet(judged)
    <3> HIDE DEF cells
    <3>1. QED
      BY <2>2, ImageIsFinite
  <2>4. IsFiniteSet({named[c] : c \in judged})
    <3> HIDE DEF judged
    <3>1. QED
      BY <2>3, ImageIsFinite
  <2>5. s.eligible = {named[c] : c \in judged}
    BY DEF Benchmark, EligibleCells
  <2>6. IsFiniteSet({attempt[c] : c \in s.eligible})
    <3>1. IsFiniteSet(s.eligible)
      BY <2>4, <2>5
    <3> HIDE DEF s
    <3>2. QED
      BY <3>1, ImageIsFinite
  <2>7. s.attempts = {attempt[c] : c \in s.eligible}
    BY DEF Benchmark
  <2>8. QED
    BY <2>6, <2>7
<1>9. Compatibility(a.measurement) = Compatibility(site)
  BY <1>5, <1>6, <1>7, <1>8, OneLineage
<1>10. a.measurement.lineage = site.lineage
  BY <1>9 DEF Compatibility
<1>11. /\ site.lineage = RequiredLineage(key, [definition |-> MeasurementDefinition(d), bundle |-> d.bundle])
       /\ a.measurement.lineage = RequiredLineage(key, [definition |-> setup.cells[key][cell].definition,
                                                       bundle |-> setup.cells[key][cell].bundle])
  BY DEF SiteMeasurement, Attempt, Measure, Observed, RequiredLineage
<1>12. CASE n = CompetitionFeature
  <2>1. key = "competition_pressure"
    BY <1>12 DEF MetricOf, CompetitionFeature
  <2>2. QED
    BY <1>10, <1>11, <1>12, <2>1 DEF RequiredLineage
<1>13. CASE n = TransitFeature
  <2>1. key = "transit_service_departure_equivalents_per_hour" /\ n # CompetitionFeature
    BY <1>13 DEF MetricOf, TransitFeature, CompetitionFeature
  <2>2. QED
    BY <1>10, <1>11, <1>13, <2>1 DEF RequiredLineage
<1>14. QED
  BY <1>12, <1>13
-----------------------------------------------------------------------------
(* Registries *)

LEMMA Registered ==
    /\ Registries = {"assembly", "readiness", "pipeline", "scoring", "category", "core", "analysis",
                     "completed", "not_ready", "facts", "report_domain", "context", "narrative"}
    /\ \A r \in Registries : Consults[r] \subseteq Registries
BY DEF Registries, Attests, Consults, Scoring, Analysis, ReportDomain

LEMMA AttestsAre ==
    /\ Attests["assembly"] = {"results", "features", "policies"} /\ Attests["readiness"] = {"readiness"}
    /\ Attests["pipeline"] = {"terminal", "features", "readiness"} /\ Attests["scoring"] = {}
    /\ Attests["category"] = {"category"} /\ Attests["core"] = {"core"} /\ Attests["analysis"] = {"analysis"}
    /\ Attests["completed"] = {"body"} /\ Attests["not_ready"] = {"projection"}
    /\ Attests["facts"] = {"facts"} /\ Attests["report_domain"] = {"facts"}
    /\ Attests["context"] = {"context"} /\ Attests["narrative"] = {"narrative"}
BY DEF Attests

LEMMA ConsultsAre ==
    /\ Consults["assembly"] = {"assembly"} /\ Consults["readiness"] = {"readiness", "assembly"}
    /\ Consults["pipeline"] = {"pipeline"} /\ Consults["scoring"] = {"scoring", "pipeline"}
    /\ Consults["category"] = {"category", "scoring", "pipeline"}
    /\ Consults["core"] = {"core", "category", "scoring", "pipeline"}
    /\ Consults["analysis"] = {"analysis", "core", "category", "scoring", "pipeline"}
    /\ Consults["completed"] = {"completed", "analysis", "core", "category", "scoring", "pipeline"}
    /\ Consults["not_ready"] = {"not_ready", "pipeline"}
    /\ Consults["facts"] = {"facts", "analysis", "core", "category", "scoring", "pipeline"}
    /\ Consults["report_domain"] = {"report_domain"} \cup Consults["facts"]
    /\ Consults["context"] = {"context"} \cup Consults["report_domain"]
    /\ Consults["narrative"] = {"narrative"} \cup Consults["context"]
<1> USE DEF Scoring, Analysis, ReportDomain
<1>1. /\ Consults["assembly"] = {"assembly"} /\ Consults["readiness"] = {"readiness", "assembly"}
      /\ Consults["pipeline"] = {"pipeline"} /\ Consults["scoring"] = {"scoring", "pipeline"}
      /\ Consults["category"] = {"category", "scoring", "pipeline"}
      /\ Consults["core"] = {"core", "category", "scoring", "pipeline"}
  BY DEF Consults
<1>2. /\ Consults["analysis"] = {"analysis", "core", "category", "scoring", "pipeline"}
      /\ Consults["completed"] = {"completed", "analysis", "core", "category", "scoring", "pipeline"}
      /\ Consults["not_ready"] = {"not_ready", "pipeline"}
      /\ Consults["facts"] = {"facts", "analysis", "core", "category", "scoring", "pipeline"}
  BY DEF Consults
<1>3. /\ Consults["report_domain"] = {"report_domain"} \cup Consults["facts"]
      /\ Consults["context"] = {"context"} \cup Consults["report_domain"]
      /\ Consults["narrative"] = {"narrative"} \cup Consults["context"]
  BY DEF Consults
<1>4. QED
  BY <1>1, <1>2, <1>3

(* What a trusted registry and those it rests on attest is there, and is right. *)
LEMMA TrustedIsRight ==
    ASSUME Going, NEW registry, Trusted(registry)
    PROVE  \A r \in Consults[registry] :
              /\ r \in DOMAIN seal
              /\ \A p \in Attests[r] :
                    p \in DOMAIN part /\ part[p] = seal[r][p] /\ Right(p, part[p], Analysed)
BY DEF Going, Trusted, Resolved, SealsAreRight, Agreed

(* While nobody overwrites anything, every registry that was reached is trusted. *)
LEMMA UntouchedIsTrusted ==
    ASSUME Going, changes = 0, NEW registry, Consults[registry] \subseteq DOMAIN seal
    PROVE  Trusted(registry)
BY DEF Going, Agreed, Trusted, Resolved

(* An object that is made anew and attested as it was made. *)
LEMMA Sealing ==
    ASSUME NEW next, NEW made, NEW registries, NEW holding, Going,
           Proceed(next, made, registries, holding),
           registries \subseteq Registries \ {"analysis"}, registries \cap DOMAIN seal = {},
           \A r \in DOMAIN seal : Attests[r] \cap DOMAIN made = {},
           \A r \in registries : \A p \in Attests[r] :
               p \in DOMAIN part \cup DOMAIN made /\ Right(p, Updated(part, made)[p], Analysed)
    PROVE  /\ DOMAIN seal' = DOMAIN seal \cup registries
           /\ Analysed' = Analysed /\ SealsAreRight(Analysed)' /\ Agreed'
<1>1. /\ part' = Updated(part, made)
      /\ seal' = Updated(seal, [r \in registries |-> Attested(r, Updated(part, made))])
      /\ UNCHANGED <<setup, evidence, changes>>
  BY DEF Proceed
<1>2. /\ DOMAIN seal' = DOMAIN seal \cup registries
      /\ \A r \in registries : seal'[r] = Attested(r, Updated(part, made))
      /\ \A r \in DOMAIN seal : seal'[r] = seal[r]
  BY <1>1 DEF Updated
<1>3. Analysed' = Analysed
  BY <1>2 DEF Analysed
<1>4. ASSUME NEW r \in registries, NEW p \in Attests[r]
      PROVE  seal'[r][p] = Updated(part, made)[p]
  BY <1>2 DEF Attested
<1>5. ASSUME NEW r \in DOMAIN seal'
      PROVE  r \in Registries /\ \A p \in Attests[r] : Right(p, seal'[r][p], Analysed)
  <2>1. CASE r \in registries
    BY <1>4, <2>1
  <2>2. CASE r \in DOMAIN seal
    BY <1>2, <2>2 DEF Going, SealsAreRight
  <2>3. QED
    BY <1>2, <2>1, <2>2
<1>6. SealsAreRight(Analysed)'
  <2>1. \A p, v, analysed : Right(p, v, analysed)' <=> Right(p, v, analysed)
    BY <1>1, RightStays
  <2>2. QED
    BY <1>3, <1>5, <2>1 DEF SealsAreRight
<1>7. Agreed'
  <2>1. SUFFICES ASSUME NEW r \in DOMAIN seal', NEW p \in Attests[r]
                 PROVE  p \in DOMAIN part' /\ (changes' = 0 => part'[p] = seal'[r][p])
    BY DEF Agreed
  <2>2. CASE r \in registries
    <3>1. p \in DOMAIN part'
      BY <1>1, <2>2 DEF Updated
    <3>2. QED
      BY <1>1, <1>4, <2>2, <3>1
  <2>3. CASE r \in DOMAIN seal
    <3>1. p \notin DOMAIN made /\ p \in DOMAIN part /\ (changes = 0 => part[p] = seal[r][p])
      BY <1>1, <2>1, <2>3 DEF Going, Agreed
    <3>2. QED
      BY <1>1, <1>2, <2>3, <3>1 DEF Updated
  <2>4. QED
    BY <1>2, <2>2, <2>3
<1>8. QED
  BY <1>2, <1>3, <1>6, <1>7
-----------------------------------------------------------------------------
(* Steps *)

LEMMA InitIsInOrder == Init => Chain
<1> SUFFICES ASSUME Init PROVE Chain
  OBVIOUS
<1>1. DOMAIN seal = {} /\ DOMAIN part = {}
  BY DEF Init, Nothing
<1>2. setup.source \in {"provider", "controlled"}
  BY PipelineAssumption DEF Init
<1>3. stage \in {"geocode", "measure"} /\ (stage = "measure" => setup.source = "controlled")
  BY <1>2 DEF Init
<1>4. Ordered /\ SealsAreRight(Analysed) /\ Agreed
  BY <1>1, <1>3 DEF Ordered, SealedBy, SealsAreRight, Agreed
<1>5. StageOK /\ HeldOK
  <2>1. part = Nothing
    BY DEF Init
  <2>2. QED
    BY <1>3, <2>1 DEF StageOK, HeldOK, AcquisitionStages, JudgementStages, LicensedStages, CoreStages,
          ReportStages
<1>6. Assembled /\ OutcomeOK
  BY <1>1 DEF Init, Assembled, OutcomeOK, Undecided
<1>7. QED
  BY <1>3, <1>4, <1>5, <1>6 DEF Init, Chain, Going, ReportMade

(* Whatever ends the analysis leaves only its outcome to answer for. *)
LEMMA Ending ==
    ASSUME Chain, stage' = "done", UNCHANGED <<setup, evidence, part, changes>>, OutcomeOK'
    PROVE  Chain'
<1>1. TrueAssembly' = TrueAssembly /\ Results' = Results
  BY TruthStays
<1>2. Assembled'
  BY <1>1 DEF Chain, Assembled
<1>3. QED
  BY <1>2 DEF Chain

LEMMA Raising ==
    ASSUME Chain, Raise, UNCHANGED <<setup, evidence, part, changes>> PROVE Chain'
<1>1. stage' = "done" /\ outcome'.status = "failed"
  BY DEF Raise, Over
<1>2. OutcomeOK'
  BY <1>1 DEF OutcomeOK
<1>3. QED
  BY <1>1, <1>2, Ending

(* A step of the executor keeps the chain when its stage, what it holds and what it seals are in order. *)
LEMMA Advancing ==
    ASSUME NEW next, NEW made, NEW registries, NEW holding, Chain, stage # "done",
           Proceed(next, made, registries, holding),
           registries \subseteq Registries \ {"analysis"}, registries \cap DOMAIN seal = {},
           \A r \in DOMAIN seal : Attests[r] \cap DOMAIN made = {},
           \A r \in registries : \A p \in Attests[r] :
               p \in DOMAIN part \cup DOMAIN made /\ Right(p, Updated(part, made)[p], Analysed),
           "assembly" \in DOMAIN seal,
           Ordered', StageOK', HeldOK', ReportMade'
    PROVE  Chain'
<1>1. /\ part' = Updated(part, made) /\ UNCHANGED <<setup, evidence, outcome, changes>>
  BY DEF Proceed
<1>2. Going
  BY DEF Chain
<1>3. SealsAreRight(Analysed)' /\ Agreed'
  BY <1>2, Sealing
<1>4. outcome' = Undecided'
  BY <1>1, <1>2 DEF Going, Undecided, Nothing
<1>5. OutcomeOK'
  BY <1>4 DEF OutcomeOK, Undecided
<1>6. Assembled'
  <2>1. TrueAssembly' = TrueAssembly /\ Results' = Results
    BY <1>1, TruthStays
  <2>2. {"features", "results"} \subseteq DOMAIN part /\ {"features", "results"} \cap DOMAIN made = {}
    BY <1>2, AttestsAre DEF Going, Agreed
  <2>3. ("features" \in DOMAIN part' <=> "features" \in DOMAIN part)
    BY <1>1, <2>2 DEF Updated
  <2>4. part'["features"] = part["features"] /\ part'["results"] = part["results"]
    BY <1>1, <2>2 DEF Updated
  <2>5. QED
    BY <1>1, <2>1, <2>3, <2>4 DEF Chain, Assembled
<1>7. QED
  BY <1>1, <1>3, <1>4, <1>5, <1>6 DEF Chain, Going

(* One object more, and its registry, or none: the stage follows from what is sealed. *)
LEMMA Making ==
    ASSUME NEW next, NEW made, NEW registry \in Registries \ {"analysis"}, NEW holding, Chain,
           stage \notin {"done", "publish"}, "assembly" \in DOMAIN seal,
           Proceed(next, made, {registry}, holding), registry \notin DOMAIN seal,
           \A r \in DOMAIN seal : Attests[r] \cap DOMAIN made = {},
           \A p \in Attests[registry] :
               IF p \in DOMAIN made THEN Right(p, made[p], Analysed)
               ELSE p \in DOMAIN part /\ Right(p, part[p], Analysed),
           next # "publish", SealedBy(next) = SealedBy(stage) \cup {registry}, StageOK', HeldOK'
    PROVE  Chain'
<1>1. Going /\ DOMAIN seal = SealedBy(stage)
  BY DEF Chain, Going, Ordered
<1>2. \A r \in {registry} : \A p \in Attests[r] :
          p \in DOMAIN part \cup DOMAIN made /\ Right(p, Updated(part, made)[p], Analysed)
  BY DEF Updated
<1>3. {registry} \subseteq Registries \ {"analysis"} /\ {registry} \cap DOMAIN seal = {}
  OBVIOUS
<1>4. DOMAIN seal' = DOMAIN seal \cup {registry}
  BY <1>1, <1>2, <1>3, Sealing
<1>5. stage' = next
  BY DEF Proceed
<1>6. Ordered' /\ ReportMade'
  BY <1>1, <1>4, <1>5 DEF Ordered, ReportMade
<1>7. QED
  BY <1>2, <1>3, <1>6, Advancing

LEMMA Moving ==
    ASSUME NEW next, NEW holding, Chain, stage \notin {"done", "publish"}, "assembly" \in DOMAIN seal,
           Proceed(next, Nothing, {}, holding), next # "publish", SealedBy(next) = SealedBy(stage),
           StageOK', HeldOK'
    PROVE  Chain'
<1>1. Going /\ DOMAIN seal = SealedBy(stage)
  BY DEF Chain, Going, Ordered
<1>2. DOMAIN Nothing = {}
  BY DEF Nothing
<1>3. \A r \in DOMAIN seal : Attests[r] \cap DOMAIN Nothing = {}
  BY <1>2
<1>4. DOMAIN seal' = DOMAIN seal
  BY DEF Proceed, Updated
<1>5. stage' = next
  BY DEF Proceed
<1>6. Ordered' /\ ReportMade'
  BY <1>1, <1>4, <1>5 DEF Ordered, ReportMade
<1> HIDE DEF Nothing
<1>7. QED
  BY <1>3, <1>6, Advancing

(* What a step that makes other things leaves as it is. *)
LEMMA TheRestStays ==
    ASSUME NEW next, NEW made, NEW registries, NEW holding, Proceed(next, made, registries, holding)
    PROVE  /\ UNCHANGED <<setup, evidence, changes>> /\ stage' = next /\ held' = holding
           /\ "analysis" \notin registries => Analysed' = Analysed /\ TrueFacts' = TrueFacts
           /\ \A p \in DOMAIN part \ DOMAIN made : p \in DOMAIN part' /\ part'[p] = part[p]
<1>1. "analysis" \notin registries => Analysed' = Analysed
  BY DEF Proceed, Updated, Analysed
<1>2. QED
  BY <1>1 DEF Proceed, Updated, TrueFacts
-----------------------------------------------------------------------------
(* Acquisition: nothing is registered yet, and the transit evidence is never eligible. *)

Evident(facts) == "transit" \in DOMAIN facts /\ facts["transit"].eligibility # "eligible"

LEMMA Acquiring ==
    ASSUME NEW usable, NEW next, NEW new, Chain, stage \in AcquisitionStages,
           Acquired(usable, next, new), next \in AcquisitionStages \cup {"measure"},
           next \in {"benchmarks", "measure"} /\ setup.source = "provider" => Evident(Updated(evidence, new))
    PROVE  Chain'
<1>1. stage # "done" /\ Going
  BY DEF Chain, AcquisitionStages
<1>2. CASE ~usable
  BY <1>2, Raising DEF Acquired
<1>3. CASE usable
  <2>1. /\ stage' = next /\ evidence' = Updated(evidence, new)
        /\ UNCHANGED <<setup, part, seal, held, changes, outcome>>
    BY <1>3 DEF Acquired
  <2>2. DOMAIN seal = {} /\ DOMAIN part = {} /\ part = Nothing
    BY <1>1 DEF Going, Ordered, SealedBy, StageOK, AcquisitionStages, Nothing
  <2>3. Ordered' /\ SealsAreRight(Analysed)' /\ Agreed'
    BY <2>1, <2>2 DEF Ordered, SealedBy, SealsAreRight, Agreed, AcquisitionStages
  <2>4. StageOK'
    BY <2>1, <2>2 DEF StageOK, Evident, AcquisitionStages, JudgementStages, LicensedStages, CoreStages,
          ReportStages
  <2>5. HeldOK' /\ (stage' # "publish")
    BY <2>1 DEF HeldOK, AcquisitionStages
  <2>6. Assembled' /\ OutcomeOK'
    BY <1>1, <2>1, <2>2 DEF Assembled, OutcomeOK, Going, Undecided
  <2>7. outcome' = Undecided' /\ changes' \in Nat /\ setup' \in Setups
    BY <1>1, <2>1 DEF Chain, Going, Undecided, Nothing
  <2>8. QED
    BY <2>3, <2>4, <2>5, <2>6, <2>7 DEF Chain, Going, ReportMade
<1>4. QED
  BY <1>2, <1>3

LEMMA TransitIsNeverEligible ==
    ASSUME NEW feed, NEW reach PROVE TransitMetric(feed, reach).eligibility # "eligible"
<1>1. \A value, refs : DiagnosticMetric(value, refs).eligibility # "eligible"
  BY DEF DiagnosticMetric
<1>2. QED
  BY <1>1 DEF TransitMetric

LEMMA AcquisitionKeepsOrder ==
    ASSUME Chain, Acquisition PROVE Chain'
<1> USE DEF AcquisitionStages
<1>1. CASE Geocode
  BY <1>1, Acquiring DEF Geocode
<1>2. CASE Geography
  BY <1>2, Acquiring DEF Geography
<1>3. CASE Acs
  BY <1>3, Acquiring DEF Acs
<1>4. CASE Demographics
  BY <1>4, Acquiring DEF Demographics
<1>5. CASE Isochrone
  BY <1>5, Acquiring DEF Isochrone
<1>6. CASE Network
  BY <1>6, Acquiring DEF Network
<1>7. CASE Overture
  BY <1>7, Acquiring DEF Overture
<1>8. CASE Transit
  <2>1. PICK loaded \in Feeds :
            Acquired(/\ loaded.pinned /\ ParsedFeed(loaded.feed)
                     /\ ReachKnown(loaded.feed, loaded.reach)
                     /\ Profiled(loaded.feed) =>
                            ~ProfileRaises(loaded.feed, loaded.reach, d.pickups, d.dates),
                     "benchmarks",
                     [transit |-> TransitMetric(loaded.feed, loaded.reach), feed |-> loaded])
    BY <1>8 DEF Transit
  <2> DEFINE metric == TransitMetric(loaded.feed, loaded.reach)
             new == [transit |-> metric, feed |-> loaded]
  <2>2. metric.eligibility # "eligible"
    BY TransitIsNeverEligible
  <2> HIDE DEF metric
  <2>3. Evident(Updated(evidence, new))
    BY <2>2 DEF Evident, Updated
  <2>4. stage = "transit"
    BY <1>8 DEF Transit
  <2>5. QED
    BY <2>1, <2>3, <2>4, Acquiring DEF metric
<1>9. CASE Benchmarks
  <2>1. PICK keys \in BenchmarkSets : Acquired(keys = MetricKeys, "measure", [sources |-> Sources])
    BY <1>9 DEF Benchmarks
  <2>2. stage = "benchmarks"
    BY <1>9 DEF Benchmarks
  <2>3. setup.source = "provider" => Evident(evidence)
    BY <2>2 DEF Chain, Going, StageOK, Evident
  <2>4. setup.source = "provider" => Evident(Updated(evidence, [sources |-> Sources]))
    BY <2>3 DEF Evident, Updated
  <2>5. QED
    BY <2>1, <2>2, <2>4, Acquiring
<1>10. QED
  BY <1>1, <1>2, <1>3, <1>4, <1>5, <1>6, <1>7, <1>8, <1>9 DEF Acquisition
-----------------------------------------------------------------------------
(* Judgement: from the measurements to the gate *)

LEMMA StillJudging ==
    ASSUME Chain, stage \in JudgementStages, UNCHANGED <<setup, evidence>>,
           stage' \in JudgementStages \ {"measure", "assemble"}
    PROVE  StageOK' /\ HeldOK' /\ stage' # "publish" /\ stage # "done"
<1>1. stage # "done" /\ Going
  BY DEF Chain, JudgementStages
<1>2. StageOK'
  BY <1>1 DEF Going, StageOK, JudgementStages, AcquisitionStages, LicensedStages, CoreStages, ReportStages
<1>3. QED
  BY <1>1, <1>2 DEF HeldOK, JudgementStages

LEMMA MeasuringKeepsOrder ==
    ASSUME Chain, MeasureAndNormalize PROVE Chain'
<1>1. CASE Measured
  <2>1. stage = "measure" /\ Proceed("assemble", [results |-> Results], {}, Nothing)
    BY <1>1 DEF MeasureAndNormalize
  <2>2. Going
    BY <2>1 DEF Chain
  <2>3. DOMAIN seal = {} /\ DOMAIN part = {}
    BY <2>1, <2>2 DEF Going, Ordered, SealedBy, StageOK, Nothing
  <2>4. /\ DOMAIN seal' = {} /\ part' = Updated(part, [results |-> Results]) /\ stage' = "assemble"
        /\ UNCHANGED <<setup, evidence, outcome, changes>>
    BY <2>1, <2>3 DEF Proceed, Updated
  <2>5. DOMAIN part' = {"results"} /\ part'["results"] = Results
    <3> HIDE DEF Results
    <3>1. QED
      BY <2>3, <2>4 DEF Updated
  <2>6. Ordered' /\ SealsAreRight(Analysed)' /\ Agreed'
    BY <2>4 DEF Ordered, SealedBy, SealsAreRight, Agreed
  <2>7. StageOK'
    BY <2>1, <2>2, <2>4, <2>5, TruthStays DEF Going, StageOK, JudgementStages, AcquisitionStages,
          LicensedStages, CoreStages, ReportStages
  <2>8. HeldOK' /\ Assembled'
    BY <2>4, <2>5 DEF HeldOK, Assembled
  <2>9. OutcomeOK' /\ outcome' = Undecided'
    BY <2>2, <2>4 DEF Going, OutcomeOK, Undecided, Nothing
  <2>10. QED
    BY <2>4, <2>6, <2>7, <2>8, <2>9 DEF Chain, Going, ReportMade
<1>2. CASE ~Measured
  BY <1>2, Raising DEF MeasureAndNormalize, Abort
<1>3. QED
  BY <1>1, <1>2

LEMMA AssemblingKeepsOrder ==
    ASSUME Chain, AssembleFeatures PROVE Chain'
<1> DEFINE a == AssemblyOf(part["results"])
           made == [features |-> a.features,
                    policies |-> [policies |-> a.policies, compatibility |-> a.compatibility,
                                  approved |-> a.approved]]
<1>1. stage = "assemble" /\ Going
  BY DEF AssembleFeatures, Chain
<1>2. CASE Abort
  BY <1>2, Raising DEF Abort
<1>3. CASE Proceed("readiness", made, {"assembly"}, Nothing)
  <2>1. DOMAIN seal = {} /\ part["results"] = Results /\ "results" \in DOMAIN part
    BY <1>1 DEF Going, Ordered, SealedBy, StageOK
  <2>2. a = TrueAssembly
    BY <2>1 DEF TrueAssembly
  <2>3. /\ part' = Updated(part, made) /\ stage' = "readiness"
        /\ UNCHANGED <<setup, evidence, outcome, changes>>
    BY <1>3 DEF Proceed
  <2> HIDE DEF a
  <2>4. /\ DOMAIN Updated(part, made) = DOMAIN part \cup {"features", "policies"}
        /\ Updated(part, made)["features"] = TrueAssembly.features
        /\ Updated(part, made)["results"] = Results
        /\ Updated(part, made)["policies"] =
               [policies |-> TrueAssembly.policies, compatibility |-> TrueAssembly.compatibility,
                approved |-> TrueAssembly.approved]
    BY <2>1, <2>2 DEF Updated
  <2>5. \A p \in Attests["assembly"] :
           p \in DOMAIN part \cup DOMAIN made /\ Right(p, Updated(part, made)[p], Analysed)
    BY <2>1, <2>4, AttestsAre DEF Right
  <2> HIDE DEF made
  <2>6. DOMAIN seal' = {"assembly"} /\ SealsAreRight(Analysed)' /\ Agreed'
    BY <1>1, <1>3, <2>1, <2>5, Sealing, Registered
  <2>7. Ordered'
    BY <2>3, <2>6 DEF Ordered, SealedBy
  <2>8. StageOK' /\ HeldOK'
    BY <1>1, <2>3, StillJudging DEF JudgementStages
  <2>9. Assembled'
    BY <2>3, <2>4, TruthStays DEF Assembled
  <2>10. OutcomeOK' /\ outcome' = Undecided'
    BY <1>1, <2>3 DEF Going, OutcomeOK, Undecided, Nothing
  <2>11. QED
    BY <2>3, <2>6, <2>7, <2>8, <2>9, <2>10 DEF Chain, Going, ReportMade
<1>4. QED
  BY <1>2, <1>3 DEF AssembleFeatures

(* Which registries have made their object, written out. *)
LEMMA SealedUntilTheGate ==
    /\ SealedBy("readiness") = {"assembly"} /\ SealedBy("terminal") = {"assembly", "readiness"}
    /\ SealedBy("gate") = Judged /\ SealedBy("refuse") = Judged /\ SealedBy("score") = Judged
    /\ SealedBy("publish_refusal") = Judged \cup {"not_ready"}
BY DEF SealedBy

LEMMA ReadinessOfTheSameParts ==
    ASSUME NEW a, NEW b, a.features = b.features, a.policies = b.policies,
           a.compatibility = b.compatibility, a.approved = b.approved
    PROVE  DeriveReadiness(a) = DeriveReadiness(b)
BY DEF DeriveReadiness, Validate

LEMMA ReadinessKeepsOrder ==
    ASSUME Chain, DeriveScoringReadiness PROVE Chain'
<1> DEFINE a == [features |-> part["features"], policies |-> part["policies"].policies,
                 compatibility |-> part["policies"].compatibility, approved |-> part["policies"].approved]
           r == DeriveReadiness(a)
           made == [readiness |-> r]
<1>1. stage = "readiness" /\ Going
  BY DEF DeriveScoringReadiness, Chain
<1>2. CASE Abort
  BY <1>2, Raising DEF Abort
<1>3. ASSUME Trusted("assembly"), Proceed("terminal", made, {"readiness"}, Nothing) PROVE Chain'
  <2>1. DOMAIN seal = {"assembly"}
    BY <1>1, SealedUntilTheGate DEF Going, Ordered
  <2>2. \A p \in {"features", "policies"} : Right(p, part[p], Analysed)
    BY <1>1, <1>3, TrustedIsRight, AttestsAre, ConsultsAre
  <2>3. /\ a.features = TrueAssembly.features /\ a.policies = TrueAssembly.policies
        /\ a.compatibility = TrueAssembly.compatibility /\ a.approved = TrueAssembly.approved
    BY <2>2 DEF Right
  <2> HIDE DEF a
  <2>4. r = TrueReadiness
    BY <2>3, ReadinessOfTheSameParts DEF TrueReadiness
  <2> HIDE DEF r
  <2>5. DOMAIN made = {"readiness"} /\ made["readiness"] = TrueReadiness
    BY <2>4
  <2>6. stage' = "terminal" /\ UNCHANGED <<setup, evidence>>
    BY <1>3 DEF Proceed
  <2>7. StageOK' /\ HeldOK'
    BY <1>1, <2>6, StillJudging DEF JudgementStages
  <2> HIDE DEF made
  <2>8. \A s \in DOMAIN seal : Attests[s] \cap DOMAIN made = {}
    BY <2>1, <2>5, AttestsAre
  <2>9. \A p \in Attests["readiness"] : p \in DOMAIN made /\ Right(p, made[p], Analysed)
    BY <2>5, AttestsAre DEF Right
  <2>10. SealedBy("terminal") = SealedBy(stage) \cup {"readiness"}
    BY <1>1, SealedUntilTheGate
  <2>11. "readiness" \in Registries \ {"analysis"} /\ "readiness" \notin DOMAIN seal
    BY <2>1, Registered
  <2>12. QED
    BY <1>1, <1>3, <2>1, <2>7, <2>8, <2>9, <2>10, <2>11, Making
<1>4. QED
  BY <1>2, <1>3 DEF DeriveScoringReadiness

LEMMA TerminalKeepsOrder ==
    ASSUME Chain, BuildPipelineResult PROVE Chain'
<1>1. stage = "terminal" /\ Going
  BY DEF BuildPipelineResult, Chain
<1>2. CASE Abort
  BY <1>2, Raising DEF Abort
<1>3. ASSUME NEW terminal, Trusted("readiness"),
             Proceed("gate", [terminal |-> terminal], {"pipeline"}, Nothing)
      PROVE  Chain'
  <2> DEFINE made == [terminal |-> terminal]
  <2>1. DOMAIN seal = {"assembly", "readiness"}
    BY <1>1, SealedUntilTheGate DEF Going, Ordered
  <2>2. \A p \in {"features", "readiness"} : p \in DOMAIN part /\ Right(p, part[p], Analysed)
    BY <1>1, <1>3, TrustedIsRight, AttestsAre, ConsultsAre
  <2>3. DOMAIN made = {"terminal"}
    OBVIOUS
  <2>4. stage' = "gate" /\ UNCHANGED <<setup, evidence>>
    BY <1>3 DEF Proceed
  <2>5. StageOK' /\ HeldOK'
    BY <1>1, <2>4, StillJudging DEF JudgementStages
  <2> HIDE DEF made
  <2>6. \A s \in DOMAIN seal : Attests[s] \cap DOMAIN made = {}
    BY <2>1, <2>3, AttestsAre
  <2>7. Right("terminal", made["terminal"], Analysed)
    BY DEF Right
  <2>8. \A p \in Attests["pipeline"] :
           IF p \in DOMAIN made THEN Right(p, made[p], Analysed)
           ELSE p \in DOMAIN part /\ Right(p, part[p], Analysed)
    BY <2>2, <2>3, <2>7, AttestsAre
  <2>9. SealedBy("gate") = SealedBy(stage) \cup {"pipeline"}
    BY <1>1, SealedUntilTheGate DEF Judged
  <2>10. "pipeline" \in Registries \ {"analysis"} /\ "pipeline" \notin DOMAIN seal
    BY <2>1, Registered
  <2>11. QED
    BY <1>1, <1>3, <2>1, <2>5, <2>6, <2>8, <2>9, <2>10, Making DEF made
<1>4. QED
  BY <1>2, <1>3 DEF BuildPipelineResult

(* The gate and the refusal *)
LEMMA GateKeepsOrder ==
    ASSUME Chain, EvaluateGate PROVE Chain'
<1>1. stage = "gate" /\ Going
  BY DEF EvaluateGate, Chain
<1>2. CASE Abort
  BY <1>2, Raising DEF Abort
<1>3. ASSUME NEW next \in {"refuse", "score"}, Proceed(next, Nothing, {}, Nothing) PROVE Chain'
  <2>1. DOMAIN seal = Judged /\ SealedBy(next) = SealedBy(stage)
    BY <1>1, SealedUntilTheGate DEF Going, Ordered
  <2>2. stage' = next /\ UNCHANGED <<setup, evidence>>
    BY <1>3 DEF Proceed
  <2>3. StageOK' /\ HeldOK'
    BY <1>1, <2>2, StillJudging DEF JudgementStages
  <2>4. QED
    BY <1>1, <1>3, <2>1, <2>3, Moving DEF Judged
<1>4. QED
  BY <1>2, <1>3 DEF EvaluateGate

LEMMA RefusalKeepsOrder ==
    ASSUME Chain, BuildNotScoreReady \/ PublishNotScoreReady PROVE Chain'
<1>1. stage # "done" /\ Going
  BY DEF BuildNotScoreReady, PublishNotScoreReady, Chain
<1>2. CASE BuildNotScoreReady /\ Abort
  BY <1>2, Raising DEF Abort
<1>3. ASSUME stage = "refuse", Trusted("pipeline"),
             Proceed("publish_refusal", [projection |-> Projection(part["readiness"])], {"not_ready"},
                     Nothing)
      PROVE  Chain'
  <2> DEFINE projection == Projection(part["readiness"])
             made == [projection |-> projection]
  <2>1. DOMAIN seal = Judged
    BY <1>1, <1>3, SealedUntilTheGate DEF Going, Ordered
  <2>2. Right("readiness", part["readiness"], Analysed)
    BY <1>1, <1>3, TrustedIsRight, AttestsAre, ConsultsAre
  <2>3. projection = Projection(TrueReadiness)
    BY <2>2 DEF Right
  <2> HIDE DEF projection
  <2>4. DOMAIN made = {"projection"} /\ made["projection"] = Projection(TrueReadiness)
    BY <2>3
  <2>5. stage' = "publish_refusal" /\ UNCHANGED <<setup, evidence>>
    BY <1>3 DEF Proceed
  <2>6. StageOK' /\ HeldOK'
    BY <1>3, <2>5, StillJudging DEF JudgementStages
  <2> HIDE DEF made
  <2>7. \A s \in DOMAIN seal : Attests[s] \cap DOMAIN made = {}
    BY <2>1, <2>4, AttestsAre DEF Judged
  <2>8. \A p \in Attests["not_ready"] : p \in DOMAIN made /\ Right(p, made[p], Analysed)
    BY <2>4, AttestsAre DEF Right
  <2>9. SealedBy("publish_refusal") = SealedBy(stage) \cup {"not_ready"}
    BY <1>3, SealedUntilTheGate
  <2>10. "not_ready" \in Registries \ {"analysis"} /\ "not_ready" \notin DOMAIN seal
    BY <2>1, Registered DEF Judged
  <2>11. QED
    BY <1>3, <2>1, <2>6, <2>7, <2>8, <2>9, <2>10, Making DEF Judged, made, projection
<1>4. CASE PublishNotScoreReady
  <2>1. stage' = "done" /\ UNCHANGED <<setup, evidence, part, changes>>
    BY <1>4 DEF PublishNotScoreReady, Raise, Over
  <2>2. CASE Trusted("not_ready") /\ outcome' = [status |-> "not_score_ready", body |-> part["projection"]]
    <3>1. part["projection"] = Projection(TrueReadiness)
      BY <1>1, <2>2, TrustedIsRight, AttestsAre, ConsultsAre DEF Right
    <3>2. outcome'.status = "not_score_ready" /\ outcome'.body = Projection(TrueReadiness)
      BY <2>2, <3>1
    <3>3. OutcomeOK'
      BY <2>1, <3>2, TruthStays DEF OutcomeOK
    <3>4. QED
      BY <2>1, <3>3, Ending
  <2>3. CASE Raise
    BY <2>1, <2>3, Raising
  <2>4. QED
    BY <1>4, <2>2, <2>3 DEF PublishNotScoreReady, Over
<1>5. QED
  BY <1>2, <1>3, <1>4 DEF BuildNotScoreReady

LEMMA JudgementKeepsOrder ==
    ASSUME Chain, Judgement PROVE Chain'
BY MeasuringKeepsOrder, AssemblingKeepsOrder, ReadinessKeepsOrder, TerminalKeepsOrder, GateKeepsOrder,
   RefusalKeepsOrder DEF Judgement
-----------------------------------------------------------------------------
(* Scoring: from the gate to the completed result *)

LEMMA SealedUntilTheResult ==
    /\ \A s \in {"aggregate", "categories", "aggregated"} : SealedBy(s) = ScoredSeals
    /\ SealedBy("adapt") = ScoredSeals \cup {"category"} /\ SealedBy("adapted") = SealedBy("adapt")
    /\ SealedBy("analyze") = ScoredSeals \cup {"category", "core"}
    /\ SealedBy("analyzed") = SealedBy("analyze") /\ SealedBy("complete") = AnalysedSeals
    /\ SealedBy("report") = AnalysedSeals \cup {"completed"}
BY DEF SealedBy

(* Once an analysis may score, it may until it ends; the core is asked to take its input once. *)
LEMMA StillLicensed ==
    ASSUME UNCHANGED <<setup, evidence>>, Authorised, stage' \in LicensedStages,
           stage' \in CoreStages \cup ReportStages => AnalysisInput(TrueInput)
    PROVE  StageOK'
<1>1. Authorised'
  BY TruthStays
<1>2. stage' \in CoreStages \cup ReportStages => AnalysisInput(TrueInput)'
  BY TruthStays
<1>3. /\ stage' \notin AcquisitionStages \cup {"measure"} /\ stage' # "assemble"
      /\ stage' \notin {"benchmarks"} \cup JudgementStages
  BY DEF LicensedStages, CoreStages, ReportStages, AcquisitionStages, JudgementStages
<1>4. QED
  BY <1>1, <1>2, <1>3 DEF StageOK

LEMMA LicensedIsAuthorised ==
    ASSUME Chain, stage \in LicensedStages
    PROVE  /\ stage # "done" /\ Going /\ Authorised
           /\ stage \in CoreStages \cup ReportStages => AnalysisInput(TrueInput)
<1>1. stage # "done"
  BY DEF LicensedStages, CoreStages, ReportStages
<1>2. QED
  BY <1>1 DEF Chain, Going, StageOK

(* The gate that counts looks at what was registered, and what was registered is the true readiness. *)
LEMMA ScoringInputKeepsOrder ==
    ASSUME Chain, BuildScoringInput PROVE Chain'
<1>1. stage = "score" /\ Going
  BY DEF BuildScoringInput, Chain
<1>2. CASE Abort
  BY <1>2, Raising DEF Abort
<1>3. ASSUME Trusted("pipeline"), BoundGate(seal) = "eligible",
             Proceed("aggregate", Nothing, {"scoring"}, Nothing)
      PROVE  Chain'
  <2>1. DOMAIN seal = Judged
    BY <1>1, SealedUntilTheGate DEF Going, Ordered
  <2>2. seal["pipeline"]["readiness"] = TrueReadiness
    BY <1>1, <1>3, TrustedIsRight, AttestsAre, ConsultsAre DEF Right
  <2>3. TrueReadiness.is_score_ready
    BY <1>3, <2>2 DEF BoundGate, GateState
  <2>4. setup.source = "provider" => evidence["transit"].eligibility # "eligible"
    BY <1>1 DEF Going, StageOK, JudgementStages
  <2>5. Authorised
    BY <2>3, <2>4, ReadyMeansAuthorised DEF Chain
  <2>6. stage' = "aggregate" /\ UNCHANGED <<setup, evidence>>
    BY <1>3 DEF Proceed
  <2>7. StageOK' /\ HeldOK'
    BY <2>5, <2>6, StillLicensed DEF HeldOK, LicensedStages, CoreStages, ReportStages
  <2>8. DOMAIN Nothing = {} /\ Attests["scoring"] = {}
    BY AttestsAre DEF Nothing
  <2> HIDE DEF Nothing
  <2>9. /\ \A s \in DOMAIN seal : Attests[s] \cap DOMAIN Nothing = {}
        /\ \A p \in Attests["scoring"] :
              IF p \in DOMAIN Nothing THEN Right(p, Nothing[p], Analysed)
              ELSE p \in DOMAIN part /\ Right(p, part[p], Analysed)
    BY <2>8
  <2>10. SealedBy("aggregate") = SealedBy(stage) \cup {"scoring"}
    BY <1>1, SealedUntilTheGate, SealedUntilTheResult DEF ScoredSeals
  <2>11. /\ "scoring" \in Registries \ {"analysis"} /\ "scoring" \notin DOMAIN seal
         /\ "assembly" \in DOMAIN seal
    BY <2>1, Registered DEF Judged
  <2>12. QED
    BY <1>1, <1>3, <2>7, <2>9, <2>10, <2>11, Making
<1>4. QED
  BY <1>2, <1>3 DEF BuildScoringInput

LEMMA AggregationKeepsOrder ==
    ASSUME Chain, BeginAggregation \/ ComputeCategories \/ EndAggregation PROVE Chain'
<1>1. stage \in {"aggregate", "categories", "aggregated"}
  BY DEF BeginAggregation, ComputeCategories, EndAggregation
<1>2. Going /\ Authorised /\ DOMAIN seal = ScoredSeals
  BY <1>1, LicensedIsAuthorised, SealedUntilTheResult DEF LicensedStages, Going, Ordered
<1>3. CASE Abort
  BY <1>3, Raising DEF Abort
<1>4. ASSUME NEW next \in {"categories", "aggregated"}, NEW holding,
             Proceed(next, Nothing, {}, holding),
             next = "aggregated" => holding = CategoryScoresOf(command.sector, part["features"])
      PROVE  Chain'
  <2>1. stage' = next /\ held' = holding /\ UNCHANGED <<setup, evidence>>
    BY <1>4, TheRestStays
  <2>2. "features" \in DOMAIN part /\ DOMAIN Nothing = {}
    BY <1>2, AttestsAre DEF Going, Agreed, ScoredSeals, Judged, Nothing
  <2>3. part'["features"] = part["features"] /\ command' = command
    <3> HIDE DEF Nothing
    <3>1. QED
      BY <1>4, <2>1, <2>2, TheRestStays DEF command
  <2>4. HeldOK'
    BY <1>4, <2>1, <2>3 DEF HeldOK
  <2>5. StageOK'
    BY <1>2, <2>1, StillLicensed DEF LicensedStages, CoreStages, ReportStages
  <2>6. SealedBy(next) = SealedBy(stage) /\ "assembly" \in DOMAIN seal
    BY <1>1, <1>2, SealedUntilTheResult DEF ScoredSeals, Judged
  <2>7. QED
    BY <1>1, <1>4, <2>4, <2>5, <2>6, Moving
<1>5. ASSUME stage = "aggregated", Trusted("scoring"),
             Proceed("adapt", [category |-> held], {"category"}, Nothing)
      PROVE  Chain'
  <2> DEFINE made == [category |-> held]
  <2>1. part["features"] = TrueAssembly.features
    BY <1>2, <1>5, TrustedIsRight, AttestsAre, ConsultsAre DEF Right
  <2>2. held = TrueScores
    BY <1>2, <1>5, <2>1 DEF Going, HeldOK, TrueScores
  <2>3. DOMAIN made = {"category"} /\ made["category"] = TrueScores
    BY <2>2
  <2>4. stage' = "adapt" /\ UNCHANGED <<setup, evidence>>
    BY <1>5, TheRestStays
  <2>5. StageOK' /\ HeldOK'
    BY <1>2, <2>4, StillLicensed DEF HeldOK, LicensedStages, CoreStages, ReportStages
  <2> HIDE DEF made
  <2>6. \A s \in DOMAIN seal : Attests[s] \cap DOMAIN made = {}
    BY <1>2, <2>3, AttestsAre DEF ScoredSeals, Judged
  <2>7. \A p \in Attests["category"] : p \in DOMAIN made /\ Right(p, made[p], Analysed)
    BY <2>3, AttestsAre DEF Right
  <2>8. SealedBy("adapt") = SealedBy(stage) \cup {"category"}
    BY <1>5, SealedUntilTheResult
  <2>9. /\ "category" \in Registries \ {"analysis"} /\ "category" \notin DOMAIN seal
        /\ "assembly" \in DOMAIN seal
    BY <1>2, Registered DEF ScoredSeals, Judged
  <2>10. QED
    BY <1>5, <2>5, <2>6, <2>7, <2>8, <2>9, Making DEF made
<1>6. QED
  BY <1>3, <1>4, <1>5 DEF BeginAggregation, ComputeCategories, EndAggregation

LEMMA AdapterKeepsOrder ==
    ASSUME Chain, BeginAdapter \/ EndAdapter PROVE Chain'
<1>1. stage \in {"adapt", "adapted"}
  BY DEF BeginAdapter, EndAdapter
<1>2. Going /\ Authorised /\ DOMAIN seal = ScoredSeals \cup {"category"}
  BY <1>1, LicensedIsAuthorised, SealedUntilTheResult DEF LicensedStages, Going, Ordered
<1>3. CASE Abort
  BY <1>3, Raising DEF Abort
<1>4. ASSUME Trusted("category"),
             Proceed("adapted", Nothing, {},
                     CoreInput(command, seal["category"]["category"], d.quality, Level))
      PROVE  Chain'
  <2>1. seal["category"]["category"] = TrueScores
    BY <1>2, <1>4, TrustedIsRight, AttestsAre, ConsultsAre DEF Right
  <2>2. stage' = "adapted" /\ held' = TrueInput /\ UNCHANGED <<setup, evidence>>
    BY <1>4, <2>1, TheRestStays DEF TrueInput
  <2>3. HeldOK'
    BY <2>2, TruthStays DEF HeldOK
  <2>4. StageOK'
    BY <1>2, <2>2, StillLicensed DEF LicensedStages, CoreStages, ReportStages
  <2>5. SealedBy("adapted") = SealedBy(stage) /\ "assembly" \in DOMAIN seal
    BY <1>1, <1>2, SealedUntilTheResult DEF ScoredSeals, Judged
  <2>6. QED
    BY <1>1, <1>4, <2>3, <2>4, <2>5, Moving
<1>5. ASSUME stage = "adapted", AnalysisInput(held), Proceed("analyze", [core |-> held], {"core"}, Nothing)
      PROVE  Chain'
  <2> DEFINE made == [core |-> held]
  <2>1. held = TrueInput
    BY <1>2, <1>5 DEF Going, HeldOK
  <2>2. DOMAIN made = {"core"} /\ made["core"] = TrueInput
    BY <2>1
  <2>3. stage' = "analyze" /\ UNCHANGED <<setup, evidence>>
    BY <1>5, TheRestStays
  <2>4. AnalysisInput(TrueInput)
    BY <1>5, <2>1
  <2>5. StageOK' /\ HeldOK'
    BY <1>2, <2>3, <2>4, StillLicensed DEF HeldOK, LicensedStages, CoreStages, ReportStages
  <2> HIDE DEF made
  <2>6. \A s \in DOMAIN seal : Attests[s] \cap DOMAIN made = {}
    BY <1>2, <2>2, AttestsAre DEF ScoredSeals, Judged
  <2>7. \A p \in Attests["core"] : p \in DOMAIN made /\ Right(p, made[p], Analysed)
    BY <2>2, AttestsAre DEF Right
  <2>8. SealedBy("analyze") = SealedBy(stage) \cup {"core"}
    BY <1>5, SealedUntilTheResult
  <2>9. /\ "core" \in Registries \ {"analysis"} /\ "core" \notin DOMAIN seal
        /\ "assembly" \in DOMAIN seal
    BY <1>2, Registered DEF ScoredSeals, Judged
  <2>10. QED
    BY <1>5, <2>5, <2>6, <2>7, <2>8, <2>9, Making DEF made
<1>6. QED
  BY <1>3, <1>4, <1>5 DEF BeginAdapter, EndAdapter

LEMMA CoreKeepsOrder ==
    ASSUME Chain, AnalyzeCore PROVE Chain'
<1>1. stage = "analyze"
  BY DEF AnalyzeCore
<1>2. Going /\ Authorised /\ AnalysisInput(TrueInput) /\ DOMAIN seal = ScoredSeals \cup {"category", "core"}
  BY <1>1, LicensedIsAuthorised, SealedUntilTheResult DEF LicensedStages, CoreStages, Going, Ordered
<1>3. CASE Abort
  BY <1>3, Raising DEF Abort
<1>4. ASSUME Trusted("core"), NEW below \in BOOLEAN,
             Proceed("analyzed", Nothing, {}, Analyze(part["core"], below))
      PROVE  Chain'
  <2>1. part["core"] = TrueInput
    BY <1>2, <1>4, TrustedIsRight, AttestsAre, ConsultsAre DEF Right
  <2>2. stage' = "analyzed" /\ held' = Analyze(TrueInput, below) /\ UNCHANGED <<setup, evidence>>
    BY <1>4, <2>1, TheRestStays
  <2>3. held' \in TrueAnalyses
    BY <2>2 DEF TrueAnalyses
  <2>4. HeldOK'
    BY <2>2, <2>3, TruthStays DEF HeldOK
  <2>5. StageOK'
    BY <1>2, <2>2, StillLicensed DEF LicensedStages, CoreStages, ReportStages
  <2>6. SealedBy("analyzed") = SealedBy(stage) /\ "assembly" \in DOMAIN seal
    BY <1>1, <1>2, SealedUntilTheResult DEF ScoredSeals, Judged
  <2> DEFINE holding == Analyze(part["core"], below)
  <2>7. Proceed("analyzed", Nothing, {}, holding)
    BY <1>4
  <2> HIDE DEF holding
  <2>8. QED
    BY <1>1, <2>4, <2>5, <2>6, <2>7, Moving
<1>5. QED
  BY <1>3, <1>4 DEF AnalyzeCore

(* What was registered before there was an analysis is right whatever the analysis is. *)
LEMMA RightBeforeTheAnalysis ==
    ASSUME NEW r \in ScoredSeals \cup {"category", "core"}, NEW p \in Attests[r], NEW v, NEW x, NEW y,
           Right(p, v, x)
    PROVE  Right(p, v, y)
<1>1. p \in {"results", "features", "policies", "readiness", "terminal", "category", "core"}
  BY AttestsAre DEF ScoredSeals, Judged
<1>2. QED
  BY <1>1 DEF Right

LEMMA EndOfAnalysisKeepsOrder ==
    ASSUME Chain, EndAnalysis PROVE Chain'
<1>1. stage = "analyzed"
  BY DEF EndAnalysis
<1>2. Going /\ Authorised /\ AnalysisInput(TrueInput) /\ DOMAIN seal = ScoredSeals \cup {"category", "core"}
  BY <1>1, LicensedIsAuthorised, SealedUntilTheResult DEF LicensedStages, CoreStages, Going, Ordered
<1>3. CASE Abort
  BY <1>3, Raising DEF Abort
<1>4. CASE Proceed("complete", [analysis |-> held], {"analysis"}, Nothing)
  <2> DEFINE made == [analysis |-> held]
             registered == [r \in {"analysis"} |-> Attested(r, Updated(part, made))]
  <2>1. /\ part' = Updated(part, made) /\ seal' = Updated(seal, registered) /\ stage' = "complete"
        /\ UNCHANGED <<setup, evidence, outcome, changes>>
    BY <1>4 DEF Proceed
  <2>2. held \in TrueAnalyses
    BY <1>1, <1>2 DEF Going, HeldOK
  <2>3. /\ DOMAIN part' = DOMAIN part \cup {"analysis"} /\ part'["analysis"] = held
        /\ \A p \in DOMAIN part \ {"analysis"} : part'[p] = part[p]
    BY <2>1 DEF Updated
  <2>4. registered["analysis"]["analysis"] = held /\ DOMAIN registered = {"analysis"}
    BY AttestsAre DEF Attested, Updated
  <2> HIDE DEF registered
  <2>5. /\ DOMAIN seal' = DOMAIN seal \cup {"analysis"} /\ seal'["analysis"]["analysis"] = held
        /\ \A r \in DOMAIN seal : r # "analysis" /\ seal'[r] = seal[r]
    BY <1>2, <2>1, <2>4 DEF Updated, ScoredSeals, Judged
  <2>6. Analysed' = held
    BY <2>5 DEF Analysed
  <2>7. ASSUME NEW r \in DOMAIN seal' PROVE r \in Registries /\ \A p \in Attests[r] : Right(p, seal'[r][p], held)
    <3>1. CASE r = "analysis"
      <4>1. Right("analysis", held, held)
        BY <2>2 DEF Right
      <4>2. QED
        BY <2>5, <3>1, <4>1, AttestsAre, Registered
    <3>2. CASE r \in DOMAIN seal
      <4>1. r \in Registries /\ \A p \in Attests[r] : Right(p, seal[r][p], Analysed)
        BY <1>2, <3>2 DEF Going, SealsAreRight
      <4>2. \A p \in Attests[r] : Right(p, seal[r][p], held)
        BY <1>2, <3>2, <4>1, RightBeforeTheAnalysis
      <4>3. QED
        BY <2>5, <3>2, <4>1, <4>2
    <3>3. QED
      BY <2>5, <3>1, <3>2
  <2>8. SealsAreRight(Analysed)'
    <3>1. \A p, v, analysed : Right(p, v, analysed)' <=> Right(p, v, analysed)
      BY <2>1, RightStays
    <3>2. QED
      BY <2>6, <2>7, <3>1 DEF SealsAreRight
  <2>9. Agreed'
    <3>1. SUFFICES ASSUME NEW r \in DOMAIN seal', NEW p \in Attests[r]
                   PROVE  p \in DOMAIN part' /\ (changes' = 0 => part'[p] = seal'[r][p])
      BY DEF Agreed
    <3>2. CASE r = "analysis"
      BY <2>3, <2>5, <3>2, AttestsAre
    <3>3. CASE r \in DOMAIN seal
      <4>1. p # "analysis"
        BY <1>2, <3>3, AttestsAre DEF ScoredSeals, Judged
      <4>2. p \in DOMAIN part /\ (changes = 0 => part[p] = seal[r][p])
        BY <1>2, <3>3 DEF Going, Agreed
      <4>3. QED
        BY <2>1, <2>3, <2>5, <3>3, <4>1, <4>2
    <3>4. QED
      BY <2>5, <3>2, <3>3
  <2>10. Ordered'
    BY <1>2, <2>1, <2>5, SealedUntilTheResult DEF Ordered, AnalysedSeals
  <2>11. StageOK' /\ HeldOK' /\ ReportMade'
    BY <1>2, <2>1, StillLicensed DEF HeldOK, ReportMade, LicensedStages, CoreStages, ReportStages
  <2>12. OutcomeOK' /\ outcome' = Undecided'
    BY <1>2, <2>1 DEF Going, OutcomeOK, Undecided, Nothing
  <2>13. Assembled'
    <3>1. {"features", "results"} \subseteq DOMAIN part
      BY <1>2, AttestsAre DEF Going, Agreed, ScoredSeals, Judged
    <3>2. part'["features"] = part["features"] /\ part'["results"] = part["results"]
      BY <2>3, <3>1
    <3>3. QED
      BY <2>1, <3>1, <3>2, TruthStays DEF Chain, Assembled
  <2>14. QED
    BY <2>1, <2>8, <2>9, <2>10, <2>11, <2>12, <2>13 DEF Chain, Going
<1>5. QED
  BY <1>3, <1>4 DEF EndAnalysis

LEMMA CompletionKeepsOrder ==
    ASSUME Chain, BuildCompleted PROVE Chain'
<1>1. stage = "complete"
  BY DEF BuildCompleted
<1>2. Going /\ Authorised /\ AnalysisInput(TrueInput) /\ DOMAIN seal = AnalysedSeals
  BY <1>1, LicensedIsAuthorised, SealedUntilTheResult DEF LicensedStages, CoreStages, Going, Ordered
<1>3. CASE Abort
  BY <1>3, Raising DEF Abort
<1>4. ASSUME Trusted("analysis"),
             Proceed("report", [body |-> part["analysis"]], {"completed"}, Nothing)
      PROVE  Chain'
  <2> DEFINE made == [body |-> part["analysis"]]
  <2>1. part["analysis"] = Analysed
    BY <1>2, <1>4, TrustedIsRight, AttestsAre, ConsultsAre DEF Right
  <2>2. DOMAIN made = {"body"} /\ made["body"] = Analysed
    BY <2>1
  <2>3. stage' = "report" /\ UNCHANGED <<setup, evidence>>
    BY <1>4, TheRestStays
  <2>4. StageOK' /\ HeldOK'
    BY <1>2, <2>3, StillLicensed DEF HeldOK, LicensedStages, CoreStages, ReportStages
  <2> HIDE DEF made
  <2>5. \A s \in DOMAIN seal : Attests[s] \cap DOMAIN made = {}
    BY <1>2, <2>2, AttestsAre DEF AnalysedSeals, ScoredSeals, Judged
  <2>6. \A p \in Attests["completed"] : p \in DOMAIN made /\ Right(p, made[p], Analysed)
    BY <2>2, AttestsAre DEF Right
  <2>7. SealedBy("report") = SealedBy(stage) \cup {"completed"}
    BY <1>1, SealedUntilTheResult
  <2>8. /\ "completed" \in Registries \ {"analysis"} /\ "completed" \notin DOMAIN seal
        /\ "assembly" \in DOMAIN seal
    BY <1>2, Registered DEF AnalysedSeals, ScoredSeals, Judged
  <2>9. QED
    BY <1>1, <1>4, <2>4, <2>5, <2>6, <2>7, <2>8, Making DEF made
<1>5. QED
  BY <1>3, <1>4 DEF BuildCompleted

LEMMA ScoredKeepsOrder ==
    ASSUME Chain, Scored PROVE Chain'
BY ScoringInputKeepsOrder, AggregationKeepsOrder, AdapterKeepsOrder, CoreKeepsOrder,
   EndOfAnalysisKeepsOrder, CompletionKeepsOrder DEF Scored
-----------------------------------------------------------------------------
(* The report: whatever happens to it, the result that it reports is published *)

LEMMA SealedUntilThePages ==
    /\ \A s \in {"report", "facts", "projected"} : SealedBy(s) = AnalysedSeals \cup {"completed"}
    /\ SealedBy("domain") = AnalysedSeals \cup {"completed", "facts"}
    /\ \A s \in {"context", "contextual"} : SealedBy(s) = ReportSeals
    /\ \A s \in {"ask", "validate", "narrate"} : SealedBy(s) = ReportSeals \cup {"context"}
    /\ \A s \in {"render", "rendered"} : SealedBy(s) = ReportSeals \cup {"context", "narrative"}
BY DEF SealedBy

(* What is known while a report is made; nothing that its makers ask for is missing. *)
LEMMA Reporting ==
    ASSUME Chain, stage \in ReportStages \ {"publish"}
    PROVE  /\ stage \notin {"done", "publish"} /\ Going /\ Authorised /\ AnalysisInput(TrueInput)
           /\ DOMAIN seal = SealedBy(stage) /\ "assembly" \in DOMAIN seal
           /\ AnalysedSeals \cup {"completed"} \subseteq DOMAIN seal
<1>1. stage \in LicensedStages /\ stage \notin {"done", "publish"}
  BY DEF LicensedStages, ReportStages
<1>2. Going /\ Authorised /\ AnalysisInput(TrueInput)
  BY <1>1, LicensedIsAuthorised
<1>3. DOMAIN seal = SealedBy(stage)
  BY <1>1, <1>2 DEF Going, Ordered
<1>4. AnalysedSeals \cup {"completed"} \subseteq SealedBy(stage)
  <2>1. stage \in {"report", "facts", "projected", "domain", "context", "contextual", "ask", "validate",
                   "narrate", "render", "rendered"}
    BY DEF ReportStages
  <2>2. CASE stage \in {"report", "facts", "projected"}
    BY <2>2, SealedUntilThePages
  <2>3. CASE stage = "domain"
    BY <2>3, SealedUntilThePages
  <2>4. CASE stage \in {"context", "contextual"}
    BY <2>4, SealedUntilThePages DEF ReportSeals
  <2>5. CASE stage \in {"ask", "validate", "narrate"}
    BY <2>5, SealedUntilThePages DEF ReportSeals
  <2>6. CASE stage \in {"render", "rendered"}
    BY <2>6, SealedUntilThePages DEF ReportSeals
  <2>7. QED
    BY <2>1, <2>2, <2>3, <2>4, <2>5, <2>6
<1>5. "assembly" \in AnalysedSeals
  BY DEF AnalysedSeals, ScoredSeals, Judged
<1>6. QED
  BY <1>1, <1>2, <1>3, <1>4, <1>5

(* Before anything is overwritten a report fails only for a client or a figure. *)
LEMMA FailingKeepsOrder ==
    ASSUME Chain, stage \in ReportStages \ {"publish"}, NEW reason, FailReport(reason),
           changes = 0 => reason = "no_client" \/ ~Publishable(Analysed)
    PROVE  Chain'
<1> DEFINE made == [report |-> [state |-> "failed", reason |-> reason]]
<1>1. Going /\ Authorised /\ AnalysisInput(TrueInput) /\ "assembly" \in DOMAIN seal
      /\ AnalysedSeals \cup {"completed"} \subseteq DOMAIN seal /\ stage # "done"
  BY Reporting
<1>2. Proceed("publish", made, {}, Nothing)
  BY DEF FailReport
<1>3. DOMAIN made = {"report"} /\ made["report"] = [state |-> "failed", reason |-> reason]
  OBVIOUS
<1> HIDE DEF made
<1>4. /\ stage' = "publish" /\ UNCHANGED <<setup, evidence, changes>> /\ Analysed' = Analysed
      /\ DOMAIN seal' = DOMAIN seal
  <2>1. DOMAIN seal' = DOMAIN seal
    BY <1>2 DEF Proceed, Updated
  <2>2. QED
    BY <1>2, <2>1, TheRestStays
<1>5. "report" \in DOMAIN part' /\ part'["report"] = made["report"]
  BY <1>2, <1>3 DEF Proceed, Updated
<1>6. StageOK' /\ HeldOK'
  BY <1>1, <1>4, StillLicensed DEF HeldOK, LicensedStages, CoreStages, ReportStages
<1>7. ReportMade'
  <2>1. part'["report"].state = "failed" /\ part'["report"].reason = reason
    BY <1>3, <1>5
  <2>2. ReportOK(part["report"], Analysed)'
    BY <1>4, <2>1 DEF ReportOK
  <2>3. QED
    BY <1>5, <2>2 DEF ReportMade
<1>8. Ordered'
  BY <1>1, <1>4 DEF Ordered
<1>9. \A s \in DOMAIN seal : Attests[s] \cap DOMAIN made = {}
  <2>1. \A s \in Registries : "report" \notin Attests[s]
    BY AttestsAre, Registered
  <2>2. QED
    BY <1>1, <1>3, <2>1 DEF Going, SealsAreRight
<1>10. QED
  BY <1>1, <1>2, <1>6, <1>7, <1>8, <1>9, Advancing

(* One step of the report that registers nothing. *)
LEMMA Writing ==
    ASSUME Chain, stage \in ReportStages \ {"publish"}, NEW next \in ReportStages \ {"publish"}, NEW holding,
           Proceed(next, Nothing, {}, holding), SealedBy(next) = SealedBy(stage),
           next = "projected" => holding = TrueFacts,
           next = "contextual" => holding = NarrativeContext(TrueFacts),
           next = "validate" => holding \in NarrativeReplies,
           next = "narrate" => SoundDraft(holding, NarrativeContext(TrueFacts)),
           next = "rendered" => /\ holding = [facts |-> TrueFacts, narrative |-> holding.narrative]
                                /\ SoundNarrative(holding.narrative, TrueFacts)
    PROVE  Chain'
<1>1. /\ Going /\ Authorised /\ AnalysisInput(TrueInput) /\ "assembly" \in DOMAIN seal
      /\ stage \notin {"done", "publish"} /\ next # "publish"
  BY Reporting
<1>2. stage' = next /\ held' = holding /\ UNCHANGED <<setup, evidence, changes>> /\ TrueFacts' = TrueFacts
  BY TheRestStays
<1>3. next \notin {"aggregated", "adapted", "analyzed"} /\ next \in LicensedStages
  BY DEF ReportStages, LicensedStages
<1>4. StageOK'
  BY <1>1, <1>2, <1>3, StillLicensed
<1>5. HeldOK'
  BY <1>2, <1>3 DEF HeldOK
<1>6. QED
  BY <1>1, <1>4, <1>5, Moving

(* One that registers an object, before anything else is held. *)
LEMMA Registering ==
    ASSUME Chain, stage \in ReportStages \ {"publish"},
           NEW next \in {"domain", "context", "ask", "render"}, NEW made,
           NEW registry \in {"facts", "report_domain", "context", "narrative"},
           Proceed(next, made, {registry}, Nothing), registry \notin DOMAIN seal,
           \A r \in DOMAIN seal : Attests[r] \cap DOMAIN made = {},
           \A p \in Attests[registry] :
               IF p \in DOMAIN made THEN Right(p, made[p], Analysed)
               ELSE p \in DOMAIN part /\ Right(p, part[p], Analysed),
           SealedBy(next) = SealedBy(stage) \cup {registry}
    PROVE  Chain'
<1>1. /\ Authorised /\ AnalysisInput(TrueInput) /\ "assembly" \in DOMAIN seal
      /\ stage \notin {"done", "publish"} /\ next # "publish"
  BY Reporting
<1>2. stage' = next /\ UNCHANGED <<setup, evidence>>
  BY TheRestStays
<1>3. StageOK' /\ HeldOK'
  BY <1>1, <1>2, StillLicensed DEF HeldOK, LicensedStages, CoreStages, ReportStages
<1>4. registry \in Registries \ {"analysis"}
  BY Registered
<1> HIDE DEF Nothing
<1>5. QED
  BY <1>1, <1>3, <1>4, Making

(* What the worker finds unchanged it goes on with; else it gives the execution up. *)
LEMMA GivingUp ==
    ASSUME Chain, stage \in ReportStages, GiveUp PROVE Chain'
<1>1. stage' = "done" /\ outcome'.status = "retried" /\ UNCHANGED <<setup, evidence, part, changes>>
  BY DEF GiveUp, Over
<1>2. Authorised
  BY LicensedIsAuthorised DEF LicensedStages
<1>3. OutcomeOK'
  BY <1>1, <1>2, TruthStays DEF OutcomeOK
<1>4. QED
  BY <1>1, <1>3, Ending

LEMMA FactsKeepOrder ==
    ASSUME Chain, BeginReport \/ BeginFacts \/ EndFacts \/ BuildDomain PROVE Chain'
<1>1. stage \in {"report", "facts", "projected", "domain"} /\ stage \in ReportStages \ {"publish"}
  BY DEF BeginReport, BeginFacts, EndFacts, BuildDomain, ReportStages
<1>2. Going /\ DOMAIN seal = SealedBy(stage)
  BY <1>1, Reporting
<1>3. AnalysedSeals = {"assembly", "readiness", "pipeline", "scoring", "category", "core", "analysis"}
  BY DEF AnalysedSeals, ScoredSeals, Judged
<1>4. CASE GiveUp
  BY <1>1, <1>4, GivingUp
<1>5. CASE BeginReport /\ Proceed("facts", Nothing, {}, Nothing)
  <2>1. stage = "report" /\ SealedBy("facts") = SealedBy(stage) /\ "facts" \in ReportStages \ {"publish"}
    BY <1>5, SealedUntilThePages DEF BeginReport, ReportStages
  <2>2. QED
    BY <1>1, <1>5, <2>1, Writing
<1>6. CASE BeginFacts
  <2>1. stage = "facts" /\ SealedBy("projected") = SealedBy(stage) /\ "projected" \in ReportStages \ {"publish"}
    BY <1>6, SealedUntilThePages DEF BeginFacts, ReportStages
  <2>2. changes = 0 => Trusted("analysis")
    BY <1>2, <1>3, <2>1, UntouchedIsTrusted, SealedUntilThePages, ConsultsAre
  <2>3. CASE Trusted("analysis") /\ Proceed("projected", Nothing, {}, CanonicalReportFacts(part["analysis"]))
    <3>1. part["analysis"] = Analysed
      BY <1>2, <2>3, TrustedIsRight, AttestsAre, ConsultsAre DEF Right
    <3>2. Proceed("projected", Nothing, {}, TrueFacts)
      BY <2>3, <3>1 DEF TrueFacts
    <3>3. QED
      BY <1>1, <2>1, <3>2, Writing
  <2>4. CASE ~Trusted("analysis") /\ FailReport("facts")
    BY <1>1, <2>2, <2>4, FailingKeepsOrder
  <2>5. QED
    BY <1>6, <2>3, <2>4 DEF BeginFacts
<1>7. CASE EndFacts
  <2> DEFINE made == [facts |-> held]
  <2>1. stage = "projected" /\ DOMAIN seal = AnalysedSeals \cup {"completed"}
    BY <1>2, <1>7, SealedUntilThePages DEF EndFacts
  <2>2. changes = 0 => Trusted("analysis")
    BY <1>2, <1>3, <2>1, UntouchedIsTrusted, ConsultsAre
  <2>3. CASE Proceed("domain", made, {"facts"}, Nothing)
    <3>1. held = TrueFacts
      BY <1>2, <2>1 DEF Going, HeldOK
    <3>2. DOMAIN made = {"facts"} /\ made["facts"] = CanonicalReportFacts(Analysed)
      BY <3>1 DEF TrueFacts
    <3>3. SealedBy("domain") = SealedBy(stage) \cup {"facts"}
      BY <2>1, SealedUntilThePages
    <3> HIDE DEF made
    <3>4. \A s \in DOMAIN seal : Attests[s] \cap DOMAIN made = {}
      BY <1>3, <2>1, <3>2, AttestsAre
    <3>5. \A p \in Attests["facts"] : p \in DOMAIN made /\ Right(p, made[p], Analysed)
      BY <3>2, AttestsAre DEF Right
    <3>6. "facts" \notin DOMAIN seal
      BY <1>3, <2>1
    <3>7. QED
      BY <1>1, <2>3, <3>3, <3>4, <3>5, <3>6, Registering
  <2>4. CASE ~Trusted("analysis") /\ FailReport("facts")
    BY <1>1, <2>2, <2>4, FailingKeepsOrder
  <2>5. QED
    BY <1>7, <2>3, <2>4 DEF EndFacts
<1>8. CASE BuildDomain
  <2>1. stage = "domain" /\ DOMAIN seal = AnalysedSeals \cup {"completed", "facts"}
    BY <1>2, <1>8, SealedUntilThePages DEF BuildDomain
  <2>2. changes = 0 => Trusted("facts")
    BY <1>2, <1>3, <2>1, UntouchedIsTrusted, ConsultsAre
  <2>3. CASE Trusted("facts") /\ Proceed("context", Nothing, {"report_domain"}, Nothing)
    <3>1. "facts" \in DOMAIN part /\ Right("facts", part["facts"], Analysed)
      BY <1>2, <2>3, TrustedIsRight, AttestsAre, ConsultsAre
    <3>2. DOMAIN Nothing = {}
      BY DEF Nothing
    <3>3. SealedBy("context") = SealedBy(stage) \cup {"report_domain"}
      BY <2>1, SealedUntilThePages DEF ReportSeals
    <3> HIDE DEF Nothing
    <3>4. \A s \in DOMAIN seal : Attests[s] \cap DOMAIN Nothing = {}
      BY <3>2
    <3>5. \A p \in Attests["report_domain"] :
             IF p \in DOMAIN Nothing THEN Right(p, Nothing[p], Analysed)
             ELSE p \in DOMAIN part /\ Right(p, part[p], Analysed)
      BY <3>1, <3>2, AttestsAre
    <3>6. "report_domain" \notin DOMAIN seal
      BY <1>3, <2>1
    <3>7. QED
      BY <1>1, <2>3, <3>3, <3>4, <3>5, <3>6, Registering
  <2>4. CASE ~Trusted("facts") /\ FailReport("domain")
    BY <1>1, <2>2, <2>4, FailingKeepsOrder
  <2>5. QED
    BY <1>8, <2>3, <2>4 DEF BuildDomain
<1>9. QED
  BY <1>4, <1>5, <1>6, <1>7, <1>8 DEF BeginReport

LEMMA ContextKeepsOrder ==
    ASSUME Chain, BeginContext \/ EndContext PROVE Chain'
<1>1. stage \in {"context", "contextual"} /\ stage \in ReportStages \ {"publish"}
  BY DEF BeginContext, EndContext, ReportStages
<1>2. Going /\ DOMAIN seal = SealedBy(stage) /\ SealedBy(stage) = ReportSeals
  BY <1>1, Reporting, SealedUntilThePages
<1>3. ReportSeals = {"assembly", "readiness", "pipeline", "scoring", "category", "core", "analysis",
                     "completed", "facts", "report_domain"}
  BY DEF ReportSeals, AnalysedSeals, ScoredSeals, Judged
<1>4. changes = 0 => Trusted("report_domain")
  BY <1>2, <1>3, UntouchedIsTrusted, ConsultsAre
<1>5. CASE BeginContext
  <2>1. stage = "context" /\ SealedBy("contextual") = SealedBy(stage) /\ "contextual" \in ReportStages \ {"publish"}
    BY <1>5, SealedUntilThePages DEF BeginContext, ReportStages
  <2>2. CASE Trusted("report_domain") /\ Proceed("contextual", Nothing, {}, NarrativeContext(part["facts"]))
    <3>1. part["facts"] = TrueFacts
      BY <1>2, <2>2, TrustedIsRight, AttestsAre, ConsultsAre DEF Right, TrueFacts
    <3>2. Proceed("contextual", Nothing, {}, NarrativeContext(TrueFacts))
      BY <2>2, <3>1
    <3>3. QED
      BY <1>1, <2>1, <3>2, Writing
  <2>3. CASE ~Trusted("report_domain") /\ FailReport("context")
    BY <1>1, <1>4, <2>3, FailingKeepsOrder
  <2>4. QED
    BY <1>5, <2>2, <2>3 DEF BeginContext
<1>6. CASE EndContext
  <2> DEFINE made == [context |-> held]
  <2>1. stage = "contextual" /\ held = NarrativeContext(TrueFacts)
    BY <1>2, <1>6 DEF EndContext, Going, HeldOK
  <2>2. ~ContextRaises(held)
    BY <2>1, ActiveClaimsHaveEvidence
  <2>3. CASE Proceed("ask", made, {"context"}, Nothing)
    <3>1. DOMAIN made = {"context"} /\ made["context"] = NarrativeContext(CanonicalReportFacts(Analysed))
      BY <2>1 DEF TrueFacts
    <3>2. SealedBy("ask") = SealedBy(stage) \cup {"context"}
      BY <1>2, SealedUntilThePages
    <3> HIDE DEF made
    <3>3. \A s \in DOMAIN seal : Attests[s] \cap DOMAIN made = {}
      BY <1>2, <1>3, <3>1, AttestsAre
    <3>4. \A p \in Attests["context"] : p \in DOMAIN made /\ Right(p, made[p], Analysed)
      BY <3>1, AttestsAre DEF Right
    <3>5. "context" \notin DOMAIN seal
      BY <1>2, <1>3
    <3>6. QED
      BY <1>1, <2>3, <3>2, <3>3, <3>4, <3>5, Registering
  <2>4. CASE ~Trusted("report_domain") /\ FailReport("context")
    BY <1>1, <1>4, <2>4, FailingKeepsOrder
  <2>5. QED
    BY <1>6, <2>2, <2>3, <2>4 DEF EndContext
<1>7. QED
  BY <1>5, <1>6

LEMMA NarrativeKeepsOrder ==
    ASSUME Chain, Ask \/ ValidateDraft \/ Narrate PROVE Chain'
<1>1. stage \in {"ask", "validate", "narrate"} /\ stage \in ReportStages \ {"publish"}
  BY DEF Ask, ValidateDraft, Narrate, ReportStages
<1>2. Going /\ DOMAIN seal = ReportSeals \cup {"context"}
  BY <1>1, Reporting, SealedUntilThePages
<1>3. ReportSeals = {"assembly", "readiness", "pipeline", "scoring", "category", "core", "analysis",
                     "completed", "facts", "report_domain"}
  BY DEF ReportSeals, AnalysedSeals, ScoredSeals, Judged
<1>4. changes = 0 => Trusted("context")
  BY <1>2, <1>3, UntouchedIsTrusted, ConsultsAre
<1>5. Trusted("context") => /\ part["context"] = NarrativeContext(TrueFacts) /\ part["facts"] = TrueFacts
                            /\ part["analysis"] = Analysed
  BY <1>2, TrustedIsRight, AttestsAre, ConsultsAre DEF Right, TrueFacts
<1>6. CASE Ask
  <2>1. stage = "ask" /\ SealedBy("validate") = SealedBy(stage) /\ "validate" \in ReportStages \ {"publish"}
    BY <1>6, SealedUntilThePages DEF Ask, ReportStages
  <2>2. PICK reply \in NarrativeReplies :
            IF Trusted("context") /\ (reply.model # "unconfigured" =>
                  reply.model # "no_client" /\ Publishable(part["analysis"]))
            THEN Proceed("validate", Nothing, {}, reply) ELSE FailReport(reply.model)
    BY <1>6 DEF Ask
  <2>3. CASE Proceed("validate", Nothing, {}, reply)
    BY <1>1, <2>1, <2>3, Writing
  <2>4. ASSUME FailReport(reply.model),
               ~(Trusted("context") /\ (reply.model # "unconfigured" =>
                     reply.model # "no_client" /\ Publishable(part["analysis"])))
        PROVE  Chain'
    <3>1. changes = 0 => reply.model = "no_client" \/ ~Publishable(Analysed)
      BY <1>4, <1>5, <2>4
    <3>2. QED
      BY <1>1, <2>4, <3>1, FailingKeepsOrder
  <2>5. QED
    BY <2>2, <2>3, <2>4
<1>7. CASE ValidateDraft
  <2> DEFINE context == part["context"]
             usable == held.model = "answered" /\ NarrativeDraft(held.draft) /\ ValidDraft(held.draft, context)
             draft == IF usable THEN held.draft ELSE FallbackDraft(context)
  <2>1. stage = "validate" /\ SealedBy("narrate") = SealedBy(stage) /\ "narrate" \in ReportStages \ {"publish"}
    BY <1>7, SealedUntilThePages DEF ValidateDraft, ReportStages
  <2>2. held \in NarrativeReplies
    BY <1>2, <2>1 DEF Going, HeldOK
  <2>3. ASSUME Trusted("context"), Proceed("narrate", Nothing, {}, draft) PROVE Chain'
    <3>1. context = NarrativeContext(TrueFacts)
      BY <1>5, <2>3
    <3>2. usable => SoundDraft(held.draft, context)
      BY <2>2, ValidDraftIsSound
    <3>3. SoundDraft(FallbackDraft(context), context)
      BY <3>1, FallbackIsSound
    <3>4. SoundDraft(draft, NarrativeContext(TrueFacts))
      <4> HIDE DEF usable, context
      <4>1. QED
        BY <3>1, <3>2, <3>3
    <3> HIDE DEF draft
    <3>5. QED
      BY <1>1, <2>1, <2>3, <3>4, Writing
  <2>4. ASSUME FailReport("validate"), ~(Trusted("context") /\ ~FallbackRaises(context)) PROVE Chain'
    <3>1. changes # 0
      BY <1>4, <1>5, <2>4, FallbackIsSound
    <3>2. QED
      BY <1>1, <2>4, <3>1, FailingKeepsOrder
  <2>5. QED
    BY <1>7, <2>3, <2>4 DEF ValidateDraft
<1>8. CASE Narrate
  <2> DEFINE narrative == Narrative(held, part["facts"])
             made == [narrative |-> narrative]
  <2>1. stage = "narrate" /\ SoundDraft(held, NarrativeContext(TrueFacts))
    BY <1>2, <1>8 DEF Narrate, Going, HeldOK
  <2>2. ASSUME Trusted("context"), Proceed("render", made, {"narrative"}, Nothing) PROVE Chain'
    <3>1. SoundNarrative(narrative, TrueFacts)
      BY <1>5, <2>1, <2>2, NarrativeIsSound
    <3> HIDE DEF narrative
    <3>2. DOMAIN made = {"narrative"} /\ made["narrative"] = narrative
      OBVIOUS
    <3>3. SealedBy("render") = SealedBy(stage) \cup {"narrative"}
      BY <2>1, SealedUntilThePages
    <3> HIDE DEF made
    <3>4. \A s \in DOMAIN seal : Attests[s] \cap DOMAIN made = {}
      BY <1>2, <1>3, <3>2, AttestsAre
    <3>5. \A p \in Attests["narrative"] : p \in DOMAIN made /\ Right(p, made[p], Analysed)
      BY <3>1, <3>2, AttestsAre DEF Right, TrueFacts
    <3>6. "narrative" \notin DOMAIN seal
      BY <1>2, <1>3
    <3>7. QED
      BY <1>1, <2>2, <3>3, <3>4, <3>5, <3>6, Registering
  <2>3. CASE ~Trusted("context") /\ FailReport("narrate")
    BY <1>1, <1>4, <2>3, FailingKeepsOrder
  <2>4. QED
    BY <1>8, <2>2, <2>3 DEF Narrate
<1>9. QED
  BY <1>6, <1>7, <1>8

LEMMA PagesKeepOrder ==
    ASSUME Chain, BeginRender \/ EndRender PROVE Chain'
<1>1. stage \in {"render", "rendered"} /\ stage \in ReportStages \ {"publish"}
  BY DEF BeginRender, EndRender, ReportStages
<1>2. /\ Going /\ Authorised /\ AnalysisInput(TrueInput) /\ "assembly" \in DOMAIN seal
      /\ DOMAIN seal = ReportSeals \cup {"context", "narrative"}
  BY <1>1, Reporting, SealedUntilThePages
<1>3. ReportSeals = {"assembly", "readiness", "pipeline", "scoring", "category", "core", "analysis",
                     "completed", "facts", "report_domain"}
  BY DEF ReportSeals, AnalysedSeals, ScoredSeals, Judged
<1>4. changes = 0 => Trusted("narrative")
  BY <1>2, <1>3, UntouchedIsTrusted, ConsultsAre
<1>5. CASE BeginRender
  <2> DEFINE holding == [facts |-> part["facts"], narrative |-> part["narrative"]]
  <2>1. /\ stage = "render" /\ SealedBy("rendered") = SealedBy(stage)
        /\ "rendered" \in ReportStages \ {"publish"}
    BY <1>5, SealedUntilThePages DEF BeginRender, ReportStages
  <2>2. CASE Trusted("narrative") /\ Proceed("rendered", Nothing, {}, holding)
    <3>1. part["facts"] = TrueFacts /\ SoundNarrative(part["narrative"], TrueFacts)
      BY <1>2, <2>2, TrustedIsRight, AttestsAre, ConsultsAre DEF Right, TrueFacts
    <3>2. /\ holding = [facts |-> TrueFacts, narrative |-> holding.narrative]
          /\ SoundNarrative(holding.narrative, TrueFacts)
      BY <3>1
    <3> HIDE DEF holding
    <3>3. QED
      BY <1>1, <2>1, <2>2, <3>2, Writing
  <2>3. CASE ~Trusted("narrative") /\ FailReport("render")
    BY <1>1, <1>4, <2>3, FailingKeepsOrder
  <2>4. QED
    BY <1>5, <2>2, <2>3 DEF BeginRender
<1>6. CASE EndRender
  <2> DEFINE report == Updated(held, [state |-> "ready"])
             made == [report |-> report]
  <2>1. /\ stage = "rendered" /\ held = [facts |-> TrueFacts, narrative |-> held.narrative]
        /\ SoundNarrative(held.narrative, TrueFacts)
    BY <1>2, <1>6 DEF EndRender, Going, HeldOK
  <2>2. CASE Proceed("publish", made, {}, Nothing)
    <3>1. report.state = "ready" /\ report.facts = TrueFacts /\ report.narrative = held.narrative
      <4> DEFINE narrative == held.narrative
      <4>1. held = [facts |-> TrueFacts, narrative |-> narrative]
        BY <2>1
      <4> HIDE DEF narrative
      <4>2. QED
        BY <4>1 DEF Updated, narrative
    <3> HIDE DEF report
    <3>2. DOMAIN made = {"report"} /\ made["report"] = report
      OBVIOUS
    <3> HIDE DEF made
    <3>3. /\ stage' = "publish" /\ UNCHANGED <<setup, evidence, changes>> /\ Analysed' = Analysed
          /\ DOMAIN seal' = DOMAIN seal
      <4>1. DOMAIN seal' = DOMAIN seal
        BY <2>2 DEF Proceed, Updated
      <4>2. QED
        BY <2>2, <4>1, TheRestStays
    <3>4. "report" \in DOMAIN part' /\ part'["report"] = report
      BY <2>2, <3>2 DEF Proceed, Updated
    <3>5. StageOK' /\ HeldOK'
      BY <1>2, <3>3, StillLicensed DEF HeldOK, LicensedStages, CoreStages, ReportStages
    <3>6. ReportMade'
      BY <2>1, <3>1, <3>3, <3>4 DEF ReportMade, ReportOK, TrueFacts
    <3>7. Ordered'
      BY <1>2, <3>3 DEF Ordered, ReportSeals
    <3>8. \A s \in DOMAIN seal : Attests[s] \cap DOMAIN made = {}
      BY <1>2, <1>3, <3>2, AttestsAre
    <3>9. stage # "done"
      BY <2>1
    <3>10. QED
      BY <1>2, <2>2, <3>5, <3>6, <3>7, <3>8, <3>9, Advancing
  <2>3. CASE ~Trusted("narrative") /\ FailReport("render")
    BY <1>1, <1>4, <2>3, FailingKeepsOrder
  <2>4. QED
    BY <1>6, <2>2, <2>3 DEF EndRender
<1>7. QED
  BY <1>5, <1>6

(* What is published is the body that the last look found unchanged. *)
LEMMA PublicationKeepsOrder ==
    ASSUME Chain, PublishCompleted PROVE Chain'
<1>1. stage = "publish" /\ stage \in LicensedStages /\ stage \in ReportStages
  BY DEF PublishCompleted, LicensedStages, ReportStages
<1>2. Going /\ Authorised /\ AnalysisInput(TrueInput)
  BY <1>1, LicensedIsAuthorised
<1>3. CASE GiveUp
  BY <1>1, <1>3, GivingUp
<1>4. ASSUME Trusted("completed"), Publishable(part["body"]),
             Over("completed", [result |-> part["body"], report |-> part["report"]]),
             UNCHANGED <<setup, evidence, store, part, seal, held, changes>>
      PROVE  Chain'
  <2>1. part["body"] = Analysed /\ Analysed \in TrueAnalyses
    BY <1>2, <1>4, TrustedIsRight, AttestsAre, ConsultsAre DEF Right
  <2>2. ReportOK(part["report"], Analysed)
    BY <1>1, <1>2 DEF Going, ReportMade
  <2>3. /\ stage' = "done" /\ outcome'.status = "completed" /\ outcome'.body.result = Analysed
        /\ outcome'.body.report = part["report"]
    BY <1>4, <2>1 DEF Over
  <2>4. ReportOK(part["report"], Analysed)'
    <3>1. changes' = changes /\ part' = part /\ Analysed' = Analysed
      BY <1>4 DEF Analysed
    <3>2. QED
      BY <2>2, <3>1 DEF ReportOK
  <2>5. part' = part /\ Analysed' = Analysed
    BY <1>4 DEF Analysed
  <2>6. /\ outcome'.body.result \in TrueAnalyses' /\ AnalysisInput(TrueInput)'
        /\ Publishable(outcome'.body.result) /\ Authorised'
    BY <1>2, <1>4, <2>1, <2>3, TruthStays
  <2>7. OutcomeOK'
    BY <2>3, <2>4, <2>5, <2>6 DEF OutcomeOK
  <2>8. QED
    BY <1>4, <2>3, <2>7, Ending
<1>5. QED
  BY <1>3, <1>4 DEF PublishCompleted

LEMMA ReportedKeepsOrder ==
    ASSUME Chain, Reported PROVE Chain'
BY FactsKeepOrder, ContextKeepsOrder, NarrativeKeepsOrder, PagesKeepOrder, PublicationKeepsOrder
   DEF Reported
-----------------------------------------------------------------------------
(* Overwriting: what is computed already stays right, and what is changed is no longer trusted. *)

LEMMA OverwritingKeepsOrder ==
    ASSUME Chain, NEW p \in Parts, Change(p) PROVE Chain'
<1>1. Going /\ stage # "done"
  BY DEF Chain, Change
<1>2. changes = 0 /\ changes' \in Nat /\ changes' # 0
  <2>1. changes \in Nat /\ changes < MaxChanges /\ changes' = changes + 1 /\ MaxChanges \in 0..1
    BY PipelineAssumption DEF Chain, Change
  <2>2. QED
    BY <2>1
<1>3. /\ part' = [part EXCEPT ![p] = Overwritten(p)]
      /\ UNCHANGED <<setup, stage, evidence, store, seal, held, outcome>>
  BY DEF Change
<1>4. PICK r \in DOMAIN seal : p \in Attests[r]
  BY DEF Change
<1>5. p # "report"
  <2>1. r \in Registries
    BY <1>1, <1>4 DEF Going, SealsAreRight
  <2>2. "report" \notin Attests[r]
    BY <2>1, AttestsAre, Registered
  <2>3. QED
    BY <1>4, <2>2
<1>6. DOMAIN part' = DOMAIN part /\ \A q \in DOMAIN part : q # p => part'[q] = part[q]
  BY <1>3
<1>7. Analysed' = Analysed /\ TrueFacts' = TrueFacts
  BY <1>3 DEF Analysed, TrueFacts
<1>8. SealsAreRight(Analysed)'
  <2>1. \A q, v, analysed : Right(q, v, analysed)' <=> Right(q, v, analysed)
    BY <1>3, RightStays
  <2>2. QED
    BY <1>1, <1>3, <1>7, <2>1 DEF Going, SealsAreRight
<1>9. Agreed'
  BY <1>1, <1>2, <1>3, <1>6 DEF Going, Agreed
<1>10. Ordered'
  BY <1>1, <1>3 DEF Going, Ordered
<1>11. StageOK'
  <2>1. stage \notin AcquisitionStages \cup {"measure", "assemble"}
    <3>1. SUFFICES ASSUME stage \in AcquisitionStages \cup {"measure", "assemble"} PROVE FALSE
      OBVIOUS
    <3>2. DOMAIN seal = {}
      BY <1>1, <3>1 DEF Going, Ordered, SealedBy, AcquisitionStages
    <3>3. QED
      BY <1>4, <3>2
  <2>2. QED
    BY <1>1, <1>3, <2>1, TruthStays DEF Going, StageOK
<1>12. HeldOK'
  <2>1. stage = "aggregated" => held = TrueScores
    <3>1. SUFFICES ASSUME stage = "aggregated" PROVE held = TrueScores
      OBVIOUS
    <3>2. "assembly" \in DOMAIN seal /\ "features" \in Attests["assembly"]
      BY <1>1, <3>1, SealedUntilTheResult, AttestsAre DEF Going, Ordered, ScoredSeals, Judged
    <3>3. part["features"] = TrueAssembly.features
      BY <1>1, <1>2, <3>2 DEF Going, Agreed, SealsAreRight, Right
    <3>4. QED
      BY <1>1, <3>1, <3>3 DEF Going, HeldOK, TrueScores
  <2>2. QED
    BY <1>1, <1>3, <1>7, <2>1, TruthStays DEF Going, HeldOK
<1>13. ReportMade'
  <2>1. SUFFICES ASSUME stage = "publish"
                 PROVE  "report" \in DOMAIN part' /\ ReportOK(part["report"], Analysed)'
    BY <1>3 DEF ReportMade
  <2>2. "report" \in DOMAIN part /\ ReportOK(part["report"], Analysed)
    BY <1>1, <2>1 DEF Going, ReportMade
  <2>3. part'["report"] = part["report"]
    BY <1>5, <1>6, <2>2
  <2>4. QED
    BY <1>2, <1>6, <1>7, <2>2, <2>3 DEF ReportOK
<1>14. Assembled' /\ OutcomeOK' /\ outcome' = Undecided'
  BY <1>1, <1>2, <1>3 DEF Assembled, OutcomeOK, Going, Undecided, Nothing
<1>15. setup' \in Setups
  BY <1>3 DEF Chain
<1>16. QED
  BY <1>2, <1>8, <1>9, <1>10, <1>11, <1>12, <1>13, <1>14, <1>15 DEF Chain, Going

LEMMA StandingStill ==
    ASSUME Chain, UNCHANGED vars PROVE Chain'
<1>1. UNCHANGED <<setup, stage, evidence, store, part, seal, held, outcome, changes>>
  BY DEF vars
<1>2. /\ TrueAssembly' = TrueAssembly /\ Results' = Results /\ TrueReadiness' = TrueReadiness
      /\ TrueScores' = TrueScores /\ TrueInput' = TrueInput /\ TrueAnalyses' = TrueAnalyses
      /\ command' = command /\ (Authorised <=> Authorised')
  BY <1>1, TruthStays
<1>3. Analysed' = Analysed /\ TrueFacts' = TrueFacts
  BY <1>1 DEF Analysed, TrueFacts
<1>4. Assembled'
  BY <1>1, <1>2 DEF Chain, Assembled
<1>5. \A report, analysed : ReportOK(report, analysed) => ReportOK(report, analysed)'
  BY <1>1 DEF ReportOK
<1>6. OutcomeOK'
  BY <1>1, <1>2, <1>5 DEF Chain, OutcomeOK
<1>7. ASSUME stage # "done" PROVE Going'
  <2>1. Going
    BY <1>7 DEF Chain
  <2>2. SealsAreRight(Analysed)'
    <3>1. \A q, v, analysed : Right(q, v, analysed)' <=> Right(q, v, analysed)
      BY <1>1, RightStays
    <3>2. QED
      BY <1>1, <1>3, <2>1, <3>1 DEF Going, SealsAreRight
  <2>3. Ordered' /\ Agreed'
    BY <1>1, <2>1 DEF Going, Ordered, Agreed
  <2>4. StageOK' /\ HeldOK'
    BY <1>1, <1>2, <1>3, <2>1 DEF Going, StageOK, HeldOK
  <2>5. ReportMade'
    BY <1>1, <1>3, <2>1 DEF Going, ReportMade, ReportOK
  <2>6. QED
    BY <1>1, <2>1, <2>2, <2>3, <2>4, <2>5 DEF Going, Undecided, Nothing
<1>8. QED
  BY <1>1, <1>4, <1>6, <1>7 DEF Chain
-----------------------------------------------------------------------------
(* Whatever the providers and the language model answer and whoever overwrites an object: what the    *)
(* registries remember is what follows from the measurements, the benchmarks and the command, and     *)
(* what is there but not so is trusted by no factory.                                                *)
THEOREM ChainIsKept == Spec => []Chain
<1>1. Init => Chain
  BY InitIsInOrder
<1>2. ASSUME Chain, [Next]_vars PROVE Chain'
  <2>1. CASE UNCHANGED vars
    BY <1>2, <2>1, StandingStill
  <2>2. CASE Next
    BY <1>2, <2>2, AcquisitionKeepsOrder, JudgementKeepsOrder, ScoredKeepsOrder, ReportedKeepsOrder,
       OverwritingKeepsOrder DEF Next
  <2>3. QED
    BY <1>2, <2>1, <2>2
<1>3. QED
  BY <1>1, <1>2, PTL DEF Spec

(* Nothing is published that does not follow from the measurements, the benchmarks and the command,   *)
(* whichever object was overwritten and whenever: RegistryBound factories resolve what they use.      *)
THEOREM MeasuredIsWhatIsPublished == Spec => []PublishedIsWhatWasMeasured
<1>1. Chain => PublishedIsWhatWasMeasured
  BY DEF Chain, OutcomeOK, PublishedIsWhatWasMeasured, TrueAnalyses, TrueInput, TrueScores, TrueReadiness,
     TrueAssembly
<1>2. QED
  BY <1>1, ChainIsKept, PTL

(* No result is reached, published or not, without all four of the withheld authorities: whoever lacks *)
(* one is not ready, and the real providers never are, as their transit evidence is never eligible.    *)
THEOREM AuthorityIsNeeded == Spec => []ScoresNeedAuthority
<1>1. Chain => ScoresNeedAuthority
  BY DEF Chain, OutcomeOK, ScoresNeedAuthority, Authorised
<1>2. QED
  BY <1>1, ChainIsKept, PTL

(* A ready report states the facts of the result that is published with it and claims nothing that the *)
(* facts do not support, whatever the language model answered.                                        *)
THEOREM ReportsAreTrue == Spec => []ReportSaysWhatWasPublished
<1>1. ASSUME Chain PROVE ReportSaysWhatWasPublished
  <2>1. SUFFICES ASSUME outcome.status = "completed", outcome.body.report.state = "ready"
                 PROVE  LET report == outcome.body.report
                            facts == CanonicalReportFacts(outcome.body.result)
                        IN /\ report.facts = facts
                           /\ report.narrative["executive_summary"] = <<Sentence("canonical_decision", facts)>>
                           /\ Claimed(report) \subseteq ActiveClaims(facts)
                           /\ \A s \in NarrativeSections : \A x \in ToSet(report.narrative[s]) :
                                  x = Sentence(x.claim, facts) /\ ClaimContract[x.claim].section = s
                           /\ report.narrative["caveat"] # <<>>
    BY DEF ReportSaysWhatWasPublished
  <2> DEFINE report == outcome.body.report
             facts == CanonicalReportFacts(outcome.body.result)
  <2>2. report.facts = facts /\ SoundNarrative(report.narrative, facts)
    BY <1>1, <2>1 DEF Chain, OutcomeOK, ReportOK
  <2> HIDE DEF report, facts
  <2>3. Claimed(report) \subseteq ActiveClaims(facts)
    BY <2>2 DEF Claimed, SoundNarrative
  <2>4. QED
    BY <2>2, <2>3 DEF SoundNarrative, report, facts
<1>2. QED
  BY <1>1, ChainIsKept, PTL

(* While nobody interferes, a published result comes with its report, whatever the model answered: the *)
(* fallback needs nothing but the facts.  Only a client that cannot be made costs the report.          *)
THEOREM ReportsAreWritten == Spec => []ReportIsAlwaysWritten
<1>1. Chain => ReportIsAlwaysWritten
  BY DEF Chain, OutcomeOK, ReportOK, ReportIsAlwaysWritten
<1>2. QED
  BY <1>1, ChainIsKept, PTL

(* A benchmark whose cells were measured under another definition, or from another feed, scores nothing. *)
THEOREM ComparisonsAreFair == Spec => []ComparedLikeWithLike
<1>1. ASSUME Chain PROVE ComparedLikeWithLike
  <2>1. SUFFICES ASSUME changes = 0, "features" \in DOMAIN part,
                        NEW n \in {CompetitionFeature, TransitFeature},
                        part["features"].metric[n].value # NoValue,
                        NEW cell \in part["results"][n].benchmark.eligible
                 PROVE  LET x == setup.cells[MetricOf[n]][cell]
                        IN IF n = CompetitionFeature THEN x.definition = MeasurementDefinition(d)
                           ELSE x.bundle = d.bundle
    BY DEF ComparedLikeWithLike
  <2>2. part["features"] = TrueAssembly.features /\ part["results"] = Results /\ setup \in Setups
    BY <1>1, <2>1 DEF Chain, Assembled
  <2>3. QED
    BY <2>1, <2>2, LikeWithLike
<1>2. QED
  BY <1>1, ChainIsKept, PTL

(* The core takes scores of whole tenths only. *)
LEMMA ScoresAreNatural ==
    ASSUME NEW scores, CategoryScores(scores), NEW c \in Categories PROVE scores[c] \in Nat
BY DEF CategoryScores

(* The weights and penalties of every sector: a location with one better category is never worse. *)
THEOREM BetterCategoriesNeverHurt == Spec => []BetterIsNeverWorse
<1>1. ASSUME Chain PROVE BetterIsNeverWorse
  <2>1. SUFFICES ASSUME outcome.status = "completed",
                        NEW c \in Categories, NEW v \in {50 * k : k \in 0..20},
                        v >= outcome.body.result.input.scores[c]
                 PROVE  LET i == outcome.body.result.input
                        IN FinalScore(i.sector, [i.scores EXCEPT ![c] = v]) >= FinalScore(i.sector, i.scores)
    BY DEF BetterIsNeverWorse
  <2> DEFINE i == outcome.body.result.input
             better == [i.scores EXCEPT ![c] = v]
  <2>2. i = TrueInput /\ AnalysisInput(i)
    <3>1. outcome.body.result \in TrueAnalyses /\ AnalysisInput(TrueInput)
      BY <1>1, <2>1 DEF Chain, OutcomeOK
    <3>2. \A input, below : Analyze(input, below).input = input
      BY DEF Analyze
    <3>3. QED
      BY <3>1, <3>2 DEF TrueAnalyses
  <2>3. DOMAIN i.scores = Categories
    BY <2>2 DEF TrueInput, CoreInput, TrueScores, CategoryScoresOf, Categories
  <2>4. i.sector \in Sectors /\ CategoryScores(i.scores)
    BY <2>2 DEF AnalysisInput
  <2> HIDE DEF i
  <2>5. v \in Int /\ v <= 1000 /\ v >= i.scores[c]
    <3>1. PICK k \in 0..20 : v = 50 * k
      BY <2>1
    <3>2. k \in Nat /\ k <= 20
      BY <3>1
    <3>3. QED
      BY <2>1, <3>1, <3>2 DEF i
  <2>6. v \in 0..1000
    <3>1. i.scores[c] \in Nat
      BY <2>4, ScoresAreNatural
    <3>2. v >= 0
      BY <2>5, <3>1
    <3>3. QED
      BY <2>5, <3>2
  <2>7. \A q \in Categories : better[q] = IF q = c THEN v ELSE i.scores[q]
    BY <2>3
  <2> HIDE DEF better
  <2>8. CategoryScores(better)
    <3> DEFINE range == 0..1000
    <3>1. \A q \in Categories : i.scores[q] \in range
      BY <2>4 DEF CategoryScores
    <3>2. v \in range
      BY <2>6
    <3> HIDE DEF range
    <3>3. \A q \in Categories : better[q] \in range
      BY <2>7, <3>1, <3>2
    <3>4. QED
      BY <3>3 DEF CategoryScores, range
  <2>9. \A q \in Categories : i.scores[q] <= better[q]
    <3>1. ASSUME NEW q \in Categories PROVE i.scores[q] \in Nat
      BY <2>4, ScoresAreNatural
    <3>2. QED
      BY <2>5, <2>7, <3>1
  <2>10. FinalScore(i.sector, i.scores) <= FinalScore(i.sector, better)
    BY <2>4, <2>8, <2>9, BetterScoresAreNeverWorse
  <2>11. \A x, y : x <= y <=> y >= x
    OBVIOUS
  <2>12. QED
    BY <2>10, <2>11 DEF i, better
<1>2. QED
  BY <1>1, ChainIsKept, PTL
-----------------------------------------------------------------------------
(* Departures: which service days are looked at, and what they add. *)

(* A set of numbers that is finite and not empty has a least and a greatest member. *)
LEMMA FiniteSetsHaveBounds ==
    ASSUME NEW S \in SUBSET Int, IsFiniteSet(S), S # {}
    PROVE  /\ \E x \in S : \A y \in S : x <= y
           /\ \E x \in S : \A y \in S : x >= y
<1> DEFINE Bounded(X) == (\E x \in X : \A y \in X : x <= y) /\ (\E x \in X : \A y \in X : x >= y)
           Bad == {X \in FiniteSubsetsOf(S) : X # {} /\ ~Bounded(X)}
<1>1. FiniteSubsetsOf(S) = SUBSET S
  BY FS_FiniteSubsetsOfFinite
<1>2. CASE Bad = {}
  <2>1. Bounded(S)
    BY <1>1, <1>2
  <2>2. QED
    BY <2>1
<1>3. CASE Bad # {}
  <2>1. Bad \subseteq FiniteSubsetsOf(S)
    OBVIOUS
  <2>2. PICK X \in Bad : \A Y \in Bad : ~(<<Y, X>> \in StrictSubsetOrdering(S))
    <3> HIDE DEF Bad
    <3>1. QED
      BY <1>3, <2>1, FS_StrictSubsetOrderingWellFounded, WFMin
  <2>3. PICK m \in X : TRUE
    OBVIOUS
  <2>4. X \subseteq S /\ X \ {m} \subseteq S /\ X \ {m} # X
    BY <1>1, <2>3
  <2>5. X \ {m} = {} \/ Bounded(X \ {m})
    BY <1>1, <2>2, <2>4 DEF StrictSubsetOrdering
  <2>6. CASE X \ {m} = {}
    <3>1. X = {m}
      BY <2>3, <2>6
    <3>2. Bounded(X)
      BY <2>4, <3>1
    <3>3. QED
      BY <3>2
  <2>7. CASE Bounded(X \ {m})
    <3>1. PICK x \in X \ {m} : \A y \in X \ {m} : x <= y
      BY <2>7
    <3>2. PICK z \in X \ {m} : \A y \in X \ {m} : z >= y
      BY <2>7
    <3>3. \E u \in {x, m} : u \in X /\ \A y \in X : u <= y
      BY <2>3, <2>4, <3>1
    <3>4. \E u \in {z, m} : u \in X /\ \A y \in X : u >= y
      BY <2>3, <2>4, <3>2
    <3>5. QED
      BY <3>3, <3>4
  <2>8. QED
    BY <2>5, <2>6, <2>7
<1>4. QED
  BY <1>2, <1>3

(* The earliest of some dates, and the latest of some times. *)
LEMMA EarliestIsMin ==
    ASSUME NEW S \in SUBSET Int, IsFiniteSet(S), S # {}
    PROVE  Min(S) \in S /\ \A y \in S : Min(S) <= y
BY FiniteSetsHaveBounds DEF Min

LEMMA LatestIsMax ==
    ASSUME NEW S \in SUBSET Int, IsFiniteSet(S), S # {}
    PROVE  Max(S) \in S /\ \A y \in S : Max(S) >= y
BY FiniteSetsHaveBounds DEF Max

(* The boarding of a trip is one of its departures, and its offset is a number. *)
LEMMA BoardingIsADeparture ==
    ASSUME NEW feed, FiniteFeed(feed), NEW trip \in DOMAIN feed.trips, NEW reach, NEW pickups,
           Boardings(feed, trip, reach, pickups) # {}, ~BoardingRaises(feed, trip, reach, pickups)
    PROVE  /\ \E i \in 1..Len(feed.trips[trip].calls) :
                 Boarding(feed, trip, reach, pickups) = feed.trips[trip].calls[i].departure
           /\ Boarding(feed, trip, reach, pickups) \in Nat
           /\ Offset(feed, trip, reach, pickups) \in Int
<1> DEFINE calls == feed.trips[trip].calls
           boardings == Boardings(feed, trip, reach, pickups)
           departures == {DepartureOf(feed, trip, i) : i \in boardings}
<1>1. /\ Len(calls) \in Nat
      /\ \A i \in 1..Len(calls) : DepartureOf(feed, trip, i) \in Nat \cup {Untimed}
  BY DEF FiniteFeed, DepartureOf
<1>2. /\ boardings \subseteq 1..Len(calls) /\ IsFiniteSet(1..Len(calls))
      /\ \A i \in boardings : DepartureOf(feed, trip, i) # Untimed
  <2>1. IsFiniteSet(1..Len(calls))
    BY <1>1, FS_Interval
  <2>2. boardings \subseteq 1..Len(calls)
    BY DEF Boardings
  <2>3. \A i \in boardings : DepartureOf(feed, trip, i) # Untimed
    BY DEF BoardingRaises
  <2>4. QED
    BY <2>1, <2>2, <2>3
<1>3. IsFiniteSet(boardings)
  BY <1>2, FS_Subset
<1>4. \A i \in boardings : DepartureOf(feed, trip, i) \in Nat
  BY <1>1, <1>2
<1>5. Boarding(feed, trip, reach, pickups) \in departures
  <2>1. departures \in SUBSET Int /\ departures # {}
    BY <1>4
  <2>2. IsFiniteSet(departures)
    <3> DEFINE f == [i \in boardings |-> DepartureOf(feed, trip, i)]
    <3>1. IsFiniteSet({f[i] : i \in boardings})
      BY <1>3, ImageIsFinite
    <3>2. {f[i] : i \in boardings} = {DepartureOf(feed, trip, i) : i \in boardings}
      OBVIOUS
    <3>3. QED
      BY <3>1, <3>2
  <2> HIDE DEF departures
  <2>3. Min(departures) \in departures
    BY <2>1, <2>2, EarliestIsMin
  <2>4. QED
    BY <2>3 DEF Boarding, departures
<1>6. PICK i \in boardings : Boarding(feed, trip, reach, pickups) = DepartureOf(feed, trip, i)
  BY <1>5
<1>7. i \in 1..Len(calls) /\ Boarding(feed, trip, reach, pickups) = calls[i].departure
  BY <1>2, <1>6 DEF DepartureOf
<1>8. Offset(feed, trip, reach, pickups) \in Int
  <2> DEFINE timed == {k \in 1..Len(calls) : DepartureOf(feed, trip, k) # Untimed}
  <2>1. timed \in SUBSET Int /\ timed # {} /\ timed \subseteq 1..Len(calls)
    BY <1>1, <1>2
  <2>2. IsFiniteSet(timed)
    BY <1>2, <2>1, FS_Subset
  <2> HIDE DEF timed
  <2>3. Min(timed) \in 1..Len(calls)
    BY <2>1, <2>2, EarliestIsMin
  <2>4. DepartureOf(feed, trip, Min(timed)) \in Int
    BY <1>1, <2>3 DEF Untimed
  <2>5. QED
    BY <1>4, <1>6, <2>4 DEF Offset, timed
<1>9. QED
  BY <1>4, <1>6, <1>7, <1>8

(* What one trip adds to one service day is finite, as the feed is, and counts whole units at whole hours. *)
LEMMA OneContribution ==
    ASSUME NEW feed, FiniteFeed(feed), NEW trip \in DOMAIN feed.trips,
           FrequencyWindows(feed.trips[trip].windows), NEW reach, NEW pickups
    PROVE  /\ IsFiniteSet(Contributions(feed, trip, reach, pickups))
           /\ \A x \in Contributions(feed, trip, reach, pickups) : x.weight \in Nat /\ x.at \in Int
<1> DEFINE windows == feed.trips[trip].windows
           boardings == Boardings(feed, trip, reach, pickups)
           shift == Offset(feed, trip, reach, pickups)
           hours(w) == (w.start + shift)..(w.end + shift - 1)
           run(t) == [at |-> t, weight |-> Unit, exact |-> TRUE]
           runs(w) == {u \in hours(w) : (u - w.start - shift) % w.headway = 0}
           of(w) == IF w.exact THEN {run(t) : t \in runs(w)}
                    ELSE {[at |-> t, weight |-> Unit \div w.headway, exact |-> FALSE] : t \in hours(w)}
<1> USE DEF Unit
<1>1. /\ IsFiniteSet(windows)
      /\ \A w \in windows : w.start \in Int /\ w.end \in Int /\ w.headway \in Int /\ w.headway > 0
  BY DEF FiniteFeed, FrequencyWindows
<1>2. CASE boardings = {} \/ BoardingRaises(feed, trip, reach, pickups)
  <2>1. Contributions(feed, trip, reach, pickups) = {}
    BY <1>2 DEF Contributions
  <2>2. QED
    BY <2>1, FS_EmptySet
<1>3. CASE boardings # {} /\ ~BoardingRaises(feed, trip, reach, pickups)
  <2>4. Boarding(feed, trip, reach, pickups) \in Int /\ shift \in Int
    BY <1>3, BoardingIsADeparture
  <2> HIDE DEF shift
  <2>5. CASE windows = {}
    <3>1. Contributions(feed, trip, reach, pickups) = {run(Boarding(feed, trip, reach, pickups))}
      BY <1>3, <2>5 DEF Contributions
    <3>2. \A x \in {run(Boarding(feed, trip, reach, pickups))} : x.weight = 12 /\ x.at \in Int
      BY <2>4
    <3> HIDE DEF run
    <3>3. IsFiniteSet({run(Boarding(feed, trip, reach, pickups))})
      BY FS_Singleton
    <3>4. QED
      BY <3>1, <3>2, <3>3
  <2>6. CASE windows # {}
    <3>1. Contributions(feed, trip, reach, pickups) = UNION {of(w) : w \in windows}
      BY <1>3, <2>6 DEF Contributions, shift
    <3>2. ASSUME NEW w \in windows PROVE IsFiniteSet(of(w)) /\ \A x \in of(w) : x.weight \in Nat /\ x.at \in Int
      <4>1. IsFiniteSet(hours(w))
        <5>1. w.start + shift \in Int /\ w.end + shift - 1 \in Int
          BY <1>1, <2>4
        <5>2. QED
          BY <5>1, FS_Interval
      <4>2. IsFiniteSet(runs(w))
        BY <4>1, FS_Subset
      <4>3. CASE w.exact
        <5>1. IsFiniteSet({run(t) : t \in runs(w)})
          <6> DEFINE f == [t \in runs(w) |-> run(t)]
          <6>1. IsFiniteSet({f[t] : t \in runs(w)})
            BY <4>2, ImageIsFinite
          <6>2. {f[t] : t \in runs(w)} = {run(t) : t \in runs(w)}
            OBVIOUS
          <6>3. QED
            BY <6>1, <6>2
        <5>2. QED
          BY <4>3, <5>1
      <4>4. CASE ~w.exact
        <5>1. IsFiniteSet({[at |-> t, weight |-> Unit \div w.headway, exact |-> FALSE] : t \in hours(w)})
          <6> DEFINE f == [t \in hours(w) |-> [at |-> t, weight |-> Unit \div w.headway, exact |-> FALSE]]
          <6>1. IsFiniteSet({f[t] : t \in hours(w)})
            BY <4>1, ImageIsFinite
          <6>2. {f[t] : t \in hours(w)} = {[at |-> t, weight |-> Unit \div w.headway, exact |-> FALSE] : t \in hours(w)}
            OBVIOUS
          <6>3. QED
            BY <6>1, <6>2
        <5>2. Unit \div w.headway \in Nat
          BY <1>1
        <5>3. QED
          BY <4>4, <5>1, <5>2
      <4>5. QED
        BY <4>3, <4>4
    <3> HIDE DEF of
    <3>3. IsFiniteSet({of(w) : w \in windows})
      <4> DEFINE f == [w \in windows |-> of(w)]
      <4>1. IsFiniteSet({f[w] : w \in windows})
        BY <1>1, ImageIsFinite
      <4>2. {f[w] : w \in windows} = {of(w) : w \in windows}
        OBVIOUS
      <4>3. QED
        BY <4>1, <4>2
    <3>4. IsFiniteSet(UNION {of(w) : w \in windows})
      BY <3>2, <3>3, FS_UNION
    <3>5. QED
      BY <3>1, <3>2, <3>4
  <2>7. QED
    BY <2>5, <2>6
<1>4. QED
  BY <1>2, <1>3

(* One service day serves an hour a finite number of times. *)
LEMMA OneDay ==
    ASSUME NEW feed, FiniteFeed(feed), ParsedFeed(feed), NEW reach, NEW pickups, NEW day, NEW exact, NEW date,
           NEW hour
    PROVE  IsFiniteSet(Served(feed, reach, pickups, day, exact, date, hour))
<1> DEFINE falling(trip) == Falling(feed, reach, pickups, day, trip, exact, date, hour)
           units(trip, x) == {<<day, trip, x>>} \X (1..x.weight)
           of(trip) == UNION {units(trip, x) : x \in falling(trip)}
<1>1. IsFiniteSet(Running(feed, day))
  BY FS_Subset DEF FiniteFeed, Running
<1>2. ASSUME NEW trip \in Running(feed, day) PROVE IsFiniteSet(of(trip))
  <2>1. trip \in DOMAIN feed.trips /\ FrequencyWindows(feed.trips[trip].windows)
    BY DEF Running, ParsedFeed
  <2>2. /\ falling(trip) \subseteq Contributions(feed, trip, reach, pickups)
        /\ IsFiniteSet(Contributions(feed, trip, reach, pickups))
        /\ \A x \in falling(trip) : x.weight \in Nat
    BY <2>1, OneContribution DEF Falling
  <2>3. IsFiniteSet(falling(trip))
    BY <2>2, FS_Subset
  <2>4. ASSUME NEW x \in falling(trip) PROVE IsFiniteSet(units(trip, x))
    <3>1. IsFiniteSet({<<day, trip, x>>})
      BY FS_Singleton
    <3>2. x.weight \in Int
      BY <2>2
    <3>3. IsFiniteSet(1..x.weight)
      BY <3>2, FS_Interval
    <3>4. QED
      BY <3>1, <3>3, FS_Product
  <2> HIDE DEF units, falling
  <2>5. IsFiniteSet({units(trip, x) : x \in falling(trip)})
    <3> DEFINE f == [x \in falling(trip) |-> units(trip, x)]
    <3>1. IsFiniteSet({f[x] : x \in falling(trip)})
      BY <2>3, ImageIsFinite
    <3>2. {f[x] : x \in falling(trip)} = {units(trip, x) : x \in falling(trip)}
      OBVIOUS
    <3>3. QED
      BY <3>1, <3>2
  <2>6. QED
    BY <2>4, <2>5, FS_UNION
<1> HIDE DEF of
<1>3. IsFiniteSet({of(trip) : trip \in Running(feed, day)})
  <2> DEFINE f == [trip \in Running(feed, day) |-> of(trip)]
  <2>1. IsFiniteSet({f[trip] : trip \in Running(feed, day)})
    BY <1>1, ImageIsFinite
  <2>2. {f[trip] : trip \in Running(feed, day)} = {of(trip) : trip \in Running(feed, day)}
    OBVIOUS
  <2>3. QED
    BY <2>1, <2>2
<1>4. IsFiniteSet(UNION {of(trip) : trip \in Running(feed, day)})
  BY <1>2, <1>3, FS_UNION
<1>5. QED
  BY <1>4 DEF Served, of

(* Whoever looks at more service days counts no less. *)
LEMMA MoreDaysCountMore ==
    ASSUME NEW feed, FiniteFeed(feed), ParsedFeed(feed), NEW reach, NEW pickups, NEW exact, NEW date, NEW hour,
           NEW more, IsFiniteSet(more), NEW days \in SUBSET more
    PROVE  /\ Count(feed, reach, pickups, days, exact, date, hour) \in Nat
           /\ Count(feed, reach, pickups, more, exact, date, hour) \in Nat
           /\ Count(feed, reach, pickups, days, exact, date, hour)
                <= Count(feed, reach, pickups, more, exact, date, hour)
<1> DEFINE served(day) == Served(feed, reach, pickups, day, exact, date, hour)
           all == UNION {served(day) : day \in more}
           some == UNION {served(day) : day \in days}
<1>1. \A day \in more : IsFiniteSet(served(day))
  BY OneDay
<1> HIDE DEF served
<1>2. IsFiniteSet({served(day) : day \in more})
  <2> DEFINE f == [day \in more |-> served(day)]
  <2>1. IsFiniteSet({f[day] : day \in more})
    BY IsFiniteSet(more), ImageIsFinite
  <2>2. {f[day] : day \in more} = {served(day) : day \in more}
    OBVIOUS
  <2>3. QED
    BY <2>1, <2>2
<1>3. IsFiniteSet(all)
  BY <1>1, <1>2, FS_UNION
<1>4. some \in SUBSET all
  OBVIOUS
<1>5. IsFiniteSet(some) /\ Cardinality(some) <= Cardinality(all)
  BY <1>3, <1>4, FS_Subset
<1>6. Cardinality(some) \in Nat /\ Cardinality(all) \in Nat
  BY <1>3, <1>5, FS_CardinalityType
<1>7. QED
  BY <1>5, <1>6 DEF Count, served

(* There is a k-th smallest value: the least that at least k members do not exceed. *)
Reaching(c, k) ==
    {y \in DOMAIN c : Cardinality({z \in DOMAIN c : c[z] <= c[y]}) >= k}

LEMMA RankedIsReached ==
    ASSUME NEW D, IsFiniteSet(D), D # {}, NEW c \in [D -> Nat], NEW k \in Int, k <= Cardinality(D)
    PROVE  /\ \E x \in Reaching(c, k) : c[x] = Ranked(c, k)
           /\ \A x \in Reaching(c, k) : Ranked(c, k) <= c[x]
<1> DEFINE values == {c[x] : x \in D}
           reached == {c[x] : x \in Reaching(c, k)}
<1>1. values \in SUBSET Int /\ values # {}
  OBVIOUS
<1>2. IsFiniteSet(values)
  BY ImageIsFinite
<1>3. PICK v \in values : \A u \in values : v >= u
  BY <1>1, <1>2, FiniteSetsHaveBounds
<1>4. PICK x \in D : c[x] = v
  BY <1>3
<1>5. {z \in DOMAIN c : c[z] <= c[x]} = D
  BY <1>3, <1>4
<1>6. x \in Reaching(c, k)
  <2>1. Cardinality(D) \in Nat
    BY FS_CardinalityType
  <2>2. QED
    BY <1>5, <2>1 DEF Reaching
<1>7. reached \in SUBSET Int /\ reached # {} /\ reached \in SUBSET values
  <2>1. Reaching(c, k) \subseteq D
    BY DEF Reaching
  <2>2. QED
    BY <1>6, <2>1
<1>8. IsFiniteSet(reached)
  BY <1>2, <1>7, FS_Subset
<1>9. Ranked(c, k) = Min(reached)
  BY DEF Ranked, Reaching
<1> HIDE DEF reached
<1>10. Min(reached) \in reached /\ \A u \in reached : Min(reached) <= u
  BY <1>7, <1>8, EarliestIsMin
<1>11. QED
  BY <1>9, <1>10 DEF reached

(* Whatever grows everywhere has no smaller k-th value, and no smaller median. *)
LEMMA RankedGrows ==
    ASSUME NEW D, IsFiniteSet(D), D # {}, NEW f \in [D -> Nat], NEW g \in [D -> Nat],
           \A x \in D : f[x] <= g[x], NEW k \in 1..Cardinality(D)
    PROVE  Ranked(f, k) \in Nat /\ Ranked(g, k) \in Nat /\ Ranked(f, k) <= Ranked(g, k)
<1>0. Cardinality(D) \in Nat
  BY FS_CardinalityType
<1>1. /\ \E x \in Reaching(f, k) : f[x] = Ranked(f, k)
      /\ \A x \in Reaching(f, k) : Ranked(f, k) <= f[x]
  BY <1>0, RankedIsReached
<1>2. PICK y \in Reaching(g, k) : g[y] = Ranked(g, k)
  BY <1>0, RankedIsReached
<1> DEFINE v == g[y]
           above == {z \in D : g[z] <= v}
           below == {z \in D : f[z] <= v}
           values == {f[z] : z \in below}
<1>3. y \in D /\ v \in Nat /\ Cardinality(above) >= k
  BY <1>2 DEF Reaching
<1>4. above \in SUBSET below /\ IsFiniteSet(below)
  BY <1>3, FS_Subset
<1>5. Cardinality(below) \in Nat /\ Cardinality(above) \in Nat /\ Cardinality(above) <= Cardinality(below)
  BY <1>4, FS_Subset, FS_CardinalityType
<1>6. below # {}
  BY <1>3, <1>4, <1>5, FS_EmptySet
<1>7. values \in SUBSET Int /\ values # {}
  BY <1>6
<1>8. IsFiniteSet(values)
  <2> DEFINE h == [z \in below |-> f[z]]
  <2>1. IsFiniteSet({h[z] : z \in below})
    <3>1. IsFiniteSet(below)
      BY <1>4
    <3>2. h = [z \in below |-> h[z]]
      OBVIOUS
    <3> HIDE DEF h, below
    <3>3. QED
      BY <3>1, <3>2, ImageIsFinite
  <2>2. {h[z] : z \in below} = {f[z] : z \in below}
    OBVIOUS
  <2>3. QED
    BY <2>1, <2>2
<1>9. PICK u \in below : \A z \in below : f[u] >= f[z]
  <2> HIDE DEF values
  <2>1. PICK m \in values : \A n \in values : m >= n
    BY <1>7, <1>8, FiniteSetsHaveBounds
  <2>2. QED
    BY <2>1 DEF values
<1>10. u \in Reaching(f, k)
  <2> DEFINE upto == {z \in D : f[z] <= f[u]}
  <2>1. below \in SUBSET upto
    BY <1>9
  <2>2. IsFiniteSet(upto)
    BY FS_Subset
  <2>3. Cardinality(below) <= Cardinality(upto) /\ Cardinality(upto) \in Nat
    BY <2>1, <2>2, FS_Subset, FS_CardinalityType
  <2>4. Cardinality(upto) >= k
    BY <1>0, <1>3, <1>5, <2>3
  <2>5. QED
    BY <1>9, <2>4 DEF Reaching
<1>11. Ranked(f, k) <= f[u] /\ f[u] <= v /\ f[u] \in Nat
  BY <1>1, <1>3, <1>9, <1>10
<1>12. Ranked(f, k) \in Nat
  BY <1>1 DEF Reaching
<1>13. QED
  BY <1>2, <1>3, <1>11, <1>12

LEMMA MedianGrows ==
    ASSUME NEW D, IsFiniteSet(D), D # {}, NEW f \in [D -> Nat], NEW g \in [D -> Nat], \A x \in D : f[x] <= g[x]
    PROVE  Median(f) \in Nat /\ Median(g) \in Nat /\ Median(f) <= Median(g)
<1> DEFINE size == Cardinality(D)
           low == (size + 1) \div 2
           high == (size + 2) \div 2
<1>1. size \in Nat \ {0}
  BY FS_CardinalityType, FS_EmptySet
<1>2. low \in 1..size /\ high \in 1..size
  BY <1>1
<1>3. Median(f) = Ranked(f, low) + Ranked(f, high) /\ Median(g) = Ranked(g, low) + Ranked(g, high)
  BY DEF Median
<1> HIDE DEF low, high, size
<1>4. /\ Ranked(f, low) \in Nat /\ Ranked(g, low) \in Nat /\ Ranked(f, low) <= Ranked(g, low)
      /\ Ranked(f, high) \in Nat /\ Ranked(g, high) \in Nat /\ Ranked(f, high) <= Ranked(g, high)
  BY <1>2, RankedGrows DEF size
<1>5. QED
  BY <1>3, <1>4

(* The times of a file are finitely many numbers, so that the days to look back are one at least. *)
LEMMA TimesOfAFile ==
    ASSUME NEW feed, FiniteFeed(feed) PROVE Times(feed) \subseteq Int /\ IsFiniteSet(Times(feed))
<1> DEFINE calls(id) == {feed.trips[id].calls[i].departure : i \in 1..Len(feed.trips[id].calls)}
           ends(id) == {w.end : w \in feed.trips[id].windows}
           of(id) == calls(id) \cup ends(id)
<1>1. ASSUME NEW id \in DOMAIN feed.trips PROVE of(id) \subseteq Int /\ IsFiniteSet(of(id))
  <2>1. /\ Len(feed.trips[id].calls) \in Nat /\ IsFiniteSet(feed.trips[id].windows)
        /\ \A i \in 1..Len(feed.trips[id].calls) : feed.trips[id].calls[i].departure \in Int
        /\ \A w \in feed.trips[id].windows : w.end \in Int
    BY DEF FiniteFeed, Untimed
  <2>2. IsFiniteSet(calls(id))
    <3> DEFINE S == 1..Len(feed.trips[id].calls)
               f == [i \in S |-> feed.trips[id].calls[i].departure]
    <3>1. IsFiniteSet(S)
      BY <2>1, FS_Interval
    <3> HIDE DEF S
    <3>2. IsFiniteSet({f[i] : i \in S})
      BY <3>1, ImageIsFinite
    <3>3. {f[i] : i \in S} = {feed.trips[id].calls[i].departure : i \in S}
      OBVIOUS
    <3>4. QED
      BY <3>2, <3>3 DEF S
  <2>3. IsFiniteSet(ends(id))
    <3> DEFINE f == [w \in feed.trips[id].windows |-> w.end]
    <3>1. IsFiniteSet({f[w] : w \in feed.trips[id].windows})
      BY <2>1, ImageIsFinite
    <3>2. {f[w] : w \in feed.trips[id].windows} = ends(id)
      OBVIOUS
    <3>3. QED
      BY <3>1, <3>2
  <2>4. calls(id) \subseteq Int /\ ends(id) \subseteq Int
    BY <2>1
  <2> HIDE DEF calls, ends
  <2>5. IsFiniteSet(calls(id) \cup ends(id))
    BY <2>2, <2>3, FS_Union
  <2>6. QED
    BY <2>4, <2>5
<1>2. Times(feed) = {0} \cup UNION {of(id) : id \in DOMAIN feed.trips}
  BY DEF Times
<1> HIDE DEF of
<1>3. IsFiniteSet({of(id) : id \in DOMAIN feed.trips})
  <2> DEFINE f == [id \in DOMAIN feed.trips |-> of(id)]
  <2>1. IsFiniteSet({f[id] : id \in DOMAIN feed.trips})
    BY ImageIsFinite DEF FiniteFeed
  <2>2. {f[id] : id \in DOMAIN feed.trips} = {of(id) : id \in DOMAIN feed.trips}
    OBVIOUS
  <2>3. QED
    BY <2>1, <2>2
<1> DEFINE all == UNION {of(id) : id \in DOMAIN feed.trips}
<1>4. IsFiniteSet(all)
  BY <1>1, <1>3, FS_UNION
<1>5. all \subseteq Int
  BY <1>1
<1>6. Times(feed) = {0} \cup all
  BY <1>2
<1> HIDE DEF all
<1>7. IsFiniteSet({0})
  BY FS_Singleton
<1>8. IsFiniteSet({0} \cup all)
  BY ONLY <1>4, <1>7, FS_Union
<1>9. QED
  BY <1>5, <1>6, <1>8

LEMMA LookBackIsPositive == ASSUME NEW feed, FiniteFeed(feed) PROVE LookBack(feed) \in Nat \ {0}
<1>1. 0 \in Times(feed)
  BY DEF Times
<1>2. Max(Times(feed)) \in Int /\ Max(Times(feed)) >= 0
  BY <1>1, LatestIsMax, TimesOfAFile
<1>3. QED
  BY <1>2, HoursPerDayAssumption DEF LookBack

(* One day more than the latest time reaches what is a day later still. *)
LEMMA OneDayMore ==
    ASSUME NEW n \in Nat \ {0}, NEW m \in Nat, NEW x \in Nat, x <= m + n
    PROVE  x \div n \in Nat /\ x \div n <= m \div n + 1
<1>1. /\ m \div n \in Int /\ m = n * (m \div n) + (m % n) /\ m % n \in 0..(n - 1)
      /\ (m + n) \div n \in Int
      /\ m + n = n * ((m + n) \div n) + ((m + n) % n) /\ (m + n) % n \in 0..(n - 1)
  BY SMT
<1>2. ASSUME NEW a \in Int, NEW b \in Int, a >= b + 2 PROVE n * a >= n * b + n + n
  BY <1>2, SMT
<1>3. (m + n) \div n <= m \div n + 1
  <2>1. CASE (m + n) \div n >= m \div n + 2
    <3>1. n * ((m + n) \div n) >= n * (m \div n) + n + n
      BY <1>1, <1>2, <2>1
    <3>2. n * ((m + n) \div n) \in Int /\ n * (m \div n) \in Int
      BY <1>1
    <3>3. QED
      BY <1>1, <3>1, <3>2
  <2>2. QED
    BY <1>1, <2>1
<1>4. m + n \in Nat
  OBVIOUS
<1>5. x \div n \in Nat /\ x \div n <= (m + n) \div n
  BY <1>4, DivisionIsMonotone
<1>6. QED
  BY <1>1, <1>3, <1>5

(* What a trip adds to a service day is never before the day, and not a day past the latest time of the *)
(* feed unless it takes more than a day to the site.                                                    *)
LEMMA ContributionsReach ==
    ASSUME NEW feed, FiniteFeed(feed), NEW trip \in DOMAIN feed.trips, NEW reach, NEW pickups,
           \/ feed.trips[trip].windows = {} \/ Contributions(feed, trip, reach, pickups) = {}
           \/ Offset(feed, trip, reach, pickups) \in 0..HoursPerDay,
           NEW x \in Contributions(feed, trip, reach, pickups)
    PROVE  x.at \in Nat /\ x.at <= Max(Times(feed)) + HoursPerDay
<1> DEFINE windows == feed.trips[trip].windows
           shift == Offset(feed, trip, reach, pickups)
           hours(w) == (w.start + shift)..(w.end + shift - 1)
           run(t) == [at |-> t, weight |-> Unit, exact |-> TRUE]
           of(w) == IF w.exact
                    THEN {run(t) : t \in {u \in hours(w) : (u - w.start - shift) % w.headway = 0}}
                    ELSE {[at |-> t, weight |-> Unit \div w.headway, exact |-> FALSE] : t \in hours(w)}
<1>1. Times(feed) \subseteq Int /\ IsFiniteSet(Times(feed)) /\ 0 \in Times(feed)
  BY TimesOfAFile DEF Times
<1>2. Max(Times(feed)) \in Int /\ \A t \in Times(feed) : t <= Max(Times(feed))
  BY <1>1, LatestIsMax
<1>3. Boardings(feed, trip, reach, pickups) # {} /\ ~BoardingRaises(feed, trip, reach, pickups)
  BY DEF Contributions
<1>4. CASE windows = {}
  <2>1. x = run(Boarding(feed, trip, reach, pickups))
    BY <1>3, <1>4 DEF Contributions
  <2>2. PICK i \in 1..Len(feed.trips[trip].calls) :
            Boarding(feed, trip, reach, pickups) = feed.trips[trip].calls[i].departure
    BY <1>3, BoardingIsADeparture
  <2>3. Boarding(feed, trip, reach, pickups) \in Times(feed)
    BY <2>2 DEF Times
  <2>4. Boarding(feed, trip, reach, pickups) \in Nat
    BY <1>3, BoardingIsADeparture
  <2>5. QED
    BY <1>2, <2>1, <2>3, <2>4, HoursPerDayAssumption
<1>5. CASE windows # {}
  <2>1. x \in UNION {of(w) : w \in windows}
    BY <1>3, <1>5 DEF Contributions
  <2>2. shift \in 0..HoursPerDay
    BY <1>5
  <2> HIDE DEF shift
  <2>3. PICK w \in windows : x \in of(w)
    BY <2>1
  <2>4. x.at \in hours(w)
    BY <2>3
  <2>5. w.start \in Nat /\ w.end \in Nat /\ w.end \in Times(feed)
    BY DEF FiniteFeed, Times
  <2>6. QED
    BY <1>2, <2>2, <2>4, <2>5, HoursPerDayAssumption
<1>6. QED
  BY <1>4, <1>5

(* The service days that the code looks at are finitely many. *)
LEMMA LookedAtDaysAreSome ==
    ASSUME NEW feed, FiniteFeed(feed), NEW dates \in SUBSET Int, IsFiniteSet(dates), dates # {}
    PROVE  ServiceDates(feed, dates) \in SUBSET Int /\ IsFiniteSet(ServiceDates(feed, dates))
<1> DEFINE back == LookBack(feed)
           first == Min(dates)
           before == {first - i : i \in 1..back}
<1>1. back \in Nat \ {0}
  BY LookBackIsPositive
<1>2. first \in Int
  BY EarliestIsMin
<1>3. ServiceDates(feed, dates) = before \cup dates
  BY DEF ServiceDates
<1> HIDE DEF back, first
<1>4. before \in SUBSET Int
  BY <1>1, <1>2
<1>5. IsFiniteSet(before)
  <2> DEFINE f == [i \in 1..back |-> first - i]
  <2>1. IsFiniteSet(1..back)
    BY <1>1, FS_Interval
  <2>2. IsFiniteSet({f[i] : i \in 1..back})
    BY <2>1, ImageIsFinite
  <2>3. {f[i] : i \in 1..back} = before
    OBVIOUS
  <2>4. QED
    BY <2>2, <2>3
<1> HIDE DEF before
<1>6. IsFiniteSet(before \cup dates)
  BY ONLY IsFiniteSet(dates), <1>5, FS_Union
<1>7. QED
  BY <1>3, <1>4, <1>6

(* A service day that no trip has a departure of on the dates adds nothing to them. *)
LEMMA OtherDaysAreSilent ==
    ASSUME NEW feed, FiniteFeed(feed), ParsedFeed(feed), NEW reach, NEW pickups, NEW dates \in SUBSET Int,
           NEW day \in Int \ EveryServiceDate(feed, reach, pickups, dates), NEW date \in dates,
           NEW exact, NEW hour
    PROVE  Served(feed, reach, pickups, day, exact, date, hour) = {}
<1>1. ASSUME NEW trip \in Running(feed, day) PROVE Falling(feed, reach, pickups, day, trip, exact, date, hour) = {}
  <2>1. trip \in DOMAIN feed.trips /\ FrequencyWindows(feed.trips[trip].windows)
    BY DEF Running, ParsedFeed
  <2>2. SUFFICES ASSUME NEW x \in Contributions(feed, trip, reach, pickups),
                        day + x.at \div HoursPerDay = date
                 PROVE  FALSE
    BY DEF Falling
  <2>3. x.at \div HoursPerDay \in Int
    BY <2>1, OneContribution, HoursPerDayAssumption
  <2> DEFINE q == x.at \div HoursPerDay
  <2>4. day = date - q
    <3> HIDE DEF q
    <3>1. q \in Int /\ day + q = date
      BY <2>2, <2>3 DEF q
    <3>2. QED
      BY <3>1
  <2>5. day \in EveryServiceDate(feed, reach, pickups, dates)
    BY <2>1, <2>4 DEF EveryServiceDate
  <2>6. QED
    BY <2>5
<1>2. QED
  BY <1>1 DEF Served

(* So a profile is the same without them. *)
LEMMA OtherDaysDoNotCount ==
    ASSUME NEW feed, FiniteFeed(feed), ParsedFeed(feed), NEW reach, NEW pickups, NEW dates \in SUBSET Int,
           NEW days \in SUBSET Int
    PROVE  Profile(feed, reach, pickups, dates, days)
             = Profile(feed, reach, pickups, dates, days \cap EveryServiceDate(feed, reach, pickups, dates))
<1> DEFINE every == EveryServiceDate(feed, reach, pickups, dates)
           some == days \cap every
<1>1. ASSUME NEW date \in dates, NEW exact, NEW hour
      PROVE  Count(feed, reach, pickups, days, exact, date, hour) = Count(feed, reach, pickups, some, exact, date, hour)
  <2> DEFINE served(day) == Served(feed, reach, pickups, day, exact, date, hour)
  <2>1. \A day \in days \ every : served(day) = {}
    BY OtherDaysAreSilent
  <2> HIDE DEF served, every
  <2>2. UNION {served(day) : day \in days} = UNION {served(day) : day \in some}
    BY <2>1
  <2>3. QED
    BY <2>2 DEF Count, served
<1> HIDE DEF some
<1>2. ASSUME NEW exact, NEW bin
      PROVE  MedianOf(feed, reach, pickups, dates, days, exact, bin) = MedianOf(feed, reach, pickups, dates, some, exact, bin)
  <2> DEFINE D == {x \in dates : Weekday(x) = bin[1]}
  <2>1. [date \in D |-> Count(feed, reach, pickups, days, exact, date, bin[2])]
          = [date \in D |-> Count(feed, reach, pickups, some, exact, date, bin[2])]
    BY <1>1
  <2>2. QED
    BY <2>1 DEF MedianOf
<1>3. Profile(feed, reach, pickups, dates, days) = Profile(feed, reach, pickups, dates, some)
  BY <1>2 DEF Profile
<1>4. QED
  BY <1>3 DEF some

(* The days with a departure on the dates are finitely many. *)
LEMMA RunningDaysAreSome ==
    ASSUME NEW feed, FiniteFeed(feed), ParsedFeed(feed), NEW reach, NEW pickups,
           NEW dates \in SUBSET Int, IsFiniteSet(dates)
    PROVE  /\ IsFiniteSet(EveryServiceDate(feed, reach, pickups, dates))
           /\ EveryServiceDate(feed, reach, pickups, dates) \in SUBSET Int
<1> DEFINE adds(trip) == Contributions(feed, trip, reach, pickups)
           added == UNION {adds(trip) : trip \in DOMAIN feed.trips}
           before(date) == {date - x.at \div HoursPerDay : x \in added}
<1>1. \A trip \in DOMAIN feed.trips : IsFiniteSet(adds(trip)) /\ \A x \in adds(trip) : x.at \in Int
  BY OneContribution DEF ParsedFeed
<1>2. EveryServiceDate(feed, reach, pickups, dates) = UNION {before(date) : date \in dates}
  BY DEF EveryServiceDate
<1> HIDE DEF adds
<1>3. IsFiniteSet({adds(trip) : trip \in DOMAIN feed.trips})
  <2> DEFINE f == [trip \in DOMAIN feed.trips |-> adds(trip)]
  <2>1. IsFiniteSet({f[trip] : trip \in DOMAIN feed.trips})
    BY ImageIsFinite DEF FiniteFeed
  <2>2. {f[trip] : trip \in DOMAIN feed.trips} = {adds(trip) : trip \in DOMAIN feed.trips}
    OBVIOUS
  <2>3. QED
    BY <2>1, <2>2
<1>4. IsFiniteSet(added)
  BY <1>1, <1>3, FS_UNION
<1>5. \A x \in added : x.at \div HoursPerDay \in Int
  BY <1>1, HoursPerDayAssumption
<1> HIDE DEF added
<1>6. ASSUME NEW date \in dates PROVE IsFiniteSet(before(date)) /\ before(date) \in SUBSET Int
  <2> DEFINE f == [x \in added |-> date - x.at \div HoursPerDay]
  <2>1. IsFiniteSet({f[x] : x \in added})
    BY <1>4, ImageIsFinite
  <2>2. {f[x] : x \in added} = before(date)
    OBVIOUS
  <2>3. before(date) \in SUBSET Int
    BY <1>5
  <2>4. QED
    BY <2>1, <2>2, <2>3
<1> HIDE DEF before
<1>7. IsFiniteSet({before(date) : date \in dates})
  <2> DEFINE f == [date \in dates |-> before(date)]
  <2>1. IsFiniteSet({f[date] : date \in dates})
    BY ImageIsFinite
  <2>2. {f[date] : date \in dates} = {before(date) : date \in dates}
    OBVIOUS
  <2>3. QED
    BY <2>1, <2>2
<1>8. IsFiniteSet(UNION {before(date) : date \in dates})
  BY <1>6, <1>7, FS_UNION
<1>9. QED
  BY <1>2, <1>6, <1>8

(* Consecutive dates look back far enough for trips that reach the site within a day: a service day with *)
(* a departure on one of the dates is a date itself or no more than max_offset days before the first.     *)
LEMMA LookBackIsFarEnough ==
    ASSUME NEW feed, FiniteFeed(feed), NEW reach, NEW dates \in SUBSET Int, IsFiniteSet(dates), dates # {},
           Consecutive(dates), ShiftedByADayAtMost(feed, reach)
    PROVE  EveryServiceDate(feed, reach, d.pickups, dates) \subseteq ServiceDates(feed, dates)
<1> DEFINE first == Min(dates)
           back == LookBack(feed)
<1>1. SUFFICES ASSUME NEW trip \in DOMAIN feed.trips, NEW date \in dates,
                      NEW x \in Contributions(feed, trip, reach, d.pickups)
               PROVE  date - x.at \div HoursPerDay \in ServiceDates(feed, dates)
  BY DEF EveryServiceDate
<1>2. first \in dates /\ \A y \in dates : first <= y
  BY EarliestIsMin
<1>3. x.at \in Nat /\ x.at <= Max(Times(feed)) + HoursPerDay
  BY ContributionsReach DEF ShiftedByADayAtMost
<1>4. Max(Times(feed)) \in Nat
  <2>1. Times(feed) \subseteq Int /\ IsFiniteSet(Times(feed)) /\ 0 \in Times(feed)
    BY TimesOfAFile DEF Times
  <2>2. Max(Times(feed)) \in Int /\ Max(Times(feed)) >= 0
    BY <2>1, LatestIsMax
  <2>3. QED
    BY <2>2
<1> DEFINE q == x.at \div HoursPerDay
<1>5. q \in Nat /\ q <= back
  BY <1>3, <1>4, OneDayMore, HoursPerDayAssumption DEF LookBack
<1>6. back \in Nat \ {0}
  BY LookBackIsPositive
<1>7. ServiceDates(feed, dates) = {first - i : i \in 1..back} \cup dates
  BY DEF ServiceDates
<1> HIDE DEF first, back, q
<1>8. date - q \in {first - i : i \in 1..back} \cup dates
  <2>1. CASE date - q >= first
    <3>1. date - q \in first..date
      BY <1>2, <1>5, <2>1
    <3>2. QED
      BY <1>2, <3>1 DEF Consecutive
  <2>2. CASE date - q < first
    <3> DEFINE j == first - (date - q)
    <3>1. j \in 1..back /\ date - q = first - j
      BY <1>2, <1>5, <1>6, <2>2
    <3>2. QED
      BY <3>1
  <2>3. QED
    BY <1>2, <1>5, <2>1, <2>2
<1>9. QED
  BY <1>7, <1>8 DEF q

(* A profile over more service days is nowhere lower. *)
LEMMA ProfilesGrow ==
    ASSUME NEW feed, FiniteFeed(feed), ParsedFeed(feed), NEW reach, NEW pickups,
           NEW dates \in SUBSET Int, IsFiniteSet(dates), {Weekday(x) : x \in dates} = 0..6,
           NEW more, IsFiniteSet(more), NEW days \in SUBSET more, NEW bin \in Bins
    PROVE  /\ Profile(feed, reach, pickups, dates, days)[bin] <= Profile(feed, reach, pickups, dates, more)[bin]
           /\ Profile(feed, reach, pickups, dates, days)[bin] \in Nat
<1> DEFINE D == {x \in dates : Weekday(x) = bin[1]}
           f(exact) == [date \in D |-> Count(feed, reach, pickups, days, exact, date, bin[2])]
           g(exact) == [date \in D |-> Count(feed, reach, pickups, more, exact, date, bin[2])]
<1>1. IsFiniteSet(D)
  BY FS_Subset
<1>2. bin[1] \in 0..6
  BY DEF Bins
<1>3. D # {}
  BY <1>2
<1> HIDE DEF D
<1>4. ASSUME NEW exact
      PROVE  /\ f(exact) \in [D -> Nat] /\ g(exact) \in [D -> Nat]
             /\ \A x \in D : f(exact)[x] <= g(exact)[x]
  BY MoreDaysCountMore
<1> HIDE DEF f, g
<1>5. ASSUME NEW exact
      PROVE  Median(f(exact)) \in Nat /\ Median(g(exact)) \in Nat /\ Median(f(exact)) <= Median(g(exact))
  BY <1>1, <1>3, <1>4, MedianGrows
<1> DEFINE few(exact) == Median(f(exact))
           many(exact) == Median(g(exact))
           few1 == few(TRUE)
           few2 == few(FALSE)
           many1 == many(TRUE)
           many2 == many(FALSE)
<1>6. /\ Profile(feed, reach, pickups, dates, days)[bin] = few1 + few2
      /\ Profile(feed, reach, pickups, dates, more)[bin] = many1 + many2
  BY DEF Profile, MedianOf, D, f, g
<1>7. few1 \in Nat /\ many1 \in Nat /\ few1 <= many1
  BY <1>5
<1>8. few2 \in Nat /\ many2 \in Nat /\ few2 <= many2
  BY <1>5
<1> HIDE DEF few1, few2, many1, many2
<1>9. QED
  BY <1>6, <1>7, <1>8

(* Whoever takes the evidence further has a feed that was parsed and, if it is profiled, could be. *)
Scheduled ==
    stage = "benchmarks" =>
        LET loaded == evidence["feed"]
        IN /\ loaded \in Feeds /\ ParsedFeed(loaded.feed)
           /\ Profiled(loaded.feed) => ~ProfileRaises(loaded.feed, loaded.reach, d.pickups, d.dates)

(* The transit call is where that begins. *)
LEMMA TransitSchedules == ASSUME Transit PROVE Scheduled'
<1>1. PICK loaded \in Feeds :
          Acquired(/\ loaded.pinned /\ ParsedFeed(loaded.feed)
                   /\ ReachKnown(loaded.feed, loaded.reach)
                   /\ Profiled(loaded.feed) =>
                          ~ProfileRaises(loaded.feed, loaded.reach, d.pickups, d.dates),
                   "benchmarks",
                   [transit |-> TransitMetric(loaded.feed, loaded.reach), feed |-> loaded])
  BY DEF Transit
<1> DEFINE metric == TransitMetric(loaded.feed, loaded.reach)
           usable == /\ loaded.pinned /\ ParsedFeed(loaded.feed)
                     /\ ReachKnown(loaded.feed, loaded.reach)
                     /\ Profiled(loaded.feed) =>
                            ~ProfileRaises(loaded.feed, loaded.reach, d.pickups, d.dates)
<1>2. Acquired(usable, "benchmarks", [transit |-> metric, feed |-> loaded])
  BY <1>1
<1> HIDE DEF metric
<1>3. CASE ~usable
  <2> HIDE DEF usable
  <2>1. stage' = "done"
    BY <1>2, <1>3 DEF Acquired, Raise, Over
  <2>2. QED
    BY <2>1 DEF Scheduled
<1>4. CASE usable
  <2>1. evidence' = Updated(evidence, [transit |-> metric, feed |-> loaded]) /\ setup' = setup
    <3> HIDE DEF usable
    <3>1. QED
      BY <1>2, <1>4 DEF Acquired
  <2>2. evidence'["feed"] = loaded
    BY <2>1 DEF Updated
  <2>3. QED
    BY <1>4, <2>1, <2>2 DEF Scheduled, Profiled, d
<1>5. QED
  BY <1>3, <1>4

(* No other step comes before the benchmarks. *)
LEMMA OthersComeElsewhere ==
    ASSUME [Next]_vars, ~Transit PROVE stage' # "benchmarks" \/ UNCHANGED <<setup, stage, evidence>>
<1>1. CASE Acquisition
  BY <1>1 DEF Acquisition, Geocode, Geography, Acs, Demographics, Isochrone, Network, Overture, Benchmarks,
     Acquired, Raise, Over
<1>2. CASE Judgement
  BY <1>2 DEF Judgement, MeasureAndNormalize, AssembleFeatures, DeriveScoringReadiness, BuildPipelineResult,
     EvaluateGate, BuildNotScoreReady, PublishNotScoreReady, Proceed, Abort, Raise, Over
<1>3. CASE Scored
  BY <1>3 DEF Scored, BuildScoringInput, BeginAggregation, ComputeCategories, EndAggregation, BeginAdapter,
     EndAdapter, AnalyzeCore, EndAnalysis, BuildCompleted, Proceed, Abort, Raise, Over
<1>4. CASE Reported
  BY <1>4 DEF Reported, BeginReport, BeginFacts, EndFacts, BuildDomain, BeginContext, EndContext, Ask,
     ValidateDraft, Narrate, BeginRender, EndRender, PublishCompleted, FailReport, GiveUp, Proceed, Abort,
     Raise, Over
<1>5. CASE UNCHANGED vars
  BY <1>5 DEF vars
<1>6. ASSUME NEW p \in Parts, Change(p) PROVE UNCHANGED <<setup, stage, evidence>>
  BY <1>6 DEF Change
<1>7. QED
  BY <1>1, <1>2, <1>3, <1>4, <1>5, <1>6 DEF Next

(* Against every service day that has a departure on a reference date: none is counted in excess, and    *)
(* none is lost when the dates are consecutive and no window of a trip is shifted by more than a day,    *)
(* whatever the calendars, the trips, their windows and the stops in reach (build_weekly_service_profile). *)
THEOREM DeparturesAreKept == Spec => []NoDepartureIsLost
<1> DEFINE Inv == setup \in Setups /\ Scheduled
<1>1. Init => Inv
  BY DEF Init, Scheduled
<1>2. ASSUME Inv, [Next]_vars PROVE Inv'
  <2>1. setup' = setup
    <3>1. CASE Acquisition
      BY <3>1 DEF Acquisition, Geocode, Geography, Acs, Demographics, Isochrone, Network, Overture, Transit,
         Benchmarks, Acquired
    <3>2. CASE Judgement
      BY <3>2 DEF Judgement, MeasureAndNormalize, AssembleFeatures, DeriveScoringReadiness,
         BuildPipelineResult, EvaluateGate, BuildNotScoreReady, PublishNotScoreReady, Proceed, Abort
    <3>3. CASE Scored
      BY <3>3 DEF Scored, BuildScoringInput, BeginAggregation, ComputeCategories, EndAggregation,
         BeginAdapter, EndAdapter, AnalyzeCore, EndAnalysis, BuildCompleted, Proceed, Abort
    <3>4. CASE Reported
      BY <3>4 DEF Reported, BeginReport, BeginFacts, EndFacts, BuildDomain, BeginContext, EndContext, Ask,
         ValidateDraft, Narrate, BeginRender, EndRender, PublishCompleted, FailReport, GiveUp, Proceed, Abort
    <3>5. QED
      BY <1>2, <3>1, <3>2, <3>3, <3>4 DEF Next, Change, vars
  <2>2. CASE Transit
    BY <1>2, <2>1, <2>2, TransitSchedules
  <2>3. CASE ~Transit
    <3>1. stage' # "benchmarks" \/ UNCHANGED <<setup, stage, evidence>>
      BY <1>2, <2>3, OthersComeElsewhere
    <3>2. Scheduled'
      BY <1>2, <3>1 DEF Scheduled, Profiled, d
    <3>3. QED
      BY <1>2, <2>1, <3>2
  <2>4. QED
    BY <2>2, <2>3
<1>3. ASSUME Inv PROVE NoDepartureIsLost
  <2> DEFINE feed == evidence["feed"].feed
             reach == evidence["feed"].reach
             days == ServiceDates(feed, d.dates)
             every == EveryServiceDate(feed, reach, d.pickups, d.dates)
  <2>1. SUFFICES ASSUME stage = "benchmarks", Profiled(feed)
                 PROVE  /\ \A bin \in Bins : WeeklyServiceProfile(feed, reach, d.pickups, d.dates)[bin]
                                               <= Profile(feed, reach, d.pickups, d.dates, every)[bin]
                        /\ Consecutive(d.dates) /\ ShiftedByADayAtMost(feed, reach) =>
                               WeeklyServiceProfile(feed, reach, d.pickups, d.dates)
                                               = Profile(feed, reach, d.pickups, d.dates, every)
    BY DEF NoDepartureIsLost
  <2>2. /\ FiniteFeed(feed) /\ ParsedFeed(feed) /\ ~ProfileRaises(feed, reach, d.pickups, d.dates)
        /\ d.dates \in SUBSET Int /\ IsFiniteSet(d.dates)
    BY <1>3, <2>1, PipelineAssumption DEF DeploymentGiven, Scheduled, d
  <2>3. {Weekday(x) : x \in d.dates} = 0..6 /\ d.dates # {}
    <3>1. {Weekday(x) : x \in d.dates} = 0..6
      BY <2>2 DEF ProfileRaises
    <3>2. QED
      BY <3>1
  <2> HIDE DEF feed, reach
  <2>4. days \in SUBSET Int /\ IsFiniteSet(every) /\ days \cap every \in SUBSET every
    BY <2>2, <2>3, LookedAtDaysAreSome, RunningDaysAreSome
  <2>5. WeeklyServiceProfile(feed, reach, d.pickups, d.dates)
          = Profile(feed, reach, d.pickups, d.dates, days \cap every)
    BY <2>2, <2>4, OtherDaysDoNotCount DEF WeeklyServiceProfile
  <2>6. ASSUME NEW bin \in Bins
        PROVE  Profile(feed, reach, d.pickups, d.dates, days \cap every)[bin]
                 <= Profile(feed, reach, d.pickups, d.dates, every)[bin]
    <3> HIDE DEF days, every
    <3>1. QED
      BY <2>2, <2>3, <2>4, ProfilesGrow
  <2>7. Consecutive(d.dates) /\ ShiftedByADayAtMost(feed, reach) => days \cap every = every
    <3>1. Consecutive(d.dates) /\ ShiftedByADayAtMost(feed, reach) => every \subseteq days
      BY <2>2, <2>3, LookBackIsFarEnough
    <3>2. QED
      BY <3>1
  <2> HIDE DEF days, every
  <2>8. QED
    BY <2>5, <2>6, <2>7
<1>4. QED
  BY <1>1, <1>2, <1>3, PTL DEF Spec
-----------------------------------------------------------------------------
(* What every constructor accepts *)

(* A metric whose reduction is withheld is a metric. *)
LEMMA UnresolvedIsAccepted ==
    ASSUME NEW key, NEW evidence_ PROVE MetricGiven(UnresolvedValue(key, evidence_))
BY DEF MetricGiven, MetricValue, UnresolvedValue, NoValue, AllowedQuality, Availability

(* What is measured from an accepted metric is a measurement, resolved or not. *)
LEMMA MeasurementIsAccepted ==
    ASSUME NEW key, NEW subject, NEW e, e.roles = EvidenceRoles[key], e.scope \in subject.scopes,
           MetricGiven(e.metric)
    PROVE  /\ DerivedMetricMeasurement(Measure(key, subject, e, granted), granted)
           /\ MetricGiven(Measure(key, subject, e, granted).metric)
<1> DEFINE x == Measure(key, subject, e, granted)
<1>1. /\ x.key = key /\ x.subject = subject /\ x.evidence = e /\ x.lineage = RequiredLineage(key, e)
      /\ x.metric = IF IsResolved(key, granted) THEN e.metric ELSE UnresolvedValue(key, e)
  BY DEF Measure
<1>2. MetricGiven(x.metric)
  BY <1>1, UnresolvedIsAccepted
<1>3. ~IsResolved(key, granted) => x.metric.availability # "available"
  BY <1>1 DEF UnresolvedValue
<1> HIDE DEF x
<1>4. QED
  BY <1>1, <1>2, <1>3 DEF DerivedMetricMeasurement, MetricGiven, x

(* The metrics of the site, wherever they come from. *)
SiteAccepted == \A key \in MetricKeys : MetricGiven(SiteMetric(key))

LEMMA KeysOfFeatures ==
    /\ MetricKeys = {"walkable_population", "target_population_density", "household_income",
                     "competition_pressure", "walkable_reach_area_km2",
                     "transit_service_departure_equivalents_per_hour"}
    /\ \A n \in DirectFeatures : MetricOf[n] \in MetricKeys
    /\ \A n, m \in DirectFeatures : MetricOf[n] = MetricOf[m] => n = m
    /\ \A key \in MetricKeys : \E n \in DirectFeatures : MetricOf[n] = key
BY DEF MetricKeys, EvidenceRoles, DirectFeatures, MetricOf, CompetitionFeature, TransitFeature

LEMMA SiteIsAccepted ==
    ASSUME SiteAccepted, NEW key \in MetricKeys
    PROVE  /\ DerivedMetricMeasurement(SiteMeasurement(key), granted)
           /\ MetricGiven(SiteMeasurement(key).metric) /\ SiteMeasurement(key).key = key
           /\ SiteMeasurement(key).subject.kind = "site"
<1> DEFINE e == Observed(key, SiteMetric(key), MeasurementDefinition(d), d.bundle, "this-site")
<1>1. e.roles = EvidenceRoles[key] /\ e.scope \in SiteSubject.scopes /\ e.metric = SiteMetric(key)
  BY DEF Observed, SiteSubject
<1>2. SiteMeasurement(key) = Measure(key, SiteSubject, e, granted)
  BY DEF SiteMeasurement
<1>3. MetricGiven(e.metric)
  BY <1>1 DEF SiteAccepted
<1> HIDE DEF e
<1>4. Measure(key, SiteSubject, e, granted).key = key
      /\ Measure(key, SiteSubject, e, granted).subject = SiteSubject
  BY DEF Measure
<1>5. SiteSubject.kind = "site"
  BY DEF SiteSubject
<1>6. QED
  BY <1>1, <1>2, <1>3, <1>4, <1>5, MeasurementIsAccepted

(* The cells that may be compared with are cells of the frame, and finitely many. *)
LEMMA EligibleCellsAreFramed ==
    ASSUME setup \in Setups
    PROVE  LET eligible == EligibleCells(Frame, d.policy, granted)
           IN /\ IsFiniteSet(eligible)
              /\ \A cell \in eligible : \E c \in d.frame.cells : c.id = cell
<1> DEFINE cells == {y \in Frame.cells : LET f == FrameCell(y, d.policy, granted)
                                       IN f.membership = "member" /\ f.eligibility = "eligible"}
           framed == [x \in cells |-> FrameCell(x, d.policy, granted)]
           judged == {framed[x] : x \in cells}
           named == [c \in judged |-> c.id]
<1>1. Frame.cells \in SUBSET setup.d.frame.cells
  BY DEF Frame, d
<1>2. IsFiniteSet(Frame.cells)
  <2>1. IsFiniteSet(setup.d.frame.cells)
    BY PipelineAssumption DEF DeploymentGiven
  <2>2. QED
    BY <1>1, <2>1, FS_Subset
<1>3. EligibleCells(Frame, d.policy, granted) = {named[c] : c \in judged}
  BY DEF EligibleCells
<1>4. IsFiniteSet(judged)
  <2>1. IsFiniteSet(cells)
    BY <1>2, FS_Subset
  <2> HIDE DEF cells
  <2>2. QED
    BY <2>1, ImageIsFinite
<1>5. IsFiniteSet({named[c] : c \in judged})
  <2> HIDE DEF judged
  <2>1. QED
    BY <1>4, ImageIsFinite
<1>6. ASSUME NEW cell \in EligibleCells(Frame, d.policy, granted)
      PROVE  \E c \in d.frame.cells : c.id = cell
  <2>1. PICK x \in cells : cell = FrameCell(x, d.policy, granted).id
    BY <1>3
  <2>2. cell = x.id
    BY <2>1 DEF FrameCell
  <2>3. x \in d.frame.cells
    BY <1>1 DEF d
  <2>4. QED
    BY <2>2, <2>3
<1>7. QED
  BY <1>3, <1>5, <1>6

(* As many objects as there are names for them. *)
LEMMA AsManyAsNames ==
    ASSUME NEW S, IsFiniteSet(S), NEW f, f = [x \in S |-> f[x]], \A x, y \in S : f[x] = f[y] => x = y
    PROVE  IsFiniteSet({f[x] : x \in S}) /\ Cardinality({f[x] : x \in S}) = Cardinality(S)
<1> DEFINE T == {f[x] : x \in S}
<1>1. f \in Bijection(S, T)
  BY DEF Bijection, Injection, IsInjective, Surjection
<1>2. ExistsBijection(S, T)
  BY <1>1 DEF ExistsBijection
<1>3. QED
  BY <1>2, FS_Bijection

(* A frame of such cells is a frame. *)
LEMMA FrameIsAccepted ==
    ASSUME setup \in Setups PROVE CommercialFrame(Frame, Lattice, d.policy, granted)
<1>1. DeploymentGiven(d)
  BY PipelineAssumption DEF d
<1>2. Frame.cells \in SUBSET d.frame.cells /\ ("frame" \notin granted => Frame.cells = {})
  BY DEF Frame
<1>3. LatticePolicy(Lattice, granted)
  <2>1. /\ Lattice.projection = ("frame" \in granted) /\ Lattice.anchored = ("frame" \in granted)
        /\ Lattice.resolution.resolved = TRUE /\ Lattice.resolution.size = 250
    BY DEF Lattice
  <2>2. ProjectionPolicy(Lattice.projection, granted)
    BY <2>1 DEF ProjectionPolicy
  <2>3. CellResolutionPolicy(Lattice.resolution)
    BY <2>1 DEF CellResolutionPolicy
  <2>4. Lattice.anchored <=> LatticeResolved(Lattice)
    BY <2>1 DEF LatticeResolved
  <2>5. QED
    BY <2>2, <2>3, <2>4 DEF LatticePolicy
<1>4. Frame.cells # {} => LatticeCellArtifact(Lattice)
  BY <1>2 DEF LatticeCellArtifact, LatticeResolved, Lattice
<1>5. EvidencePolicy(d.policy) /\ \A c \in Frame.cells : BoundaryIntersection(c.diagnostic)
  BY <1>1, <1>2 DEF DeploymentGiven
<1>6. Cardinality({c.id : c \in Frame.cells}) = Cardinality(Frame.cells)
  <2> DEFINE named == [c \in Frame.cells |-> c.id]
  <2>1. IsFiniteSet(Frame.cells)
    BY <1>1, <1>2, FS_Subset DEF DeploymentGiven
  <2>2. \A b, c \in Frame.cells : named[b] = named[c] => b = c
    BY <1>1, <1>2 DEF DeploymentGiven
  <2>3. named = [c \in Frame.cells |-> named[c]]
    OBVIOUS
  <2> HIDE DEF named
  <2>4. Cardinality({named[c] : c \in Frame.cells}) = Cardinality(Frame.cells)
    BY <2>1, <2>2, <2>3, AsManyAsNames
  <2>5. QED
    BY <2>4 DEF named
<1>7. QED
  BY <1>3, <1>4, <1>5, <1>6 DEF CommercialFrame

(* Every eligible cell is attempted once, with a measurement. *)
LEMMA BenchmarkIsAccepted ==
    ASSUME setup \in Setups, NEW key \in MetricKeys
    PROVE  /\ BenchmarkMeasurementSet(Benchmark(key)) /\ IsFiniteSet(Benchmark(key).attempts)
           /\ \A a \in Benchmark(key).attempts :
                 /\ BenchmarkCellMeasurement(a, Benchmark(key).eligible, granted)
                 /\ MetricGiven(a.measurement.metric)
<1> DEFINE s == Benchmark(key)
           attempt == [c \in s.eligible |-> Attempt(key, c)]
<1>1. /\ s.eligible = EligibleCells(Frame, d.policy, granted) /\ s.key = key /\ s.frame = Frame.id
      /\ s.attempts = {attempt[c] : c \in s.eligible}
  BY DEF Benchmark
<1>2. /\ IsFiniteSet(s.eligible)
      /\ \A cell \in s.eligible : \E c \in d.frame.cells : c.id = cell
  BY <1>1, EligibleCellsAreFramed
<1> HIDE DEF s
<1>3. ASSUME NEW cell \in s.eligible
      PROVE  LET a == Attempt(key, cell)
             IN /\ a.cell = cell /\ a.frame = Frame.id /\ a.measurement.key = key
                /\ BenchmarkCellMeasurement(a, s.eligible, granted) /\ MetricGiven(a.measurement.metric)
  <2> DEFINE x == setup.cells[key][cell]
             e == Observed(key, x.metric, x.definition, x.bundle, cell)
             subject == CellSubject(Frame.id, cell, e)
             a == Attempt(key, cell)
  <2>1. a.cell = cell /\ a.frame = Frame.id /\ a.measurement = Measure(key, subject, e, granted)
    BY DEF Attempt
  <2>2. MetricGiven(e.metric)
    <3>1. PICK c \in d.frame.cells : c.id = cell
      BY <1>2
    <3>2. MeasurementsGiven(setup)
      BY PipelineAssumption
    <3>3. MetricGiven(x.metric)
      BY <3>1, <3>2 DEF MeasurementsGiven, d
    <3>4. QED
      BY <3>3 DEF Observed
  <2>3. e.roles = EvidenceRoles[key] /\ e.scope \in subject.scopes
    BY DEF Observed, CellSubject
  <2> HIDE DEF e, a
  <2>4. a.measurement.key = key /\ a.measurement.subject = subject /\ a.measurement.evidence = e
    BY <2>1 DEF Measure
  <2>5. DerivedMetricMeasurement(a.measurement, granted) /\ MetricGiven(a.measurement.metric)
    BY <2>1, <2>2, <2>3, MeasurementIsAccepted
  <2>6. QED
    BY <2>1, <2>4, <2>5 DEF BenchmarkCellMeasurement, a
<1>4. \A b, c \in s.eligible : attempt[b] = attempt[c] => b = c
  <2>1. \A c \in s.eligible : attempt[c].cell = c
    BY <1>3
  <2> HIDE DEF attempt
  <2>2. QED
    BY <2>1
<1>5. IsFiniteSet(s.attempts) /\ Cardinality(s.attempts) = Cardinality(s.eligible)
  <2>1. attempt = [c \in s.eligible |-> attempt[c]]
    OBVIOUS
  <2> HIDE DEF attempt
  <2>2. QED
    BY <1>1, <1>2, <1>4, <2>1, AsManyAsNames
<1>6. {a.cell : a \in s.attempts} = s.eligible
  <2>1. \A c \in s.eligible : attempt[c].cell = c
    BY <1>3
  <2> HIDE DEF attempt
  <2>2. QED
    BY <1>1, <2>1
<1>7. \A a \in s.attempts : a.frame = s.frame /\ a.measurement.key = s.key
  BY <1>1, <1>3
<1>8. BenchmarkMeasurementSet(s)
  BY <1>5, <1>6, <1>7 DEF BenchmarkMeasurementSet
<1>9. QED
  BY <1>1, <1>3, <1>5, <1>8 DEF s

(* Nothing of the site or of the cells is refused by the measurements. *)
LEMMA EverythingIsMeasured ==
    ASSUME setup \in Setups, SiteAccepted PROVE Measured
BY FrameIsAccepted, SiteIsAccepted, BenchmarkIsAccepted DEF Measured
-----------------------------------------------------------------------------
(* What every factory accepts: normalization, features, readiness and the terminal *)

LEMMA ShareIsPercent ==
    ASSUME NEW n \in Nat, NEW t \in Nat \ {0}, n <= 2 * t PROVE (100 * n) \div (2 * t) \in 0..100
<1>1. 100 * n <= 100 * (2 * t) /\ 100 * n >= 0
  OBVIOUS
<1>2. (100 * n) \div (2 * t) <= (100 * (2 * t)) \div (2 * t) /\ 0 \div (2 * t) <= (100 * n) \div (2 * t)
  BY <1>1, DivisionIsMonotone
<1>3. QED
  BY <1>2

(* The share of the observations below a site, and half of its equals, is a share. *)
LEMMA PercentileIsPercent ==
    ASSUME NEW s, IsFiniteSet(s.attempts), Candidates(s) # {}, NEW value \in Int,
           \A a \in s.attempts : a.measurement.metric.value \in Int
    PROVE  Percentile(value, s) \in 0..100
<1> DEFINE below == {a \in Candidates(s) : a.measurement.metric.value < value}
           equal == {a \in Candidates(s) : a.measurement.metric.value = value}
<1>1. Candidates(s) \in SUBSET s.attempts
  BY DEF Candidates
<1>2. IsFiniteSet(Candidates(s))
  BY <1>1, FS_Subset
<1>3. below \in SUBSET Candidates(s) /\ equal \in SUBSET Candidates(s) /\ below \cap equal = {}
  BY <1>1
<1>4. Percentile(value, s) =
          (100 * (2 * Cardinality(below) + Cardinality(equal))) \div (2 * Cardinality(Candidates(s)))
  BY DEF Percentile
<1> HIDE DEF below, equal
<1>5. IsFiniteSet(below) /\ IsFiniteSet(equal) /\ IsFiniteSet(below \cup equal)
      /\ Cardinality(below \cup equal) = Cardinality(below) + Cardinality(equal) - Cardinality({})
  BY <1>2, <1>3, FS_Subset, FS_Union
<1>6. Cardinality(below) + Cardinality(equal) <= Cardinality(Candidates(s))
  <2>1. Cardinality(below \cup equal) <= Cardinality(Candidates(s))
    BY <1>2, <1>3, FS_Subset
  <2>2. Cardinality(below) \in Nat /\ Cardinality(equal) \in Nat /\ Cardinality({}) = 0
    BY <1>5, FS_CardinalityType, FS_EmptySet
  <2>3. QED
    BY <1>5, <2>1, <2>2
<1>7. /\ Cardinality(below) \in Nat /\ Cardinality(equal) \in Nat
      /\ Cardinality(Candidates(s)) \in Nat \ {0}
  BY <1>2, <1>5, FS_CardinalityType, FS_EmptySet
<1>8. QED
  <2> DEFINE n == 2 * Cardinality(below) + Cardinality(equal)
  <2>1. n \in Nat /\ n <= 2 * Cardinality(Candidates(s))
    BY <1>6, <1>7
  <2> HIDE DEF n
  <2>2. (100 * n) \div (2 * Cardinality(Candidates(s))) \in 0..100
    BY <1>7, <2>1, ShareIsPercent
  <2>3. QED
    BY <1>4, <2>2 DEF n

(* Of two sites the one with the higher value is not ranked lower against the same cells. *)
LEMMA HigherValuesRankHigher ==
    ASSUME NEW s, IsFiniteSet(s.attempts), Candidates(s) # {},
           \A a \in s.attempts : a.measurement.metric.value \in Int,
           NEW value \in Int, NEW higher \in Int, value <= higher
    PROVE  Percentile(value, s) <= Percentile(higher, s)
<1> DEFINE below(v) == {a \in Candidates(s) : a.measurement.metric.value < v}
           equal(v) == {a \in Candidates(s) : a.measurement.metric.value = v}
           rank(v) == 2 * Cardinality(below(v)) + Cardinality(equal(v))
<1>1. Candidates(s) \in SUBSET s.attempts
  BY DEF Candidates
<1>2. IsFiniteSet(Candidates(s)) /\ Cardinality(Candidates(s)) \in Nat \ {0}
  BY <1>1, FS_Subset, FS_CardinalityType, FS_EmptySet
<1>3. ASSUME NEW v PROVE Percentile(v, s) = (100 * rank(v)) \div (2 * Cardinality(Candidates(s)))
  BY DEF Percentile
<1>4. ASSUME NEW v
      PROVE  /\ IsFiniteSet(below(v)) /\ IsFiniteSet(equal(v))
             /\ Cardinality(below(v)) \in Nat /\ Cardinality(equal(v)) \in Nat
             /\ below(v) \cap equal(v) = {}
  <2>1. below(v) \in SUBSET Candidates(s) /\ equal(v) \in SUBSET Candidates(s)
    OBVIOUS
  <2>2. below(v) \cap equal(v) = {}
    BY <1>1
  <2> HIDE DEF below, equal
  <2>3. QED
    BY <1>2, <2>1, <2>2, FS_Subset, FS_CardinalityType
<1>5. CASE value = higher
  <2>1. Percentile(value, s) \in Int
    BY PercentileIsPercent
  <2>2. QED
    BY <1>5, <2>1
<1>6. CASE value < higher
  <2>1. below(value) \cup equal(value) \subseteq below(higher)
    BY <1>1, <1>6
  <2> HIDE DEF below, equal
  <2>2. /\ Cardinality(below(value) \cup equal(value))
              = Cardinality(below(value)) + Cardinality(equal(value)) - Cardinality({})
        /\ Cardinality(below(value) \cup equal(value)) <= Cardinality(below(higher))
    BY <1>4, <2>1, FS_Union, FS_Subset
  <2>3. rank(value) \in Nat /\ rank(higher) \in Nat /\ rank(value) <= rank(higher)
    BY <1>4, <2>2, FS_EmptySet
  <2> HIDE DEF rank
  <2>4. /\ 100 * rank(value) \in Nat /\ 100 * rank(higher) \in Nat /\ 100 * rank(value) <= 100 * rank(higher)
        /\ 2 * Cardinality(Candidates(s)) \in Nat \ {0}
    BY <1>2, <2>3
  <2>5. QED
    BY <1>3, <2>4, DivisionIsMonotone
<1>7. QED
  BY <1>5, <1>6

(* Measured against the same benchmark the better of two sites has no lower score, be it the one with *)
(* more of what a customer walks to or the one with less competition.                                  *)
THEOREM BetterMeasurementsScoreHigher ==
    ASSUME NEW s, IsFiniteSet(s.attempts), \A a \in s.attempts : a.measurement.metric.value \in Int,
           NEW site, NEW better, site.key = better.key,
           site.metric.value \in Int, better.metric.value \in Int,
           IF site.key \in LowerIsBetter THEN better.metric.value <= site.metric.value
           ELSE site.metric.value <= better.metric.value,
           NormalizationState(site, s) = "available", NormalizationState(better, s) = "available"
    PROVE  NormalizeFeature(site, s).score <= NormalizeFeature(better, s).score
<1> DEFINE rank(x) == Percentile(x.metric.value, s)
<1>1. Candidates(s) # {}
  <2>1. SiteGate(site.metric) # "available"
    BY DEF SiteGate
  <2>2. DistributionState(s) = "available"
    BY <2>1 DEF NormalizationState
  <2>3. QED
    BY <2>2 DEF DistributionState
<1>2. rank(site) \in 0..100 /\ rank(better) \in 0..100
  BY <1>1, PercentileIsPercent
<1>3. IF site.key \in LowerIsBetter THEN rank(better) <= rank(site) ELSE rank(site) <= rank(better)
  BY <1>1, HigherValuesRankHigher
<1>4. /\ NormalizeFeature(site, s).score = TransformPercentile(site.key, rank(site))
      /\ NormalizeFeature(better, s).score = TransformPercentile(better.key, rank(better))
  BY DEF NormalizeFeature
<1> HIDE DEF rank
<1>5. QED
  BY <1>2, <1>3, <1>4 DEF TransformPercentile

(* Every site is a site, and every score it has is a percent that an open gate let through. *)
SiteOfFeature(n) == SiteMeasurement(MetricOf[n])
GoodResult(n) ==
    /\ Results[n].site = SiteOfFeature(n) /\ Results[n].benchmark = Benchmark(MetricOf[n])
    /\ Results[n].site.key = MetricOf[n] /\ FeatureNormalizationResult(Results[n])
    /\ MetricGiven(Results[n].site.metric)
    /\ Results[n].state = "available" =>
           Results[n].score \in 0..100 /\ SiteGate(Results[n].site.metric) = "open"
    /\ Results[n].state = "site_metric_not_available" =>
           Results[n].site.metric.availability # "available"
    /\ Results[n].state = "site_metric_not_eligible" =>
           Results[n].site.metric.eligibility # "eligible"

LEMMA ResultsAreGood ==
    ASSUME setup \in Setups, SiteAccepted, NEW n \in DirectFeatures PROVE GoodResult(n)
<1> DEFINE key == MetricOf[n]
           site == SiteMeasurement(key)
           s == Benchmark(key)
           r == NormalizeFeature(site, s)
<1>1. key \in MetricKeys
  BY KeysOfFeatures
<1>2. Results[n] = r
  BY DEF Results
<1>3. MetricGiven(site.metric) /\ site.key = key /\ site.subject.kind = "site" /\ s.key = key
  BY <1>1, SiteIsAccepted DEF Benchmark
<1>4. IsFiniteSet(s.attempts) /\ \A a \in s.attempts : a.measurement.metric.value \in Int
  BY <1>1, BenchmarkIsAccepted DEF MetricGiven
<1> HIDE DEF site, s, key
<1>5. /\ r.site = site /\ r.benchmark = s /\ r.state = NormalizationState(site, s)
      /\ r.score = IF r.state = "available"
                   THEN TransformPercentile(site.key, Percentile(site.metric.value, s)) ELSE NoValue
  BY DEF NormalizeFeature
<1>6. r.state = "available" => SiteGate(site.metric) = "open" /\ DistributionState(s) = "available"
  BY AvailableMeansCompared
<1>7. ASSUME r.state = "available" PROVE r.score \in 0..100
  <2>1. Candidates(s) # {}
    BY <1>6, <1>7 DEF DistributionState
  <2>2. Percentile(site.metric.value, s) \in 0..100
    BY <1>3, <1>4, <2>1, PercentileIsPercent DEF MetricGiven
  <2>3. QED
    BY <1>5, <1>7, <2>2 DEF TransformPercentile
<1>8. r.state = "site_metric_not_available" => site.metric.availability # "available"
  BY <1>3, <1>5 DEF NormalizationState, SiteGate, MetricGiven, MetricValue
<1>9. r.state = "site_metric_not_eligible" => site.metric.eligibility # "eligible"
  BY <1>5 DEF NormalizationState, SiteGate
<1> HIDE DEF r
<1>10. r.score \in {NoValue} \cup 0..100
  BY <1>5, <1>7
<1>11. QED
  BY <1>2, <1>3, <1>5, <1>6, <1>7, <1>8, <1>9, <1>10 DEF GoodResult, FeatureNormalizationResult,
     SiteOfFeature, site, s, key

(* The metric of a direct feature is a score. *)
LEMMA DirectMetricIsScore ==
    ASSUME NEW n \in DirectFeatures, GoodResult(n), NEW bindings
    PROVE  NormalizedScore(DirectMetric(Results[n], bindings))
<1> DEFINE r == Results[n]
           m == r.site.metric
           down == UnavailableState(r)
           x == DirectMetric(r, bindings)
<1> SUFFICES NormalizedScore(x)
  OBVIOUS
<1>1. /\ MetricValue(m) /\ m.availability \in Availability
      /\ r.state = "available" => r.score \in 0..100 /\ SiteGate(m) = "open"
      /\ r.state = "site_metric_not_available" => m.availability # "available"
      /\ r.state = "site_metric_not_eligible" => m.eligibility # "eligible"
  BY DEF GoodResult, MetricGiven
<1> HIDE DEF r
<1>2. CASE r.state = "available"
  <2>1. /\ x.value = r.score /\ x.availability = "available" /\ x.quality = m.quality
        /\ x.eligibility = "eligible" /\ x.calibration = "calibrated" /\ m.refs \subseteq x.refs
    BY <1>2 DEF DirectMetric
  <2>2. m.availability = "available"
    BY <1>1, <1>2 DEF SiteGate
  <2>3. m.refs # {} /\ m.quality \in AllowedQuality["available"]
    BY <1>1, <2>2 DEF MetricValue
  <2> HIDE DEF x
  <2>4. QED
    BY <1>1, <1>2, <2>1, <2>3 DEF NormalizedScore, MetricValue, NoValue
<1>3. CASE r.state # "available"
  <2>1. /\ x.value = NoValue /\ x.availability = down.availability /\ x.quality = down.quality
        /\ x.eligibility = down.eligibility /\ x.calibration = down.calibration
    BY <1>3 DEF DirectMetric
  <2>2. CASE r.state = "site_metric_not_available"
    <3>1. m.availability \in {"missing", "unavailable", "unknown", "not_applicable"}
      BY <1>1, <2>2 DEF Availability
    <3>2. /\ down.availability = m.availability
          /\ down.quality =
                 IF m.availability = "unknown" /\ m.quality = "full" THEN "degraded" ELSE m.quality
          /\ down.eligibility = IF m.eligibility = "eligible" THEN "ineligible" ELSE m.eligibility
          /\ down.calibration = m.calibration
      BY <2>2, <3>1 DEF UnavailableState
    <3> HIDE DEF x, down
    <3>3. QED
      BY <1>1, <2>1, <3>1, <3>2 DEF NormalizedScore, MetricValue, NoValue, AllowedQuality
  <2>3. CASE r.state # "site_metric_not_available"
    <3>1. /\ down.availability = "unknown" /\ down.quality = "degraded"
          /\ down.eligibility # "eligible"
      BY <1>1, <2>3 DEF UnavailableState
    <3> HIDE DEF x, down
    <3>2. QED
      BY <2>1, <3>1 DEF NormalizedScore, MetricValue, NoValue, AllowedQuality
  <2>4. QED
    BY <2>2, <2>3
<1>4. QED
  BY <1>2, <1>3

LEMMA RestOfTheFeatures ==
    ASSUME NEW results, NEW composite, NEW bindings
    PROVE  LET f == Features(results, composite, bindings)
           IN /\ f.metric[AgeFeature] = AgeMetric /\ f.metric[RoadParkingFeature] = RoadParkingMetric(composite)
              /\ {AgeFeature, RoadParkingFeature} \cap DirectFeatures = {}
              /\ f.refs = UNION {f.metric[n].refs : n \in FeatureNames}
<1>1. /\ {AgeFeature, RoadParkingFeature} \cap DirectFeatures = {} /\ AgeFeature # RoadParkingFeature
      /\ {AgeFeature, RoadParkingFeature} \subseteq FeatureNames
  BY DEF FeatureNames, DirectFeatures, AgeFeature, RoadParkingFeature, CompetitionFeature, TransitFeature
<1>2. QED
  BY <1>1 DEF Features

(* The assembled features are features. *)
LEMMA FeaturesAreAccepted ==
    ASSUME setup \in Setups, SiteAccepted PROVE NormalizedLocationFeatures(TrueAssembly.features)
<1> DEFINE composite == RoadParkingComposite(granted)
           bindings == Bindings(Results)
           f == Features(Results, composite, bindings)
<1>1. TrueAssembly.features = f
  BY DEF TrueAssembly, AssemblyOf, Assemble
<1>2. ASSUME NEW n \in DirectFeatures
      PROVE  f.metric[n] = DirectMetric(Results[n], bindings) /\ NormalizedScore(f.metric[n])
  BY ResultsAreGood, DirectMetricIsScore, DirectMetricOfAFeature
<1>3. /\ f.metric[AgeFeature] = AgeMetric /\ f.metric[RoadParkingFeature] = RoadParkingMetric(composite)
      /\ f.refs = UNION {f.metric[n].refs : n \in FeatureNames}
  BY RestOfTheFeatures
<1>4. NormalizedScore(AgeMetric) /\ NeutralAge(AgeMetric)
  BY DEF AgeMetric, NormalizedScore, MetricValue, NoValue, AllowedQuality, NeutralAge
<1>5. NormalizedScore(RoadParkingMetric(composite))
  BY DEF RoadParkingMetric, RoadParkingComposite, NormalizedScore, MetricValue, NoValue, AllowedQuality
<1>6. f.benchmark_refs = UNION {b.refs : b \in {x \in bindings :
          x.result \in {Results[CompetitionFeature], Results[TransitFeature]}}}
  BY DEF Features
<1>7. \A n \in {CompetitionFeature, TransitFeature} :
          UNION {b.refs : b \in {x \in bindings : x.result = Results[n]}} \subseteq f.metric[n].refs
  <2>1. CompetitionFeature \in DirectFeatures /\ TransitFeature \in DirectFeatures
    BY DEF DirectFeatures
  <2>2. \A result : UNION {b.refs : b \in {x \in bindings : x.result = result}}
                        \subseteq DirectMetric(result, bindings).refs
    BY DEF DirectMetric
  <2> HIDE DEF f, bindings
  <2>3. QED
    BY <1>2, <2>1, <2>2
<1>8. CompetitionFeature \in FeatureNames /\ TransitFeature \in FeatureNames
  BY DEF FeatureNames, DirectFeatures
<1> HIDE DEF f, bindings, composite
<1>9. \A n \in FeatureNames : NormalizedScore(f.metric[n]) /\ f.metric[n].refs \subseteq f.refs
  BY <1>2, <1>3, <1>4, <1>5 DEF FeatureNames
<1>10. f.benchmark_refs \subseteq f.refs
  BY <1>6, <1>7, <1>8, <1>9
<1>11. QED
  BY <1>1, <1>3, <1>4, <1>9, <1>10 DEF NormalizedLocationFeatures

(* What is assembled is one result for each feature and bindings of those results. *)
LEMMA ResultsAreAccepted ==
    ASSUME setup \in Setups, SiteAccepted PROVE AssemblyInputs(Results, Bindings(Results))
<1>1. \A n \in DirectFeatures : FeatureNormalizationResult(Results[n]) /\ Results[n].site.key = MetricOf[n]
  BY ResultsAreGood DEF GoodResult
<1>2. DOMAIN Results = DirectFeatures
  BY DEF Results
<1>3. \A b \in Bindings(Results) : \E n \in DirectFeatures : b = Binding(Results[n])
  BY DEF Bindings, DirectFeatures
<1>4. \A result : BenchmarkReferenceBinding(Binding(result)) /\ Binding(result).result = result
  BY DEF BenchmarkReferenceBinding, Binding
<1>5. QED
  BY <1>1, <1>2, <1>3, <1>4, KeysOfFeatures DEF AssemblyInputs

(* Readiness says of every feature what its reasons say. *)
LEMMA ReadinessIsAccepted ==
    ASSUME NEW a PROVE ScoringReadinessResult(DeriveReadiness(a))
<1> DEFINE reasons(n) == FeatureReasons(a.features, n, a.policies[n], a.compatibility, a.approved)
           r == DeriveReadiness(a)
<1>1. /\ r.reasons = [n \in FeatureNames |-> reasons(n)]
      /\ r.is_score_ready <=> UNION {r.reasons[n] : n \in FeatureNames} = {}
      /\ r.missing = {n \in FeatureNames : a.features.metric[n].availability # "available"}
      /\ r.insufficient = {n \in FeatureNames : a.features.metric[n].quality \notin {"full", "degraded"}}
  BY DEF DeriveReadiness, Validate
<1>2. ASSUME NEW n \in FeatureNames
      PROVE  /\ "missing_required_feature" \in reasons(n)
                    <=> a.features.metric[n].availability # "available"
             /\ "insufficient_data_quality" \in reasons(n)
                    <=> a.features.metric[n].quality \notin {"full", "degraded"}
  <2> DEFINE m == a.features.metric[n]
             others == VersionReasons(ResolvedVersion(a.features, n, a.policies[n]), a.policies[n])
                       \cup CalibrationReasons(n, m, a.policies[n], a.approved)
                       \cup (CASE n = CompetitionFeature -> CompetitionReasons(a.features, a.compatibility)
                               [] n = TransitFeature -> TransitReasons(a.features, a.compatibility)
                               [] n = RoadParkingFeature -> RoadParkingReasons(a.features)
                               [] OTHER -> {})
  <2>1. reasons(n) = StateReasons(m) \cup others
    BY DEF FeatureReasons
  <2>2. {"missing_required_feature", "insufficient_data_quality"} \cap others = {}
    BY DEF VersionReasons, CalibrationReasons, CompetitionReasons, TransitReasons, RoadParkingReasons
  <2> HIDE DEF others
  <2>3. /\ "missing_required_feature" \in StateReasons(m) <=> m.availability # "available"
        /\ "insufficient_data_quality" \in StateReasons(m) <=> m.quality \notin {"full", "degraded"}
    BY DEF StateReasons
  <2>4. QED
    BY <2>1, <2>2, <2>3
<1> HIDE DEF r, reasons
<1>3. UNION {r.reasons[n] : n \in FeatureNames} = {} <=> \A n \in FeatureNames : r.reasons[n] = {}
  OBVIOUS
<1>4. QED
  BY <1>1, <1>2, <1>3 DEF ScoringReadinessResult, r

(* What is ready to be scored has a score for every feature. *)
LEMMA ReadyMeansScores ==
    ASSUME setup \in Setups, SiteAccepted, TrueReadiness.is_score_ready
    PROVE  MetricScores(TrueAssembly.features)
<1> SUFFICES ASSUME NEW n \in FeatureNames PROVE TrueAssembly.features.metric[n].value \in 0..100
  BY DEF MetricScores
<1> DEFINE m == TrueAssembly.features.metric[n]
<1>1. NormalizedScore(m)
  BY FeaturesAreAccepted DEF NormalizedLocationFeatures
<1>2. m.availability = "available"
  <2>1. FeatureReasons(TrueAssembly.features, n, TrueAssembly.policies[n], TrueAssembly.compatibility,
                       TrueAssembly.approved) = {}
    BY DEF TrueReadiness, DeriveReadiness, Validate
  <2>2. StateReasons(m) = {}
    BY <2>1 DEF FeatureReasons
  <2>3. QED
    BY <2>2 DEF StateReasons
<1> HIDE DEF m
<1>3. m.value \in 0..100
  BY <1>1, <1>2 DEF NormalizedScore, MetricValue
<1>4. QED
  BY <1>3 DEF m

(* The terminal is made of the metrics that were normalized, under the deployment's own lineage. *)
TrueDerived == DerivedMetrics(Results)
TrueTerminal ==
    Terminal(TrueAssembly.features, TrueReadiness, TRUE, TrueDerived,
             [transit |-> d.bundle, competition |-> MeasurementDefinition(d)])

LEMMA DerivedOfAKey ==
    ASSUME NEW n \in DirectFeatures PROVE TrueDerived[MetricOf[n]] = Results[n].site.metric
<1> DEFINE key == MetricOf[n]
           of == CHOOSE m \in DirectFeatures : MetricOf[m] = key
<1>1. of = n
  BY KeysOfFeatures
<1>2. key \in MetricKeys
  BY KeysOfFeatures
<1> HIDE DEF key
<1>3. TrueDerived[key] = Results[of].site.metric
  BY <1>2 DEF TrueDerived, DerivedMetrics, Updated
<1>4. QED
  BY <1>1, <1>3 DEF key

LEMMA TerminalIsAccepted ==
    ASSUME setup \in Setups, SiteAccepted
    PROVE  /\ TerminalAccepted(Results, TrueReadiness, TRUE, TrueDerived)
           /\ RealDataPipelineResult(TrueTerminal)
<1> USE DEF SiteOfFeature
<1>1. TerminalAccepted(Results, TrueReadiness, TRUE, TrueDerived)
  BY DerivedOfAKey DEF TerminalAccepted, DerivedMetricsCoherent
<1>2. LineageMatches(TrueTerminal)
  <2>1. /\ TrueTerminal.features = TrueAssembly.features
        /\ TrueTerminal.transit = d.bundle /\ TrueTerminal.competition = MeasurementDefinition(d)
    BY DEF TrueTerminal, Terminal
  <2>2. /\ TrueAssembly.features.bundle = Results[TransitFeature].site.lineage
        /\ TrueAssembly.features.definition = Results[CompetitionFeature].site.lineage
    BY DEF TrueAssembly, AssemblyOf, Assemble, Features
  <2>3. TransitFeature \in DirectFeatures /\ CompetitionFeature \in DirectFeatures
        /\ MetricOf[TransitFeature] = "transit_service_departure_equivalents_per_hour"
        /\ MetricOf[CompetitionFeature] = "competition_pressure"
    BY DEF DirectFeatures, MetricOf, TransitFeature, CompetitionFeature
  <2>4. /\ Results[TransitFeature].site = SiteMeasurement("transit_service_departure_equivalents_per_hour")
        /\ Results[CompetitionFeature].site = SiteMeasurement("competition_pressure")
    BY <2>3, ResultsAreGood DEF GoodResult
  <2>5. /\ SiteMeasurement("transit_service_departure_equivalents_per_hour").lineage = d.bundle
        /\ SiteMeasurement("competition_pressure").lineage = MeasurementDefinition(d)
    BY DEF SiteMeasurement, Measure, RequiredLineage, Observed
  <2>6. QED
    BY <2>1, <2>2, <2>4, <2>5 DEF LineageMatches
<1>3. DerivedLocationMetrics(TrueDerived)
  <2>1. DOMAIN TrueDerived = MetricKeys \cup {"road_reachable_area_km2"}
    BY DEF TrueDerived, DerivedMetrics, Updated
  <2>2. TrueDerived["road_reachable_area_km2"] = UnknownMetric("road_reduction_policy_unresolved")
    <3>1. "road_reachable_area_km2" \notin MetricKeys
      BY KeysOfFeatures
    <3>2. QED
      BY <3>1 DEF TrueDerived, DerivedMetrics, Updated
  <2>3. \A reason : MetricValue(UnknownMetric(reason)) /\ UnknownMetric(reason).value = NoValue
    BY DEF UnknownMetric, MetricValue, NoValue, AllowedQuality
  <2>4. \A key \in MetricKeys : MetricValue(TrueDerived[key])
    BY KeysOfFeatures, DerivedOfAKey, ResultsAreGood DEF GoodResult, MetricGiven
  <2>5. TrueDerived["competition_pressure"].value # NoValue =>
            TrueDerived["competition_pressure"].calibration = "calibrated"
    <3>1. CompetitionFeature \in DirectFeatures /\ MetricOf[CompetitionFeature] = "competition_pressure"
      BY DEF DirectFeatures, MetricOf, CompetitionFeature
    <3>2. TrueDerived["competition_pressure"] = SiteMeasurement("competition_pressure").metric
      BY <3>1, DerivedOfAKey, ResultsAreGood DEF GoodResult
    <3>3. SiteMeasurement("competition_pressure").metric.value # NoValue =>
              SiteMeasurement("competition_pressure").metric = setup.site["competition_pressure"]
      BY DEF SiteMeasurement, Measure, UnresolvedValue, Observed, SiteMetric
    <3>4. MeasurementsGiven(setup)
      BY PipelineAssumption
    <3>5. QED
      BY <3>2, <3>3, <3>4 DEF MeasurementsGiven
  <2>6. QED
    BY <2>1, <2>2, <2>3, <2>4, <2>5 DEF DerivedLocationMetrics
<1>4. /\ TrueTerminal.derived = TrueDerived /\ TrueTerminal.location = TRUE
      /\ TrueTerminal.readiness = TrueReadiness
      /\ TrueTerminal.status = IF TrueReadiness.is_score_ready THEN "score_ready" ELSE "not_score_ready"
  BY DEF TrueTerminal, Terminal
<1>5. QED
  BY <1>1, <1>2, <1>3, <1>4 DEF RealDataPipelineResult, ScoreReadyTerminal
-----------------------------------------------------------------------------
(* What every constructor accepts: the evidence of the providers *)

LEMMA DiagnosticsAreMetrics ==
    ASSUME NEW value \in Int \ {NoValue}, NEW refs, refs # {} PROVE MetricGiven(DiagnosticMetric(value, refs))
<1> DEFINE m == DiagnosticMetric(value, refs)
<1>1. /\ m.value = value /\ m.availability = "available" /\ m.quality = "full" /\ m.refs = refs
      /\ m.eligibility = "diagnostic_only"
  BY DEF DiagnosticMetric
<1> HIDE DEF m
<1>2. MetricGiven(m)
  BY <1>1 DEF MetricGiven, MetricValue, Availability, AllowedQuality
<1>3. QED
  BY <1>2 DEF m

(* Whatever an ACS cell says, its metric is one. *)
LEMMA AcsIsAMetric ==
    ASSUME NEW cell, NEW number \in Int \ {NoValue}, NEW refs, refs # {}
    PROVE  MetricGiven(AcsMetric(CellState(cell), number, refs))
<1> DEFINE state == CellState(cell)
           m == AcsMetric(state, number, refs)
<1>1. state \in {"missing", "suppressed", "not_applicable", "annotated", "value"}
  BY DEF CellState
<1> SUFFICES MetricGiven(m)
  OBVIOUS
<1> HIDE DEF state
<1>2. CASE state = "value"
  BY <1>2 DEF AcsMetric, MetricGiven, MetricValue, Availability, AllowedQuality
<1>3. CASE state \in {"missing", "suppressed"}
  <2>1. /\ m.value = NoValue /\ m.availability = "missing" /\ m.quality = "missing"
        /\ m.eligibility = "ineligible"
    BY <1>3 DEF AcsMetric
  <2> HIDE DEF m
  <2>2. MetricGiven(m)
    BY <2>1 DEF MetricGiven, MetricValue, Availability, AllowedQuality, NoValue
  <2>3. QED
    BY <2>2 DEF m
<1>4. CASE state = "not_applicable"
  BY <1>4 DEF AcsMetric, MetricGiven, MetricValue, Availability, AllowedQuality, NoValue
<1>5. CASE state = "annotated"
  BY <1>5 DEF AcsMetric, MetricGiven, MetricValue, Availability, AllowedQuality, NoValue
<1>6. QED
  BY <1>1, <1>2, <1>3, <1>4, <1>5 DEF state, m

LEMMA BinsAreSome == IsFiniteSet(Bins) /\ Cardinality(Bins) \in Nat \ {0}
<1>1. HoursPerDay - 1 \in Int
  BY HoursPerDayAssumption
<1> DEFINE last == HoursPerDay - 1
           hours == 0..last
<1> HIDE DEF last
<1>2. IsFiniteSet(0..6) /\ IsFiniteSet(hours)
  <2>1. 0 \in Int /\ 6 \in Int /\ last \in Int
    BY <1>1 DEF last
  <2>2. IsFiniteSet(0..6)
    BY <2>1, FS_Interval
  <2>3. IsFiniteSet(0..last)
    BY <2>1, FS_Interval
  <2>4. QED
    BY <2>2, <2>3
<1> HIDE DEF hours
<1>3. IsFiniteSet((0..6) \X hours)
  BY <1>2, FS_Product
<1>4. IsFiniteSet(Bins)
  BY <1>3 DEF Bins, hours, last
<1>5. <<0, 0>> \in Bins
  BY HoursPerDayAssumption DEF Bins
<1>6. QED
  BY <1>4, <1>5, FS_CardinalityType, FS_EmptySet

(* The mean of a profile of naturals is one. *)
LEMMA MeanIsNatural ==
    ASSUME NEW profile, DOMAIN profile = Bins, \A bin \in Bins : profile[bin] \in Nat
    PROVE  MeanDepartures(profile) \in Nat
<1> DEFINE units(bin) == {bin} \X (1..profile[bin])
           all == UNION {units(bin) : bin \in Bins}
<1>1. ASSUME NEW bin \in Bins PROVE IsFiniteSet(units(bin))
  <2> DEFINE one == {bin}
             n == profile[bin]
             numbers == 1..n
  <2>1. n \in Int /\ 1 \in Int
    OBVIOUS
  <2> HIDE DEF n
  <2>2. IsFiniteSet(one)
    BY FS_Singleton
  <2>3. IsFiniteSet(numbers)
    BY <2>1, FS_Interval
  <2> HIDE DEF one, numbers
  <2>4. IsFiniteSet(one \X numbers)
    BY <2>2, <2>3, FS_Product
  <2>5. QED
    BY <2>4 DEF one, numbers, n
<1>2. MeanDepartures(profile) = Cardinality(all) \div (2 * Cardinality(Bins))
  BY DEF MeanDepartures
<1> HIDE DEF units
<1>3. IsFiniteSet({units(bin) : bin \in Bins})
  <2> DEFINE f == [bin \in Bins |-> units(bin)]
  <2>1. f = [bin \in Bins |-> f[bin]] /\ {f[bin] : bin \in Bins} = {units(bin) : bin \in Bins}
    OBVIOUS
  <2> HIDE DEF f
  <2>2. IsFiniteSet({f[bin] : bin \in Bins})
    BY <2>1, BinsAreSome, ImageIsFinite
  <2>3. QED
    BY <2>1, <2>2
<1>4. IsFiniteSet(all)
  BY <1>1, <1>3, FS_UNION
<1> HIDE DEF all
<1>5. Cardinality(all) \in Nat /\ 2 * Cardinality(Bins) \in Nat \ {0}
  BY <1>4, BinsAreSome, FS_CardinalityType
<1>6. QED
  BY <1>2, <1>5, DivisionIsMonotone

(* The metric of a feed that is usable is a metric. *)
LEMMA TransitIsAMetric ==
    ASSUME setup \in Setups, NEW loaded \in Feeds, ParsedFeed(loaded.feed),
           Profiled(loaded.feed) => ~ProfileRaises(loaded.feed, loaded.reach, d.pickups, d.dates)
    PROVE  MetricGiven(TransitMetric(loaded.feed, loaded.reach))
<1> DEFINE feed == loaded.feed
           reach == loaded.reach
           refs == {SourceMetadata("gtfs"), SourceMetadata("network"), SourceMetadata("isochrone")}
           profile == WeeklyServiceProfile(feed, reach, d.pickups, d.dates)
           days == ServiceDates(feed, d.dates)
<1>1. FiniteFeed(feed) /\ DeploymentGiven(d)
  BY PipelineAssumption DEF d
<1>2. CASE Profiled(feed)
  <2>1. {Weekday(x) : x \in d.dates} = 0..6 /\ d.dates \in SUBSET Int /\ IsFiniteSet(d.dates)
    BY <1>1, <1>2 DEF ProfileRaises, DeploymentGiven
  <2>2. d.dates # {}
    BY <2>1
  <2> HIDE DEF feed, reach
  <2>3. IsFiniteSet(days) /\ days \in SUBSET days
    BY <1>1, <2>1, <2>2, LookedAtDaysAreSome
  <2>4. profile = Profile(feed, reach, d.pickups, d.dates, days)
    BY DEF WeeklyServiceProfile
  <2>5. \A bin \in Bins : profile[bin] \in Nat
    <3> HIDE DEF days
    <3>1. QED
      BY <1>1, <2>1, <2>3, <2>4, ProfilesGrow DEF feed
  <2>6. DOMAIN profile = Bins
    BY <2>4 DEF Profile
  <2> HIDE DEF profile
  <2>7. MeanDepartures(profile) \in Int \ {NoValue}
    BY <2>5, <2>6, MeanIsNatural DEF NoValue
  <2>8. refs # {}
    OBVIOUS
  <2>9. MetricGiven(DiagnosticMetric(MeanDepartures(profile), refs))
    <3> HIDE DEF refs
    <3>1. QED
      BY <2>7, <2>8, DiagnosticsAreMetrics
  <2>10. TransitMetric(feed, reach) = DiagnosticMetric(MeanDepartures(profile), refs)
    BY <1>2 DEF Profiled, TransitMetric, profile
  <2>11. QED
    BY <2>9, <2>10 DEF feed, reach
<1>3. CASE ~Profiled(feed)
  <2> DEFINE m == TransitMetric(feed, reach)
  <2>1. /\ m.value = NoValue /\ m.availability = "unknown" /\ m.quality \in {"degraded", "missing"}
        /\ m.eligibility = "ineligible"
    BY <1>3 DEF Profiled, TransitMetric
  <2> HIDE DEF m
  <2>2. MetricGiven(m)
    BY <2>1 DEF MetricGiven, MetricValue, NoValue, Availability, AllowedQuality
  <2>3. QED
    BY <2>2 DEF m
<1>4. QED
  BY <1>2, <1>3

(* What the providers have given by the time that a stage is reached. *)
InformedBy(s, facts) ==
    /\ s \in {"isochrone", "network", "overture", "transit", "benchmarks"} =>
           "demographics" \in DOMAIN facts /\ MetricGiven(facts["demographics"].income)
    /\ s \in {"overture", "transit", "benchmarks"} =>
           "catchments" \in DOMAIN facts /\ MetricGiven(facts["catchments"][d.scale].area)
    /\ s = "benchmarks" => "transit" \in DOMAIN facts /\ MetricGiven(facts["transit"])
Informed == InformedBy(stage, evidence) /\ (stage \in JudgementStages \cup LicensedStages => SiteAccepted)

LEMMA StillInformed ==
    ASSUME NEW s, NEW next, NEW facts, NEW new, InformedBy(s, facts),
           DOMAIN new \cap {"demographics", "catchments", "transit"} = {},
           \/ next \in {"geocode", "geography", "acs", "demographics", "measure"}
           \/ s \in {"isochrone", "network"} /\ next \in {"isochrone", "network"}
           \/ s \in {"overture", "transit"} /\ next \in {"overture", "transit"}
    PROVE  InformedBy(next, Updated(facts, new))
BY DEF InformedBy, Updated

(* A call that raises ends the analysis; one that does not adds what it says. *)
Adds(next, new) ==
    /\ UNCHANGED setup
    /\ stage' = "done" \/ (stage' = next /\ evidence' = Updated(evidence, new))
LEMMA Learning ==
    ASSUME NEW next \in AcquisitionStages, NEW new, Adds(next, new),
           stage' = next => InformedBy(next, Updated(evidence, new))
    PROVE  Informed'
<1>1. CASE stage' = next
  <2>1. stage' = next /\ evidence' = Updated(evidence, new) /\ UNCHANGED setup
    BY <1>1 DEF Adds, AcquisitionStages
  <2>2. InformedBy(stage, evidence)'
    BY <1>1, <2>1 DEF InformedBy, d
  <2>3. stage' \notin JudgementStages \cup LicensedStages
    BY <2>1 DEF AcquisitionStages, JudgementStages, LicensedStages, CoreStages, ReportStages
  <2>4. QED
    BY <2>2, <2>3 DEF Informed
<1>2. CASE stage' # next
  <2>1. stage' = "done"
    BY <1>2 DEF Adds
  <2>2. QED
    BY <2>1 DEF Informed, InformedBy, JudgementStages, LicensedStages, CoreStages, ReportStages
<1>3. QED
  BY <1>1, <1>2

LEMMA LearningElse ==
    ASSUME Informed, NEW next \in AcquisitionStages, NEW new, Adds(next, new),
           DOMAIN new \cap {"demographics", "catchments", "transit"} = {},
           \/ next \in {"geography", "acs", "demographics"}
           \/ stage = "isochrone" /\ next = "network"
           \/ stage = "overture" /\ next = "transit"
    PROVE  Informed'
<1>1. InformedBy(stage, evidence)
  BY DEF Informed
<1>2. InformedBy(next, Updated(evidence, new))
  BY <1>1, StillInformed
<1>3. QED
  BY <1>2, Learning

(* What is measured at the end of the acquisition are metrics, whoever gave them. *)
LEMMA GivenIsAccepted ==
    ASSUME setup \in Setups, setup.source = "provider" => InformedBy("benchmarks", evidence)
    PROVE  SiteAccepted
<1>1. \A key \in MetricKeys : MetricGiven(setup.site[key])
  BY PipelineAssumption DEF MeasurementsGiven
<1> SUFFICES ASSUME NEW key \in MetricKeys PROVE MetricGiven(SiteMetric(key))
  BY DEF SiteAccepted
<1>2. CASE setup.source # "provider"
  BY <1>1, <1>2 DEF SiteMetric
<1>3. CASE setup.source = "provider"
  <2>1. /\ MetricGiven(evidence["demographics"].income)
        /\ MetricGiven(evidence["catchments"][d.scale].area) /\ MetricGiven(evidence["transit"])
    BY <1>3 DEF InformedBy
  <2>2. SiteMetric(key) \in {evidence["demographics"].income, evidence["catchments"][d.scale].area,
                             evidence["transit"], setup.site[key]}
    BY DEF SiteMetric
  <2>3. QED
    BY <1>1, <2>1, <2>2
<1>4. QED
  BY <1>2, <1>3

LEMMA AcceptedStays ==
    ASSUME UNCHANGED <<setup, evidence>>, SiteAccepted PROVE SiteAccepted'
BY DEF SiteAccepted, SiteMetric, d

(* Every call of the acquisition leaves what it should know. *)
LEMMA AcquisitionInforms ==
    ASSUME setup \in Setups, Informed, Acquisition PROVE Informed'
<1>0. InformedBy(stage, evidence)
  BY DEF Informed
<1> USE DEF AcquisitionStages
<1>1. CASE Geocode
  <2>1. PICK coordinates : Adds("geography", [coordinates |-> coordinates]) /\ stage = "geocode"
    BY <1>1 DEF Geocode, Acquired, Raise, Over, Adds
  <2> DEFINE new == [coordinates |-> coordinates]
  <2>2. DOMAIN new \cap {"demographics", "catchments", "transit"} = {}
    OBVIOUS
  <2>3. Adds("geography", new)
    BY <2>1
  <2> HIDE DEF new
  <2>4. QED
    BY <2>1, <2>2, <2>3, LearningElse
<1>2. CASE Geography
  <2>1. PICK location :
            Adds("acs", [location |-> location, cells |-> {}, answered |-> 0]) /\ stage = "geography"
    BY <1>2 DEF Geography, Acquired, Raise, Over, Adds
  <2> DEFINE new == [location |-> location, cells |-> {}, answered |-> 0]
  <2>2. DOMAIN new \cap {"demographics", "catchments", "transit"} = {}
    OBVIOUS
  <2>3. Adds("acs", new)
    BY <2>1
  <2> HIDE DEF new
  <2>4. QED
    BY <2>1, <2>2, <2>3, LearningElse
<1>3. CASE Acs
  <2>1. PICK next, answered, cells :
            /\ Adds(next, [cells |-> cells, answered |-> answered]) /\ stage = "acs"
            /\ next \in {"acs", "demographics"}
    BY <1>3 DEF Acs, Acquired, Raise, Over, Adds
  <2> DEFINE new == [cells |-> cells, answered |-> answered]
  <2>2. DOMAIN new \cap {"demographics", "catchments", "transit"} = {}
    OBVIOUS
  <2>3. Adds(next, new)
    BY <2>1
  <2> HIDE DEF new
  <2>4. QED
    BY <2>1, <2>2, <2>3, LearningElse
<1>4. CASE Demographics
  <2> DEFINE snapshot == DemographicSnapshot(evidence["cells"], Selected, Plan, d)
             new == [demographics |-> snapshot]
  <2>1. MetricGiven(snapshot.income)
    <3>1. d.income \in Int \ {NoValue}
      BY PipelineAssumption DEF DeploymentGiven, d
    <3>2. QED
      BY <3>1, AcsIsAMetric DEF DemographicSnapshot
  <2>2. Adds("isochrone", new)
    BY <1>4 DEF Demographics, Acquired, Raise, Over, Adds
  <2> HIDE DEF snapshot
  <2>3. InformedBy("isochrone", Updated(evidence, new))
    BY <2>1 DEF InformedBy, Updated
  <2> HIDE DEF new
  <2>4. QED
    BY <2>2, <2>3, Learning
<1>5. CASE Isochrone
  <2>1. PICK body : Adds("network", [isochrone |-> body]) /\ stage = "isochrone"
    BY <1>5 DEF Isochrone, Acquired, Raise, Over, Adds
  <2> DEFINE new == [isochrone |-> body]
  <2>2. DOMAIN new \cap {"demographics", "catchments", "transit"} = {}
    OBVIOUS
  <2>3. Adds("network", new)
    BY <2>1
  <2> HIDE DEF new
  <2>4. QED
    BY <2>1, <2>2, <2>3, LearningElse
<1>6. CASE Network
  <2> DEFINE refs == {SourceMetadata("network"), SourceMetadata("isochrone")}
             result(areas) == PedestrianFrozenResult(evidence["coordinates"], areas, d.budget, refs)
             new(areas) == [catchments |-> result(areas)]
  <2>1. PICK loaded \in Networks :
            /\ Adds("overture", new(loaded.areas)) /\ stage = "network"
            /\ stage' = "overture" => FrozenResultAccepted(evidence["isochrone"], loaded.areas, d.budget)
    BY <1>6 DEF Network, Acquired, Raise, Over, Adds
  <2>2. ASSUME stage' = "overture" PROVE InformedBy("overture", Updated(evidence, new(loaded.areas)))
    <3>1. d.scale \in d.budget
      BY PipelineAssumption DEF DeploymentGiven, d
    <3>2. loaded.areas[d.scale] \in Int \ {NoValue}
      BY <2>1, <2>2, <3>1, PipelineAssumption DEF FrozenResultAccepted, AreaEvidence, NoValue
    <3>3. result(loaded.areas)[d.scale].area = DiagnosticMetric(loaded.areas[d.scale], refs) /\ refs # {}
      BY <3>1 DEF PedestrianFrozenResult
    <3> HIDE DEF refs
    <3>4. MetricGiven(result(loaded.areas)[d.scale].area)
      BY <3>2, <3>3, DiagnosticsAreMetrics
    <3> HIDE DEF result
    <3>5. QED
      BY <1>0, <2>1, <3>4 DEF InformedBy, Updated
  <2> HIDE DEF new
  <2>3. QED
    BY <2>1, <2>2, Learning
<1>7. CASE Overture
  <2>1. PICK competition, partitions :
            /\ Adds("transit", [partitions |-> partitions, competition |-> competition])
            /\ stage = "overture"
    BY <1>7 DEF Overture, Acquired, Raise, Over, Adds
  <2> DEFINE new == [partitions |-> partitions, competition |-> competition]
  <2>2. DOMAIN new \cap {"demographics", "catchments", "transit"} = {}
    OBVIOUS
  <2>3. Adds("transit", new)
    BY <2>1
  <2> HIDE DEF new
  <2>4. QED
    BY <2>1, <2>2, <2>3, LearningElse
<1>8. CASE Transit
  <2> DEFINE new(loaded) == [transit |-> TransitMetric(loaded.feed, loaded.reach), feed |-> loaded]
  <2>1. PICK loaded \in Feeds :
            /\ Adds("benchmarks", new(loaded)) /\ stage = "transit"
            /\ stage' = "benchmarks" =>
                   /\ ParsedFeed(loaded.feed)
                   /\ Profiled(loaded.feed) =>
                          ~ProfileRaises(loaded.feed, loaded.reach, d.pickups, d.dates)
    BY <1>8 DEF Transit, Acquired, Raise, Over, Adds
  <2>2. ASSUME stage' = "benchmarks" PROVE InformedBy("benchmarks", Updated(evidence, new(loaded)))
    <3> DEFINE metric == TransitMetric(loaded.feed, loaded.reach)
    <3>1. MetricGiven(metric)
      BY <2>1, <2>2, TransitIsAMetric
    <3> HIDE DEF metric
    <3>2. new(loaded) = [transit |-> metric, feed |-> loaded]
      BY DEF metric
    <3> HIDE DEF new
    <3>3. QED
      BY <1>0, <2>1, <3>1, <3>2 DEF InformedBy, Updated
  <2> HIDE DEF new
  <2>3. QED
    BY <2>1, <2>2, Learning
<1>9. CASE Benchmarks
  <2>1. PICK keys \in BenchmarkSets : Acquired(keys = MetricKeys, "measure", [sources |-> Sources])
    BY <1>9 DEF Benchmarks
  <2> DEFINE new == [sources |-> Sources]
  <2>2. stage = "benchmarks"
    BY <1>9 DEF Benchmarks
  <2>3. CASE keys # MetricKeys
    <3>1. stage' = "done"
      BY <2>1, <2>3 DEF Acquired, Raise, Over
    <3>2. QED
      BY <3>1 DEF Informed, InformedBy, JudgementStages, LicensedStages, CoreStages, ReportStages
  <2>4. CASE keys = MetricKeys
    <3>1. stage' = "measure" /\ evidence' = Updated(evidence, new) /\ UNCHANGED setup
      BY <2>1, <2>4 DEF Acquired
    <3>2. InformedBy("benchmarks", Updated(evidence, new))
      BY <1>0, <2>2 DEF InformedBy, Updated
    <3>3. /\ evidence'["demographics"] = evidence["demographics"]
          /\ evidence'["catchments"] = evidence["catchments"] /\ evidence'["transit"] = evidence["transit"]
      BY <1>0, <2>2, <3>1 DEF InformedBy, Updated
    <3>4. SiteAccepted
      BY <1>0, <2>2, GivenIsAccepted
    <3>5. SiteAccepted'
      BY <3>1, <3>3, <3>4 DEF SiteAccepted, SiteMetric, d
    <3>6. QED
      BY <3>1, <3>5 DEF Informed, InformedBy
  <2>5. QED
    BY <2>3, <2>4
<1>10. QED
  BY <1>1, <1>2, <1>3, <1>4, <1>5, <1>6, <1>7, <1>8, <1>9 DEF Acquisition
-----------------------------------------------------------------------------
(* Nothing is refused: an analysis that nobody interferes with goes from stage to stage. *)

(* What the gate decides, and what it is decided from, while nothing is overwritten. *)
GateStages == {"gate", "refuse", "publish_refusal", "score"}
Refusing == {"refuse", "publish_refusal"}
PastTheGate == {"score"} \cup LicensedStages
Decided(s, terminal) ==
    /\ s \in PastTheGate => TrueReadiness.is_score_ready
    /\ s \in Refusing => ~TrueReadiness.is_score_ready
    /\ s \in GateStages => terminal.status = TrueTerminal.status
Smooth ==
    /\ RaisesOnlyForCause
    /\ changes = 0 => Informed /\ Decided(stage, part["terminal"])
Quiet == Chain /\ Smooth /\ changes = 0

LEMMA DecidedStays ==
    ASSUME UNCHANGED <<setup, evidence>>
    PROVE  \A s, terminal : Decided(s, terminal)' <=> Decided(s, terminal)
<1>1. /\ Results' = Results /\ TrueAssembly' = TrueAssembly /\ TrueReadiness' = TrueReadiness /\ d' = d
  BY TruthStays DEF d
<1>2. TrueDerived' = TrueDerived
  BY <1>1 DEF TrueDerived
<1>3. TrueTerminal' = TrueTerminal
  BY <1>1, <1>2 DEF TrueTerminal
<1>4. QED
  BY <1>1, <1>3 DEF Decided

(* What is known at a stage of an analysis that nobody interferes with. *)
LEMMA QuietIsInformed ==
    ASSUME Quiet, stage \in JudgementStages \cup LicensedStages
    PROVE  /\ setup \in Setups /\ SiteAccepted /\ Going /\ changes = 0 /\ stage # "done"
           /\ Decided(stage, part["terminal"]) /\ outcome = Undecided
<1>1. stage # "done"
  BY DEF JudgementStages, LicensedStages, CoreStages, ReportStages
<1>2. QED
  BY <1>1 DEF Quiet, Chain, Smooth, Informed, Going

(* The end of an analysis is all that is left of it. *)
LEMMA EndingSmoothly ==
    ASSUME stage' = "done", RaisesOnlyForCause' PROVE Smooth'
<1>1. stage' \notin JudgementStages \cup LicensedStages \cup PastTheGate \cup Refusing \cup GateStages
  BY DEF JudgementStages, LicensedStages, CoreStages, ReportStages, PastTheGate, Refusing, GateStages
<1>2. Informed'
  BY <1>1 DEF Informed, InformedBy
<1>3. Decided(stage, part["terminal"])'
  BY <1>1 DEF Decided, PastTheGate, Refusing, GateStages
<1>4. QED
  BY <1>2, <1>3 DEF Smooth

(* A step of an executor that keeps what was decided. *)
LEMMA ProceedingSmoothly ==
    ASSUME NEW next \in JudgementStages \cup LicensedStages, NEW made, NEW registries, NEW holding,
           Quiet, stage \in JudgementStages \cup LicensedStages,
           Proceed(next, made, registries, holding), Decided(next, Updated(part, made)["terminal"])
    PROVE  Smooth'
<1>1. /\ stage' = next /\ part' = Updated(part, made) /\ UNCHANGED <<setup, evidence, outcome, changes>>
  BY DEF Proceed
<1>2. SiteAccepted' /\ outcome' = Undecided
  BY <1>1, QuietIsInformed, AcceptedStays
<1>3. next \notin AcquisitionStages
  BY DEF JudgementStages, LicensedStages, CoreStages, ReportStages, AcquisitionStages
<1>4. Informed'
  BY <1>1, <1>2, <1>3 DEF Informed, InformedBy, AcquisitionStages
<1>5. Decided(stage, part["terminal"])'
  <2>1. Decided(stage', part'["terminal"])
    BY <1>1
  <2>2. \A s, terminal : Decided(s, terminal)' <=> Decided(s, terminal)
    BY <1>1, DecidedStays
  <2>3. QED
    BY <2>1, <2>2
<1>6. RaisesOnlyForCause'
  BY <1>2 DEF RaisesOnlyForCause, Undecided
<1>7. QED
  BY <1>4, <1>5, <1>6 DEF Smooth

(* Before the gate nothing is decided; after it a licensed analysis stays what it is. *)
LEMMA BeforeTheGate ==
    ASSUME NEW s \in {"measure", "assemble", "readiness", "terminal"}, NEW terminal
    PROVE  Decided(s, terminal) /\ s \in JudgementStages
BY DEF Decided, PastTheGate, Refusing, GateStages, LicensedStages, CoreStages, ReportStages, JudgementStages
LEMMA AfterTheGate ==
    ASSUME Quiet, stage \in PastTheGate, NEW s \in LicensedStages, NEW terminal
    PROVE  Decided(s, terminal)
<1>1. stage \in JudgementStages \cup LicensedStages
  BY DEF PastTheGate, JudgementStages
<1>2. TrueReadiness.is_score_ready
  BY <1>1, QuietIsInformed DEF Decided
<1>3. s \notin Refusing \cup GateStages
  BY DEF Refusing, GateStages, LicensedStages, CoreStages, ReportStages
<1>4. QED
  BY <1>2, <1>3 DEF Decided

LEMMA MeasuringIsSmooth ==
    ASSUME Quiet, MeasureAndNormalize PROVE Smooth'
<1>1. stage = "measure" /\ stage \in JudgementStages
  BY DEF MeasureAndNormalize, JudgementStages
<1>2. Measured
  BY <1>1, QuietIsInformed, EverythingIsMeasured
<1> DEFINE made == [results |-> Results]
<1>3. Proceed("assemble", made, {}, Nothing)
  BY <1>2 DEF MeasureAndNormalize
<1> HIDE DEF made
<1>4. QED
  BY <1>1, <1>3, BeforeTheGate, ProceedingSmoothly

LEMMA AssemblingIsSmooth ==
    ASSUME Quiet, AssembleFeatures PROVE Smooth'
<1>1. stage = "assemble" /\ stage \in JudgementStages
  BY DEF AssembleFeatures, JudgementStages
<1>2. part["results"] = Results
  BY <1>1, QuietIsInformed DEF Going, StageOK
<1>3. /\ AssemblyInputs(part["results"], Bindings(part["results"]))
      /\ NormalizedLocationFeatures(AssemblyOf(part["results"]).features)
  BY <1>1, <1>2, QuietIsInformed, ResultsAreAccepted, FeaturesAreAccepted DEF TrueAssembly
<1>4. PICK made : Proceed("readiness", made, {"assembly"}, Nothing)
  BY <1>3 DEF AssembleFeatures
<1>5. QED
  BY <1>1, <1>4, BeforeTheGate, ProceedingSmoothly

LEMMA ReadinessIsSmooth ==
    ASSUME Quiet, DeriveScoringReadiness PROVE Smooth'
<1>1. stage = "readiness" /\ stage \in JudgementStages
  BY DEF DeriveScoringReadiness, JudgementStages
<1>2. Consults["assembly"] \subseteq DOMAIN seal
  BY <1>1, QuietIsInformed, SealedUntilTheGate, ConsultsAre DEF Going, Ordered
<1>3. Trusted("assembly")
  BY <1>1, <1>2, QuietIsInformed, UntouchedIsTrusted
<1>4. PICK made : Proceed("terminal", made, {"readiness"}, Nothing)
  BY <1>3, ReadinessIsAccepted DEF DeriveScoringReadiness
<1>5. QED
  BY <1>1, <1>4, BeforeTheGate, ProceedingSmoothly

LEMMA TerminalIsSmooth ==
    ASSUME Quiet, BuildPipelineResult PROVE Smooth'
<1>1. stage = "terminal" /\ stage \in JudgementStages
  BY DEF BuildPipelineResult, JudgementStages
<1>2. Consults["readiness"] \subseteq DOMAIN seal
  BY <1>1, QuietIsInformed, SealedUntilTheGate, ConsultsAre DEF Going, Ordered
<1>3. Trusted("readiness")
  BY <1>1, <1>2, QuietIsInformed, UntouchedIsTrusted
<1>4. /\ part["results"] = Results /\ part["features"] = TrueAssembly.features
      /\ part["readiness"] = TrueReadiness
  BY <1>1, <1>3, QuietIsInformed, TrustedIsRight, ConsultsAre, AttestsAre DEF Right
<1>5. /\ DerivedMetrics(part["results"]) = TrueDerived
      /\ Terminal(part["features"], part["readiness"], TRUE, DerivedMetrics(part["results"]),
                  [transit |-> d.bundle, competition |-> MeasurementDefinition(d)]) = TrueTerminal
  BY <1>4 DEF TrueDerived, TrueTerminal
<1> DEFINE made == [terminal |-> [status |-> TrueTerminal.status, sector |-> command.sector]]
<1>6. Proceed("gate", made, {"pipeline"}, Nothing)
  <2>1. TerminalAccepted(Results, TrueReadiness, TRUE, TrueDerived) /\ RealDataPipelineResult(TrueTerminal)
    BY <1>1, QuietIsInformed, TerminalIsAccepted
  <2>2. QED
    BY <1>3, <1>4, <1>5, <2>1 DEF BuildPipelineResult
<1>7. Updated(part, made)["terminal"].status = TrueTerminal.status
  BY DEF Updated
<1>8. Decided("gate", Updated(part, made)["terminal"]) /\ "gate" \in JudgementStages
  BY <1>7 DEF Decided, PastTheGate, Refusing, LicensedStages, CoreStages, ReportStages, JudgementStages
<1> HIDE DEF made
<1>9. QED
  BY <1>1, <1>6, <1>8, ProceedingSmoothly

(* The registered terminal and readiness decide the gate, for the executor and for the factory. *)
LEMMA GateIsDecided ==
    ASSUME Quiet, stage \in GateStages
    PROVE  /\ Trusted("pipeline") /\ BoundGate(seal) = Gate
           /\ TrueReadiness.is_score_ready => Gate = "eligible"
           /\ ~TrueReadiness.is_score_ready => Gate = "not_score_ready"
<1>1. stage \in JudgementStages
  BY DEF GateStages, JudgementStages
<1>2. Judged \subseteq DOMAIN seal
  <2>1. Judged \subseteq SealedBy(stage) /\ stage # "publish"
    BY SealedUntilTheGate DEF GateStages
  <2>2. QED
    BY <1>1, <2>1, QuietIsInformed DEF Going, Ordered
<1>3. Trusted("pipeline")
  BY <1>1, <1>2, QuietIsInformed, UntouchedIsTrusted, ConsultsAre DEF Judged
<1>4. /\ part["readiness"] = TrueReadiness
      /\ seal["pipeline"]["readiness"] = part["readiness"] /\ seal["pipeline"]["terminal"] = part["terminal"]
  BY <1>1, <1>3, QuietIsInformed, TrustedIsRight, ConsultsAre, AttestsAre DEF Right
<1>5. part["terminal"].status = TrueTerminal.status
  BY <1>1, QuietIsInformed DEF Decided
<1>6. TrueTerminal.status = IF TrueReadiness.is_score_ready THEN "score_ready" ELSE "not_score_ready"
  BY DEF TrueTerminal, Terminal
<1>7. QED
  BY <1>3, <1>4, <1>5, <1>6 DEF Gate, BoundGate, GateState

LEMMA GateIsSmooth ==
    ASSUME Quiet, EvaluateGate PROVE Smooth'
<1>1. stage = "gate" /\ stage \in GateStages /\ stage \in JudgementStages
  BY DEF EvaluateGate, GateStages, JudgementStages
<1>2. PICK next : /\ Proceed(next, Nothing, {}, Nothing)
                  /\ next = IF TrueReadiness.is_score_ready THEN "score" ELSE "refuse"
  BY <1>1, GateIsDecided DEF EvaluateGate
<1>3. Updated(part, Nothing)["terminal"] = part["terminal"]
  <2>1. "terminal" \in DOMAIN part
    <3>1. "pipeline" \in Consults["pipeline"] /\ "terminal" \in Attests["pipeline"]
      BY ConsultsAre, AttestsAre
    <3>2. QED
      BY <1>1, <3>1, GateIsDecided, QuietIsInformed, TrustedIsRight
  <2>2. QED
    BY <2>1 DEF Updated, Nothing
<1>4. part["terminal"].status = TrueTerminal.status
  BY <1>1, QuietIsInformed DEF Decided
<1>5. Decided(next, Updated(part, Nothing)["terminal"])
  BY <1>2, <1>3, <1>4 DEF Decided, PastTheGate, Refusing, LicensedStages, CoreStages, ReportStages
<1>6. next \in JudgementStages
  BY <1>2 DEF JudgementStages
<1> HIDE DEF Nothing
<1>7. QED
  BY <1>1, <1>2, <1>5, <1>6, ProceedingSmoothly

LEMMA RefusalIsSmooth ==
    ASSUME Quiet, BuildNotScoreReady \/ PublishNotScoreReady PROVE Smooth'
<1>1. stage \in Refusing /\ stage \in GateStages /\ stage \in JudgementStages
  BY DEF BuildNotScoreReady, PublishNotScoreReady, Refusing, GateStages, JudgementStages
<1>2. ~TrueReadiness.is_score_ready /\ part["terminal"].status = TrueTerminal.status
  BY <1>1, QuietIsInformed DEF Decided
<1>3. Trusted("pipeline") /\ Gate = "not_score_ready"
  BY <1>1, <1>2, GateIsDecided
<1>4. CASE BuildNotScoreReady
  <2> DEFINE made == [projection |-> Projection(part["readiness"])]
  <2>1. Proceed("publish_refusal", made, {"not_ready"}, Nothing)
    BY <1>3, <1>4 DEF BuildNotScoreReady
  <2>2. Updated(part, made)["terminal"] = part["terminal"]
    <3>1. "terminal" \in DOMAIN part
      <4>1. "pipeline" \in Consults["pipeline"] /\ "terminal" \in Attests["pipeline"]
        BY ConsultsAre, AttestsAre
      <4>2. QED
        BY <1>1, <1>3, <4>1, QuietIsInformed, TrustedIsRight
    <3>2. QED
      BY <3>1 DEF Updated
  <2> HIDE DEF made
  <2>3. Decided("publish_refusal", Updated(part, made)["terminal"])
    BY <1>2, <2>2 DEF Decided, PastTheGate, LicensedStages, CoreStages, ReportStages
  <2>4. "publish_refusal" \in JudgementStages
    BY DEF JudgementStages
  <2>5. QED
    BY <1>1, <2>1, <2>3, <2>4, ProceedingSmoothly
<1>5. CASE PublishNotScoreReady
  <2>1. stage = "publish_refusal"
    BY <1>5 DEF PublishNotScoreReady
  <2>2. Consults["not_ready"] \subseteq DOMAIN seal
    <3>1. DOMAIN seal = Judged \cup {"not_ready"}
      BY <1>1, <2>1, QuietIsInformed, SealedUntilTheGate DEF Going, Ordered
    <3>2. QED
      BY <3>1, ConsultsAre DEF Judged
  <2>3. Trusted("not_ready")
    BY <1>1, <2>2, QuietIsInformed, UntouchedIsTrusted
  <2>4. stage' = "done" /\ outcome'.status = "not_score_ready"
    BY <1>3, <1>5, <2>3 DEF PublishNotScoreReady, Over
  <2>5. QED
    BY <2>4, EndingSmoothly DEF RaisesOnlyForCause
<1>6. QED
  BY <1>4, <1>5
-----------------------------------------------------------------------------
(* From the gate to the result *)

(* Weights that sum to ten make tenths of a point out of whole points. *)
Weighted(w, x, y, z) == w[1] * x + w[2] * y + w[3] * z
InTenths(w) == w[1] \in 1..10 /\ w[2] \in 1..10 /\ w[3] \in 1..10 /\ w[1] + w[2] + w[3] = 10
WholePoints == 0..100
PointTenths == 0..1000

LEMMA WeightedIsTenths ==
    ASSUME NEW w, InTenths(w), NEW x \in WholePoints, NEW y \in WholePoints, NEW z \in WholePoints
    PROVE  Weighted(w, x, y, z) \in PointTenths
<1> USE DEF InTenths, WholePoints, PointTenths
<1>1. ASSUME NEW n \in 1..10, NEW v \in 0..100 PROVE n * v \in 0..100 * n
  BY SMT
<1> DEFINE a == w[1] * x
           b == w[2] * y
           c == w[3] * z
<1>2. a \in 0..100 * w[1] /\ b \in 0..100 * w[2] /\ c \in 0..100 * w[3]
  BY <1>1
<1> HIDE DEF a, b, c
<1>3. a + b + c \in 0..1000
  BY <1>2
<1>4. Weighted(w, x, y, z) = a + b + c
  BY DEF a, b, c, Weighted
<1>5. QED
  BY <1>3, <1>4

LEMMA ScoresAreTenths ==
    ASSUME NEW sector \in Sectors, NEW f, MetricScores(f)
    PROVE  CategoryScores(CategoryScoresOf(sector, f))
<1> DEFINE score(n) == f.metric[n].value
           demand == DemandWeight[sector]
           access == AccessibilityWeight[sector]
           scores == CategoryScoresOf(sector, f)
<1>1. \A w \in {demand, access} : InTenths(w)
  BY DEF InTenths, Sectors, DemandWeight, AccessibilityWeight
<1>2. {"walkable_population_score", "target_population_density_score", "walkable_reach_area_score",
       "household_income_score", AgeFeature, CompetitionFeature, TransitFeature, RoadParkingFeature}
          \subseteq FeatureNames
  BY DEF FeatureNames, DirectFeatures, AgeFeature, RoadParkingFeature, CompetitionFeature, TransitFeature
<1>3. \A n \in FeatureNames : score(n) \in 0..100
  BY DEF MetricScores
<1>4. /\ scores.demand = Weighted(demand, score("walkable_population_score"),
                                 score("target_population_density_score"), score(AgeFeature))
      /\ scores.accessibility = Weighted(access, score("walkable_reach_area_score"),
                                        score(TransitFeature), score(RoadParkingFeature))
      /\ scores.competition = 10 * score(CompetitionFeature)
      /\ scores.economics = 10 * score("household_income_score")
  BY DEF CategoryScoresOf, Weighted
<1> HIDE DEF score, demand, access, scores
<1>5. /\ score("walkable_population_score") \in WholePoints /\ score("walkable_reach_area_score") \in WholePoints
      /\ score("target_population_density_score") \in WholePoints /\ score(AgeFeature) \in WholePoints
      /\ score(TransitFeature) \in WholePoints /\ score(RoadParkingFeature) \in WholePoints
  BY <1>2, <1>3 DEF WholePoints
<1>6. scores.demand \in PointTenths /\ scores.accessibility \in PointTenths
  BY <1>1, <1>4, <1>5, WeightedIsTenths
<1>7. scores.competition \in PointTenths /\ scores.economics \in PointTenths
  BY <1>2, <1>3, <1>4 DEF PointTenths
<1>8. \A c \in Categories : scores[c] \in PointTenths
  BY <1>6, <1>7 DEF Categories
<1>9. QED
  BY <1>8 DEF CategoryScores, scores, PointTenths

(* From the features to the score of the location: with no feature lower, the location is not worse. *)
THEOREM BetterFeaturesAreNeverWorse ==
    ASSUME NEW sector \in Sectors, NEW f, NEW g, MetricScores(f), MetricScores(g),
           \A n \in FeatureNames : f.metric[n].value <= g.metric[n].value
    PROVE  FinalScore(sector, CategoryScoresOf(sector, f)) <= FinalScore(sector, CategoryScoresOf(sector, g))
<1> DEFINE low(n) == f.metric[n].value
           high(n) == g.metric[n].value
           demand == DemandWeight[sector]
           access == AccessibilityWeight[sector]
           scores == CategoryScoresOf(sector, f)
           better == CategoryScoresOf(sector, g)
<1>1. \A w \in {demand, access} : w[1] \in Nat /\ w[2] \in Nat /\ w[3] \in Nat
  BY DEF Sectors, DemandWeight, AccessibilityWeight
<1>2. {"walkable_population_score", "target_population_density_score", "walkable_reach_area_score",
       "household_income_score", AgeFeature, CompetitionFeature, TransitFeature, RoadParkingFeature}
          \subseteq FeatureNames
  BY DEF FeatureNames, DirectFeatures, AgeFeature, RoadParkingFeature, CompetitionFeature, TransitFeature
<1>3. \A n \in FeatureNames : low(n) \in Nat /\ high(n) \in Nat /\ low(n) <= high(n)
  BY DEF MetricScores
<1>4. /\ scores.demand = Weighted(demand, low("walkable_population_score"),
                                 low("target_population_density_score"), low(AgeFeature))
      /\ scores.accessibility = Weighted(access, low("walkable_reach_area_score"),
                                        low(TransitFeature), low(RoadParkingFeature))
      /\ scores.competition = 10 * low(CompetitionFeature)
      /\ scores.economics = 10 * low("household_income_score")
      /\ better.demand = Weighted(demand, high("walkable_population_score"),
                                 high("target_population_density_score"), high(AgeFeature))
      /\ better.accessibility = Weighted(access, high("walkable_reach_area_score"),
                                        high(TransitFeature), high(RoadParkingFeature))
      /\ better.competition = 10 * high(CompetitionFeature)
      /\ better.economics = 10 * high("household_income_score")
  BY DEF CategoryScoresOf, Weighted
<1> HIDE DEF low, high, demand, access, scores, better
<1>5. ASSUME NEW w \in {demand, access}, NEW a \in FeatureNames, NEW b \in FeatureNames, NEW c \in FeatureNames
      PROVE  Weighted(w, low(a), low(b), low(c)) <= Weighted(w, high(a), high(b), high(c))
  <2>1. ASSUME NEW x \in {w[1], w[2], w[3]}, NEW n \in FeatureNames
        PROVE  x * low(n) \in Nat /\ x * high(n) \in Nat /\ x * low(n) <= x * high(n)
    BY <1>1, <1>3, <2>1, ProductIsMonotone
  <2> DEFINE less(i, n) == w[i] * low(n)
             more(i, n) == w[i] * high(n)
  <2>2. /\ less(1, a) \in Nat /\ more(1, a) \in Nat /\ less(1, a) <= more(1, a)
        /\ less(2, b) \in Nat /\ more(2, b) \in Nat /\ less(2, b) <= more(2, b)
        /\ less(3, c) \in Nat /\ more(3, c) \in Nat /\ less(3, c) <= more(3, c)
    BY <2>1
  <2>3. /\ Weighted(w, low(a), low(b), low(c)) = less(1, a) + less(2, b) + less(3, c)
        /\ Weighted(w, high(a), high(b), high(c)) = more(1, a) + more(2, b) + more(3, c)
    BY DEF Weighted
  <2> HIDE DEF less, more
  <2>4. QED
    BY <2>2, <2>3
<1>6. scores.demand <= better.demand /\ scores.accessibility <= better.accessibility
  BY <1>2, <1>4, <1>5
<1>7. scores.competition <= better.competition /\ scores.economics <= better.economics
  BY <1>2, <1>3, <1>4
<1>8. \A c \in Categories : scores[c] <= better[c]
  BY <1>6, <1>7 DEF Categories
<1>9. CategoryScores(scores) /\ CategoryScores(better)
  BY ScoresAreTenths DEF scores, better
<1>10. FinalScore(sector, scores) <= FinalScore(sector, better)
  BY <1>8, <1>9, BetterScoresAreNeverWorse
<1>11. QED
  BY <1>10 DEF scores, better

(* What is ready to be scored is an input that the core accepts. *)
LEMMA InputIsAccepted ==
    ASSUME setup \in Setups, SiteAccepted, TrueReadiness.is_score_ready PROVE AnalysisInput(TrueInput)
<1>1. CommandGiven(command) /\ DeploymentGiven(d)
  BY PipelineAssumption DEF command, d
<1>2. CategoryScores(TrueScores)
  BY <1>1, ReadyMeansScores, ScoresAreTenths DEF CommandGiven, TrueScores
<1>3. /\ TrueInput.sector = command.sector /\ TrueInput.scores = TrueScores
      /\ TrueInput.revenue = command.revenue /\ TrueInput.costs = command.costs
      /\ TrueInput.coverage = d.quality.coverage /\ TrueInput.qualities = d.quality.qualities
      /\ TrueInput.age = d.quality.age
  BY DEF TrueInput, CoreInput
<1>4. QED
  BY <1>1, <1>2, <1>3 DEF AnalysisInput, CommandGiven, DeploymentGiven

(* A licensed analysis that goes on to any later stage. *)
GoesTo(next) == \E made, registries, holding : Proceed(next, made, registries, holding)
LEMMA GoingOn ==
    ASSUME Quiet, stage \in PastTheGate, NEW next \in LicensedStages, GoesTo(next) PROVE Smooth'
<1>1. stage \in JudgementStages \cup LicensedStages
  BY DEF PastTheGate, JudgementStages
<1>2. PICK made, registries, holding : Proceed(next, made, registries, holding)
  BY DEF GoesTo
<1>3. QED
  BY <1>1, <1>2, AfterTheGate, ProceedingSmoothly

LEMMA LicensedIsTrusted ==
    ASSUME Quiet, stage \in LicensedStages, stage # "publish", NEW registry,
           Consults[registry] \subseteq SealedBy(stage)
    PROVE  Trusted(registry)
<1>1. Consults[registry] \subseteq DOMAIN seal
  BY QuietIsInformed DEF Going, Ordered
<1>2. QED
  BY <1>1, QuietIsInformed, UntouchedIsTrusted

LEMMA ScoringInputIsSmooth ==
    ASSUME Quiet, BuildScoringInput PROVE Smooth'
<1>1. stage = "score" /\ stage \in PastTheGate /\ stage \in GateStages /\ stage \in JudgementStages
  BY DEF BuildScoringInput, PastTheGate, GateStages, JudgementStages
<1>2. TrueReadiness.is_score_ready
  BY <1>1, QuietIsInformed DEF Decided
<1>3. Trusted("pipeline") /\ BoundGate(seal) = "eligible"
  BY <1>1, <1>2, GateIsDecided
<1>4. GoesTo("aggregate")
  BY <1>3 DEF BuildScoringInput, GoesTo
<1>5. QED
  BY <1>1, <1>4, GoingOn DEF LicensedStages

LEMMA AggregationIsSmooth ==
    ASSUME Quiet, BeginAggregation \/ ComputeCategories \/ EndAggregation PROVE Smooth'
<1>1. stage \in {"aggregate", "categories", "aggregated"}
  BY DEF BeginAggregation, ComputeCategories, EndAggregation
<1>2. stage \in LicensedStages /\ stage \in PastTheGate /\ stage # "publish"
  BY <1>1 DEF LicensedStages, PastTheGate
<1>3. Consults["scoring"] \subseteq SealedBy(stage)
  BY <1>1, SealedUntilTheResult, ConsultsAre DEF ScoredSeals, Judged
<1>4. Trusted("scoring")
  BY <1>2, <1>3, LicensedIsTrusted
<1>5. CASE BeginAggregation
  <2>1. GoesTo("categories")
    BY <1>4, <1>5 DEF BeginAggregation, GoesTo
  <2>2. QED
    BY <1>2, <2>1, GoingOn DEF LicensedStages
<1>6. CASE ComputeCategories
  <2>1. part["features"] = TrueAssembly.features
    BY <1>2, <1>4, QuietIsInformed, TrustedIsRight, ConsultsAre, AttestsAre DEF Right
  <2>2. MetricScores(TrueAssembly.features)
    BY <1>2, QuietIsInformed, ReadyMeansScores DEF Decided
  <2>3. GoesTo("aggregated")
    BY <1>6, <2>1, <2>2 DEF ComputeCategories, GoesTo
  <2>4. QED
    BY <1>2, <2>3, GoingOn DEF LicensedStages
<1>7. CASE EndAggregation
  <2>1. GoesTo("adapt")
    BY <1>4, <1>7 DEF EndAggregation, GoesTo
  <2>2. QED
    BY <1>2, <2>1, GoingOn DEF LicensedStages
<1>8. QED
  BY <1>5, <1>6, <1>7

LEMMA AdapterIsSmooth ==
    ASSUME Quiet, BeginAdapter \/ EndAdapter PROVE Smooth'
<1>1. stage \in {"adapt", "adapted"}
  BY DEF BeginAdapter, EndAdapter
<1>2. stage \in LicensedStages /\ stage \in PastTheGate /\ stage # "publish"
  BY <1>1 DEF LicensedStages, PastTheGate
<1>3. Consults["category"] \subseteq SealedBy(stage)
  BY <1>1, SealedUntilTheResult, ConsultsAre DEF ScoredSeals, Judged
<1>4. Trusted("category")
  BY <1>2, <1>3, LicensedIsTrusted
<1>5. CASE BeginAdapter
  <2>1. GoesTo("adapted")
    BY <1>4, <1>5 DEF BeginAdapter, GoesTo
  <2>2. QED
    BY <1>2, <2>1, GoingOn DEF LicensedStages
<1>6. CASE EndAdapter
  <2>1. stage = "adapted"
    BY <1>6 DEF EndAdapter
  <2>2. held = TrueInput
    BY <1>2, <2>1, QuietIsInformed DEF Going, HeldOK
  <2>3. AnalysisInput(TrueInput)
    BY <1>2, QuietIsInformed, InputIsAccepted DEF Decided
  <2>4. GoesTo("analyze")
    BY <1>4, <1>6, <2>2, <2>3 DEF EndAdapter, GoesTo
  <2>5. QED
    BY <1>2, <2>4, GoingOn DEF LicensedStages, CoreStages
<1>7. QED
  BY <1>5, <1>6

LEMMA CoreIsSmooth ==
    ASSUME Quiet, AnalyzeCore \/ EndAnalysis \/ BuildCompleted PROVE Smooth'
<1>1. stage \in {"analyze", "analyzed", "complete"}
  BY DEF AnalyzeCore, EndAnalysis, BuildCompleted
<1>2. stage \in LicensedStages /\ stage \in PastTheGate /\ stage # "publish"
  BY <1>1 DEF LicensedStages, CoreStages, PastTheGate
<1>3. /\ Consults["core"] \subseteq SealedBy(stage)
      /\ stage = "complete" => Consults["analysis"] \subseteq SealedBy(stage)
  BY <1>1, SealedUntilTheResult, ConsultsAre DEF AnalysedSeals, ScoredSeals, Judged
<1>4. Trusted("core") /\ (stage = "complete" => Trusted("analysis"))
  BY <1>2, <1>3, LicensedIsTrusted
<1>5. CASE AnalyzeCore
  <2>1. GoesTo("analyzed")
    BY <1>4, <1>5 DEF AnalyzeCore, GoesTo
  <2>2. QED
    BY <1>2, <2>1, GoingOn DEF LicensedStages, CoreStages
<1>6. CASE EndAnalysis
  <2>1. GoesTo("complete")
    BY <1>4, <1>6 DEF EndAnalysis, GoesTo
  <2>2. QED
    BY <1>2, <2>1, GoingOn DEF LicensedStages, CoreStages
<1>7. CASE BuildCompleted
  <2>1. GoesTo("report")
    BY <1>4, <1>7 DEF BuildCompleted, GoesTo
  <2>2. QED
    BY <1>2, <2>1, GoingOn DEF LicensedStages, ReportStages
<1>8. QED
  BY <1>5, <1>6, <1>7

(* Whatever becomes of the report, the publication of the result is what comes after it. *)
LEMMA ReportIsSmooth ==
    ASSUME Quiet, Reported, ~PublishCompleted PROVE Smooth'
<1>1. /\ stage \in ReportStages /\ stage \in PastTheGate
      /\ \A next \in ReportStages : next \in LicensedStages
  BY DEF Reported, BeginReport, BeginFacts, EndFacts, BuildDomain, BeginContext, EndContext, Ask,
         ValidateDraft, Narrate, BeginRender, EndRender, ReportStages, PastTheGate, LicensedStages
<1>2. CASE BeginReport
  <2>1. stage = "report" /\ stage \in LicensedStages
    BY <1>1, <1>2 DEF BeginReport
  <2>2. Consults["completed"] \subseteq SealedBy(stage)
    BY <2>1, SealedUntilTheResult, ConsultsAre DEF AnalysedSeals, ScoredSeals, Judged
  <2>3. Trusted("completed")
    BY <2>1, <2>2, LicensedIsTrusted
  <2>4. GoesTo("facts")
    BY <1>2, <2>3 DEF BeginReport, GoesTo
  <2>5. QED
    BY <1>1, <2>4, GoingOn DEF ReportStages
<1>3. ASSUME NEW reason, FailReport(reason) PROVE Smooth'
  <2>1. GoesTo("publish")
    BY <1>3 DEF FailReport, GoesTo
  <2>2. QED
    BY <1>1, <2>1, GoingOn DEF ReportStages
<1>4. ASSUME NEW next \in ReportStages, GoesTo(next) PROVE Smooth'
  BY <1>1, <1>4, GoingOn
<1>5. CASE BeginFacts \/ EndFacts \/ BuildDomain
  <2>1. \/ GoesTo("projected") \/ GoesTo("domain") \/ GoesTo("context") \/ \E reason : FailReport(reason)
    BY <1>5 DEF BeginFacts, EndFacts, BuildDomain, GoesTo
  <2>2. QED
    BY <1>3, <1>4, <2>1 DEF ReportStages
<1>6. CASE BeginContext \/ EndContext
  <2>1. \/ GoesTo("contextual") \/ GoesTo("ask") \/ \E reason : FailReport(reason)
    BY <1>6 DEF BeginContext, EndContext, GoesTo
  <2>2. QED
    BY <1>3, <1>4, <2>1 DEF ReportStages
<1>7. CASE Ask \/ ValidateDraft \/ Narrate
  <2>1. CASE Ask
    <3>1. GoesTo("validate") \/ \E reason : FailReport(reason)
      BY <2>1 DEF Ask, GoesTo
    <3>2. QED
      BY <1>3, <1>4, <3>1 DEF ReportStages
  <2>2. CASE ValidateDraft
    <3>1. GoesTo("narrate") \/ \E reason : FailReport(reason)
      BY <2>2 DEF ValidateDraft, GoesTo
    <3>2. QED
      BY <1>3, <1>4, <3>1 DEF ReportStages
  <2>3. CASE Narrate
    <3>1. GoesTo("render") \/ \E reason : FailReport(reason)
      BY <2>3 DEF Narrate, GoesTo
    <3>2. QED
      BY <1>3, <1>4, <3>1 DEF ReportStages
  <2>4. QED
    BY <1>7, <2>1, <2>2, <2>3
<1>8. CASE BeginRender \/ EndRender
  <2>1. GoesTo("rendered") \/ GoesTo("publish") \/ \E reason : FailReport(reason)
    BY <1>8 DEF BeginRender, EndRender, GoesTo
  <2>2. QED
    BY <1>3, <1>4, <2>1 DEF ReportStages
<1>9. QED
  BY <1>2, <1>5, <1>6, <1>7, <1>8 DEF Reported

(* The database refuses a result only for a figure that is infinite, and the figures are the command's. *)
LEMMA PublicationIsSmooth ==
    ASSUME Quiet, PublishCompleted PROVE Smooth'
<1>1. stage = "publish" /\ stage \in LicensedStages /\ stage \in PastTheGate
  BY DEF PublishCompleted, LicensedStages, ReportStages, PastTheGate
<1>2. Consults["completed"] \subseteq DOMAIN seal
  BY <1>1, QuietIsInformed, ConsultsAre DEF Going, Ordered, AnalysedSeals, ScoredSeals, Judged
<1>3. Trusted("completed")
  BY <1>1, <1>2, QuietIsInformed, UntouchedIsTrusted
<1>4. CASE Publishable(part["body"])
  <2>1. stage' = "done" /\ outcome'.status = "completed"
    BY <1>3, <1>4 DEF PublishCompleted, Over
  <2>2. QED
    BY <2>1, EndingSmoothly DEF RaisesOnlyForCause
<1>5. CASE ~Publishable(part["body"])
  <2>1. stage' = "done" /\ outcome'.status = "retried" /\ UNCHANGED <<setup, evidence>>
    BY <1>3, <1>5 DEF PublishCompleted, GiveUp, Over
  <2>2. part["body"] \in TrueAnalyses
    BY <1>1, <1>3, QuietIsInformed, TrustedIsRight, ConsultsAre, AttestsAre DEF Right
  <2>3. AnalysisInput(TrueInput)
    BY <1>1, QuietIsInformed, InputIsAccepted DEF Decided
  <2>4. part["body"].financial = Financial(TrueInput.sector, Revenue(TrueInput.revenue), TrueInput.costs)
    BY <2>2 DEF TrueAnalyses, Analyze
  <2>5. /\ TrueInput.sector \in Sectors /\ RevenueInput(TrueInput.sector, TrueInput.revenue)
        /\ OperatingCosts(TrueInput.costs)
    BY <2>3 DEF AnalysisInput
  <2>6. TrueInput.revenue = command.revenue /\ TrueInput.costs = command.costs
    BY DEF TrueInput, CoreInput
  <2>7. \A s \in Scenarios : Revenue(TrueInput.revenue)[s] \in Nat
    BY <2>5, RevenueIsNatural
  <2>8. FixedCosts(command.costs) = 0 \/ (command.costs.rent > 0 /\ Revenue(command.revenue)["base"] = 0)
    BY <1>5, <2>4, <2>5, <2>6, <2>7, InfiniteForCause DEF Publishable
  <2>9. command' = command
    BY <2>1 DEF command
  <2>10. RaisesOnlyForCause'
    BY <2>1, <2>8, <2>9 DEF RaisesOnlyForCause
  <2>11. QED
    BY <2>1, <2>10, EndingSmoothly
<1>6. QED
  BY <1>4, <1>5

(* A provider that is refused ends the acquisition where it was asked. *)
LEMMA AcquisitionIsSmooth ==
    ASSUME Quiet, Acquisition PROVE Smooth'
<1>1. stage \in AcquisitionStages
  BY DEF Acquisition, Geocode, Geography, Acs, Demographics, Isochrone, Network, Overture, Transit,
         Benchmarks, AcquisitionStages
<1>2. setup \in Setups /\ Informed /\ outcome = Undecided
  BY <1>1 DEF Quiet, Chain, Smooth, Going, AcquisitionStages
<1>3. Informed'
  BY <1>2, AcquisitionInforms
<1>4. PICK usable, next, new : Acquired(usable, next, new) /\ next \in AcquisitionStages \cup {"measure"}
  <2>1. CASE Geocode \/ Geography
    BY <2>1 DEF Geocode, Geography, AcquisitionStages
  <2>2. CASE Acs
    BY <2>2 DEF Acs, AcquisitionStages
  <2>3. CASE Demographics \/ Isochrone
    BY <2>3 DEF Demographics, Isochrone, AcquisitionStages
  <2>4. CASE Network
    BY <2>4 DEF Network, AcquisitionStages
  <2>5. CASE Overture
    BY <2>5 DEF Overture, AcquisitionStages
  <2>6. CASE Transit
    BY <2>6 DEF Transit, AcquisitionStages
  <2>7. CASE Benchmarks
    BY <2>7 DEF Benchmarks, AcquisitionStages
  <2>8. QED
    BY <2>1, <2>2, <2>3, <2>4, <2>5, <2>6, <2>7 DEF Acquisition
<1>5. \/ stage' = "done" /\ outcome' = [status |-> "failed", body |-> stage]
      \/ stage' = next /\ outcome' = Undecided
  BY <1>2, <1>4 DEF Acquired, Raise, Over
<1>6. RaisesOnlyForCause'
  <2>1. outcome'.status = "failed" => outcome'.body \in AcquisitionStages
    BY <1>1, <1>5 DEF Undecided
  <2>2. outcome'.status # "retried"
    BY <1>5 DEF Undecided
  <2>3. QED
    BY <2>1, <2>2 DEF RaisesOnlyForCause
<1>7. Decided(stage, part["terminal"])'
  BY <1>4, <1>5 DEF Decided, PastTheGate, Refusing, GateStages, LicensedStages, CoreStages, ReportStages,
     AcquisitionStages
<1>8. QED
  BY <1>3, <1>6, <1>7 DEF Smooth

(* Once something is overwritten it stays counted. *)
LEMMA OverwritingIsCounted ==
    ASSUME changes \in Nat, [Next]_vars, changes' = 0
    PROVE  changes = 0 /\ \A p \in Parts : ~Change(p)
<1>1. ASSUME NEW p \in Parts, Change(p) PROVE FALSE
  BY <1>1 DEF Change
<1>2. ASSUME UNCHANGED vars PROVE changes' = changes
  BY <1>2 DEF vars
<1>3. ASSUME Acquisition PROVE changes' = changes
  BY <1>3 DEF Acquisition, Geocode, Geography, Acs, Demographics, Isochrone, Network, Overture, Transit,
     Benchmarks, Acquired
<1> USE DEF Proceed, Abort
<1>4. ASSUME Judgement PROVE changes' = changes
  BY <1>4 DEF Judgement, MeasureAndNormalize, AssembleFeatures, DeriveScoringReadiness,
     BuildPipelineResult, EvaluateGate, BuildNotScoreReady, PublishNotScoreReady
<1>5. ASSUME Scored PROVE changes' = changes
  BY <1>5 DEF Scored, BuildScoringInput, BeginAggregation, ComputeCategories, EndAggregation,
     BeginAdapter, EndAdapter, AnalyzeCore, EndAnalysis, BuildCompleted
<1>6. ASSUME Reported PROVE changes' = changes
  BY <1>6 DEF Reported, BeginReport, BeginFacts, EndFacts, BuildDomain, BeginContext, EndContext, Ask,
     ValidateDraft, Narrate, BeginRender, EndRender, PublishCompleted, GiveUp, FailReport
<1>7. QED
  BY <1>1, <1>2, <1>3, <1>4, <1>5, <1>6 DEF Next

LEMMA InitIsSmooth == Init => Smooth
<1> SUFFICES ASSUME Init PROVE Smooth
  OBVIOUS
<1>1. setup \in Setups /\ (setup.source = "provider" \/ setup.source = "controlled")
  BY PipelineAssumption DEF Init
<1>2. RaisesOnlyForCause
  BY DEF Init, Undecided, RaisesOnlyForCause
<1>3. stage \in {"geocode", "measure"} /\ (stage = "measure" => setup.source # "provider")
  BY <1>1 DEF Init
<1>4. Informed
  <2>1. stage = "measure" => SiteAccepted
    BY <1>1, <1>3, GivenIsAccepted
  <2>2. QED
    BY <1>3, <2>1 DEF Informed, InformedBy, JudgementStages, LicensedStages, CoreStages, ReportStages
<1>5. Decided(stage, part["terminal"])
  BY <1>3 DEF Decided, PastTheGate, Refusing, GateStages, LicensedStages, CoreStages, ReportStages
<1>6. QED
  BY <1>2, <1>4, <1>5 DEF Smooth

(* Standing still *)
LEMMA StandingSmoothly ==
    ASSUME Quiet, UNCHANGED vars PROVE Smooth'
<1>1. UNCHANGED <<setup, stage, evidence, part, outcome, changes>>
  BY DEF vars
<1>2. RaisesOnlyForCause'
  BY <1>1 DEF Quiet, Smooth, RaisesOnlyForCause, command
<1>3. Informed'
  <2>1. InformedBy(stage, evidence)'
    BY <1>1 DEF Quiet, Smooth, Informed, InformedBy, d
  <2>2. QED
    BY <1>1, <2>1, AcceptedStays DEF Quiet, Smooth, Informed
<1>4. Decided(stage, part["terminal"])'
  <2>1. \A s, terminal : Decided(s, terminal)' <=> Decided(s, terminal)
    BY <1>1, DecidedStays
  <2>2. QED
    BY <1>1, <2>1 DEF Quiet, Smooth
<1>5. QED
  BY <1>2, <1>3, <1>4 DEF Smooth

(* Nobody interferes, and nothing is refused: an analysis fails only at a provider, and its result is   *)
(* given up only for a figure that is not finite.                                                      *)
THEOREM OnlyForCause == Spec => []RaisesOnlyForCause
<1>1. Init => Smooth
  BY InitIsSmooth
<1>2. ASSUME Chain, Smooth, [Next]_vars PROVE Smooth'
  <2>1. CASE changes' # 0
    BY <2>1 DEF Smooth, RaisesOnlyForCause
  <2>2. CASE changes' = 0
    <3>1. Quiet /\ \A p \in Parts : ~Change(p)
      BY <1>2, <2>2, OverwritingIsCounted DEF Quiet, Chain
    <3>2. CASE UNCHANGED vars
      BY <3>1, <3>2, StandingSmoothly
    <3>3. CASE Acquisition
      BY <3>1, <3>3, AcquisitionIsSmooth
    <3>4. CASE Judgement
      BY <3>1, <3>4, MeasuringIsSmooth, AssemblingIsSmooth, ReadinessIsSmooth, TerminalIsSmooth,
         GateIsSmooth, RefusalIsSmooth DEF Judgement
    <3>5. CASE Scored
      BY <3>1, <3>5, ScoringInputIsSmooth, AggregationIsSmooth, AdapterIsSmooth, CoreIsSmooth DEF Scored
    <3>6. CASE Reported
      BY <3>1, <3>6, ReportIsSmooth, PublicationIsSmooth
    <3>7. QED
      BY <1>2, <3>1, <3>2, <3>3, <3>4, <3>5, <3>6 DEF Next
  <2>3. QED
    BY <2>1, <2>2
<1>3. Smooth => RaisesOnlyForCause
  BY DEF Smooth
<1>4. QED
  BY <1>1, <1>2, <1>3, ChainIsKept, PTL DEF Spec
=============================================================================
