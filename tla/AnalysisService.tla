--------------------------- MODULE AnalysisService ---------------------------
(***************************************************************************)
(* What sitescore-api promises its consumer about one analysis: one        *)
(* resource per idempotency key, terminal states that never change, and a  *)
(* report that appears in the very step that completes the analysis.       *)
(* sitescore-commerce is checked against this promise.                     *)
(***************************************************************************)
CONSTANT ReportMayFail   \* TRUE: a report already shown as ready may still turn failed

VARIABLES analysis, report

AnalysisStates == {"queued", "running", "completed", "not_score_ready", "failed", "timed_out"}
ReportStates == {"ready", "failed"}

Init == analysis = "none" /\ report = "none"

\* POST /v1/analyses; a replay of the key finds the same resource.
Submit == /\ analysis = "none"
          /\ analysis' = "queued"
          /\ UNCHANGED report

Run == /\ analysis = "queued"
       /\ analysis' = "running"
       /\ UNCHANGED report

\* (mutant) A reconciliation that does not look whether the analysis is final.
StopFinal == /\ analysis \notin {"none", "timed_out"}
             /\ analysis' \in {"failed", "timed_out"}
             /\ UNCHANGED report

\* A failure or the deadline; a running analysis may also turn out not to be scorable.
Stop == /\ analysis \in {"queued", "running"}
        /\ analysis' \in {"failed", "timed_out"} \cup
                         (IF analysis = "running" THEN {"not_score_ready"} ELSE {})
        /\ UNCHANGED report

Complete == /\ analysis = "running"
            /\ analysis' = "completed"
            /\ report' \in ReportStates

\* A report whose stored object cannot be confirmed is failed after the fact.
Retract == /\ ReportMayFail /\ report = "ready"
           /\ report' = "failed"
           /\ UNCHANGED analysis

Next == Submit \/ Run \/ Stop \/ Complete \/ Retract

Spec == Init /\ [][Next]_<<analysis, report>>
=============================================================================
