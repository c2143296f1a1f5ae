------------------------------ MODULE MCWorker ------------------------------
(* Instances of AnalysisWorker for TLC.                                    *)
EXTENDS AnalysisWorker
=============================================================================
