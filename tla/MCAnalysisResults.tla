-------------------------- MODULE MCAnalysisResults --------------------------
(* Instances of AnalysisResults for TLC.  An old pull request is analysed  *)
(* and a new one is compared with it.  Retention is one tick.              *)
EXTENDS AnalysisResults
=============================================================================
