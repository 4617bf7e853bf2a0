--------------------------- MODULE MCHistoryImport ---------------------------
(* Instances of HistoryImport for TLC.  Pull requests are interchangeable. *)
EXTENDS HistoryImport, TLC

Interchangeable == Permutations(PRs)
=============================================================================
