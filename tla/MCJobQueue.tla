----------------------------- MODULE MCJobQueue -----------------------------
(***************************************************************************)
(* Instances of JobQueue for TLC.  One tick stands for five minutes: a job *)
(* may take one, and is stale after more than three.                       *)
(***************************************************************************)
EXTENDS JobQueue

CONSTANTS k1, k2, r1, r2

MCKeys   == {k1, k2}
MCRepos  == {r1, r2}
MCRepoOf == [k \in MCKeys |-> IF k = k1 THEN r1 ELSE r2]
MCJobIds == 1..2
=============================================================================
