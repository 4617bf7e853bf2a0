---------------------------- MODULE MCDeployment ----------------------------
(* A worker and a function instance, of builds that add a migration to the *)
(* same first one, that lack it, or that were edited after they were used. *)
EXTENDS Deployment

CONSTANTS a, b, c

Builds == {<<a>>, <<a, b>>, <<c>>}
=============================================================================
