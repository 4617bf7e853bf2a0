---------------------------- MODULE MCEvaluation ----------------------------
(* Lines as people leave, fill in and mistype them; answers that agree,    *)
(* overlap, invent an outcome, or say "unknown" beside a reason.           *)
EXTENDS Evaluation

CONSTANTS a, b, typo

Lines   == {<<a>>, <<a, b>>, <<Unknown>>, <<Unknown, a>>, <<b, b>>, <<typo>>}
Replies == {{a}, {a, b}, {typo}, {Unknown, a}}
=============================================================================
