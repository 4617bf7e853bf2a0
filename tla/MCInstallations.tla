--------------------------- MODULE MCInstallations ---------------------------
(* Instances of Installations for TLC.  Repositories are interchangeable,  *)
(* and so are installations.                                               *)
EXTENDS Installations, TLC

Interchangeable == Permutations(Installs) \cup Permutations(Repos)
=============================================================================
