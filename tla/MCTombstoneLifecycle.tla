------------------------ MODULE MCTombstoneLifecycle ------------------------
(* Instances of TombstoneLifecycle for TLC; each .cfg chooses the modes. *)
EXTENDS TombstoneLifecycle
=============================================================================
