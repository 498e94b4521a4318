--------------------------- MODULE MCRolloutStore ---------------------------
(* Small instances of RolloutStore for TLC. *)
EXTENDS RolloutStore
=============================================================================
