---------------------------- MODULE MCTwoStageBatch ----------------------------
(* The two requests of a target, for TLC. *)
EXTENDS TwoStageBatch

MCStages == {"route", "reasons"}

=============================================================================
