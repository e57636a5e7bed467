----------------------------- MODULE MCExploreRun -----------------------------
(* TLC values for ExploreRun: one input under two schemes, one never sent. *)
EXTENDS ExploreRun

MCInputs == <<"a", "a", "b">>
MCWithheld == [a |-> None, b |-> "skipped"]

=============================================================================
