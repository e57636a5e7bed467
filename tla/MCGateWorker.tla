----------------------------- MODULE MCGateWorker -----------------------------
(* TLC values for GateWorker; no menu takes part. *)
EXTENDS GateWorker

Full == [authorized |-> TRUE, scenario |-> TRUE, sampled |-> TRUE, budget |-> TRUE,
         policy |-> TRUE, probability |-> "positive"]
MCSignals == {Full, [Full EXCEPT !.budget = FALSE]}
MCRaising == MCSignals \cup {[Full EXCEPT !.policy = FALSE]}

=============================================================================
