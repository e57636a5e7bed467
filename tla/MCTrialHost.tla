------------------------------ MODULE MCTrialHost ------------------------------
(* One chat of one or two answers, for TLC. *)
EXTENDS TrialHost, TLC

CONSTANTS c1, m1, m2, q, r, s, t

MCChatOf == [m \in Messages |-> c1]
MCPrior == [m \in Messages |-> IF m = m2 THEN m1 ELSE None]

\* An edit changes prompt and text; or deletes a message, or puts back what it said.
MCDrafts == {[prompt |-> r, text |-> t]}
MCRestore == {None, [prompt |-> q, text |-> s]}

MCSymmetry == Permutations(Attempts) \cup Permutations(Pipes)

=============================================================================
