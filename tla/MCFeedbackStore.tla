---------------------------- MODULE MCFeedbackStore ----------------------------
(* TLC values for FeedbackStore.  Two actions with one display, or one action *)
(* with two: joining and toggling relate two actions, a newer menu and an     *)
(* older answer two displays of one.                                          *)
EXTENDS FeedbackStore, TLC

Full == [authorized |-> TRUE, scenario |-> TRUE, sampled |-> TRUE, budget |-> TRUE,
         policy |-> TRUE, probability |-> "positive"]
MCSignals == {Full, [Full EXCEPT !.budget = FALSE]}
MCSymmetry == Permutations(EventIds) \cup Permutations(ClientKeys) \cup Permutations(Displays)

UsedDisplays == {d \in Displays :
  \/ \E e \in EventIds : tickets[e] = d \/ \E i \in DOMAIN events[e] : events[e][i].display = d
  \/ \E k \in ClientKeys : clicks[k].display = d}
Extent == \/ Cardinality({e \in EventIds : Exists(e)}) <= 1
          \/ Cardinality(UsedDisplays) <= 1

MCSpec == Init /\ [][Next /\ Extent']_storeVars

=============================================================================
