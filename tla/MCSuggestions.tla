--------------------------- MODULE MCSuggestions ---------------------------
(* Two tabs with one display each over one action, two reasons, a lifetime of *)
(* two ticks.                                                               *)
EXTENDS Suggestions, TLC

TabsAndReasons == Permutations(Tabs) \cup Permutations(Reasons)
=============================================================================
