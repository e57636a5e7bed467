------------------------------- MODULE MCModelRuns -------------------------------
(* The two ways to ask the local model: an exploration run, which may be resumed,  *)
(* and a controlled replay, which may not.  The lock of the machine lets one at a  *)
(* time; a behaviour is of one or the other.                                       *)
(*                                                                                 *)
(* Exploration: one input under two schemes, one never sent.  Replay: one sample   *)
(* with or without code, over its budget or without material, under the three      *)
(* schemes in two orders, and labels that every scheme can miss.                   *)
EXTENDS MCExploreRun, ControlledReplay

VARIABLE kind

Sample(e, b, m) == [evidence |-> e, budget |-> b, material |-> m]
Plain == {"request", "answer"}
MCReplayInputs ==
  {<<Sample(Plain, TRUE, TRUE)>>,
   <<Sample(Plain \cup {"original_code"}, TRUE, TRUE)>>,
   <<Sample(Plain, FALSE, TRUE)>>,
   <<Sample(Plain, TRUE, FALSE)>>}
MCSchedules == <<
  {<< <<1, "A">>, <<1, "B">>, <<1, "C">> >>,
   << <<1, "C">>, <<1, "A">>, <<1, "B">> >>} >>
MCTaskTypes == [g |-> {"general", "code_rewrite"}, c |-> {"code_rewrite"}]
MCRequired == [g |-> {"answer"}, c |-> {"original_code"}]
Lab(v, r, l) == [verdict |-> v, reasons |-> r, legacy |-> l]
MCSealedLabels ==
  {Lab("defect", {"c"}, {"l"}), Lab("defect", {"g", "c"}, {}), Lab("defect", {}, {"m"}),
   Lab("no_defect", {}, {}), Lab("unjudgeable", {}, {})}

RunsInit ==
  /\ kind \in {"explore", "replay"} /\ Init /\ ReplayInit
  /\ kind = "explore" =>
       /\ moment = 0 /\ inputs = <<Sample(Plain, TRUE, TRUE)>>
       /\ schedule = (CHOOSE s \in Schedules[1] : TRUE)

RunsNext ==
  \/ kind = "explore" /\ Next /\ UNCHANGED <<kind, replayVars>>
  \/ kind = "replay" /\ ReplayNext /\ UNCHANGED <<kind, vars>>

RunsSpec == RunsInit /\ [][RunsNext]_<<kind, vars, replayVars>> /\ Fairness

=============================================================================
