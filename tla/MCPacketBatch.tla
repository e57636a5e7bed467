----------------------------- MODULE MCPacketBatch -----------------------------
(* A batch of packets, the study that is made of such collections, and the      *)
(* offline analysis of the older two-stage records, with the feedback of the   *)
(* source rows they are compared with.  They share no state; a behaviour is of *)
(* one of them.                                                                *)
(*                                                                             *)
(* Batch: the targets need as many requests as their plans say, two and three. *)
(* Study: two targets, the second always clear.  The first has a length that   *)
(* fits one packet, needs two or none, and routes or reasons above and below   *)
(* the thresholds of the collection.                                           *)
(*                                                                             *)
(* Saved: one reason for every task, one of a task, one of a task or a domain  *)
(* that needs a table, and answers on both sides of every threshold.           *)
(*                                                                             *)
(* Source: five rows, two conversations and what breaks one: an empty turn, a  *)
(* repeated field, a line that is no JSON, a wrong role, a number left out, a   *)
(* turn too large for it.  A preparation of four rows leaves a target at the    *)
(* end without its next turn, one of two targets the turn after the second.     *)
EXTENDS PacketBatch, ThresholdSearch, SavedAnswers, SourceGroups, TLC

VARIABLE part

MCStages == {"route", "reasons.1", "reasons.2"}

MCTasks == {"code", "write", "unknown"}
MCDomains == {"math", "unknown"}
MCCatalog == <<"r1", "r2", "r3">>
MCTasksOf == [r1 |-> {"code"}, r2 |-> {"code", "write"}, r3 |-> {}]
MCDomainsOf == [r1 |-> {}, r2 |-> {}, r3 |-> {"math"}]
MCPaths == [r1 |-> {{"answer"}}, r2 |-> {{"answer"}}, r3 |-> {{"answer"}, {"table"}}]
MCQuestionBytes == [r1 |-> 3, r2 |-> 3, r3 |-> 3]
MCEvidenceBytes == [answer |-> 1, table |-> 1]
Value(bytes) == [bytes |-> bytes, evidence |-> {"answer"}]
MCRequests == [t \in Targets |-> MaximumRequests(Value(IF t = "a" THEN 2 ELSE 1))]

Ans(c, l) == [choice |-> c, level |-> l]

Unit(b, t, d, x, y) ==
  [value |-> Value(b), source |-> "s",
   answers |-> [routes |-> [task |-> t, domain |-> d],
                reasons |-> [r1 |-> x, r2 |-> y, r3 |-> Ans("no", 2)]]]

MCUnits == <<
  {Unit(1, Ans("code", 2), Ans("unknown", 2), Ans("yes", 2), Ans("no", 1)),
   Unit(2, Ans("code", 2), Ans("unknown", 2), Ans("yes", 2), Ans("yes", 3)),
   Unit(2, Ans("code", 1), Ans("math", 2), Ans("no", 2), Ans("yes", 2)),
   Unit(6, Ans("write", 1), Ans("math", 2), Ans("no", 2), Ans("yes", 2)),
   Unit(6, Ans("code", 2), Ans("math", 3), Ans("no", 2), Ans("yes", 2))},
  {Unit(1, Ans("code", 3), Ans("math", 3), Ans("yes", 3), Ans("yes", 2))} >>

L(t, x, y, z) ==
  [routes |-> [task |-> t, domain |-> {"math"}], reasons |-> [r1 |-> x, r2 |-> y, r3 |-> z]]

MCLabels == {L({"code"}, "present", "present", "absent"), L({"write"}, "present", "absent", "present"),
             L({"code"}, "absent", "not_reviewed", "absent")}

MCPassing == [sources \in 1 .. 2 |-> [n \in 0 .. 2 |-> IF n = 0 THEN -1 ELSE 0]]
MCCollection == [route |-> 2, yes |-> 2, no |-> 2]

Reply(c, p, q, t) == [choice |-> c, probability |-> p, confidence |-> q, tied |-> t]

MCCatalogue ==
  [general |-> [tasks |-> {}, domains |-> {}, requires |-> {}],
   rewrite |-> [tasks |-> {"code"}, domains |-> {}, requires |-> {}],
   numbers |-> [tasks |-> {"code"}, domains |-> {"math"}, requires |-> {"table"}]]

MCTexts == [{"table"} -> {"none", "blank", "one", "many", "broken"}]

MCRouteAnswers ==
  [task |-> {Reply("code", 2, 2, FALSE), Reply("code", 1, 3, FALSE), Reply("code", 3, 3, TRUE),
             Reply("mixed", 3, 3, FALSE), Reply("write", 2, 3, FALSE)},
   domain |-> {Reply("math", 2, 2, FALSE), Reply("math", 3, 1, FALSE), Reply("unknown", 3, 3, FALSE)}]

MCReasonAnswers ==
  {Reply(c, p, q, FALSE) : c \in {"yes", "no"}, p \in 1 .. 2, q \in 2 .. 3}
    \cup {Reply("yes", 3, 1, FALSE), Reply("no", 3, 3, TRUE), Reply("unknown", 2, 3, FALSE)}

Said(n, r, l) ==
  [number |-> n, turn |-> n \div 2 + 1, role |-> r, bytes |-> 1, related |-> TRUE,
   label |-> l, shape |-> "fine"]
Opening == Said(0, "User", "neither")
Reaction == Said(2, "User", "sat")

MCLimits == {[records |-> 4, targets |-> 3], [records |-> 5, targets |-> 2]}

MCUtterances ==
  {Opening, Said(1, "Agent", "both"), Reaction, Said(3, "Agent", "neither"),
   [Opening EXCEPT !.shape = "duplicate"], [Said(1, "Agent", "dsat") EXCEPT !.shape = "duplicate"],
   [Reaction EXCEPT !.related = FALSE], [Reaction EXCEPT !.bytes = 0, !.label = "dsat"],
   [Reaction EXCEPT !.bytes = 3, !.label = "both"],
   [Reaction EXCEPT !.turn = 1], Said(2, "Agent", "sat"),
   [Opening EXCEPT !.number = Unbound, !.shape = "unreadable"]}

PlansInit ==
  /\ part \in {"batch", "study", "saved", "source"}
  /\ Init /\ SearchInit /\ SavedInit /\ SourceInit
  /\ part # "study" => search.rule = "humans"
  /\ part # "saved" => text = CHOOSE t \in MCTexts : TRUE
PlansNext ==
  \/ part = "batch" /\ Next /\ UNCHANGED <<part, searchVars, savedVars, sourceVars>>
  \/ part = "study" /\ SearchNext /\ UNCHANGED <<part, vars, savedVars, sourceVars>>
  \/ part = "saved" /\ SavedNext /\ UNCHANGED <<part, vars, searchVars, sourceVars>>
  \/ part = "source" /\ SourceNext /\ UNCHANGED <<part, vars, searchVars, savedVars>>

PlansSpec == PlansInit /\ [][PlansNext]_<<part, vars, searchVars, savedVars, sourceVars>>

=============================================================================
