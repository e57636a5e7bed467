-------------------------------- MODULE MCRecords --------------------------------
(* Two records that are only ever added to: the events of a feedback action and  *)
(* the files of a review workspace.  They share no state and no step; a behaviour*)
(* is of one or the other.                                                       *)
(*                                                                               *)
(* FeedbackLog: every signal record in which at most one check fails, with and   *)
(* without sampling metadata.  ConfirmationStudy: two workspaces whose           *)
(* populations are the same unit, or whose roles of two units are swapped.       *)
EXTENDS FeedbackLog, ConfirmationStudy, TLC

CONSTANTS wa, wb, u1, u2

VARIABLE record

MCSignals ==
  {s \in AllSignals : Cardinality(Denied(s)) <= 1 /\ s.policy = (s.probability # "absent")}

Split(c, d) == [calibration |-> {c}, confirmation |-> {d}]
MCSamples == {(wa :> Split(u1, u2)) @@ (wb :> Split(u1, u2)),
              (wa :> Split(u1, u2)) @@ (wb :> Split(u2, u1))}

RecordsInit ==
  /\ record \in {"log", "study"} /\ LogInit /\ StudyInit
  /\ record = "log" => sample = CHOOSE s \in MCSamples : TRUE

RecordsNext ==
  \/ record = "log" /\ LogNext /\ UNCHANGED <<record, studyVars>>
  \/ record = "study" /\ StudyNext /\ UNCHANGED <<record, logVars>>

RecordsSpec == RecordsInit /\ [][RecordsNext]_<<record, logVars, studyVars>>

MCSymmetry == Permutations(Reviewers) \cup Permutations(Desks) \cup Permutations(Verdicts)

=============================================================================
