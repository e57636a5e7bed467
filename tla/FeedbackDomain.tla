---------------------------- MODULE FeedbackDomain ----------------------------
(***************************************************************************)
(* The pure rules of src/whynote/domain.py: the projection of one action's *)
(* append-only events, the checks before a menu is shown or answered, and  *)
(* the inference gate.  No state of its own: FeedbackLog folds Apply over  *)
(* arbitrary histories, FeedbackStore uses the rules inside transactions.  *)
(***************************************************************************)
EXTENDS Naturals, Sequences

CONSTANTS Reasons,  \* reason codes a menu can show
          None      \* no reason, no display, no decision

\* The sentinel is none of the reason codes.
ASSUME ReasonsAssumption == None \notin Reasons

-----------------------------------------------------------------------------
(* Vocabulary *)

Submitted  == {"selected", "confirmed", "edited"}
Suggested  == "model_inferred_unconfirmed"
Unanswered == {"none", Suggested, "invalidated"}
Passed     == {"declined", "skipped", "unresponded", "none_matched"}
Statuses   == Submitted \cup Unanswered \cup Passed

DisplayModes     == {"manual_menu", "model_suggestion", "edit_menu"}
ManualUI         == "manual-menu-v1"
UIVersions       == {ManualUI, "legacy"}
ManualOperations == {"reason_none_matched", "reason_skipped",
                     "reason_declined", "reason_menu_closed"}
ReasonActions    == {"reason_selected", "reason_confirmed", "reason_edited"}
UserActions      == ReasonActions \cup ManualOperations
                        \cup {"attribution_invalidated"}
SystemEvents     == {"negative_feedback_action_recorded",
                     "inference_gate_decided", "inference_abstained",
                     "model_suggestion_recorded", "reason_displayed",
                     "reason_unresponded", "action_retracted"}

DisplayActions ==
  [manual_menu      |-> {"reason_selected", "reason_declined", "reason_skipped"},
   model_suggestion |-> {"reason_confirmed", "attribution_invalidated",
                         "reason_declined", "reason_skipped"},
   edit_menu        |-> {"reason_edited", "reason_skipped"}]

\* One shape for every event: unused fields keep the values of Plain.
Plain(kind) == [kind |-> kind, reason |-> None, display |-> None,
                mode |-> "manual_menu", ui |-> "legacy", shown |-> {},
                gate |-> None]

-----------------------------------------------------------------------------
(* decide_gate *)

\* probability: what the trusted policy supplied, "invalid" outside [0, 1].
AllSignals ==
  [authorized : BOOLEAN, scenario : BOOLEAN, sampled : BOOLEAN,
   budget : BOOLEAN, policy : BOOLEAN,
   probability : {"absent", "zero", "positive", "invalid"}]

\* The three ValueErrors: the decision is not made at all.
SignalsRejected(s) ==
  \/ s.probability = "invalid"
  \/ s.probability # "absent" /\ ~s.policy
  \/ s.sampled /\ s.probability = "zero"

Denied(s) == {c \in {"authorization", "scenario", "sampling", "budget"} :
                \/ c = "authorization" /\ ~s.authorized
                \/ c = "scenario" /\ ~s.scenario
                \/ c = "sampling" /\ ~s.sampled
                \/ c = "budget" /\ ~s.budget}

\* What is retained of the inclusion probability.
Retained(s) == IF s.authorized THEN s.probability ELSE "absent"

Weighted(s) == Retained(s) = "positive" /\ Denied(s) = {}

WeightStatus(s) ==
  CASE Weighted(s)             -> "valid"
    [] Retained(s) = "zero"    -> "positivity_violation"
    [] Retained(s) # "zero" /\ Denied(s) # {} -> "not_applicable_gate_denied"
    [] OTHER                   -> "unidentifiable"

Decision(s) ==
  [outcome     |-> IF Denied(s) = {} THEN "allow" ELSE "deny",
   eligible    |-> s.authorized /\ s.scenario,
   denied      |-> Denied(s),
   policy      |-> s.authorized /\ s.policy,
   probability |-> Retained(s),
   weighted    |-> Weighted(s),
   weight_status |-> WeightStatus(s)]

Decisions == {Decision(s) : s \in AllSignals}

ASSUME DecisionsAssumption == None \notin Decisions

-----------------------------------------------------------------------------
(* project: one turn of its loop *)

Projections ==
  [action : {"active", "retracted"},
   inference : {"not_requested", "gate_pending", "denied", "queued",
                "abstained", "succeeded", "cancelled"},
   attribution : Statuses,
   reason : Reasons \cup {None},
   gate : Decisions \cup {None}]

FreshProjection ==
  [action |-> "active", inference |-> "not_requested",
   attribution |-> "none", reason |-> None, gate |-> None]

StatusOf == [reason_selected |-> "selected", reason_confirmed |-> "confirmed",
             reason_edited |-> "edited", reason_declined |-> "declined",
             reason_skipped |-> "skipped", reason_unresponded |-> "unresponded",
             reason_none_matched |-> "none_matched"]

Inference(s, ev) ==
  CASE ev.kind = "negative_feedback_action_recorded" -> "gate_pending"
    [] ev.kind = "inference_gate_decided" ->
         IF ev.gate.outcome = "deny" THEN "denied" ELSE "queued"
    [] ev.kind = "inference_abstained" -> "abstained"
    [] ev.kind = "model_suggestion_recorded" -> "succeeded"
    [] ev.kind = "action_retracted" /\ s.inference \in {"gate_pending", "queued"} ->
         "cancelled"
    [] OTHER -> s.inference

\* Mutant: a late suggestion shows over a skip or an earlier suggestion.
AttributionLateSuggestion(s, ev) ==
  CASE ev.kind = "model_suggestion_recorded" /\ s.attribution \notin Submitted ->
         <<Suggested, ev.reason>>
    [] ev.kind \in ReasonActions -> <<StatusOf[ev.kind], ev.reason>>
    [] ev.kind = "action_retracted" -> <<"none", None>>
    [] OTHER -> <<s.attribution, s.reason>>

\* The <<status, reason>> the event leaves.
Attribution(s, ev) ==
  CASE ev.kind = "model_suggestion_recorded" /\ s.attribution = "none" ->
         <<Suggested, ev.reason>>
    [] ev.kind = "attribution_invalidated" /\ s.attribution = Suggested ->
         <<"invalidated", None>>
    [] ev.kind \in ReasonActions -> <<StatusOf[ev.kind], ev.reason>>
    [] ev.kind = "reason_none_matched" -> <<"none_matched", None>>
    [] /\ ev.kind \in {"reason_declined", "reason_skipped", "reason_unresponded"}
       /\ s.attribution \notin Submitted -> <<StatusOf[ev.kind], None>>
    [] ev.kind = "action_retracted" -> <<"none", None>>
    [] OTHER -> <<s.attribution, s.reason>>

Projected(s, ev) ==
  [action |-> IF ev.kind = "action_retracted" THEN "retracted" ELSE s.action,
   inference   |-> Inference(s, ev),
   attribution |-> Attribution(s, ev)[1],
   reason      |-> Attribution(s, ev)[2],
   gate |-> IF ev.kind = "inference_gate_decided" THEN ev.gate ELSE s.gate]

\* Nothing after the retraction counts.
Apply(s, ev) == IF s.action = "retracted" THEN s ELSE Projected(s, ev)

-----------------------------------------------------------------------------
(* validate_display and validate_user_action *)

ValidDisplay(s, mode, shown, ui) ==
  /\ s.action = "active"
  /\ mode \in DisplayModes
  /\ shown # {} /\ shown \subseteq Reasons
  /\ ui = ManualUI => mode \in {"manual_menu", "edit_menu"} /\ shown = Reasons
  /\ \/ ui = ManualUI /\ mode = "manual_menu" /\ s.attribution \in Passed
     \/ /\ mode = "manual_menu" => s.attribution \in Unanswered
        /\ mode = "model_suggestion" =>
             s.attribution = Suggested /\ shown = {s.reason}
        /\ mode = "edit_menu" => s.attribution \in Submitted \cup {Suggested}

\* The status the checks see: a manual menu may answer again after a pass.
SeenStatus(s, kind, ui) ==
  IF ui = ManualUI /\ kind = "reason_selected" /\ s.attribution \in Passed
    THEN "none" ELSE s.attribution

AllowedFrom(kind, status, s, reason) ==
  /\ kind = "reason_selected" => status \in Unanswered
  /\ kind = "reason_confirmed" => status = Suggested /\ s.reason = reason
  /\ kind = "reason_edited" => status \in Submitted \cup {Suggested}
  /\ kind \in {"reason_declined", "reason_skipped"} => status \in Unanswered
  /\ kind = "attribution_invalidated" => status = Suggested

ValidResponse(s, kind, reason, display) ==
  /\ s.action = "active"
  /\ IF kind \in ReasonActions THEN reason \in display.shown ELSE reason = None
  /\ \/ display.ui = ManualUI /\ kind \in ManualOperations
     \/ /\ kind \in DisplayActions[display.mode]
        /\ AllowedFrom(kind, SeenStatus(s, kind, display.ui), s, reason)

=============================================================================
