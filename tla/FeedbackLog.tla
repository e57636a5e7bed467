------------------------------ MODULE FeedbackLog ------------------------------
(***************************************************************************)
(* project() over every history of one action up to MaxLog events: the     *)
(* events any released version of the code may have left in the database   *)
(* (append-only, so today's projection must make sense of all of them).    *)
(***************************************************************************)
EXTENDS FeedbackDomain

CONSTANTS LogSignals,  \* the gate signals tried, a subset of AllSignals
          MaxLog       \* bound on the length of a history

ASSUME LogAssumption == LogSignals \subseteq AllSignals /\ MaxLog \in Nat \ {0}

VARIABLES log,    \* the events of one action, oldest first
          state   \* the accumulator of project()'s loop after the log

logVars == <<log, state>>

ReasonEvents == ReasonActions \cup {"model_suggestion_recorded"}

Recorded == Plain("negative_feedback_action_recorded")

LogInit == log = <<Recorded>> /\ state = Apply(FreshProjection, Recorded)

Extend(ev) ==
  /\ Len(log) < MaxLog
  /\ log' = Append(log, ev)
  /\ state' = Apply(state, ev)

\* An event of a user or the system that carries no reason.
RecordPlain ==
  \E kind \in (UserActions \cup SystemEvents)
                \ (ReasonEvents \cup {"inference_gate_decided",
                                      "negative_feedback_action_recorded"}) :
    Extend(Plain(kind))

RecordReason ==
  \E kind \in ReasonEvents, r \in Reasons :
    Extend([Plain(kind) EXCEPT !.reason = r])

\* decide_gate raises on rejected signals: then nothing is appended.
RecordDecision ==
  \E s \in LogSignals :
    /\ ~SignalsRejected(s)
    /\ state.gate = None
    /\ Extend([Plain("inference_gate_decided") EXCEPT !.gate = Decision(s)])

LogNext == RecordPlain \/ RecordReason \/ RecordDecision

LogSpec == LogInit /\ [][LogNext]_logVars

-----------------------------------------------------------------------------
(* A declarative reading of the log, without the loop *)

IsMax(i, S) == i \in S /\ \A j \in S : j <= i
IsMin(i, S) == i \in S /\ \A j \in S : i <= j

At(kinds)   == {i \in DOMAIN log : log[i].kind \in kinds}
Withdrawn   == At({"action_retracted"}) # {}
Deciders    == At(ReasonActions \cup {"reason_none_matched"})
Passing     == At({"reason_declined", "reason_skipped", "reason_unresponded"})
Suggestions == At({"model_suggestion_recorded"})

\* The last reason or "none matched" decides; a pass counts only when no reason
\* stands; the first suggestion shows only where the user never answered.
ReferenceAttribution ==
  LET firm  == {i \in Deciders : IsMax(i, Deciders)}
      stands == \E i \in firm : log[i].kind \in ReasonActions
      free  == {i \in Passing : \A j \in firm : j < i}
      quiet == Deciders = {} /\ Passing = {}
      first == {i \in Suggestions : IsMin(i, Suggestions)}
      undone == \E i \in first : \E j \in At({"attribution_invalidated"}) : i < j
  IN CASE Withdrawn -> <<"none", None>>
       [] ~Withdrawn /\ ~stands /\ free # {} ->
            LET i == CHOOSE j \in free : IsMax(j, free)
            IN <<StatusOf[log[i].kind], None>>
       [] ~Withdrawn /\ firm # {} /\ (stands \/ free = {}) ->
            LET i == CHOOSE j \in firm : TRUE
            IN <<StatusOf[log[i].kind], log[i].reason>>
       [] ~Withdrawn /\ quiet /\ first # {} ->
            IF undone THEN <<"invalidated", None>>
            ELSE <<Suggested, log[CHOOSE j \in first : TRUE].reason>>
       [] OTHER -> <<"none", None>>

-----------------------------------------------------------------------------
(* Properties *)

\* The loop of project computes the declarative reading: which event decides the
\* visible status and reason depends on order, on who answered and on retraction.
ProjectMatchesReference ==
  <<state.attribution, state.reason>> = ReferenceAttribution

=============================================================================
