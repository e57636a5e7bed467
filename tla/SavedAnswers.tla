------------------------------ MODULE SavedAnswers ------------------------------
(***************************************************************************)
(* What the two requests of a target say, and what is made of it again     *)
(* from the files: the decisions of src/whynote/two_stage.py, the record   *)
(* that export of two_stage_batch.py writes, and the offline analysis of   *)
(* two_stage_offline.py, which checks the record (validate_history) and    *)
(* decides the saved answers anew under other thresholds (sensitivity).    *)
(*                                                                         *)
(* The two sides share small functions and no state: what the analysis     *)
(* knows of the input is the metadata beside it, never its text.           *)
(***************************************************************************)
EXTENDS Naturals, FiniteSets

CONSTANTS
  Catalogue,     \* reason -> [tasks, domains, requires]
  Texts,         \* what a request may hold of each material: functions
  RouteAnswers,  \* axis -> what the model may answer
  ReasonAnswers, \* what it may answer of a reason
  Absent         \* no answer, no result

VARIABLES
  text,    \* material -> none, blank, one, many or broken
  ledger,  \* the target in the ledger: its status and its stages
  record   \* its line in the results file

savedVars == <<text, ledger, record>>

AXES == {"task", "domain"}
UNDECIDED == {"mixed", "other", "unknown"}

AnswersOf(choices) ==
  [choice : choices, probability : Nat, confidence : Nat, tied : BOOLEAN]

\* No reason of the catalogue is of the task or domain "unknown", and one applies to all
\* and needs nothing beside the request and the answer (two_stage_catalog.json);
\* an answer is what validate_response lets pass.
ASSUME AnswersAssumption ==
  /\ \A reason \in DOMAIN Catalogue :
       "unknown" \notin Catalogue[reason].tasks \cup Catalogue[reason].domains
  /\ \E reason \in DOMAIN Catalogue :
       /\ Catalogue[reason].tasks = {} /\ Catalogue[reason].domains = {}
       /\ Catalogue[reason].requires \subseteq {"request", "answer"}
  /\ \A held \in Texts : \A f \in DOMAIN held :
       held[f] \in {"none", "blank", "one", "many", "broken"}
  /\ RouteAnswers["task"] \cup RouteAnswers["domain"] \subseteq AnswersOf(STRING)
  /\ ReasonAnswers \subseteq AnswersOf({"yes", "no", "unknown"})
  /\ Absent \notin [AXES -> RouteAnswers["task"] \cup RouteAnswers["domain"]]

\* A policy has four thresholds; levels 1 and 3 are the alternatives that are tried.
BaselinePolicy == [route_probability |-> 2, route_confidence |-> 2,
                   reason_probability |-> 2, reason_confidence |-> 2]

SavedInit ==
  /\ text \in Texts
  /\ ledger = [status |-> "pending", route |-> Absent, answers |-> Absent, result |-> Absent]
  /\ record = Absent

-----------------------------------------------------------------------------
(* The materials of a request *)

\* extract_materials: only one span of some text is material.
MaterialStatus(held) == CASE held = "one" -> "extracted"
                          [] held \in {"broken", "blank"} -> "parse_failed"
                          [] held = "many" -> "ambiguous"
                          [] held = "none" -> "not_found"

\* adapt_materials: what the model is shown, and what is kept of it beside the record.
Projection == {"request", "answer"} \cup {f \in DOMAIN text : text[f] = "one"}
Metadata == [f \in DOMAIN text |-> MaterialStatus(text[f])]

\* Mutant: the analysis knows the two fields that every projection has.
EvidenceWithoutMaterials(metadata) == {"request", "answer"}

\* historical_evidence: what the metadata says the model was shown.
HistoricalEvidence(metadata) ==
  {"request", "answer"} \cup {f \in DOMAIN metadata : metadata[f] = "extracted"}

-----------------------------------------------------------------------------
(* Decisions *)

\* The choice counts when it is clear enough and no other option is its equal.
Accepts(answer, probability, confidence) ==
  answer.probability >= probability /\ answer.confidence >= confidence /\ ~answer.tied

\* Mutant: a tie is not named.
CausesBesideTies(answer, probability, confidence) ==
  {cause \in {"probability", "confidence"} :
     IF cause = "probability" THEN answer.probability < probability ELSE answer.confidence < confidence}

\* rejection_causes.
RejectionCauses(answer, probability, confidence) ==
  {cause \in {"probability", "confidence", "tie"} :
     CASE cause = "probability" -> answer.probability < probability
       [] cause = "confidence" -> answer.confidence < confidence
       [] cause = "tie" -> answer.tied}

SelectRoute(answer, policy) ==
  LET accepted == Accepts(answer, policy.route_probability, policy.route_confidence)
  IN  [answer |-> answer, selected |-> IF accepted THEN answer.choice ELSE "unknown",
       resolved |-> accepted /\ answer.choice \notin UNDECIDED]

SelectRoutes(answers, policy) == [axis \in AXES |-> SelectRoute(answers[axis], policy)]

Called(reason, routes) ==
  LET r == Catalogue[reason] IN
  \/ r.tasks = {} /\ r.domains = {}
  \/ routes["task"].selected \in r.tasks
  \/ routes["domain"].selected \in r.domains

\* prepare_reasons: every reason has a status, and those pending become questions.
PrepareReasons(routes, evidence) ==
  [reason \in DOMAIN Catalogue |->
     IF ~Called(reason, routes) THEN "route_not_selected"
     ELSE IF Catalogue[reason].requires \subseteq evidence THEN "pending" ELSE "missing_evidence"]

Questions(prepared) == {reason \in DOMAIN prepared : prepared[reason] = "pending"}

RowUnder(answer, policy) ==
  LET accepted == Accepts(answer, policy.reason_probability, policy.reason_confidence)
  IN  [decision |-> IF accepted THEN answer.choice ELSE "unknown",
       status |-> IF ~accepted THEN "below_threshold_or_tied"
                  ELSE IF answer.choice = "unknown" THEN "model_unknown" ELSE "evaluated",
       raw |-> answer]

Unasked(status) == [decision |-> "not_asked", status |-> status, raw |-> Absent]

Decisions(rows) == {rows[reason].decision : reason \in DOMAIN rows}
Having(rows, status) == {reason \in DOMAIN rows : rows[reason].status = status}

\* _result: the rows of the answers, and the outcome.
ResultOf(routes, prepared, answers, policy) ==
  LET rows == [reason \in DOMAIN prepared |->
                 IF prepared[reason] = "pending" THEN RowUnder(answers[reason], policy)
                 ELSE Unasked(prepared[reason])]
      partial == \E axis \in AXES : ~routes[axis].resolved
  IN  [routes |-> routes, rows |-> rows,
       outcome |-> IF "yes" \in Decisions(rows) THEN "suggested"
                   ELSE IF partial \/ "unknown" \in Decisions(rows)
                             \/ Having(rows, "missing_evidence") # {} THEN "unknown"
                   ELSE "no_match"]

-----------------------------------------------------------------------------
(* The view of a result *)

Asked(rows) == {reason \in DOMAIN rows : rows[reason].decision # "not_asked"}

AbstentionCauses(row, policy) ==
  RejectionCauses(row.raw, policy.reason_probability, policy.reason_confidence)
    \cup (IF row.raw.choice = "unknown" THEN {"raw_unknown"} ELSE {})

\* summarize_assessment.
Summary(routes, rows, policy) ==
  LET abstaining == {reason \in Asked(rows) : rows[reason].decision = "unknown"} IN
  [assessment |-> IF "yes" \in Decisions(rows) THEN "candidate_found"
                  ELSE IF Asked(rows) = {} THEN "not_evaluated"
                  ELSE IF abstaining # {} THEN "abstained"
                  ELSE "no_issue_detected_in_evaluated_scope",
   complete |-> \A axis \in AXES : routes[axis].resolved,
   asked |-> Asked(rows), missing |-> Having(rows, "missing_evidence"),
   unselected |-> Having(rows, "route_not_selected"),
   abstentions |-> [reason \in abstaining |-> AbstentionCauses(rows[reason], policy)]]

-----------------------------------------------------------------------------
(* The two requests *)

\* The route is answered, or its request fails.
RouteStage ==
  /\ ledger.status = "pending"
  /\ \/ \E task \in RouteAnswers["task"], domain \in RouteAnswers["domain"] :
          ledger' = [ledger EXCEPT !.status = "running",
                                   !.route = [axis \in AXES |-> IF axis = "task" THEN task ELSE domain]]
     \/ ledger' = [ledger EXCEPT !.status = "error"]
  /\ UNCHANGED <<text, record>>

\* The reasons are answered and decided, their request fails, or the process dies
\* between the two.
ReasonStage ==
  /\ ledger.status = "running"
  /\ LET routes == SelectRoutes(ledger.route, BaselinePolicy)
         prepared == PrepareReasons(routes, Projection)
     IN  \/ \E answers \in [Questions(prepared) -> ReasonAnswers] :
              ledger' = [ledger EXCEPT !.status = "success", !.answers = answers,
                           !.result = ResultOf(routes, prepared, answers, BaselinePolicy)]
         \/ \E status \in {"error", "reconcile"} : ledger' = [ledger EXCEPT !.status = status]
  /\ UNCHANGED <<text, record>>

\* export, at the end of every process: the routes are selected again from the stage
\* on record, and what was left running is to be reconciled.
Export ==
  /\ record' = [status |-> IF ledger.status = "running" THEN "reconcile" ELSE ledger.status,
                result |-> ledger.result, answers |-> ledger.answers, route |-> ledger.route,
                materials |-> Metadata,
                routes |-> IF ledger.route = Absent THEN Absent
                           ELSE SelectRoutes(ledger.route, BaselinePolicy)]
  /\ UNCHANGED <<text, ledger>>

SavedNext == RouteStage \/ ReasonStage \/ Export

SavedSpec == SavedInit /\ [][SavedNext]_savedVars

-----------------------------------------------------------------------------
(* The analysis *)

\* validate_history of a record: the routes from the saved stage, and from them and
\* the metadata every row and the outcome of a success.
ValidHistory ==
  LET routes == IF record.route = Absent THEN Absent ELSE SelectRoutes(record.route, BaselinePolicy)
      prepared == PrepareReasons(routes, HistoricalEvidence(record.materials))
  IN  /\ record.routes = routes
      /\ record.status # "success" => record.result = Absent
      /\ record.status = "success" =>
           /\ DOMAIN record.answers = Questions(prepared)
           /\ record.result = ResultOf(routes, prepared, record.answers, BaselinePolicy)

\* reason_rows: the saved answers decided anew.
ReasonRows(rows, policy) ==
  [reason \in DOMAIN rows |->
     IF rows[reason].decision = "not_asked" THEN rows[reason] ELSE RowUnder(rows[reason].raw, policy)]

\* aggregate for one record under one of the reason thresholds of sensitivity.
View(policy) == Summary(record.result.routes, ReasonRows(record.result.rows, policy), policy)

\* sensitivity: other thresholds for the route of one axis.  What they would ask anew,
\* and what they would call for that there is no material for.
RouteScenario(axis, policy) ==
  LET evidence == HistoricalEvidence(record.materials)
      old == PrepareReasons(record.routes, evidence)
      new == PrepareReasons([record.routes EXCEPT ![axis] = SelectRoute(@.answer, policy)], evidence)
  IN  [extra |-> Questions(new) \ Questions(old),
       missing |-> {reason \in DOMAIN new : /\ new[reason] = "missing_evidence"
                                            /\ old[reason] = "route_not_selected"}]

-----------------------------------------------------------------------------
(* Properties *)

\* The analysis accepts what a run wrote, whatever was answered and wherever it ended,
\* and under other reason thresholds it says of the saved answers what a run with
\* these thresholds would have said of them (two_stage_offline.py:29, :204).
HistoryReproduces ==
  record # Absent =>
    /\ ValidHistory
    /\ record.status = "success" =>
         \A p, c \in 1 .. 3 :
           LET policy == [BaselinePolicy EXCEPT !.reason_probability = p, !.reason_confidence = c]
               again == ResultOf(record.routes, PrepareReasons(record.routes, Projection),
                                 record.answers, policy)
           IN  View(policy) = Summary(again.routes, again.rows, policy)

\* The new assessment and the old outcome never contradict each other: they find the
\* same candidates, an old "no match" is a scope without gaps, every abstention has a
\* cause, and stricter thresholds find no candidate and ask no question that the
\* baseline did not (two_stage.py:193, two_stage_offline.py:349-357).
AssessmentTellsOutcome ==
  record # Absent =>
    /\ record.status = "success" =>
         LET view == View(BaselinePolicy)
             outcome == record.result.outcome
         IN  /\ view.assessment = "candidate_found" <=> outcome = "suggested"
             /\ outcome = "no_match" =>
                  /\ view.assessment = "no_issue_detected_in_evaluated_scope"
                  /\ view.complete /\ view.missing = {}
             /\ view.assessment = "abstained" => outcome = "unknown"
             /\ \A reason \in DOMAIN view.abstentions : view.abstentions[reason] # {}
             /\ \A p, c \in 2 .. 3 :
                  View([BaselinePolicy EXCEPT !.reason_probability = p,
                                              !.reason_confidence = c]).assessment = "candidate_found"
                    => outcome = "suggested"
    /\ record.routes # Absent =>
         \A axis \in AXES, p, c \in 1 .. 3 :
           LET policy == [BaselinePolicy EXCEPT !.route_probability = p, !.route_confidence = c]
               scenario == RouteScenario(axis, policy)
           IN  p >= 2 /\ c >= 2 => scenario.extra = {} /\ scenario.missing = {}

=============================================================================
