---------------------------- MODULE ControlledReplay ----------------------------
(***************************************************************************)
(* One controlled replay: execute_real and execute_slots of                *)
(* src/whynote/controlled_replay.py, the isolated worker that answers them *)
(* (controlled_worker.py with infer_scheme of replay.py), and the report   *)
(* of self_review.py over the contract and the metrics of the self review. *)
(*                                                                         *)
(* A run is never resumed: every one of its slots has to leave a row that  *)
(* the report accepts, and what stops the run throws the others away.      *)
(***************************************************************************)
EXTENDS Naturals, Sequences, FiniteSets

CONSTANTS
  POOL, LEGACY,         \* reasons of schemes B and C, and of A
  Sentinel,             \* other_or_unknown, which A may choose
  TaskTypes, Required,  \* reason of POOL -> its task types, the evidence it needs
  TASK_TYPES,           \* the routes of C
  Inputs,               \* what a manifest may hold: sequences of samples
  Schedules,            \* for each, the order of its slots: sequences of <<sample, scheme>>
  SealedLabels,         \* verdicts with their reasons
  Approved, Sealed, Confirmed, Declared, Expires, \* instants of the frozen papers
  LastInstant, Nothing

SCHEMES == {"A", "B", "C"}

\* A schedule names samples of its manifest; what the code writes None is no text.
ASSUME ManifestAssumption ==
  /\ \A m \in Inputs : \A s \in Schedules[Len(m)] : s \in Seq((1 .. Len(m)) \X SCHEMES)
  /\ Nothing \notin {"code", "general", "candidates"} \cup TASK_TYPES

ASSUME PapersAssumption ==
  /\ {Approved, Sealed, Confirmed, Declared, Expires, LastInstant} \subseteq Nat
  /\ Approved <= Sealed /\ Sealed <= Confirmed /\ Confirmed < Declared /\ Declared < Expires
  /\ POOL \cap LEGACY = {} /\ Sentinel \notin POOL \cup LEGACY

VARIABLES
  inputs, schedule,  \* of the manifest and the run
  replay,            \* the supervisor
  rows,              \* the predictions kept, in memory and in the journal
  moment,            \* the machine's clock
  source, file       \* the program and protocol on disk, and the admitted file

setting == <<moment, source, file>>
replayVars == <<inputs, schedule, replay, rows, setting>>

ERRORS == {"timeout", "model_load_failed", "route_failed", "invalid_response", "worker_failed",
           "uncaught_error"}

Allowed(scheme) == IF scheme = "A" THEN LEGACY ELSE POOL

\* phase, the instant on record as its start, and of the slot under way what the worker
\* said, whether that took over a minute, and when and from which program it came.
NotBegun == [phase |-> "off", started |-> Declared, response |-> Nothing, late |-> FALSE,
             made |-> Nothing, cause |-> Nothing]

ReplayInit ==
  /\ inputs \in Inputs /\ schedule \in Schedules[Len(inputs)]
  /\ replay = NotBegun /\ rows = << >>
  /\ moment \in 0 .. LastInstant /\ source = "frozen" /\ file = "admitted"

-----------------------------------------------------------------------------
(* The worker *)

\* route_candidates: what a route calls for, and what of it the evidence allows.
Candidates(scheme, route) ==
  CASE scheme = "A" -> LEGACY \cup {Sentinel}
    [] scheme = "B" -> {r \in POOL : (IF route = "code" THEN "code_rewrite" ELSE route) \in TaskTypes[r]}
    [] scheme = "C" -> {r \in POOL : \/ "general" \in TaskTypes[r]
                                     \/ route \in {"code_rewrite", "mixed", "unknown", "other"}}

Ready(reasons, evidence) == {r \in reasons : Required[r] \subseteq evidence}

\* What a worker writes of a prediction.
Answer(route, initial, routed, available, status, outcome, reasons) ==
  [kind |-> "prediction", route |-> route, initial |-> initial, routed |-> routed,
   available |-> available, status |-> status, outcome |-> outcome, reasons |-> reasons,
   error |-> Nothing]

\* A stage whose request or answer failed, with the candidates known by then (a
\* listed code is the case of an error below).
Failed(route, initial, routed, available) ==
  {[Answer(route, initial, routed, available, "error", Nothing, {}) EXCEPT !.error = "unlisted"]}

\* decide: any reason answered yes, nothing known, or every one denied.  Without a
\* question the model is not asked.
Decided(initial, route, routed, available) ==
  LET Settled(outcome, reasons) == Answer(route, initial, routed, available, "ok", outcome, reasons) IN
  {Settled("suggested", {r}) : r \in available} \cup {Settled("unknown", {})}
    \cup (IF available # {} /\ routed = available THEN {Settled("no_match", {})} ELSE {})
    \cup (IF available # {} THEN Failed(route, initial, routed, available) ELSE {})

\* The second try of scheme C, over every task.
Fallback(initial, evidence) ==
  LET routed == Candidates("C", "mixed")
  IN  Decided(initial, "general", routed, Ready(routed, evidence))

\* infer_scheme after a route: scheme C tries once more when code is at hand.
Inferred(scheme, route, evidence) ==
  LET routed == Candidates(scheme, route)
      first == Decided(routed, route, routed, Ready(routed, evidence))
      Again(a) == /\ scheme = "C" /\ route = "general" /\ "original_code" \in evidence
                  /\ a.status = "ok" /\ a.reasons = {}
  IN  {a \in first : ~Again(a)} \cup (IF \E a \in first : Again(a) THEN Fallback(routed, evidence) ELSE {})

InferScheme(scheme, evidence) ==
  LET all == Candidates("A", Nothing)
      Chosen(outcome, reasons) == Answer(Nothing, Nothing, all, all, "ok", outcome, reasons)
  IN  CASE scheme = "A" -> {Chosen("suggested", {r}) : r \in LEGACY} \cup {Chosen("unknown", {})}
                             \cup Failed(Nothing, Nothing, all, all)
        [] scheme = "B" -> (UNION {Inferred("B", route, evidence) : route \in {"code", "general"}})
                             \cup Failed(Nothing, Nothing, {}, {})
        [] scheme = "C" -> (UNION {Inferred("C", route, evidence) : route \in TASK_TYPES})
                             \cup Failed(Nothing, Nothing, {}, {})

\* invoke: an answer, an error of the worker or of its supervision (timeout stands for the
\* codes that change nothing but the row), no JSON, or a sandbox that cannot be run or
\* cleaned up.
Responses(scheme, evidence) ==
  InferScheme(scheme, evidence)
    \cup {[kind |-> "error", error |-> e] :
            e \in {"timeout", "model_load_failed", "uncaught_error", "unlisted"}}
    \cup {[kind |-> "garbage"], [kind |-> "sandbox"]}

-----------------------------------------------------------------------------
(* The row of a slot *)

\* Error codes on the list are kept.
Listed(error) == IF error \in ERRORS THEN error ELSE "invalid_response"

Blank(slot) ==
  [sample |-> slot[1], scheme |-> slot[2], status |-> "error", error |-> "invalid_response",
   outcome |-> Nothing, route |-> "failed", initial |-> {}, routed |-> {}, available |-> {},
   reasons |-> {}]

\* Mutant: the candidates are kept as the worker wrote them.
KeptAsWritten(reasons, scheme) == reasons

\* The sentinel of A is an abstention and no reason.
Kept(reasons, scheme) == reasons \cap Allowed(scheme)

\* prediction of an answer.
RowOf(slot, answer) ==
  LET scheme == slot[2]
      initial == IF answer.initial = Nothing THEN answer.routed ELSE answer.initial
  IN  [Blank(slot) EXCEPT
         !.route = IF scheme = "A" \/ answer.route # Nothing THEN "success" ELSE "failed",
         !.initial = Kept(initial, scheme), !.routed = Kept(answer.routed, scheme),
         !.available = Kept(answer.available, scheme),
         !.reasons = IF answer.status = "ok" THEN Kept(answer.reasons, scheme) ELSE {},
         !.status = answer.status, !.outcome = answer.outcome,
         !.error = IF answer.status = "ok" THEN Nothing ELSE Listed(answer.error)]

Nested(row) ==
  row.initial \subseteq row.routed /\ row.available \subseteq row.routed
    /\ row.reasons \subseteq row.available

\* Why an answer stops the run instead of leaving a row.
Refused(slot, answer, late) ==
  LET row == RowOf(slot, answer) IN
  IF ~(answer.routed \cup answer.available \cup answer.reasons
         \subseteq Allowed(slot[2]) \cup (IF slot[2] = "A" THEN {Sentinel} ELSE {}))
    THEN "candidates"
  ELSE IF answer.status = "ok" /\ late THEN "late"
  ELSE IF answer.status = "ok" /\ (row.reasons # {}) # (answer.outcome = "suggested") THEN "candidates"
  ELSE IF ~Nested(row) THEN "candidates" ELSE Nothing

Eligible(sample) == sample.budget /\ sample.material

\* prediction of everything else.
Predicted(slot, response) ==
  LET sample == inputs[slot[1]] IN
  IF ~Eligible(sample)
    THEN [Blank(slot) EXCEPT
            !.status = "ineligible", !.route = "not_attempted",
            !.error = IF sample.budget THEN "material_unavailable" ELSE "input_budget_exceeded"]
  ELSE CASE response.kind = "prediction" -> RowOf(slot, response)
         [] response.kind = "error" ->
              [Blank(slot) EXCEPT
                 !.error = Listed(response.error),
                 !.route = IF response.error = "model_load_failed" THEN "not_attempted" ELSE @]
         [] OTHER -> Blank(slot)

-----------------------------------------------------------------------------
(* The run *)

\* check_setup: times of the papers against the start on record, and the admitted file.
CheckSetup(started) ==
  /\ Confirmed < started /\ Sealed < started /\ started < Expires
  /\ file = "admitted"

\* guard: the program is the frozen one and every admission is in force now.
Guard == source = "frozen" /\ Approved <= moment /\ moment < Expires

StopReplay(cause) ==
  /\ replay' = [replay EXCEPT !.phase = "stopped", !.cause = cause, !.response = Nothing, !.made = Nothing]
  /\ UNCHANGED rows

\* execute_real before its probes: the setup as declared, and the guard.
Begin ==
  /\ replay.phase = "off"
  /\ replay' = [replay EXCEPT !.phase = IF CheckSetup(replay.started) /\ Guard THEN "probing" ELSE "refused"]
  /\ UNCHANGED <<inputs, schedule, rows, setting>>

\* The probes over, the machine's time is put on record as the start, and execute_slots
\* checks the setup again with it.
BeginSlots ==
  /\ replay.phase = "probing"
  /\ replay' = [replay EXCEPT !.started = moment,
                              !.phase = IF CheckSetup(moment) THEN "ready" ELSE "refused"]
  /\ UNCHANGED <<inputs, schedule, rows, setting>>

Slot == schedule[Len(rows) + 1]

\* guard, and the started row.
StartSlot ==
  /\ replay.phase = "ready" /\ Len(rows) < Len(schedule)
  /\ IF Guard
       THEN replay' = [replay EXCEPT !.phase = "asking"] /\ UNCHANGED rows
       ELSE StopReplay("guard")
  /\ UNCHANGED <<inputs, schedule, setting>>

\* A sample over budget or without material is never sent.
Invoke ==
  /\ replay.phase = "asking"
  /\ LET sample == inputs[Slot[1]] IN
     \/ /\ ~Eligible(sample)
        /\ replay' = [replay EXCEPT !.phase = "answered", !.made = <<moment, source>>]
        /\ UNCHANGED rows
     \/ /\ Eligible(sample)
        /\ \E r \in Responses(Slot[2], sample.evidence), late \in BOOLEAN :
             IF r.kind = "sandbox" THEN ~late /\ StopReplay("sandbox")
             ELSE /\ late => r.kind = "prediction" /\ r.status = "ok"
                  /\ replay' = [replay EXCEPT !.phase = "answered", !.response = r, !.late = late,
                                              !.made = <<moment, source>>]
                  /\ UNCHANGED rows
  /\ UNCHANGED <<inputs, schedule, setting>>

\* Mutant: the guard is only asked before the slot.
GuardAfterSkipped == TRUE

\* The guard once more, now that the answer is there.
GuardAfter == Guard

\* guard, prediction and the completed row; an uncaught error stops the run behind it.
FinishSlot ==
  /\ replay.phase = "answered"
  /\ LET answered == replay.response # Nothing /\ replay.response.kind = "prediction"
         refused == IF answered THEN Refused(Slot, replay.response, replay.late) ELSE Nothing
         row == Predicted(Slot, replay.response)
         uncaught == row.error = "uncaught_error"
     IN  IF ~GuardAfter THEN StopReplay("guard")
         ELSE IF refused # Nothing THEN StopReplay(refused)
         ELSE /\ rows' = Append(rows, row)
              /\ replay' = [replay EXCEPT !.phase = IF uncaught THEN "stopped" ELSE "ready",
                                          !.cause = IF uncaught THEN "uncaught" ELSE Nothing,
                                          !.response = Nothing, !.late = FALSE, !.made = Nothing]
  /\ UNCHANGED <<inputs, schedule, setting>>

-----------------------------------------------------------------------------
(* The report *)

\* validate_predictions of one row.
Valid(row) ==
  /\ row.initial \cup row.routed \cup row.available \cup row.reasons \subseteq Allowed(row.scheme)
  /\ Nested(row) /\ Cardinality(row.reasons) <= 1
  /\ row.route = "success" \/ row.routed = {}
  /\ CASE row.status = "ok" ->
            /\ Eligible(inputs[row.sample]) /\ row.route = "success" /\ row.error = Nothing
            /\ row.outcome \in {"suggested", "unknown", "no_match"}
            /\ row.reasons # {} <=> row.outcome = "suggested"
       [] row.status = "error" ->
            row.outcome = Nothing /\ row.reasons = {} /\ row.error \in ERRORS
       [] row.status = "ineligible" ->
            /\ row.outcome = Nothing /\ row.reasons = {} /\ row.route = "not_attempted"
            /\ \/ row.error = "input_budget_exceeded" /\ ~inputs[row.sample].budget
               \/ row.error = "material_unavailable" /\ ~inputs[row.sample].material

ValidPredictions ==
  /\ [i \in DOMAIN rows |-> <<rows[i].sample, rows[i].scheme>>] = schedule
  /\ \A i \in DOMAIN rows : Valid(rows[i])

\* Mutant: reached is what the first route called for.
ReachedAtFirst(row) == row.initial

\* The reasons that a row could still have suggested.
Reached(row) == row.routed

\* summarize: what is said of a row, given the label of its sample.
Flags(row, label) ==
  LET gold == IF row.scheme = "A" THEN label.legacy ELSE label.reasons
      Met(reasons) == gold \cap reasons # {}
      judgeable == label.verdict # "unjudgeable"
      defect == label.verdict = "defect"
      covered == defect /\ Met(Allowed(row.scheme))
      routable == covered /\ row.route = "success"
      answerable == defect /\ Met(row.available) /\ row.status = "ok"
      flags ==
        [N |-> TRUE, D |-> defect, covered |-> covered, routable |-> routable,
         S |-> judgeable /\ row.reasons # {},
         initial_omission |-> routable /\ ~Met(row.initial),
         final_omission |-> routable /\ ~Met(Reached(row)),
         route_unavailable |-> covered /\ row.route # "success",
         material_unavailable |-> defect /\ Met(Reached(row)) /\ ~Met(row.available),
         hit |-> defect /\ Met(row.reasons),
         wrong_suggestion |-> judgeable /\ row.reasons \ gold # {},
         answerable |-> answerable,
         wrong_selection |-> answerable /\ row.reasons # {} /\ ~Met(row.reasons),
         answerable_abstention |-> answerable /\ row.outcome \in {"unknown", "no_match"},
         unjudgeable |-> ~judgeable,
         unjudgeable_suggestion |-> ~judgeable /\ row.reasons # {},
         budget_eligible |-> inputs[row.sample].budget,
         applicable |-> Eligible(inputs[row.sample]),
         technical_failure |-> inputs[row.sample].budget /\ row.status = "error"]
  IN  {f \in DOMAIN flags : flags[f]}

\* The rows of a scheme, the samples labelled one by one, of which a flag is told.
Count(flag, scheme, labels) ==
  Cardinality({i \in DOMAIN rows : rows[i].scheme = scheme /\ flag \in Flags(rows[i], labels[rows[i].sample])})

Ratios == {<<"covered", "D">>, <<"initial_omission", "routable">>, <<"final_omission", "routable">>,
           <<"route_unavailable", "covered">>, <<"material_unavailable", "D">>, <<"hit", "D">>,
           <<"wrong_suggestion", "S">>, <<"wrong_selection", "answerable">>,
           <<"answerable_abstention", "answerable">>, <<"unjudgeable_suggestion", "unjudgeable">>,
           <<"applicable", "N">>, <<"technical_failure", "budget_eligible">>}

\* ratio refuses a part that is greater than its whole.
Measurable(labels) ==
  \A pair \in Ratios, scheme \in SCHEMES :
    Count(pair[1], scheme, labels) <= Count(pair[2], scheme, labels)

\* report: the setup, the predictions and every ratio, or nothing at all.
Report ==
  /\ replay.phase = "ready" /\ Len(rows) = Len(schedule)
  /\ \E labels \in [DOMAIN inputs -> SealedLabels] :
       replay' = [replay EXCEPT !.phase =
                    IF CheckSetup(replay.started) /\ ValidPredictions /\ Measurable(labels)
                      THEN "reported" ELSE "unreported"]
  /\ UNCHANGED <<inputs, schedule, rows, setting>>

-----------------------------------------------------------------------------
(* Meanwhile *)

Tick == moment < LastInstant /\ moment' = moment + 1 /\ UNCHANGED <<source, file>>
EditSource == source = "frozen" /\ source' = "changed" /\ UNCHANGED <<moment, file>>
EditFile == file = "admitted" /\ file' = "changed" /\ UNCHANGED <<moment, source>>

ReplayNext ==
  \/ Begin \/ BeginSlots \/ StartSlot \/ Invoke \/ FinishSlot \/ Report
  \/ (Tick \/ EditSource \/ EditFile) /\ UNCHANGED <<inputs, schedule, replay, rows>>

ReplaySpec == ReplayInit /\ [][ReplayNext]_replayVars

-----------------------------------------------------------------------------
(* Properties *)

\* What the worker may answer of itself never costs the run: no route, fallback or
\* suggestion stops it for its candidates (controlled_replay.py:83-116), and a run that
\* filled every slot is reported, unless an admitted file was changed meanwhile: what
\* prediction kept is what validate_predictions and ratio accept.
AnswersAccepted ==
  /\ replay.cause # "candidates"
  /\ replay.phase = "unreported" => file = "changed"

\* A row is kept only of an answer that the frozen program gave after the labels were
\* sealed and the run was frozen, and while the admission was in force, by the machine's
\* clock and not by the times in the papers.
MadeInForce ==
  [][rows' # rows =>
       /\ replay.made[2] = "frozen"
       /\ Confirmed < replay.made[1] /\ Sealed < replay.made[1]
       /\ Approved <= replay.made[1] /\ replay.made[1] < Expires]_replayVars

\* The losses of the report add up: under each scheme the defects are those outside the
\* library, without a route, not routed, without material, without an answer, answered
\* wrongly or not at all, and hit, each in exactly one of these.
LossesAddUp ==
  replay.phase = "reported" =>
    \A scheme \in SCHEMES, labels \in [DOMAIN inputs -> SealedLabels] :
      LET N(flag) == Count(flag, scheme, labels)
          unanswered == Cardinality({i \in DOMAIN rows :
                          /\ rows[i].scheme = scheme /\ rows[i].status # "ok"
                          /\ LET label == labels[rows[i].sample]
                                 gold == IF scheme = "A" THEN label.legacy ELSE label.reasons
                             IN  label.verdict = "defect" /\ gold \cap rows[i].available # {}})
      IN  N("D") = (N("D") - N("covered")) + N("route_unavailable") + N("final_omission")
                     + N("material_unavailable") + unanswered + N("wrong_selection")
                     + N("answerable_abstention") + N("hit")

=============================================================================
