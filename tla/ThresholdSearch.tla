---------------------------- MODULE ThresholdSearch ----------------------------
(***************************************************************************)
(* The search for decision thresholds of a calibration partition: search,  *)
(* evaluate and evaluate_target of src/whynote/two_stage_calibration.py    *)
(* over the predictions that a collection left (PacketPlan) and the labels *)
(* that calibration_label of two_stage_confirmation.py makes of reviews.   *)
(*                                                                         *)
(* Thresholds are tuned on answers that were collected once, under another *)
(* policy, while some labels are still missing.                            *)
(***************************************************************************)
EXTENDS PacketPlan

CONSTANTS
  Units,       \* the targets of the partition, a sequence of sets to choose from
  Labels,      \* what a reviewer may say of a target
  Drawn,       \* reasons drawn for a second review whatever the first says
  Passing,     \* sources, effective targets -> errors that still pass, -1 if none do
  Collection,  \* the policy of the collection
  MaxReviews

\* Targets have a length, and what passes is a number of errors.
ASSUME SearchAssumption ==
  /\ \A i \in DOMAIN Units : \A u \in Units[i] : u.value.bytes \in Nat
  /\ \A s, n \in 1 .. Len(Units) : Passing[s][n] \in Int
  /\ Len(Units) \in Nat /\ DOMAIN Units = 1 .. Len(Units)

VARIABLES
  units,    \* the targets with their predictions
  reviews,  \* target -> the labels locked for it, in the order of their creation
  search    \* the running or finished search

searchVars == <<units, reviews, search>>

RISKS == <<"route", "yes", "no">>
Baseline == [route |-> 2, yes |-> 2, no |-> 2]

\* What stands in a record whose routes were never answered.
NoPrediction == [routes |-> {}]

Idle(rule) ==
  [rule |-> rule, axis |-> 0, status |-> "none", policy |-> Baseline, read |-> << >>]

\* The owner's review policy may replace the second reviewer by a model.
SearchInit == units = << >> /\ reviews = << >> /\ search \in {Idle("humans"), Idle("pair")}

-----------------------------------------------------------------------------
(* Labels *)

Known(decision) == decision # "not_reviewed"

\* review_requirement: positives, insufficiency and the drawn rest.
Required(first) ==
  {r \in Reasons : first.reasons[r] \in {"present", "insufficient_evidence"} \/ r \in Drawn}

\* What two opinions and an adjudication come to; without the second one it is open.
Reconciled(first, second, adjudicated) ==
  IF ~Known(second) THEN "not_reviewed"
  ELSE IF first = second THEN first ELSE adjudicated

Unreviewed == [reasons |-> [r \in Reasons |-> "not_reviewed"],
               routes |-> [axis \in {"task", "domain"} |-> {"not_reviewed"}]]
Nth(labels, n) == IF n <= Len(labels) THEN labels[n] ELSE Unreviewed

Reviewed(first, Settled(_), RouteOf(_)) ==
  [reasons |-> [r \in Reasons |-> IF r \in Required(first) THEN Settled(r) ELSE first.reasons[r]],
   routes |-> [axis \in {"task", "domain"} |-> RouteOf(axis)]]

\* calibration_label of several humans: the first opinion, with the reasons that need a
\* second one and the routes that got one settled between them.
LabelOfHumans(first, second, third) ==
  Reviewed(first,
    LAMBDA r : Reconciled(first.reasons[r], second.reasons[r], third.reasons[r]),
    LAMBDA axis : IF second.routes[axis] \in {{"not_reviewed"}, first.routes[axis]}
                    THEN first.routes[axis] ELSE third.routes[axis])

\* Of one human and the model of the review policy: nobody settles a conflict.
LabelOfPair(human, ai) ==
  Reviewed(human,
    LAMBDA r : Reconciled(human.reasons[r], ai.reasons[r], "not_reviewed"),
    LAMBDA axis : IF human.routes[axis] = ai.routes[axis] THEN human.routes[axis] ELSE {"not_reviewed"})

\* Unreviewed before the first opinion, and before both of a pair.
LabelOf(labels) ==
  IF Len(labels) < (IF search.rule = "pair" THEN 2 ELSE 1) THEN Unreviewed
  ELSE IF search.rule = "pair" THEN LabelOfPair(labels[1], labels[2])
  ELSE LabelOfHumans(labels[1], Nth(labels, 2), Nth(labels, 3))

-----------------------------------------------------------------------------
(* Evaluation *)

\* One error makes the event an error, else one missing label leaves it open.
Event(outcomes) ==
  IF outcomes = {} THEN "none"
  ELSE IF "wrong" \in outcomes THEN "wrong"
  ELSE IF "missing" \in outcomes THEN "missing" ELSE "right"

Scored(label, supported) ==
  IF ~Known(label) THEN "missing" ELSE IF label \in supported THEN "right" ELSE "wrong"

RouteOutcome(label, selected) ==
  IF label = {"not_reviewed"} THEN "missing" ELSE IF selected \in label THEN "right" ELSE "wrong"

\* Mutant: whatever the budget once left unasked counts as an abstention.
SkippedInBudget(prediction, routes) == prediction.limited

\* Reasons that went unasked for lack of budget, and would again under these routes.
Skipped(prediction, routes) ==
  IF routes = prediction.selected THEN prediction.limited ELSE {}

\* evaluate_target: the risk events of a target under a policy, and the reasons that
\* this policy would have asked for and the collection did not.  Units has no target too
\* long for the route request: it would be no event and nothing missing under any policy.
EvaluateTarget(unit, label, policy) ==
  LET prediction == unit.prediction
      routes == Selected(prediction.routes, policy.route)
      called == Eligible(unit.value, routes)
      asked == called \cap DOMAIN prediction.answers
      Decided(d) == {r \in asked : Decision(prediction.answers[r], policy) = d}
      supported == [yes |-> {"present"}, no |-> {"absent", "out_of_scope"}]
  IN  IF prediction = NoPrediction
        THEN [events |-> [risk \in ToSet(RISKS) |-> "none"], counterfactual |-> {}, missing |-> TRUE]
        ELSE [events |->
                [risk \in ToSet(RISKS) |->
                   IF risk = "route"
                     THEN Event({RouteOutcome(label.routes[axis], routes[axis]) :
                                   axis \in {x \in {"task", "domain"} : routes[x] # "unknown"}})
                     ELSE Event({Scored(label.reasons[r], supported[risk]) : r \in Decided(risk)})],
              counterfactual |-> (called \ asked) \ Skipped(prediction, routes),
              missing |-> FALSE]

Evaluate(data, labels, policy) ==
  [i \in DOMAIN data |-> EvaluateTarget(data[i], labels[i], policy)]

\* risk_counts for each source, the way of the stratified samples that are all search is
\* called for (two_stage_research.py:185): a missing label counts as an error.
Passes(data, results, risk) ==
  LET sources == {data[i].source : i \in DOMAIN data} IN
  \A s \in sources :
    LET these == {i \in DOMAIN data : data[i].source = s /\ results[i].events[risk] # "none"}
        worst == {i \in these : results[i].events[risk] \in {"wrong", "missing"}}
    IN  these # {} /\ Cardinality(worst) <= Passing[Cardinality(sources)][Cardinality(these)]

AsksNothingNew(results) ==
  \A i \in DOMAIN results : results[i].counterfactual = {} /\ ~results[i].missing

\* The targets of which a policy decides something.
Coverage(results, axis) ==
  Cardinality({i \in DOMAIN results :
    \/ axis = "route" /\ results[i].events.route # "none"
    \/ axis # "route" /\ \E risk \in {"yes", "no"} : results[i].events[risk] # "none"})

-----------------------------------------------------------------------------
(* The study *)

\* What is collected of a target; its route (0) and its packets may each fail.
Collected(u, failed) ==
  [value |-> u.value, answers |-> u.answers, source |-> u.source,
   prediction |-> IF 0 \in failed THEN NoPrediction
                  ELSE Outcome(u.value, u.answers, Collection, failed)]

Collect ==
  /\ Len(units) < Len(Units)
  /\ \E u \in Units[Len(units) + 1], failed \in SUBSET (0 .. MAX_REASON_PACKETS) :
       units' = Append(units, Collected(u, failed))
  /\ reviews' = Append(reviews, << >>)
  /\ UNCHANGED search

\* A reviewer locks a label: the first, the second or the adjudication.
Opine ==
  /\ SumFunction([i \in DOMAIN reviews |-> Len(reviews[i])]) < MaxReviews
  /\ \E i \in DOMAIN units, label \in Labels :
       /\ Len(reviews[i]) < 3
       /\ reviews' = [reviews EXCEPT ![i] = Append(@, label)]
  /\ UNCHANGED <<units, search>>

\* search reads predictions and labels once.
BeginSearch ==
  /\ Len(units) = Len(Units) /\ search.status = "none"
  /\ search' = [search EXCEPT !.axis = 1, !.status = "running",
                              !.read = [i \in DOMAIN reviews |-> LabelOf(reviews[i])]]
  /\ UNCHANGED <<units, reviews>>

\* candidates, before quantile_grid thins them: the scores seen on this axis, and the
\* baseline.
Candidates(axis) ==
  LET Scores(p) ==
        IF p = NoPrediction THEN {}
        ELSE IF axis = "route"
          THEN {p.routes[x].level : x \in {y \in DOMAIN p.routes : p.routes[y].choice \notin UNRESOLVED}}
        ELSE {p.answers[r].level : r \in {x \in DOMAIN p.answers : p.answers[x].choice = axis}}
  IN  {Baseline[axis]} \cup UNION {Scores(units[i].prediction) : i \in DOMAIN units}

\* One axis after the other, each with the thresholds chosen before it: a candidate
\* of the greatest coverage among those that pass and would ask for nothing new.  The
\* configuration says which quantiles of the scores are tried, and a bound which of equal
\* coverage is taken: here any.
SearchAxis ==
  /\ search.status = "running"
  /\ LET axis == RISKS[search.axis]
         Try(level) == [search.policy EXCEPT ![axis] = level]
         Result(level) == Evaluate(units, search.read, Try(level))
         passing == {c \in Candidates(axis) : /\ Passes(units, Result(c), axis)
                                              /\ AsksNothingNew(Result(c))}
     IN  \E grid \in {g \in SUBSET Candidates(axis) : Baseline[axis] \in g} :
         LET feasible == grid \cap passing IN
         \/ /\ feasible = {}
            /\ search' = [search EXCEPT !.status = "blocked"]
         \/ \E c \in feasible :
              /\ \A d \in feasible : Coverage(Result(d), axis) <= Coverage(Result(c), axis)
              /\ search' = [search EXCEPT !.policy = Try(c), !.axis = @ + 1,
                                          !.status = IF axis = "no" THEN "selected" ELSE @]
  /\ UNCHANGED <<units, reviews>>

SearchNext == Collect \/ Opine \/ BeginSearch \/ SearchAxis
SearchSpec == SearchInit /\ [][SearchNext]_searchVars

-----------------------------------------------------------------------------
(* Properties *)

\* The plan made before any answer never promises fewer requests than the answers
\* then call for, whatever routes they select (two_stage_v3.py:330-336, :515).
ReservationSuffices ==
  \A i \in DOMAIN units : \A task \in Tasks, domain \in Domains :
    1 + Len(PlannedPackets(units[i].value, [task |-> task, domain |-> domain]).packets)
      <= MaximumRequests(units[i].value)

\* No route that the search read has been contested since.
Upheld ==
  \A i \in DOMAIN search.read, axis \in {"task", "domain"} :
    search.read[i].routes[axis] \in {{"not_reviewed"}, LabelOf(reviews[i]).routes[axis]}

\* Selected thresholds keep their promise: the same targets, collected anew under the
\* selected policy, pass all three risks with the labels of that day, however the
\* reviews still missing at the search came out (two_stage_calibration.py:3-4).
SelectedPolicyHolds ==
  search.status = "selected" /\ Upheld =>
    LET again == [i \in DOMAIN units |->
                    [units[i] EXCEPT !.prediction =
                       Outcome(units[i].value, units[i].answers, search.policy, {})]]
        results == Evaluate(again, [i \in DOMAIN units |-> LabelOf(reviews[i])], search.policy)
    IN  \A risk \in ToSet(RISKS) : Passes(again, results, risk)

=============================================================================
