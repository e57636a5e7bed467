------------------------------- MODULE PacketPlan -------------------------------
(***************************************************************************)
(* What a three-packet target asks, from src/whynote/two_stage_v3.py: the  *)
(* routes an answer selects, the reasons they call for, the packets these  *)
(* are packed into, and the plan made before any answer that says how many *)
(* requests the target may need.  A text is its length in bytes, a         *)
(* probability with its confidence a level.                                *)
(***************************************************************************)
EXTENDS Integers, SequencesExt, FiniteSetsExt

CONSTANTS
  Tasks, Domains,      \* the catalogue's, both with "unknown"
  Catalog,             \* its reasons in order
  TasksOf, DomainsOf,  \* reason -> the routes that call for it
  Paths,               \* reason -> alternative sets of evidence
  QuestionBytes,       \* reason -> length of its question
  EvidenceBytes,       \* evidence -> what it adds to the state of a request
  TARGET_BYTES, MAX_REASON_PACKETS

Reasons == ToSet(Catalog)
UNRESOLVED == {"mixed", "other", "unknown"}

\* load_catalog and its callers check the catalogue; a request has room for some byte.
ASSUME CatalogAssumption ==
  /\ "unknown" \in Tasks \cap Domains
  /\ Catalog \in Seq(Reasons) /\ \A i, j \in DOMAIN Catalog : Catalog[i] = Catalog[j] => i = j
  /\ DOMAIN TasksOf = Reasons /\ DOMAIN DomainsOf = Reasons
  /\ \A r \in Reasons : /\ QuestionBytes[r] \in Nat \ {0}
                        /\ Paths[r] # {} /\ UNION Paths[r] \subseteq DOMAIN EvidenceBytes
  /\ IsFiniteSet(DOMAIN EvidenceBytes) /\ \A k \in DOMAIN EvidenceBytes : EvidenceBytes[k] \in Nat
  /\ TARGET_BYTES \in Nat \ {0} /\ MAX_REASON_PACKETS \in Nat \ {0}

-----------------------------------------------------------------------------
(* Routes *)

Accepted(answer, threshold) == answer.choice \notin UNRESOLVED /\ answer.level >= threshold

\* select_routes: the choice of an axis, or unknown.
Selected(answers, threshold) ==
  [axis \in {"task", "domain"} |->
     IF Accepted(answers[axis], threshold) THEN answers[axis].choice ELSE "unknown"]

Routed(r, routes) == \/ TasksOf[r] = {} /\ DomainsOf[r] = {}
                     \/ routes.task \in TasksOf[r]
                     \/ routes.domain \in DomainsOf[r]

HasEvidence(r, value) == \E path \in Paths[r] : path \subseteq value.evidence

\* The reasons asked for.
Eligible(value, routes) == {r \in Reasons : Routed(r, routes) /\ HasEvidence(r, value)}

-----------------------------------------------------------------------------
(* Packets *)

Requirements(reasons) == UNION {UNION Paths[r] : r \in reasons}

StateBytes(value, reasons) ==
  value.bytes + SumFunctionOnSet(EvidenceBytes, Requirements(reasons))

\* The length of a request: its state, its questions and the commas between them.
RequestBytes(state, questions) ==
  state + SumFunctionOnSet(QuestionBytes, questions) + Cardinality(questions) - 1

\* A question goes into the open packet, or into the next one if there may be one.
Place(state, p, r) ==
  LET packets == IF p.current = {} THEN p.packets ELSE Append(p.packets, p.current) IN
  IF RequestBytes(state, p.current \cup {r}) <= TARGET_BYTES
    THEN [p EXCEPT !.current = @ \cup {r}]
    ELSE [packets |-> packets, current |-> {r},
          limited |-> \/ RequestBytes(state, {r}) > TARGET_BYTES
                      \/ Len(packets) >= MAX_REASON_PACKETS]

\* The loop of plan_reasons: what it has after each entry of the catalogue.
Packing(state, keys) ==
  LET p[n \in 0 .. Len(Catalog)] ==
        IF n = 0 THEN [packets |-> << >>, current |-> {}, limited |-> FALSE]
        ELSE IF Catalog[n] \in keys /\ ~p[n - 1].limited THEN Place(state, p[n - 1], Catalog[n])
        ELSE p[n - 1]
  IN  p

Pack(state, keys) ==
  LET last == Packing(state, keys)[Len(Catalog)] IN
  [limited |-> last.limited,
   packets |-> IF last.limited THEN << >>
               ELSE IF last.current = {} THEN last.packets ELSE Append(last.packets, last.current)]

PlannedPackets(value, routes) ==
  LET keys == Eligible(value, routes) IN Pack(StateBytes(value, keys), keys)

-----------------------------------------------------------------------------
(* The plan before any answer *)

\* Lengths are added up, a comma for every question but the first of its packet.
AddLength(base, p, r, comma) ==
  LET longer == p.bytes + QuestionBytes[r] + (IF p.count = 0 THEN 0 ELSE comma)
      packets == IF p.count = 0 THEN p.packets ELSE p.packets + 1
  IN  IF longer <= TARGET_BYTES
        THEN [p EXCEPT !.bytes = longer, !.count = @ + 1]
        ELSE [packets |-> packets, bytes |-> base + QuestionBytes[r], count |-> 1,
              limited |-> base + QuestionBytes[r] > TARGET_BYTES \/ packets >= MAX_REASON_PACKETS]

Weighing(base, keys, comma) ==
  LET p[n \in 0 .. Len(Catalog)] ==
        IF n = 0 THEN [packets |-> 0, bytes |-> base, count |-> 0, limited |-> FALSE]
        ELSE IF Catalog[n] \in keys /\ ~p[n - 1].limited THEN AddLength(base, p[n - 1], Catalog[n], comma)
        ELSE p[n - 1]
  IN  p

PacketsOf(base, keys, comma) ==
  LET last == Weighing(base, keys, comma)[Len(Catalog)] IN
  IF last.limited THEN 0 ELSE last.packets + (IF last.count = 0 THEN 0 ELSE 1)

\* Mutant: the commas between questions are forgotten.
WeighWithoutCommas(base, keys) == PacketsOf(base, keys, 0)

\* plan_possible_routes.
Weigh(base, keys) == PacketsOf(base, keys, 1)

\* The most requests of any pair of routes, the route request included.
MaximumRequests(value) ==
  1 + Max({LET keys == Eligible(value, [task |-> t, domain |-> d])
           IN  Weigh(StateBytes(value, keys), keys) : t \in Tasks, d \in Domains})

-----------------------------------------------------------------------------
(* The result *)

Decision(answer, policy) ==
  IF answer.choice \in {"yes", "no"} /\ Accepted(answer, policy[answer.choice])
    THEN answer.choice ELSE "unknown"

\* classify and outcome: what is on record of a target when the requests in failed
Outcome(value, answers, policy, failed) ==
  LET routes == Selected(answers.routes, policy.route)
      plan == PlannedPackets(value, routes)
      asked == UNION {plan.packets[i] : i \in DOMAIN plan.packets \ failed}
  IN  [routes |-> answers.routes, selected |-> routes,
       answers |-> [r \in asked |-> answers.reasons[r]],
       limited |-> IF plan.limited THEN Eligible(value, routes) ELSE {}]

=============================================================================
