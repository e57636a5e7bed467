-------------------------- MODULE FeedbackStoreProofs --------------------------
(***************************************************************************)
(* What holds of the store for every set of actions, targets, keys,        *)
(* displays, reasons and gate signals.  First the type invariant; then the *)
(* safety: the outbox mirrors the actions, the gate decides once, a row    *)
(* keeps naming what its request did; then the refinement: every transaction is one   *)
(* step of FeedbackContract or none.  The safety and the refinement argue  *)
(* by cases on what a transaction can do to actions, events, view and      *)
(* outbox (StepEffects); the other tables never feed those four.           *)
(*                                                                         *)
(* Last, the S0 button on top of it, for every number of callbacks and     *)
(* clicks: one active action per target, the newest menu is accepted, and  *)
(* what a repeated click is told settles.  A step of a callback is one of  *)
(* seven kinds (MenuEffects); the invariant ties the display a callback    *)
(* holds to the tickets, the events and the projection.                    *)
(*                                                                         *)
(* And the projection itself, over histories of any length: the loop of    *)
(* project computes the declarative reading of FeedbackLog.  The invariant *)
(* says to which event of the history the status and the reason are owed.  *)
(***************************************************************************)
EXTENDS HostMenu, FeedbackLog, FiniteSetTheorems, SequenceTheorems, TLAPS

-----------------------------------------------------------------------------
(* The projection *)

\* One turn of project's loop stays in the vocabulary of the projection.
LEMMA ApplyType ==
  ASSUME NEW s \in Projections, NEW ev \in Events
  PROVE  Apply(s, ev) \in Projections
<1>1. Inference(s, ev) \in {"not_requested", "gate_pending", "denied", "queued",
                            "abstained", "succeeded", "cancelled"}
  BY DEF Inference, Projections
<1>2. /\ Attribution(s, ev)[1] \in Statuses
      /\ Attribution(s, ev)[2] \in Reasons \cup {None}
  BY DEF Attribution, Projections, Events, Statuses, Submitted, Unanswered, Passed,
         Suggested, ReasonActions, StatusOf
<1>3. (IF ev.kind = "inference_gate_decided" THEN ev.gate ELSE s.gate) \in Decisions \cup {None}
  BY DEF Projections, Events
<1> QED
  BY <1>1, <1>2, <1>3 DEF Apply, Projected, Projections

\* Only a retraction changes whether an action is active.
LEMMA ApplyAction ==
  ASSUME NEW s \in Projections, NEW ev \in Events
  PROVE  Apply(s, ev).action = IF ev.kind = "action_retracted" THEN "retracted" ELSE s.action
  BY DEF Apply, Projected, Projections

\* Only a gate decision changes the recorded decision.
LEMMA ApplyGate ==
  ASSUME NEW s \in Projections, NEW ev \in Events
  PROVE  Apply(s, ev).gate = IF s.action # "retracted" /\ ev.kind = "inference_gate_decided"
                               THEN ev.gate ELSE s.gate
  BY DEF Apply, Projected, Projections

-----------------------------------------------------------------------------
(* The shape of what the operations write *)

\* An event with no fields but its kind is an event.
LEMMA PlainType ==
  ASSUME NEW kind \in UserActions \cup SystemEvents
  PROVE  Plain(kind) \in Events /\ Plain(kind).kind = kind
  BY DEF Plain, Events, DisplayModes, UIVersions

\* The projection of no events is a projection.
LEMMA FreshType == FreshProjection \in Projections
  BY DEF FreshProjection, Projections, Statuses, Unanswered

\* Every derived key is the key of some row.
LEMMA KeysType ==
  /\ \A k \in ClientKeys : /\ ClientKey(k) \in Keys
                           /\ ToggleCreate(k) \in Keys
                           /\ ToggleRetract(k) \in Keys
  /\ \A k \in ClientKeys, e \in EventIds : NextGeneration(k, e) \in Keys
  BY DEF Keys

\* Appending an event keeps the shape of the events and of their projection.
LEMMA AppendedType ==
  ASSUME TypeOK, NEW e \in EventIds, NEW ev \in Events, Appended(e, ev)
  PROVE  /\ events' \in [EventIds -> Seq(Events)]
         /\ view' \in [EventIds -> Projections]
<1>1. Append(events[e], ev) \in Seq(Events)
  BY DEF TypeOK
<1>2. Apply(view[e], ev) \in Projections
  BY ApplyType DEF TypeOK
<1> QED
  BY <1>1, <1>2 DEF TypeOK, Appended

\* A new action, its first event and its gate message keep the shape of the tables.
LEMMA InsertType ==
  ASSUME TypeOK, NEW e \in EventIds, NEW t \in Targets, Insert(e, t)
  PROVE  /\ actions' \in [EventIds -> Targets \cup {None}]
         /\ events' \in [EventIds -> Seq(Events)]
         /\ view' \in [EventIds -> Projections]
         /\ outbox' \in Seq(Messages)
<1>1. Plain("negative_feedback_action_recorded") \in Events
  BY PlainType DEF SystemEvents
<1>2. /\ events' \in [EventIds -> Seq(Events)]
      /\ view' \in [EventIds -> Projections]
  BY <1>1, AppendedType DEF Insert
<1>3. actions' \in [EventIds -> Targets \cup {None}]
  BY DEF Insert, TypeOK
<1>4. Message(e, "feedback.gate.requested") \in Messages
  BY DEF Message, Messages, Topics
<1>5. outbox' \in Seq(Messages)
  BY <1>4 DEF Insert, TypeOK
<1> QED
  BY <1>2, <1>3, <1>5

\* So does a creation that joins instead.
LEMMA JoinOrInsertType ==
  ASSUME TypeOK, NEW e \in EventIds, NEW t \in Targets, NEW c \in Contracts,
         JoinOrInsert(t, c, e)
  PROVE  /\ actions' \in [EventIds -> Targets \cup {None}]
         /\ events' \in [EventIds -> Seq(Events)]
         /\ view' \in [EventIds -> Projections]
         /\ outbox' \in Seq(Messages)
<1>1. CASE UNCHANGED <<actions, events, view, outbox>>
  BY <1>1 DEF TypeOK
<1>2. CASE Insert(e, t)
  BY <1>2, InsertType
<1> QED
  BY <1>1, <1>2 DEF JoinOrInsert

\* A retraction and its message keep the shape of the tables.
LEMMA WithdrawType ==
  ASSUME TypeOK, NEW e \in EventIds, Withdraw(e)
  PROVE  /\ events' \in [EventIds -> Seq(Events)]
         /\ view' \in [EventIds -> Projections]
         /\ outbox' \in Seq(Messages)
<1>1. Plain("action_retracted") \in Events
  BY PlainType DEF SystemEvents
<1>2. /\ events' \in [EventIds -> Seq(Events)]
      /\ view' \in [EventIds -> Projections]
  BY <1>1, AppendedType DEF Withdraw
<1>3. Message(e, "feedback.action.retracted") \in Messages
  BY DEF Message, Messages, Topics
<1> QED
  BY <1>2, <1>3 DEF Withdraw, TypeOK

\* Saving a row keeps the shape of the idempotency table.
LEMMA SavedType ==
  ASSUME TypeOK, NEW key \in Keys, NEW row \in Rows
  PROVE  Saved(key, row) \in [Keys -> Rows]
  BY DEF TypeOK, Saved

\* A row that names an action and a record is a row.
LEMMA RowType ==
  ASSUME NEW operation \in {"none", "create", "retract", "toggle"} \cup UserActions,
         NEW t \in Targets \cup {None}, NEW c \in Contracts, NEW e \in EventIds, NEW n \in Nat
  PROVE  Row(operation, t, c, e, n) \in Rows
  BY DEF Row, Rows

-----------------------------------------------------------------------------
(* Type correctness *)

\* The empty database has the shape TypeOK describes.
LEMMA InitType == Init => TypeOK
<1> SUFFICES ASSUME Init PROVE TypeOK
  OBVIOUS
<1>1. /\ actions \in [EventIds -> Targets \cup {None}]
      /\ events \in [EventIds -> Seq(Events)]
      /\ outbox \in Seq(Messages)
      /\ tickets \in [EventIds -> Displays \cup {None}]
  BY DEF Init
<1>2. view \in [EventIds -> Projections]
  BY FreshType DEF Init
<1>3. idempotency \in [Keys -> Rows]
  BY DEF Init, NoRow, Rows, Contracts
<1>4. clicks \in [ClientKeys -> ClickRows]
  BY DEF Init, NoClick, ClickRows
<1> QED
  BY <1>1, <1>2, <1>3, <1>4 DEF TypeOK

\* create_action, with or without restart_retracted, and begin_host_click.
LEMMA CreatingType ==
  ASSUME TypeOK, NEW e \in EventIds, NEW t \in Targets, NEW c \in Contracts,
         NEW key \in Keys, JoinOrInsert(t, c, e),
         idempotency' = Saved(key, Row("create", t, c, e, 1))
  PROVE  /\ actions' \in [EventIds -> Targets \cup {None}]
         /\ events' \in [EventIds -> Seq(Events)]
         /\ view' \in [EventIds -> Projections]
         /\ outbox' \in Seq(Messages)
         /\ idempotency' \in [Keys -> Rows]
<1>1. Row("create", t, c, e, 1) \in Rows
  BY RowType
<1> QED
  BY <1>1, JoinOrInsertType, SavedType

\* create_action preserves the shape (store.py:216-282).
LEMMA CreateActionType ==
  ASSUME TypeOK, NEW k \in ClientKeys, NEW t \in Targets, NEW c \in Contracts,
         NEW e \in EventIds, CreateAction(k, t, c, e)
  PROVE  TypeOK'
<1>1. JoinOrInsert(t, c, e) /\ idempotency' = Saved(ClientKey(k), Row("create", t, c, e, 1))
  BY DEF CreateAction
<1>2. clicks' = clicks /\ tickets' = tickets
  BY DEF CreateAction
<1> QED
  BY <1>1, <1>2, CreatingType, KeysType DEF TypeOK

\* create_action with restart_retracted preserves the shape (store.py:241-282).
LEMMA CreateGenerationType ==
  ASSUME TypeOK, NEW k \in ClientKeys, NEW t \in Targets,
         NEW e \in EventIds, CreateGeneration(k, t, e)
  PROVE  TypeOK'
<1>1. PICK key \in Generations(k) :
        /\ JoinOrInsert(t, "manual-v1", e)
        /\ idempotency' = Saved(key, Row("create", t, "manual-v1", e, 1))
  BY DEF CreateGeneration
<1>2. key \in Keys
  BY KeysType DEF Generations
<1>3. clicks' = clicks /\ tickets' = tickets
  BY DEF CreateGeneration
<1>4. "manual-v1" \in Contracts
  BY DEF Contracts
<1> QED
  BY <1>1, <1>2, <1>3, <1>4, CreatingType DEF TypeOK

\* begin_host_click preserves the shape (store.py:284-310).
LEMMA BeginHostClickType ==
  ASSUME TypeOK, NEW k \in ClientKeys, NEW t \in Targets, NEW d \in Displays,
         NEW e \in EventIds, BeginHostClick(k, t, d, e)
  PROVE  TypeOK'
<1>1. /\ JoinOrInsert(t, "manual-v1", e)
      /\ idempotency' = Saved(ClientKey(k), Row("create", t, "manual-v1", e, 1))
  BY DEF BeginHostClick
<1>2. clicks' \in [ClientKeys -> ClickRows]
  BY DEF BeginHostClick, TypeOK, ClickRows
<1>3. tickets' \in [EventIds -> Displays \cup {None}]
  BY DEF BeginHostClick, TypeOK
<1>4. "manual-v1" \in Contracts
  BY DEF Contracts
<1> QED
  BY <1>1, <1>2, <1>3, <1>4, CreatingType, KeysType DEF TypeOK

\* set_host_click_deadline preserves the shape (store.py:342-364).
LEMMA SetHostClickDeadlineType ==
  ASSUME TypeOK, NEW k \in ClientKeys, NEW e \in EventIds, NEW d \in Displays,
         SetHostClickDeadline(k, e, d)
  PROVE  TypeOK'
<1>1. clicks' \in [ClientKeys -> ClickRows]
  BY DEF SetHostClickDeadline, TypeOK, ClickRows
<1> QED
  BY <1>1 DEF SetHostClickDeadline, TypeOK

\* retract_action, under a key of its own or as one half of a toggle.
LEMMA RetractActionType ==
  ASSUME TypeOK, NEW key \in Keys, NEW e \in EventIds, RetractAction(key, e)
  PROVE  TypeOK'
<1>0. events[e] \in Seq(Events) /\ DOMAIN events[e] = 1..Len(events[e]) /\ Len(events[e]) \in Nat
  BY DEF TypeOK
<1>1. \A n \in Nat : Saved(key, Row("retract", None, "none", e, n)) \in [Keys -> Rows]
  BY RowType, SavedType DEF Contracts
<1>2. idempotency' \in [Keys -> Rows]
  BY <1>0, <1>1 DEF RetractAction
<1>3. /\ events' \in [EventIds -> Seq(Events)]
      /\ view' \in [EventIds -> Projections]
      /\ outbox' \in Seq(Messages)
  <2>1. CASE Withdraw(e)
    BY <2>1, WithdrawType
  <2>2. CASE UNCHANGED <<events, view, outbox>>
    BY <2>2 DEF TypeOK
  <2> QED
    BY <2>1, <2>2 DEF RetractAction
<1>4. UNCHANGED <<actions, clicks, tickets>>
  BY DEF RetractAction
<1> QED
  BY <1>2, <1>3, <1>4 DEF TypeOK

\* toggle_action preserves the shape (store.py:410-432).
LEMMA ToggleActionType ==
  ASSUME TypeOK, NEW k \in ClientKeys, NEW t \in Targets, NEW e \in EventIds,
         ToggleAction(k, t, e)
  PROVE  TypeOK'
<1>0. Len(events[e]) + 1 \in Nat
  BY DEF TypeOK
<1>1. \A key1, key2 \in Keys, row1, row2 \in Rows :
        [Saved(key1, row1) EXCEPT ![key2] = row2] \in [Keys -> Rows]
  BY SavedType
<1>2. UNCHANGED <<clicks, tickets>>
  BY DEF ToggleAction
<1>3. CASE /\ Withdraw(e)
           /\ idempotency' =
                [Saved(ToggleRetract(k), Row("retract", None, "none", e, Len(events[e]) + 1))
                   EXCEPT ![ClientKey(k)] = Row("toggle", t, "manual-v1", e, Len(events[e]) + 1)]
           /\ UNCHANGED actions
  <2>1. /\ Row("retract", None, "none", e, Len(events[e]) + 1) \in Rows
        /\ Row("toggle", t, "manual-v1", e, Len(events[e]) + 1) \in Rows
    BY <1>0, RowType DEF Contracts
  <2>2. idempotency' \in [Keys -> Rows]
    BY <1>1, <1>3, <2>1, KeysType
  <2> QED
    BY <1>2, <1>3, <2>2, WithdrawType DEF TypeOK
<1>4. CASE /\ Insert(e, t)
           /\ idempotency' =
                [Saved(ToggleCreate(k), Row("create", t, "manual-v1", e, 1))
                   EXCEPT ![ClientKey(k)] = Row("toggle", t, "manual-v1", e, 1)]
  <2>1. /\ Row("create", t, "manual-v1", e, 1) \in Rows
        /\ Row("toggle", t, "manual-v1", e, 1) \in Rows
    BY RowType DEF Contracts
  <2>2. idempotency' \in [Keys -> Rows]
    BY <1>1, <1>4, <2>1, KeysType
  <2> QED
    BY <1>2, <1>4, <2>2, InsertType DEF TypeOK
<1> QED
  BY <1>3, <1>4 DEF ToggleAction

\* issue_display_ticket preserves the shape (store.py:434-446).
LEMMA IssueDisplayTicketType ==
  ASSUME TypeOK, NEW e \in EventIds, NEW d \in Displays, IssueDisplayTicket(e, d)
  PROVE  TypeOK'
  BY DEF TypeOK, IssueDisplayTicket

\* record_display preserves the shape (store.py:453-515).
LEMMA RecordDisplayType ==
  ASSUME TypeOK, NEW e \in EventIds, NEW d \in Displays, NEW mode \in DisplayModes,
         NEW ui \in UIVersions, NEW shown \in SUBSET Reasons,
         RecordDisplay(e, d, mode, shown, ui)
  PROVE  TypeOK'
<1>1. Display(d, mode, shown, ui) \in Events
  BY DEF Display, Plain, Events, SystemEvents
<1>2. /\ events' \in [EventIds -> Seq(Events)]
      /\ view' \in [EventIds -> Projections]
  BY <1>1, AppendedType DEF RecordDisplay
<1> QED
  BY <1>2 DEF TypeOK, RecordDisplay

\* record_user_action preserves the shape (store.py:517-596).
LEMMA RecordUserActionType ==
  ASSUME TypeOK, NEW key \in Keys, NEW e \in EventIds, NEW kind \in UserActions,
         NEW reason \in Reasons \cup {None}, NEW d \in Displays,
         RecordUserAction(key, e, kind, reason, d)
  PROVE  TypeOK'
<1>0. Len(events[e]) + 1 \in Nat
  BY DEF TypeOK
<1>1. PICK i \in DOMAIN events[e] :
        Appended(e, Response(kind, reason, d, events[e][i].ui, events[e][i].mode))
  BY DEF RecordUserAction
<1>2. events[e][i] \in Events
  BY DEF TypeOK
<1>3. Response(kind, reason, d, events[e][i].ui, events[e][i].mode) \in Events
  BY <1>2 DEF Response, Plain, Events
<1>4. /\ events' \in [EventIds -> Seq(Events)]
      /\ view' \in [EventIds -> Projections]
  BY <1>1, <1>3, AppendedType
<1>5. Row(kind, None, "none", e, Len(events[e]) + 1) \in Rows
  BY <1>0, RowType DEF Contracts
<1>6. idempotency' \in [Keys -> Rows]
  BY <1>5, SavedType DEF RecordUserAction
<1> QED
  BY <1>4, <1>6 DEF TypeOK, RecordUserAction

\* A recorded decision keeps the shape of the events (store.py:629-633).
LEMMA DecidedType ==
  ASSUME TypeOK, NEW e \in EventIds, NEW s \in AllSignals, Decided(e, s)
  PROVE  /\ events' \in [EventIds -> Seq(Events)]
         /\ view' \in [EventIds -> Projections]
<1> DEFINE decided == [Plain("inference_gate_decided") EXCEPT !.gate = Decision(s)]
           abstained == Plain("inference_abstained")
<1>1. decided \in Events /\ abstained \in Events
  BY DEF Plain, Events, SystemEvents, DisplayModes, UIVersions, Decisions
<1>2. CASE Appended(e, decided)
  BY <1>1, <1>2, AppendedType
<1>3. CASE /\ events' = [events EXCEPT ![e] = Append(Append(@, decided), abstained)]
           /\ view' = [view EXCEPT ![e] = Apply(Apply(@, decided), abstained)]
  <2> HIDE DEF decided, abstained
  <2>1. Append(Append(events[e], decided), abstained) \in Seq(Events)
    BY <1>1 DEF TypeOK
  <2>2. Apply(Apply(view[e], decided), abstained) \in Projections
    BY <1>1, ApplyType DEF TypeOK
  <2> QED
    BY <1>3, <2>1, <2>2 DEF TypeOK
<1> QED
  BY <1>2, <1>3 DEF Decided

\* finish_gate_message preserves the shape (store.py:615-635).
LEMMA FinishGateMessageType ==
  ASSUME TypeOK, NEW i \in DOMAIN outbox, NEW signals \in SUBSET AllSignals,
         FinishGateMessage(i, signals)
  PROVE  TypeOK'
<1>0. outbox \in Seq(Messages)
  BY DEF TypeOK
<1>1. outbox[i] \in Messages /\ outbox[i].event \in EventIds
  <2>1. outbox[i] \in Messages
    BY <1>0
  <2> QED
    BY <2>1 DEF Messages
<1>2. outbox' \in Seq(Messages)
  <2>1. [outbox[i] EXCEPT !.processed = TRUE] \in Messages
    BY <1>1 DEF Messages
  <2>2. outbox' = [outbox EXCEPT ![i] = [outbox[i] EXCEPT !.processed = TRUE]]
    BY DEF FinishGateMessage
  <2> QED
    BY <2>1, <2>2 DEF TypeOK
<1>3. /\ events' \in [EventIds -> Seq(Events)]
      /\ view' \in [EventIds -> Projections]
  <2>1. CASE UNCHANGED <<events, view>>
    BY <2>1 DEF TypeOK
  <2>2. CASE \E s \in signals : Decided(outbox[i].event, s)
    BY <1>1, <2>2, DecidedType
  <2> QED
    BY <2>1, <2>2 DEF FinishGateMessage
<1> QED
  BY <1>2, <1>3 DEF TypeOK, FinishGateMessage

\* Every transaction preserves the shape.
LEMMA NextType == TypeOK /\ [Next]_storeVars => TypeOK'
<1> SUFFICES ASSUME TypeOK, [Next]_storeVars PROVE TypeOK'
  OBVIOUS
<1>1. CASE Create
  BY <1>1, CreateActionType DEF Create
<1>2. CASE Generation
  BY <1>2, CreateGenerationType DEF Generation
<1>3. CASE BeginClick
  BY <1>3, BeginHostClickType DEF BeginClick
<1>4. CASE Deadline
  BY <1>4, SetHostClickDeadlineType DEF Deadline
<1>5. CASE Retract
  BY <1>5, RetractActionType, KeysType DEF Retract
<1>6. CASE Toggle
  BY <1>6, ToggleActionType DEF Toggle
<1>7. CASE IssueTicket
  BY <1>7, IssueDisplayTicketType DEF IssueTicket
<1>8. CASE ShowDisplay
  BY <1>8, RecordDisplayType DEF ShowDisplay
<1>9. CASE Respond
  BY <1>9, RecordUserActionType, KeysType DEF Respond
<1>10. CASE Gate
  BY <1>10, FinishGateMessageType, StoreAssumption DEF Gate
<1>11. CASE UNCHANGED storeVars
  BY <1>11 DEF storeVars, TypeOK
<1> QED
  BY <1>1, <1>2, <1>3, <1>4, <1>5, <1>6, <1>7, <1>8, <1>9, <1>10, <1>11 DEF Next

\* The database keeps its shape whatever the callers do.
THEOREM StoreTypeCorrect == Spec => []TypeOK
<1>1. Init => TypeOK
  BY InitType
<1>2. TypeOK /\ [Next]_storeVars => TypeOK'
  BY NextType
<1> QED
  BY <1>1, <1>2, PTL DEF Spec

-----------------------------------------------------------------------------
(* Safety *)

\* Before its row is inserted an identifier has no history.
AbsentIsFresh ==
  \A e \in EventIds : ~Exists(e) => events[e] = << >> /\ view[e] = FreshProjection

\* The projection remembers a retraction and a decision.
ViewRemembers ==
  \A e \in EventIds : \A i \in DOMAIN events[e] :
    /\ events[e][i].kind = "action_retracted" => Retracted(e)
    /\ events[e][i].kind = "inference_gate_decided" => view[e].gate # None

StoreInvariant ==
  /\ TypeOK
  /\ AbsentIsFresh
  /\ ViewRemembers
  /\ OutboxMirrorsActions
  /\ GateDecidesOnce

-----------------------------------------------------------------------------
(* What a transaction can do to actions, events, view and outbox *)

\* An event other than a retraction or a decision joins an active action: a display
\* not shown before, or an answer to the display shown last, not answered before.
Recording(e, ev) ==
  /\ IsActive(e)
  /\ ev \in Events
  /\ ev.kind \notin {"action_retracted", "inference_gate_decided"}
  /\ ev.display \in Displays
  /\ \/ ev.kind = "reason_displayed" /\ ~Shown(e, ev.display)
     \/ /\ ev.kind \in UserActions /\ ~Answered(e, ev.display)
        /\ \E i \in DOMAIN events[e] : ShownAt(e, i, ev.display) /\ LastShownAt(e, i)
  /\ Appended(e, ev)
  /\ UNCHANGED <<actions, outbox>>

Inserting   == \E e \in EventIds, t \in Targets : Insert(e, t)
Withdrawing == \E e \in EventIds : Withdraw(e) /\ UNCHANGED actions
Deciding    == \E i \in DOMAIN outbox, s \in AllSignals :
                 /\ PendingGate(i) /\ Undecided(outbox[i].event)
                 /\ Decided(outbox[i].event, s)
                 /\ outbox' = [outbox EXCEPT ![i].processed = TRUE]
                 /\ UNCHANGED actions
Marking     == \E i \in DOMAIN outbox :
                 /\ PendingGate(i)
                 /\ outbox' = [outbox EXCEPT ![i].processed = TRUE]
                 /\ UNCHANGED <<actions, events, view>>
Resting     == UNCHANGED <<actions, events, view, outbox>>

Effect == \/ Inserting \/ Withdrawing \/ Deciding \/ Marking \/ Resting
          \/ \E e \in EventIds, ev \in Events : Recording(e, ev)

\* record_display appends the display to an active action and writes no message.
LEMMA DisplayEffect ==
  ASSUME NEW e \in EventIds, NEW d \in Displays, NEW mode \in DisplayModes,
         NEW ui \in UIVersions, NEW shown \in SUBSET Reasons,
         RecordDisplay(e, d, mode, shown, ui)
  PROVE  /\ Display(d, mode, shown, ui) \in Events
         /\ Recording(e, Display(d, mode, shown, ui))
<1> DEFINE ev == Display(d, mode, shown, ui)
<1>1. ev \in Events /\ ev.kind = "reason_displayed" /\ ev.display = d
  BY DEF Display, Plain, Events, SystemEvents
<1> QED
  BY <1>1 DEF Recording, RecordDisplay, ValidDisplay, IsActive

\* record_user_action appends the answer to an active action, once per display.
LEMMA ResponseEffect ==
  ASSUME TypeOK, NEW key, NEW e \in EventIds, NEW kind \in UserActions,
         NEW reason \in Reasons \cup {None}, NEW d \in Displays,
         RecordUserAction(key, e, kind, reason, d)
  PROVE  \E i \in DOMAIN events[e] :
           LET ev == Response(kind, reason, d, events[e][i].ui, events[e][i].mode)
           IN LastShownAt(e, i) /\ ev \in Events /\ Recording(e, ev)
<1>1. PICK i \in DOMAIN events[e] :
        /\ LastShownAt(e, i)
        /\ Appended(e, Response(kind, reason, d, events[e][i].ui, events[e][i].mode))
  BY DEF RecordUserAction
<1> DEFINE ev == Response(kind, reason, d, events[e][i].ui, events[e][i].mode)
<1>2. events[e][i] \in Events
  BY DEF TypeOK
<1>3. ev \in Events /\ ev.kind = kind /\ ev.display = d
  BY <1>2 DEF Response, Plain, Events
<1>4. ev.kind \notin {"action_retracted", "inference_gate_decided"}
  BY <1>3 DEF UserActions, ReasonActions, ManualOperations
<1>5. /\ Exists(e) /\ ~Answered(e, d) /\ view[e].action = "active"
      /\ \E j \in DOMAIN events[e] : ShownAt(e, j, d) /\ LastShownAt(e, j)
  BY DEF RecordUserAction, Accepts, ValidResponse
<1>6. UNCHANGED <<actions, outbox>>
  BY DEF RecordUserAction
<1>7. Recording(e, ev)
  BY <1>1, <1>3, <1>4, <1>5, <1>6 DEF Recording, IsActive
<1> QED
  BY <1>1, <1>3, <1>7

\* No transaction does anything else.
LEMMA StepEffects ==
  ASSUME TypeOK, [Next]_storeVars
  PROVE  Effect
<1> USE DEF Effect
<1>1. CASE Create
  BY <1>1 DEF Create, CreateAction, JoinOrInsert, Inserting, Resting
<1>2. CASE Generation
  BY <1>2 DEF Generation, CreateGeneration, JoinOrInsert, Inserting, Resting
<1>3. CASE BeginClick
  BY <1>3 DEF BeginClick, BeginHostClick, JoinOrInsert, Inserting, Resting
<1>4. CASE Deadline
  BY <1>4 DEF Deadline, SetHostClickDeadline, Resting
<1>5. CASE Retract
  BY <1>5 DEF Retract, RetractAction, Withdrawing, Resting
<1>6. CASE Toggle
  BY <1>6 DEF Toggle, ToggleAction, Inserting, Withdrawing
<1>7. CASE IssueTicket
  BY <1>7 DEF IssueTicket, IssueDisplayTicket, Resting
<1>8. CASE ShowDisplay
  BY <1>8, DisplayEffect DEF ShowDisplay
<1>9. CASE Respond
  <2>1. PICK k \in ClientKeys, e \in EventIds, kind \in UserActions,
             reason \in Reasons \cup {None}, d \in Displays :
               RecordUserAction(ClientKey(k), e, kind, reason, d)
    BY <1>9 DEF Respond
  <2>2. \E ev \in Events : Recording(e, ev)
    BY <2>1, ResponseEffect
  <2> QED
    BY <2>2
<1>10. CASE Gate
  BY <1>10, StoreAssumption DEF Gate, FinishGateMessage, Deciding, Marking
<1>11. CASE UNCHANGED storeVars
  BY <1>11 DEF storeVars, Resting
<1> QED
  BY <1>1, <1>2, <1>3, <1>4, <1>5, <1>6, <1>7, <1>8, <1>9, <1>10, <1>11 DEF Next

-----------------------------------------------------------------------------
(* What an append leaves of the events and the projection *)

\* The events of an action are a sequence of events.
LEMMA EventsType ==
  ASSUME TypeOK, NEW e \in EventIds
  PROVE  /\ events[e] \in Seq(Events)
         /\ Len(events[e]) \in Nat
         /\ DOMAIN events[e] = 1..Len(events[e])
         /\ view[e] \in Projections
  BY DEF TypeOK

\* Appending one event leaves the earlier ones where they are.
LEMMA AppendedEffect ==
  ASSUME TypeOK, NEW e \in EventIds, NEW ev \in Events, Appended(e, ev)
  PROVE  /\ \A f \in EventIds \ {e} : events'[f] = events[f] /\ view'[f] = view[f]
         /\ DOMAIN events'[e] = 1..(Len(events[e]) + 1)
         /\ \A i \in DOMAIN events[e] : events'[e][i] = events[e][i]
         /\ events'[e][Len(events[e]) + 1] = ev
         /\ view'[e].action =
              IF ev.kind = "action_retracted" THEN "retracted" ELSE view[e].action
         /\ view'[e].gate =
              IF view[e].action # "retracted" /\ ev.kind = "inference_gate_decided"
                THEN ev.gate ELSE view[e].gate
<1>1. \A f \in EventIds \ {e} : events'[f] = events[f] /\ view'[f] = view[f]
  BY DEF Appended, TypeOK
<1>2. events'[e] = Append(events[e], ev) /\ view'[e] = Apply(view[e], ev)
  BY DEF Appended, TypeOK
<1>3. /\ DOMAIN events'[e] = 1..(Len(events[e]) + 1)
      /\ \A i \in DOMAIN events[e] : events'[e][i] = events[e][i]
      /\ events'[e][Len(events[e]) + 1] = ev
  BY <1>2, EventsType
<1>4. view[e] \in Projections
  BY EventsType
<1> QED
  BY <1>1, <1>2, <1>3, <1>4, ApplyAction, ApplyGate

\* A decision is one event, or that event and the abstention of the queue.
LEMMA DecidedEffect ==
  ASSUME TypeOK, NEW e \in EventIds, NEW s \in AllSignals,
         Undecided(e), Decided(e, s)
  PROVE  /\ \A f \in EventIds \ {e} : events'[f] = events[f] /\ view'[f] = view[f]
         /\ DOMAIN events'[e] \in {1..(Len(events[e]) + 1), 1..(Len(events[e]) + 2)}
         /\ \A i \in DOMAIN events[e] : events'[e][i] = events[e][i]
         /\ events'[e][Len(events[e]) + 1].kind = "inference_gate_decided"
         /\ \A i \in DOMAIN events'[e] :
              i > Len(events[e]) + 1 => events'[e][i].kind = "inference_abstained"
         /\ view'[e].action = "active"
         /\ view'[e].gate = Decision(s)
<1> DEFINE decided == [Plain("inference_gate_decided") EXCEPT !.gate = Decision(s)]
           abstained == Plain("inference_abstained")
<1>1. /\ decided \in Events /\ decided.kind = "inference_gate_decided"
      /\ decided.gate = Decision(s)
  BY DEF Plain, Events, SystemEvents, DisplayModes, UIVersions, Decisions
<1>2. abstained \in Events /\ abstained.kind = "inference_abstained"
  BY DEF Plain, Events, SystemEvents, DisplayModes, UIVersions
<1>3. view[e].action = "active" /\ view[e] \in Projections
  BY EventsType DEF Undecided
<1>4. CASE Appended(e, decided)
  <2> HIDE DEF decided, abstained
  <2> QED
    BY <1>1, <1>3, <1>4, AppendedEffect, EventsType
<1>5. CASE /\ events' = [events EXCEPT ![e] = Append(Append(@, decided), abstained)]
           /\ view' = [view EXCEPT ![e] = Apply(Apply(@, decided), abstained)]
  <2> HIDE DEF decided, abstained
  <2>1. \A f \in EventIds \ {e} : events'[f] = events[f] /\ view'[f] = view[f]
    BY <1>5 DEF TypeOK
  <2>2. events'[e] = Append(Append(events[e], decided), abstained)
    BY <1>5 DEF TypeOK
  <2>3. view'[e] = Apply(Apply(view[e], decided), abstained)
    BY <1>5 DEF TypeOK
  <2>4. /\ DOMAIN events'[e] = 1..(Len(events[e]) + 2)
        /\ \A i \in DOMAIN events[e] : events'[e][i] = events[e][i]
        /\ events'[e][Len(events[e]) + 1] = decided
        /\ events'[e][Len(events[e]) + 2] = abstained
    BY <1>1, <1>2, <2>2, EventsType
  <2>5. /\ Apply(view[e], decided) \in Projections
        /\ Apply(view[e], decided).action = "active"
        /\ Apply(view[e], decided).gate = Decision(s)
    BY <1>1, <1>3, ApplyType, ApplyAction, ApplyGate
  <2>6. view'[e].action = "active" /\ view'[e].gate = Decision(s)
    BY <1>2, <2>3, <2>5, ApplyAction, ApplyGate
  <2> QED
    BY <1>1, <1>2, <2>1, <2>4, <2>6, EventsType
<1> QED
  BY <1>4, <1>5 DEF Decided

-----------------------------------------------------------------------------
(* The invariant is inductive *)

\* The empty database satisfies the invariant.
LEMMA InitInvariant == Init => StoreInvariant
<1> SUFFICES ASSUME Init PROVE StoreInvariant
  OBVIOUS
<1>1. TypeOK
  BY InitType
<1>2. AbsentIsFresh
  BY DEF Init, AbsentIsFresh
<1>3. ViewRemembers
  BY DEF Init, ViewRemembers
<1>4. OutboxMirrorsActions
  BY DEF Init, OutboxMirrorsActions, Exists, Sent
<1>5. GateDecidesOnce
  BY DEF Init, GateDecidesOnce, FreshProjection
<1> QED
  BY <1>1, <1>2, <1>3, <1>4, <1>5 DEF StoreInvariant

\* The outbox is a sequence of messages.
LEMMA OutboxType ==
  ASSUME TypeOK
  PROVE  /\ outbox \in Seq(Messages)
         /\ Len(outbox) \in Nat
         /\ DOMAIN outbox = 1..Len(outbox)
         /\ \A i \in DOMAIN outbox : /\ outbox[i] \in Messages
                                     /\ outbox[i].event \in EventIds
<1>1. outbox \in Seq(Messages)
  BY DEF TypeOK
<1>2. \A i \in DOMAIN outbox : outbox[i] \in Messages
  BY <1>1
<1> QED
  BY <1>1, <1>2 DEF Messages

\* What one more message leaves of the outbox.
LEMMA MessageAppended ==
  ASSUME TypeOK, NEW e \in EventIds, NEW topic \in Topics,
         outbox' = Append(outbox, Message(e, topic))
  PROVE  /\ DOMAIN outbox' = 1..(Len(outbox) + 1)
         /\ \A i \in DOMAIN outbox : outbox'[i] = outbox[i]
         /\ outbox'[Len(outbox) + 1] = Message(e, topic)
  BY OutboxType

\* A new action and its gate message preserve the invariant.
LEMMA InsertInvariant ==
  ASSUME StoreInvariant, TypeOK', NEW e \in EventIds, NEW t \in Targets, Insert(e, t)
  PROVE  StoreInvariant'
<1> DEFINE ev == Plain("negative_feedback_action_recorded")
           gate == "feedback.gate.requested"
           gone == "feedback.action.retracted"
<1>1. TypeOK
  BY DEF StoreInvariant
<1>2. ev \in Events /\ ev.kind = "negative_feedback_action_recorded"
  BY PlainType DEF SystemEvents
<1>3. /\ ~Exists(e)
      /\ Appended(e, ev)
      /\ actions' = [actions EXCEPT ![e] = t]
      /\ outbox' = Append(outbox, Message(e, gate))
  BY DEF Insert
<1> HIDE DEF ev
<1>4. /\ \A f \in EventIds \ {e} : events'[f] = events[f] /\ view'[f] = view[f]
      /\ DOMAIN events'[e] = {1}
      /\ events'[e][1].kind = "negative_feedback_action_recorded"
      /\ view'[e].action = "active" /\ view'[e].gate = None
  <2>1. events[e] = << >> /\ view[e] = FreshProjection
    BY <1>3 DEF StoreInvariant, AbsentIsFresh
  <2>2. Len(events[e]) = 0
    BY <2>1
  <2> QED
    BY <1>1, <1>2, <1>3, <2>1, <2>2, AppendedEffect DEF FreshProjection
<1>5. /\ actions'[e] = t /\ t # None
      /\ \A f \in EventIds \ {e} : actions'[f] = actions[f]
  BY <1>1, <1>3, StoreAssumption DEF TypeOK
<1>6. /\ DOMAIN outbox = 1..Len(outbox) /\ Len(outbox) \in Nat
      /\ DOMAIN outbox' = 1..(Len(outbox) + 1)
      /\ \A i \in DOMAIN outbox : outbox'[i] = outbox[i]
      /\ outbox'[Len(outbox) + 1] = [event |-> e, topic |-> gate, processed |-> FALSE]
  BY <1>1, <1>3, MessageAppended, OutboxType DEF Topics, Message
<1>7. \A i \in DOMAIN outbox : ~(outbox[i].event = e /\ outbox[i].topic \in Topics)
  BY <1>3 DEF StoreInvariant, OutboxMirrorsActions, Sent, Topics
<1>8. AbsentIsFresh'
  BY <1>4, <1>5 DEF StoreInvariant, AbsentIsFresh, Exists
<1>9. ViewRemembers'
  BY <1>4 DEF StoreInvariant, ViewRemembers, Retracted
<1>10. OutboxMirrorsActions'
  <2>1. \A i, j \in DOMAIN outbox' :
          outbox'[i].event = outbox'[j].event /\ outbox'[i].topic = outbox'[j].topic => i = j
    <3> SUFFICES ASSUME NEW i \in DOMAIN outbox', NEW j \in DOMAIN outbox',
                        outbox'[i].event = outbox'[j].event, outbox'[i].topic = outbox'[j].topic
                 PROVE  i = j
      OBVIOUS
    <3>1. CASE i \in DOMAIN outbox /\ j \in DOMAIN outbox
      BY <1>6, <3>1 DEF StoreInvariant, OutboxMirrorsActions
    <3>2. CASE i = Len(outbox) + 1 \/ j = Len(outbox) + 1
      BY <1>6, <1>7, <3>2 DEF Topics
    <3> QED
      BY <1>6, <3>1, <3>2
  <2>2. ASSUME NEW f \in EventIds
        PROVE  /\ Exists(f)' <=> Sent(f, gate)'
               /\ Exists(f)' /\ Retracted(f)' <=> Sent(f, gone)'
    <3>1. CASE f = e
      <4>1. Exists(f)' /\ ~Retracted(f)'
        BY <1>4, <1>5, <3>1 DEF Exists, Retracted
      <4>2. Sent(f, gate)' /\ ~Sent(f, gone)'
        BY <1>6, <1>7, <3>1 DEF Sent, Topics
      <4> QED
        BY <4>1, <4>2
    <3>2. CASE f # e
      <4>1. (Exists(f)' <=> Exists(f)) /\ (Retracted(f)' <=> Retracted(f))
        BY <1>4, <1>5, <3>2 DEF Exists, Retracted
      <4>2. (Sent(f, gate)' <=> Sent(f, gate)) /\ (Sent(f, gone)' <=> Sent(f, gone))
        BY <1>6, <3>2 DEF Sent
      <4> QED
        BY <4>1, <4>2 DEF StoreInvariant, OutboxMirrorsActions
    <3> QED
      BY <3>1, <3>2
  <2> QED
    BY <2>1, <2>2 DEF OutboxMirrorsActions
<1>11. GateDecidesOnce'
  <2> SUFFICES ASSUME NEW f \in EventIds
               PROVE  /\ \A i, j \in DOMAIN events'[f] :
                           /\ events'[f][i].kind = "inference_gate_decided"
                           /\ events'[f][j].kind \in {"inference_gate_decided", "action_retracted"}
                           /\ j <= i
                           => i = j
                      /\ view'[f].gate # None =>
                           ~\E i \in DOMAIN outbox' : PendingGate(i)' /\ outbox'[i].event = f
    BY DEF GateDecidesOnce
  <2>1. CASE f = e
    BY <1>4, <2>1
  <2>2. CASE f # e
    BY <1>4, <1>6, <2>2 DEF StoreInvariant, GateDecidesOnce, PendingGate
  <2> QED
    BY <2>1, <2>2
<1> QED
  BY <1>8, <1>9, <1>10, <1>11 DEF StoreInvariant

\* A retraction and its message preserve the invariant.
LEMMA WithdrawInvariant ==
  ASSUME StoreInvariant, TypeOK', NEW e \in EventIds, Withdraw(e), UNCHANGED actions
  PROVE  StoreInvariant'
<1> DEFINE ev == Plain("action_retracted")
           gone == "feedback.action.retracted"
<1>1. TypeOK
  BY DEF StoreInvariant
<1>2. ev \in Events /\ ev.kind = "action_retracted"
  BY PlainType DEF SystemEvents
<1>3. /\ Exists(e) /\ ~Retracted(e)
      /\ Appended(e, ev)
      /\ outbox' = Append(outbox, Message(e, gone))
  BY DEF Withdraw
<1> HIDE DEF ev
<1>4. /\ \A f \in EventIds \ {e} : events'[f] = events[f] /\ view'[f] = view[f]
      /\ DOMAIN events[e] = 1..Len(events[e]) /\ Len(events[e]) \in Nat
      /\ DOMAIN events'[e] = 1..(Len(events[e]) + 1)
      /\ \A i \in DOMAIN events[e] : events'[e][i] = events[e][i]
      /\ events'[e][Len(events[e]) + 1].kind = "action_retracted"
      /\ view'[e].action = "retracted" /\ view'[e].gate = view[e].gate
  BY <1>1, <1>2, <1>3, AppendedEffect, EventsType
<1>5. \A f \in EventIds : Exists(f)' <=> Exists(f)
  BY DEF Exists
<1>6. /\ DOMAIN outbox = 1..Len(outbox) /\ Len(outbox) \in Nat
      /\ DOMAIN outbox' = 1..(Len(outbox) + 1)
      /\ \A i \in DOMAIN outbox : outbox'[i] = outbox[i]
      /\ outbox'[Len(outbox) + 1] = Message(e, gone)
  BY <1>1, <1>3, MessageAppended, OutboxType DEF Topics
<1>7. \A i \in DOMAIN outbox : ~(outbox[i].event = e /\ outbox[i].topic = gone)
  BY <1>3 DEF StoreInvariant, OutboxMirrorsActions, Sent
<1>8. AbsentIsFresh'
  BY <1>3, <1>4, <1>5 DEF StoreInvariant, AbsentIsFresh
<1>9. ViewRemembers'
  <2> SUFFICES ASSUME NEW f \in EventIds, NEW i \in DOMAIN events'[f]
               PROVE  /\ events'[f][i].kind = "action_retracted" => view'[f].action = "retracted"
                      /\ events'[f][i].kind = "inference_gate_decided" => view'[f].gate # None
    BY DEF ViewRemembers, Retracted
  <2> QED
    BY <1>4 DEF StoreInvariant, ViewRemembers, Retracted
<1>10. OutboxMirrorsActions'
  <2>1. \A i, j \in DOMAIN outbox' :
          outbox'[i].event = outbox'[j].event /\ outbox'[i].topic = outbox'[j].topic => i = j
    <3> SUFFICES ASSUME NEW i \in DOMAIN outbox', NEW j \in DOMAIN outbox',
                        outbox'[i].event = outbox'[j].event, outbox'[i].topic = outbox'[j].topic
                 PROVE  i = j
      OBVIOUS
    <3>1. CASE i \in DOMAIN outbox /\ j \in DOMAIN outbox
      BY <1>6, <3>1 DEF StoreInvariant, OutboxMirrorsActions
    <3>2. CASE i = Len(outbox) + 1 \/ j = Len(outbox) + 1
      BY <1>6, <1>7, <3>2 DEF Message
    <3> QED
      BY <1>6, <3>1, <3>2
  <2>2. ASSUME NEW f \in EventIds
        PROVE  Exists(f)' <=> Sent(f, "feedback.gate.requested")'
    <3>1. Sent(f, "feedback.gate.requested")' <=> Sent(f, "feedback.gate.requested")
      BY <1>6 DEF Sent, Message
    <3> QED
      BY <1>5, <3>1 DEF StoreInvariant, OutboxMirrorsActions
  <2>3. ASSUME NEW f \in EventIds
        PROVE  Exists(f)' /\ Retracted(f)' <=> Sent(f, gone)'
    <3>1. CASE f = e
      <4>1. Exists(f)' /\ Retracted(f)'
        BY <1>3, <1>4, <1>5, <3>1 DEF Retracted
      <4>2. Sent(f, gone)'
        BY <1>6, <3>1 DEF Sent, Message
      <4> QED
        BY <4>1, <4>2
    <3>2. CASE f # e
      <4>1. Retracted(f)' <=> Retracted(f)
        BY <1>4, <3>2 DEF Retracted
      <4>2. Sent(f, gone)' <=> Sent(f, gone)
        BY <1>6, <3>2 DEF Sent, Message
      <4> QED
        BY <1>5, <4>1, <4>2 DEF StoreInvariant, OutboxMirrorsActions
    <3> QED
      BY <3>1, <3>2
  <2> QED
    BY <2>1, <2>2, <2>3 DEF OutboxMirrorsActions
<1>11. GateDecidesOnce'
  <2> SUFFICES ASSUME NEW f \in EventIds
               PROVE  /\ \A i, j \in DOMAIN events'[f] :
                           /\ events'[f][i].kind = "inference_gate_decided"
                           /\ events'[f][j].kind \in {"inference_gate_decided", "action_retracted"}
                           /\ j <= i
                           => i = j
                      /\ view'[f].gate # None =>
                           ~\E i \in DOMAIN outbox' : PendingGate(i)' /\ outbox'[i].event = f
    BY DEF GateDecidesOnce
  <2>1. \A i, j \in DOMAIN events'[f] :
          /\ events'[f][i].kind = "inference_gate_decided"
          /\ events'[f][j].kind \in {"inference_gate_decided", "action_retracted"}
          /\ j <= i
          => i = j
    BY <1>4 DEF StoreInvariant, GateDecidesOnce
  <2>2. view'[f].gate = view[f].gate
    BY <1>4
  <2>3. view[f].gate # None => ~\E i \in DOMAIN outbox : PendingGate(i) /\ outbox[i].event = f
    BY DEF StoreInvariant, GateDecidesOnce
  <2>4. ASSUME view'[f].gate # None, NEW i \in DOMAIN outbox', PendingGate(i)', outbox'[i].event = f
        PROVE  FALSE
    <3>1. i \in DOMAIN outbox
      BY <1>6, <2>4 DEF PendingGate, Message
    <3>2. PendingGate(i) /\ outbox[i].event = f
      BY <1>6, <2>4, <3>1 DEF PendingGate
    <3> QED
      BY <2>2, <2>3, <2>4, <3>1, <3>2
  <2> QED
    BY <2>1, <2>4
<1> QED
  BY <1>8, <1>9, <1>10, <1>11 DEF StoreInvariant

\* Marking a message changes neither what was sent nor what else is pending.
LEMMA MarkedEffect ==
  ASSUME TypeOK, NEW i \in DOMAIN outbox,
         outbox' = [outbox EXCEPT ![i].processed = TRUE]
  PROVE  /\ DOMAIN outbox' = DOMAIN outbox
         /\ \A j \in DOMAIN outbox : /\ outbox'[j].event = outbox[j].event
                                     /\ outbox'[j].topic = outbox[j].topic
         /\ \A j \in DOMAIN outbox : PendingGate(j)' => PendingGate(j) /\ j # i
<1>1. \A j \in DOMAIN outbox :
        outbox[j] \in [event : EventIds, topic : Topics, processed : BOOLEAN]
  BY OutboxType DEF Messages
<1>2. DOMAIN outbox' = DOMAIN outbox
  OBVIOUS
<1>3. outbox'[i] = [outbox[i] EXCEPT !.processed = TRUE]
  BY OutboxType
<1>4. \A j \in DOMAIN outbox \ {i} : outbox'[j] = outbox[j]
  BY OutboxType
<1>5. /\ outbox'[i].event = outbox[i].event /\ outbox'[i].topic = outbox[i].topic
      /\ outbox'[i].processed = TRUE
  BY <1>1, <1>3
<1> QED
  BY <1>2, <1>4, <1>5 DEF PendingGate

\* An outbox that names the same messages still mirrors actions that live as before.
LEMMA MirrorKept ==
  ASSUME OutboxMirrorsActions, UNCHANGED actions,
         DOMAIN outbox' = DOMAIN outbox,
         \A j \in DOMAIN outbox : /\ outbox'[j].event = outbox[j].event
                                 /\ outbox'[j].topic = outbox[j].topic,
         \A f \in EventIds : view'[f].action = view[f].action
  PROVE  OutboxMirrorsActions'
<1>1. \A f \in EventIds : (Exists(f)' <=> Exists(f)) /\ (Retracted(f)' <=> Retracted(f))
  BY DEF Exists, Retracted
<1>2. ASSUME NEW f \in EventIds, NEW topic \in Topics
      PROVE  Sent(f, topic)' <=> Sent(f, topic)
  BY DEF Sent
<1> QED
  BY <1>1, <1>2 DEF OutboxMirrorsActions, Topics

\* A decision and the mark on its message preserve the invariant.
LEMMA DecideInvariant ==
  ASSUME StoreInvariant, TypeOK', Deciding
  PROVE  StoreInvariant'
<1>1. PICK i \in DOMAIN outbox, s \in AllSignals :
        /\ PendingGate(i) /\ Undecided(outbox[i].event)
        /\ Decided(outbox[i].event, s)
        /\ outbox' = [outbox EXCEPT ![i].processed = TRUE]
        /\ UNCHANGED actions
  BY DEF Deciding
<1> DEFINE e == outbox[i].event
<1>2. TypeOK
  BY DEF StoreInvariant
<1>3. e \in EventIds
  BY <1>2, OutboxType
<1>4. outbox[i].topic = "feedback.gate.requested"
  BY <1>1 DEF PendingGate
<1>5. Exists(e) /\ Undecided(e) /\ Decided(e, s)
  BY <1>1, <1>3, <1>4 DEF StoreInvariant, OutboxMirrorsActions, Sent
<1>6. /\ DOMAIN outbox' = DOMAIN outbox
      /\ \A j \in DOMAIN outbox : /\ outbox'[j].event = outbox[j].event
                                  /\ outbox'[j].topic = outbox[j].topic
      /\ \A j \in DOMAIN outbox : PendingGate(j)' => PendingGate(j) /\ j # i
  BY <1>1, <1>2, MarkedEffect
<1> HIDE DEF e
<1>7. /\ \A f \in EventIds \ {e} : events'[f] = events[f] /\ view'[f] = view[f]
      /\ DOMAIN events'[e] \in {1..(Len(events[e]) + 1), 1..(Len(events[e]) + 2)}
      /\ \A j \in DOMAIN events[e] : events'[e][j] = events[e][j]
      /\ events'[e][Len(events[e]) + 1].kind = "inference_gate_decided"
      /\ \A j \in DOMAIN events'[e] :
           j > Len(events[e]) + 1 => events'[e][j].kind = "inference_abstained"
      /\ view'[e].action = "active"
      /\ view'[e].gate = Decision(s)
  BY <1>2, <1>3, <1>5, DecidedEffect
<1>8. /\ DOMAIN events[e] = 1..Len(events[e]) /\ Len(events[e]) \in Nat
  BY <1>2, <1>3, EventsType
<1>9. view[e].action = "active" /\ view[e].gate = None
  BY <1>5 DEF Undecided
<1>10. \A j \in DOMAIN events[e] :
         events[e][j].kind \notin {"inference_gate_decided", "action_retracted"}
  BY <1>3, <1>9 DEF StoreInvariant, ViewRemembers, Retracted
<1>11. view'[e].gate # None
  BY <1>7, DecisionsAssumption DEF Decisions
<1>12. AbsentIsFresh'
  BY <1>1, <1>5, <1>7 DEF StoreInvariant, AbsentIsFresh, Exists
<1>13. ViewRemembers'
  <2> SUFFICES ASSUME NEW f \in EventIds, NEW j \in DOMAIN events'[f]
               PROVE  /\ events'[f][j].kind = "action_retracted" => view'[f].action = "retracted"
                      /\ events'[f][j].kind = "inference_gate_decided" => view'[f].gate # None
    BY DEF ViewRemembers, Retracted
  <2>1. CASE f # e
    BY <1>7, <2>1 DEF StoreInvariant, ViewRemembers, Retracted
  <2>2. CASE f = e
    <3>1. j \in DOMAIN events[e] \/ j = Len(events[e]) + 1 \/ j > Len(events[e]) + 1
      BY <1>7, <1>8, <2>2
    <3>2. events'[e][j].kind # "action_retracted"
      BY <1>7, <1>10, <2>2, <3>1
    <3> QED
      BY <1>11, <2>2, <3>2
  <2> QED
    BY <2>1, <2>2
<1>14. OutboxMirrorsActions'
  BY <1>1, <1>6, <1>7, <1>9, MirrorKept DEF StoreInvariant
<1>15. GateDecidesOnce'
  <2> SUFFICES ASSUME NEW f \in EventIds
               PROVE  /\ \A j, m \in DOMAIN events'[f] :
                           /\ events'[f][j].kind = "inference_gate_decided"
                           /\ events'[f][m].kind \in {"inference_gate_decided", "action_retracted"}
                           /\ m <= j
                           => j = m
                      /\ view'[f].gate # None =>
                           ~\E j \in DOMAIN outbox' : PendingGate(j)' /\ outbox'[j].event = f
    BY DEF GateDecidesOnce
  <2>1. CASE f # e
    <3>1. events'[f] = events[f] /\ view'[f] = view[f]
      BY <1>7, <2>1
    <3>2. view[f].gate # None => ~\E j \in DOMAIN outbox : PendingGate(j) /\ outbox[j].event = f
      BY DEF StoreInvariant, GateDecidesOnce
    <3>3. ASSUME view'[f].gate # None, NEW j \in DOMAIN outbox',
                 PendingGate(j)', outbox'[j].event = f
          PROVE  FALSE
      BY <1>6, <3>1, <3>2, <3>3
    <3> QED
      BY <3>1, <3>3 DEF StoreInvariant, GateDecidesOnce
  <2>2. CASE f = e
    <3>1. \A j \in DOMAIN events'[e] :
            events'[e][j].kind \in {"inference_gate_decided", "action_retracted"}
              => j = Len(events[e]) + 1
      <4> SUFFICES ASSUME NEW j \in DOMAIN events'[e],
                          events'[e][j].kind \in {"inference_gate_decided", "action_retracted"}
                   PROVE  j = Len(events[e]) + 1
        OBVIOUS
      <4>1. j \in DOMAIN events[e] \/ j = Len(events[e]) + 1 \/ j > Len(events[e]) + 1
        BY <1>7, <1>8
      <4> QED
        BY <1>7, <1>10, <4>1
    <3>2. ASSUME NEW j \in DOMAIN outbox', PendingGate(j)', outbox'[j].event = e
          PROVE  FALSE
      <4>1. j \in DOMAIN outbox /\ PendingGate(j) /\ j # i /\ outbox[j].event = e
        BY <1>6, <3>2
      <4>2. outbox[j].topic = outbox[i].topic
        BY <1>4, <4>1 DEF PendingGate
      <4> QED
        BY <4>1, <4>2 DEF e, StoreInvariant, OutboxMirrorsActions
    <3> QED
      BY <2>2, <3>1, <3>2
  <2> QED
    BY <2>1, <2>2
<1> QED
  BY <1>12, <1>13, <1>14, <1>15 DEF StoreInvariant

\* Marking the message of a decided or withdrawn action preserves the invariant.
LEMMA MarkInvariant ==
  ASSUME StoreInvariant, TypeOK', Marking
  PROVE  StoreInvariant'
<1>1. PICK i \in DOMAIN outbox : /\ outbox' = [outbox EXCEPT ![i].processed = TRUE]
                                /\ UNCHANGED <<actions, events, view>>
  BY DEF Marking
<1>2. /\ DOMAIN outbox' = DOMAIN outbox
      /\ \A j \in DOMAIN outbox : /\ outbox'[j].event = outbox[j].event
                                  /\ outbox'[j].topic = outbox[j].topic
      /\ \A j \in DOMAIN outbox : PendingGate(j)' => PendingGate(j)
  BY <1>1, MarkedEffect DEF StoreInvariant
<1>3. OutboxMirrorsActions'
  BY <1>1, <1>2, MirrorKept DEF StoreInvariant
<1>4. AbsentIsFresh' /\ ViewRemembers'
  BY <1>1 DEF StoreInvariant, AbsentIsFresh, ViewRemembers, Exists, Retracted
<1>5. GateDecidesOnce'
  <2>1. ASSUME NEW f \in EventIds, view'[f].gate # None, NEW j \in DOMAIN outbox',
               PendingGate(j)', outbox'[j].event = f
        PROVE  FALSE
    <3>1. view[f].gate # None /\ j \in DOMAIN outbox /\ PendingGate(j) /\ outbox[j].event = f
      BY <1>1, <1>2, <2>1
    <3> QED
      BY <3>1 DEF StoreInvariant, GateDecidesOnce
  <2> QED
    BY <1>1, <2>1 DEF StoreInvariant, GateDecidesOnce
<1> QED
  BY <1>3, <1>4, <1>5 DEF StoreInvariant

\* A display or an answer appended to an action preserves the invariant.
LEMMA RecordInvariant ==
  ASSUME StoreInvariant, TypeOK', NEW e \in EventIds, NEW ev \in Events, Recording(e, ev)
  PROVE  StoreInvariant'
<1>1. /\ Exists(e) /\ Appended(e, ev) /\ UNCHANGED <<actions, outbox>>
      /\ ev.kind \notin {"action_retracted", "inference_gate_decided"}
  BY DEF Recording, IsActive
<1>2. /\ \A f \in EventIds \ {e} : events'[f] = events[f] /\ view'[f] = view[f]
      /\ DOMAIN events[e] = 1..Len(events[e]) /\ Len(events[e]) \in Nat
      /\ DOMAIN events'[e] = 1..(Len(events[e]) + 1)
      /\ \A i \in DOMAIN events[e] : events'[e][i] = events[e][i]
      /\ events'[e][Len(events[e]) + 1] = ev
      /\ view'[e].action = view[e].action /\ view'[e].gate = view[e].gate
  BY <1>1, AppendedEffect, EventsType DEF StoreInvariant
<1>3. AbsentIsFresh'
  BY <1>1, <1>2 DEF StoreInvariant, AbsentIsFresh, Exists
<1>4. ViewRemembers'
  <2> SUFFICES ASSUME NEW f \in EventIds, NEW i \in DOMAIN events'[f]
               PROVE  /\ events'[f][i].kind = "action_retracted" => view'[f].action = "retracted"
                      /\ events'[f][i].kind = "inference_gate_decided" => view'[f].gate # None
    BY DEF ViewRemembers, Retracted
  <2> QED
    BY <1>1, <1>2 DEF StoreInvariant, ViewRemembers, Retracted
<1>5. OutboxMirrorsActions'
  BY <1>1, <1>2, MirrorKept DEF StoreInvariant
<1>6. GateDecidesOnce'
  <2> SUFFICES ASSUME NEW f \in EventIds
               PROVE  /\ \A i, j \in DOMAIN events'[f] :
                           /\ events'[f][i].kind = "inference_gate_decided"
                           /\ events'[f][j].kind \in {"inference_gate_decided", "action_retracted"}
                           /\ j <= i
                           => i = j
                      /\ view'[f].gate # None =>
                           ~\E i \in DOMAIN outbox' : PendingGate(i)' /\ outbox'[i].event = f
    BY DEF GateDecidesOnce
  <2>1. \A i, j \in DOMAIN events'[f] :
          /\ events'[f][i].kind = "inference_gate_decided"
          /\ events'[f][j].kind \in {"inference_gate_decided", "action_retracted"}
          /\ j <= i
          => i = j
    BY <1>1, <1>2 DEF StoreInvariant, GateDecidesOnce
  <2>2. view'[f].gate = view[f].gate
    BY <1>2
  <2> QED
    BY <1>1, <2>1, <2>2 DEF StoreInvariant, GateDecidesOnce, PendingGate
<1> QED
  BY <1>3, <1>4, <1>5, <1>6 DEF StoreInvariant

\* A transaction that touches neither events nor outbox preserves the invariant.
LEMMA RestInvariant ==
  ASSUME StoreInvariant, TypeOK', Resting
  PROVE  StoreInvariant'
<1>1. UNCHANGED <<actions, events, view, outbox>>
  BY DEF Resting
<1>2. AbsentIsFresh' /\ ViewRemembers'
  BY <1>1 DEF StoreInvariant, AbsentIsFresh, ViewRemembers, Exists, Retracted
<1>3. OutboxMirrorsActions'
  BY <1>1, MirrorKept DEF StoreInvariant
<1>4. GateDecidesOnce'
  BY <1>1 DEF StoreInvariant, GateDecidesOnce, PendingGate
<1> QED
  BY <1>2, <1>3, <1>4 DEF StoreInvariant

\* Nothing a transaction can do to the four tables disturbs the invariant.
LEMMA EffectInvariant ==
  ASSUME StoreInvariant, TypeOK', Effect
  PROVE  StoreInvariant'
<1>1. TypeOK /\ TypeOK'
  BY DEF StoreInvariant
<1>2. CASE Inserting
  BY <1>1, <1>2, InsertInvariant DEF Inserting
<1>3. CASE Withdrawing
  BY <1>1, <1>3, WithdrawInvariant DEF Withdrawing
<1>4. CASE Deciding
  BY <1>1, <1>4, DecideInvariant
<1>5. CASE Marking
  BY <1>1, <1>5, MarkInvariant
<1>6. CASE Resting
  BY <1>1, <1>6, RestInvariant
<1>7. CASE \E e \in EventIds, ev \in Events : Recording(e, ev)
  BY <1>1, <1>7, RecordInvariant
<1> QED
  BY <1>2, <1>3, <1>4, <1>5, <1>6, <1>7 DEF Effect

\* Every transaction preserves the invariant.
LEMMA NextInvariant == StoreInvariant /\ [Next]_storeVars => StoreInvariant'
  BY NextType, StepEffects, EffectInvariant DEF StoreInvariant

\* The shape of the tables, what their rows remember of the events, and the two
\* safety properties hold together in every reachable database.
THEOREM StoreInvariance == Spec => []StoreInvariant
<1>1. Init => StoreInvariant
  BY InitInvariant
<1>2. StoreInvariant /\ [Next]_storeVars => StoreInvariant'
  BY NextInvariant
<1> QED
  BY <1>1, <1>2, PTL DEF Spec

\* An action and its gate message, a retraction and its message, are never seen
\* one without the other (store.py:265-281, 402-407).
THEOREM OutboxAlwaysMirrors == Spec => []OutboxMirrorsActions
<1>1. StoreInvariant => OutboxMirrorsActions
  BY DEF StoreInvariant
<1> QED
  BY <1>1, StoreInvariance, PTL

\* finish_gate_message decides an action at most once and never after its
\* retraction (store.py:615-635).
THEOREM GateAlwaysDecidesOnce == Spec => []GateDecidesOnce
<1>1. StoreInvariant => GateDecidesOnce
  BY DEF StoreInvariant
<1> QED
  BY <1>1, StoreInvariance, PTL

-----------------------------------------------------------------------------
(* The rows of idempotency *)

\* The event a row names is there, of the kind of its operation.
Named(row) ==
  /\ row.event \in EventIds
  /\ row.record \in DOMAIN events[row.event]
  /\ events[row.event][row.record].kind = KindNamed(row.operation, row.record)

\* An existing action begins with its creation: what joining it or toggling it
\* records is the first event.
FirstIsCreation ==
  \A e \in EventIds : Exists(e) =>
    /\ 1 \in DOMAIN events[e]
    /\ events[e][1].kind = "negative_feedback_action_recorded"

RowsNamed == \A key \in Keys : Unused(key) \/ Named(idempotency[key])

RowsInvariant == StoreInvariant /\ FirstIsCreation /\ RowsNamed

\* The empty database has no row.
LEMMA InitRows == Init => FirstIsCreation /\ RowsNamed
  BY DEF Init, FirstIsCreation, RowsNamed, Exists, Unused

\* An event once appended stays where it is.
LEMMA HistoryKept ==
  ASSUME TypeOK, Effect
  PROVE  \A e \in EventIds : \A i \in DOMAIN events[e] :
           i \in DOMAIN events'[e] /\ events'[e][i] = events[e][i]
<1>1. ASSUME NEW e \in EventIds, NEW ev \in Events, Appended(e, ev)
      PROVE  \A f \in EventIds : \A i \in DOMAIN events[f] :
               i \in DOMAIN events'[f] /\ events'[f][i] = events[f][i]
  <2>1. \A i \in DOMAIN events[e] : i \in DOMAIN events'[e] /\ events'[e][i] = events[e][i]
    BY <1>1, AppendedEffect, EventsType
  <2> QED
    BY <1>1, <2>1, AppendedEffect
<1>2. CASE Inserting
  BY <1>1, <1>2, PlainType DEF Inserting, Insert, SystemEvents
<1>3. CASE Withdrawing
  BY <1>1, <1>3, PlainType DEF Withdrawing, Withdraw, SystemEvents
<1>4. CASE Deciding
  <2>1. PICK i \in DOMAIN outbox, s \in AllSignals :
          Undecided(outbox[i].event) /\ Decided(outbox[i].event, s)
    BY <1>4 DEF Deciding
  <2>2. outbox[i].event \in EventIds
    BY OutboxType
  <2>3. PICK e \in EventIds : e = outbox[i].event
    BY <2>2
  <2>4. /\ \A f \in EventIds \ {e} : events'[f] = events[f]
        /\ DOMAIN events'[e] \in {1..(Len(events[e]) + 1), 1..(Len(events[e]) + 2)}
        /\ \A j \in DOMAIN events[e] : events'[e][j] = events[e][j]
    BY <2>1, <2>3, DecidedEffect
  <2>5. \A j \in DOMAIN events[e] : j \in DOMAIN events'[e]
    BY <2>4, EventsType
  <2> QED
    BY <2>4, <2>5
<1>5. CASE Marking \/ Resting
  BY <1>5 DEF Marking, Resting
<1>6. CASE \E e \in EventIds, ev \in Events : Recording(e, ev)
  BY <1>1, <1>6 DEF Recording
<1> QED
  BY <1>2, <1>3, <1>4, <1>5, <1>6 DEF Effect

\* An action is inserted with its creation as its first event.
LEMMA InsertFirst ==
  ASSUME StoreInvariant, NEW e \in EventIds, NEW t, Insert(e, t)
  PROVE  /\ 1 \in DOMAIN events'[e]
         /\ events'[e][1].kind = "negative_feedback_action_recorded"
<1> DEFINE ev == Plain("negative_feedback_action_recorded")
<1>1. ev \in Events /\ ev.kind = "negative_feedback_action_recorded"
  BY PlainType DEF SystemEvents, Plain
<1>2. events[e] = << >>
  BY DEF Insert, StoreInvariant, AbsentIsFresh
<1>3. Appended(e, ev) /\ TypeOK
  BY DEF Insert, StoreInvariant
<1> HIDE DEF ev
<1>4. /\ DOMAIN events'[e] = 1..(Len(events[e]) + 1)
      /\ events'[e][Len(events[e]) + 1] = ev
  BY <1>1, <1>3, AppendedEffect
<1> QED
  BY <1>1, <1>2, <1>4

\* So an existing action begins with its creation.
LEMMA FirstKept ==
  ASSUME StoreInvariant, FirstIsCreation, Effect
  PROVE  FirstIsCreation'
<1> TypeOK
  BY DEF StoreInvariant
<1>1. \A e \in EventIds : Exists(e) =>
        1 \in DOMAIN events'[e] /\ events'[e][1].kind = "negative_feedback_action_recorded"
  BY HistoryKept DEF FirstIsCreation
<1>2. CASE Inserting
  <2>1. PICK e \in EventIds, t \in Targets : Insert(e, t)
    BY <1>2 DEF Inserting
  <2>2. \A f \in EventIds \ {e} : actions'[f] = actions[f]
    BY <2>1 DEF Insert, TypeOK
  <2>3. /\ 1 \in DOMAIN events'[e]
        /\ events'[e][1].kind = "negative_feedback_action_recorded"
    BY <2>1, InsertFirst
  <2> QED
    BY <1>1, <2>2, <2>3 DEF FirstIsCreation, Exists
<1>3. CASE UNCHANGED actions
  BY <1>1, <1>3 DEF FirstIsCreation, Exists
<1> QED
  BY <1>2, <1>3 DEF Effect, Withdrawing, Deciding, Marking, Resting, Recording

\* What is written under one key names its event; the other rows stay.
LEMMA RowWritten ==
  ASSUME TypeOK, Effect, RowsNamed, NEW key \in Keys, NEW row,
         idempotency' = Saved(key, row),
         row.event \in EventIds, row.record \in DOMAIN events'[row.event],
         events'[row.event][row.record].kind = KindNamed(row.operation, row.record)
  PROVE  RowsNamed'
<1>1. idempotency'[key] = row
  BY DEF Saved, TypeOK
<1>2. \A other \in Keys \ {key} : idempotency'[other] = idempotency[other]
  BY DEF Saved, TypeOK
<1> SUFFICES ASSUME NEW other \in Keys PROVE (Unused(other) \/ Named(idempotency[other]))'
  BY DEF RowsNamed
<1>3. CASE other = key
  BY <1>1, <1>3 DEF Named
<1>4. CASE other # key
  BY <1>2, <1>4, HistoryKept DEF RowsNamed, Named, Unused
<1> QED
  BY <1>3, <1>4

\* Rows that are not written stay named.
LEMMA RowsKept ==
  ASSUME TypeOK, Effect, RowsNamed, UNCHANGED idempotency
  PROVE  RowsNamed'
  BY HistoryKept DEF RowsNamed, Named, Unused

\* The event a creation names is the first of the action it made or joined.
LEMMA CreatingNames ==
  ASSUME StoreInvariant, FirstIsCreation, Effect, NEW t \in Targets, NEW c \in Contracts,
         NEW e \in EventIds, JoinOrInsert(t, c, e)
  PROVE  LET row == Row("create", t, c, e, 1)
         IN /\ row.event \in EventIds /\ row.record \in DOMAIN events'[row.event]
            /\ events'[row.event][row.record].kind = KindNamed(row.operation, row.record)
<1>1. /\ 1 \in DOMAIN events'[e]
      /\ events'[e][1].kind = "negative_feedback_action_recorded"
  <2>1. CASE ActiveOn(t) = {e} /\ UNCHANGED events
    <3>1. Exists(e)
      BY <2>1, StoreAssumption DEF ActiveOn, Exists
    <3> QED
      BY <2>1, <3>1 DEF FirstIsCreation
  <2>2. CASE Insert(e, t)
    BY <2>2, InsertFirst
  <2> QED
    BY <2>1, <2>2 DEF JoinOrInsert
<1> QED
  BY <1>1 DEF Row, KindNamed

\* The event a first retraction names is the one it appends, never the first.
LEMMA WithdrawNames ==
  ASSUME StoreInvariant, FirstIsCreation, NEW e \in EventIds, Withdraw(e)
  PROVE  /\ Len(events[e]) + 1 \in DOMAIN events'[e]
         /\ Len(events[e]) + 1 # 1
         /\ events'[e][Len(events[e]) + 1].kind = "action_retracted"
<1> DEFINE ev == Plain("action_retracted")
<1>1. ev \in Events /\ ev.kind = "action_retracted"
  BY PlainType DEF SystemEvents, Plain
<1>2. TypeOK /\ Exists(e) /\ Appended(e, ev)
  BY DEF Withdraw, StoreInvariant
<1>3. 1 \in DOMAIN events[e]
  BY <1>2 DEF FirstIsCreation
<1> HIDE DEF ev
<1>4. /\ DOMAIN events'[e] = 1..(Len(events[e]) + 1)
      /\ events'[e][Len(events[e]) + 1] = ev
  BY <1>1, <1>2, AppendedEffect
<1> QED
  BY <1>1, <1>2, <1>3, <1>4, EventsType

\* create_action, create_action(restart_retracted=True) and begin_host_click.
LEMMA CreationRows ==
  ASSUME RowsInvariant, Effect, NEW key \in Keys, NEW t \in Targets, NEW c \in Contracts,
         NEW e \in EventIds, JoinOrInsert(t, c, e),
         idempotency' = Saved(key, Row("create", t, c, e, 1))
  PROVE  RowsNamed'
  BY CreatingNames, RowWritten DEF RowsInvariant, StoreInvariant

\* retract_action names the retraction, its own or the one before it.
LEMMA RetractRows ==
  ASSUME RowsInvariant, Effect, NEW key \in Keys, NEW e \in EventIds, RetractAction(key, e)
  PROVE  RowsNamed'
<1> TypeOK
  BY DEF RowsInvariant, StoreInvariant
<1>1. CASE /\ Withdraw(e)
           /\ idempotency' = Saved(key, Row("retract", None, "none", e, Len(events[e]) + 1))
  <2> DEFINE n == Len(events[e]) + 1
  <2>1. n \in DOMAIN events'[e] /\ events'[e][n].kind = "action_retracted"
    BY <1>1, WithdrawNames DEF RowsInvariant
  <2> HIDE DEF n
  <2>2. PICK row : row = Row("retract", None, "none", e, n)
    OBVIOUS
  <2>3. /\ row.event \in EventIds /\ row.record \in DOMAIN events'[row.event]
        /\ events'[row.event][row.record].kind = KindNamed(row.operation, row.record)
    BY <2>1, <2>2 DEF Row, KindNamed
  <2>4. idempotency' = Saved(key, row)
    BY <1>1, <2>2 DEF n
  <2> QED
    BY <2>3, <2>4, RowWritten DEF RowsInvariant
<1>2. ASSUME NEW i \in DOMAIN events[e], FirstRetractionAt(e, i),
             idempotency' = Saved(key, Row("retract", None, "none", e, i))
      PROVE  RowsNamed'
  <2>1. i \in DOMAIN events'[e] /\ events'[e][i].kind = "action_retracted"
    BY <1>2, HistoryKept DEF FirstRetractionAt
  <2>2. PICK row : row = Row("retract", None, "none", e, i)
    OBVIOUS
  <2>3. /\ row.event \in EventIds /\ row.record \in DOMAIN events'[row.event]
        /\ events'[row.event][row.record].kind = KindNamed(row.operation, row.record)
    BY <2>1, <2>2 DEF Row, KindNamed
  <2> QED
    BY <1>2, <2>2, <2>3, RowWritten DEF RowsInvariant
<1> QED
  BY <1>1, <1>2 DEF RetractAction

\* toggle_action writes two rows, of the toggle and of what it did.
LEMMA ToggleRows ==
  ASSUME RowsInvariant, Effect, NEW k \in ClientKeys, NEW t \in Targets,
         NEW e \in EventIds, ToggleAction(k, t, e)
  PROVE  RowsNamed'
<1> TypeOK
  BY DEF RowsInvariant, StoreInvariant
<1> USE DEF RowsInvariant
<1>1. /\ ClientKey(k) \in Keys /\ ToggleRetract(k) \in Keys /\ ToggleCreate(k) \in Keys
      /\ ClientKey(k) # ToggleRetract(k) /\ ClientKey(k) # ToggleCreate(k)
  BY DEF Keys, ClientKey, ToggleRetract, ToggleCreate
<1>2. ASSUME NEW inner \in Keys, inner # ClientKey(k), NEW row1, NEW row2,
             row1.event = e, row2.event = e, row2.record = row1.record,
             row1.record \in DOMAIN events'[e],
             events'[e][row1.record].kind = KindNamed(row1.operation, row1.record),
             events'[e][row1.record].kind = KindNamed(row2.operation, row1.record),
             idempotency' = [Saved(inner, row1) EXCEPT ![ClientKey(k)] = row2]
      PROVE  RowsNamed'
  <2>1. idempotency'[ClientKey(k)] = row2 /\ idempotency'[inner] = row1
    BY <1>1, <1>2 DEF Saved, TypeOK
  <2>2. \A other \in Keys \ {inner, ClientKey(k)} : idempotency'[other] = idempotency[other]
    BY <1>1, <1>2 DEF Saved, TypeOK
  <2> SUFFICES ASSUME NEW other \in Keys PROVE (Unused(other) \/ Named(idempotency[other]))'
    BY DEF RowsNamed
  <2>3. CASE other = ClientKey(k)
    BY <1>2, <2>1, <2>3 DEF Named
  <2>4. CASE other = inner
    BY <1>2, <2>1, <2>4 DEF Named
  <2>5. CASE other \notin {inner, ClientKey(k)}
    BY <2>2, <2>5, HistoryKept DEF RowsNamed, Named, Unused
  <2> QED
    BY <2>3, <2>4, <2>5
<1>3. CASE /\ Withdraw(e)
           /\ idempotency' =
                [Saved(ToggleRetract(k), Row("retract", None, "none", e, Len(events[e]) + 1))
                   EXCEPT ![ClientKey(k)] = Row("toggle", t, "manual-v1", e, Len(events[e]) + 1)]
  <2> DEFINE n == Len(events[e]) + 1
  <2>1. n \in DOMAIN events'[e] /\ n # 1 /\ events'[e][n].kind = "action_retracted"
    BY <1>3, WithdrawNames
  <2> HIDE DEF n
  <2>2. PICK row1 : row1 = Row("retract", None, "none", e, n)
    OBVIOUS
  <2>3. PICK row2 : row2 = Row("toggle", t, "manual-v1", e, n)
    OBVIOUS
  <2>4. /\ row1.event = e /\ row2.event = e /\ row1.record = n /\ row2.record = n
        /\ events'[e][n].kind = KindNamed(row1.operation, n)
        /\ events'[e][n].kind = KindNamed(row2.operation, n)
    BY <2>1, <2>2, <2>3 DEF Row, KindNamed
  <2>5. idempotency' = [Saved(ToggleRetract(k), row1) EXCEPT ![ClientKey(k)] = row2]
    BY <1>3, <2>2, <2>3 DEF n
  <2> QED
    BY <1>1, <1>2, <2>1, <2>4, <2>5
<1>4. CASE /\ Insert(e, t)
           /\ idempotency' =
                [Saved(ToggleCreate(k), Row("create", t, "manual-v1", e, 1))
                   EXCEPT ![ClientKey(k)] = Row("toggle", t, "manual-v1", e, 1)]
  <2>1. /\ 1 \in DOMAIN events'[e]
        /\ events'[e][1].kind = "negative_feedback_action_recorded"
    BY <1>4, InsertFirst
  <2>2. PICK row1 : row1 = Row("create", t, "manual-v1", e, 1)
    OBVIOUS
  <2>3. PICK row2 : row2 = Row("toggle", t, "manual-v1", e, 1)
    OBVIOUS
  <2>4. /\ row1.event = e /\ row2.event = e /\ row1.record = 1 /\ row2.record = 1
        /\ events'[e][1].kind = KindNamed(row1.operation, 1)
        /\ events'[e][1].kind = KindNamed(row2.operation, 1)
    BY <2>1, <2>2, <2>3 DEF Row, KindNamed
  <2>5. idempotency' = [Saved(ToggleCreate(k), row1) EXCEPT ![ClientKey(k)] = row2]
    BY <1>4, <2>2, <2>3
  <2> QED
    BY <1>1, <1>2, <2>1, <2>4, <2>5
<1> QED
  BY <1>3, <1>4 DEF ToggleAction

\* record_user_action names the answer it appends.
LEMMA ResponseRows ==
  ASSUME RowsInvariant, Effect, NEW key \in Keys, NEW e \in EventIds,
         NEW kind \in UserActions, NEW reason \in Reasons \cup {None}, NEW d \in Displays,
         RecordUserAction(key, e, kind, reason, d)
  PROVE  RowsNamed'
<1> TypeOK
  BY DEF RowsInvariant, StoreInvariant
<1>1. PICK i \in DOMAIN events[e] :
        LET ev == Response(kind, reason, d, events[e][i].ui, events[e][i].mode)
        IN ev \in Events /\ Recording(e, ev)
  BY ResponseEffect
<1>2. PICK ev \in Events : ev.kind = kind /\ Appended(e, ev)
  BY <1>1 DEF Recording, Response, Plain
<1>3. PICK n \in Nat : n = Len(events[e]) + 1
  BY EventsType
<1>4. n \in DOMAIN events'[e] /\ events'[e][n].kind = kind
  BY <1>2, <1>3, AppendedEffect, EventsType
<1>5. PICK row : row = Row(kind, None, "none", e, n)
  OBVIOUS
<1>6. idempotency' = Saved(key, row)
  BY <1>3, <1>5 DEF RecordUserAction
<1>7. KindNamed(kind, n) = kind
  BY DEF KindNamed, UserActions, ReasonActions, ManualOperations
<1>8. /\ row.event \in EventIds /\ row.record \in DOMAIN events'[row.event]
      /\ events'[row.event][row.record].kind = KindNamed(row.operation, row.record)
  BY <1>4, <1>5, <1>7 DEF Row
<1> QED
  BY <1>6, <1>8, RowWritten DEF RowsInvariant

\* Every transaction leaves every row naming its event.
LEMMA NextRows == RowsInvariant /\ [Next]_storeVars => RowsInvariant'
<1> SUFFICES ASSUME RowsInvariant, [Next]_storeVars PROVE RowsInvariant'
  OBVIOUS
<1>1. StoreInvariant /\ TypeOK /\ Effect /\ StoreInvariant'
  BY StepEffects, NextInvariant DEF RowsInvariant, StoreInvariant
<1>2. FirstIsCreation'
  BY <1>1, FirstKept DEF RowsInvariant
<1>3. RowsNamed'
  <2>1. CASE Create
    BY <1>1, <2>1, CreationRows, KeysType DEF Create, CreateAction
  <2>2. CASE Generation
    <3>1. PICK k \in ClientKeys, t \in Targets, e \in EventIds : CreateGeneration(k, t, e)
      BY <2>2 DEF Generation
    <3>2. PICK key \in Generations(k) :
            /\ JoinOrInsert(t, "manual-v1", e)
            /\ idempotency' = Saved(key, Row("create", t, "manual-v1", e, 1))
      BY <3>1 DEF CreateGeneration
    <3>3. key \in Keys
      BY KeysType DEF Generations
    <3> QED
      BY <1>1, <3>2, <3>3, CreationRows DEF Contracts
  <2>3. CASE BeginClick
    BY <1>1, <2>3, CreationRows, KeysType DEF BeginClick, BeginHostClick, Contracts
  <2>4. CASE Retract
    BY <1>1, <2>4, RetractRows, KeysType DEF Retract
  <2>5. CASE Toggle
    BY <1>1, <2>5, ToggleRows DEF Toggle
  <2>6. CASE Respond
    BY <1>1, <2>6, ResponseRows, KeysType DEF Respond
  <2>7. CASE UNCHANGED idempotency
    BY <1>1, <2>7, RowsKept DEF RowsInvariant
  <2> QED
    BY <2>1, <2>2, <2>3, <2>4, <2>5, <2>6, <2>7
       DEF Next, Deadline, SetHostClickDeadline, IssueTicket, IssueDisplayTicket,
           ShowDisplay, RecordDisplay, Gate, FinishGateMessage, storeVars
<1> QED
  BY <1>1, <1>2, <1>3 DEF RowsInvariant

\* The event a used row names stays where it is.
LEMMA NamedKept ==
  ASSUME RowsInvariant, Effect, NEW key \in Keys, ~Unused(key)
  PROVE  events'[idempotency[key].event][idempotency[key].record]
           = events[idempotency[key].event][idempotency[key].record]
<1>1. Named(idempotency[key])
  BY DEF RowsInvariant, RowsNamed
<1> QED
  BY <1>1, HistoryKept DEF RowsInvariant, StoreInvariant, Named

\* A row written under an unused key, beside rows that stay.
LEMMA OneRowStep ==
  ASSUME RowsInvariant, Effect, NEW key \in Keys, Unused(key), NEW row,
         idempotency' = Saved(key, row), NamesAppended(row) \/ NamesEarlier(row)
  PROVE  RowsStep
<1>1. /\ idempotency'[key] = row
      /\ \A other \in Keys \ {key} : idempotency'[other] = idempotency[other]
  BY DEF Saved, RowsInvariant, StoreInvariant, TypeOK
<1> SUFFICES ASSUME NEW other \in Keys
             PROVE  /\ ~Unused(other) =>
                         /\ idempotency'[other] = idempotency[other]
                         /\ events'[idempotency'[other].event][idempotency'[other].record]
                              = events[idempotency'[other].event][idempotency'[other].record]
                    /\ RowIsNew(other) => \/ NamesAppended(idempotency'[other])
                                          \/ NamesEarlier(idempotency'[other])
  BY DEF RowsStep
<1>2. CASE other = key
  BY <1>1, <1>2
<1>3. CASE other # key
  BY <1>1, <1>3, NamedKept DEF RowIsNew, Unused
<1> QED
  BY <1>2, <1>3

\* Two rows written under unused keys, beside rows that stay.
LEMMA TwoRowsStep ==
  ASSUME RowsInvariant, Effect, NEW key1 \in Keys, Unused(key1), NEW key2 \in Keys, Unused(key2),
         key1 # key2, NEW row1, NEW row2,
         idempotency' = [Saved(key1, row1) EXCEPT ![key2] = row2],
         NamesAppended(row1), NamesAppended(row2)
  PROVE  RowsStep
<1>1. /\ idempotency'[key1] = row1 /\ idempotency'[key2] = row2
      /\ \A other \in Keys \ {key1, key2} : idempotency'[other] = idempotency[other]
  BY DEF Saved, RowsInvariant, StoreInvariant, TypeOK
<1> SUFFICES ASSUME NEW other \in Keys
             PROVE  /\ ~Unused(other) =>
                         /\ idempotency'[other] = idempotency[other]
                         /\ events'[idempotency'[other].event][idempotency'[other].record]
                              = events[idempotency'[other].event][idempotency'[other].record]
                    /\ RowIsNew(other) => \/ NamesAppended(idempotency'[other])
                                          \/ NamesEarlier(idempotency'[other])
  BY DEF RowsStep
<1>2. CASE other \in {key1, key2}
  BY <1>1, <1>2
<1>3. CASE other \notin {key1, key2}
  BY <1>1, <1>3, NamedKept DEF RowIsNew, Unused
<1> QED
  BY <1>2, <1>3

\* No row is written.
LEMMA NoRowStep ==
  ASSUME RowsInvariant, Effect, UNCHANGED idempotency
  PROVE  RowsStep
  BY NamedKept DEF RowsStep, RowIsNew, Unused

\* A row with the place and the kind of the one event appended names it.
LEMMA AppendNamed ==
  ASSUME TypeOK, NEW e \in EventIds, NEW ev \in Events, NEW row,
         events' = [events EXCEPT ![e] = Append(@, ev)],
         row.event = e, row.record = Len(events[e]) + 1,
         ev.kind = KindNamed(row.operation, Len(events[e]) + 1),
         row.target = None \/ actions'[e] = row.target
  PROVE  NamesAppended(row)
<1>1. /\ events[e] \in Seq(Events) /\ Len(events[e]) \in Nat
      /\ events'[e] = Append(events[e], ev)
  BY EventsType DEF TypeOK
<1>2. Len(events'[e]) = Len(events[e]) + 1 /\ events'[e][Len(events[e]) + 1] = ev
  BY <1>1
<1> QED
  BY <1>2 DEF NamesAppended

\* create_action, create_action(restart_retracted=True) and begin_host_click.
LEMMA CreationStep ==
  ASSUME RowsInvariant, Effect, NEW key \in Keys, NEW t \in Targets, NEW c \in Contracts,
         NEW e \in EventIds, JoinOrInsert(t, c, e), Unused(key),
         idempotency' = Saved(key, Row("create", t, c, e, 1))
  PROVE  RowsStep
<1> DEFINE row == Row("create", t, c, e, 1)
<1>1. /\ row.event = e /\ row.record = 1 /\ row.operation = "create"
      /\ row.target = t /\ row.contract = c
  BY DEF Row
<1>2. TypeOK
  BY DEF RowsInvariant, StoreInvariant
<1>3. NamesAppended(row) \/ NamesEarlier(row)
  <2>1. CASE /\ c = "manual-v1" /\ ActiveOn(t) = {e}
             /\ UNCHANGED <<actions, events, view, outbox>>
    BY <1>1, <2>1 DEF NamesEarlier
  <2>2. CASE Insert(e, t)
    <3> DEFINE ev == Plain("negative_feedback_action_recorded")
    <3>1. ev \in Events /\ ev.kind = KindNamed("create", 1)
      BY PlainType DEF SystemEvents, KindNamed, Plain
    <3>2. events[e] = << >> /\ actions'[e] = t
      BY <1>2, <2>2 DEF Insert, RowsInvariant, StoreInvariant, AbsentIsFresh, TypeOK
    <3>3. events' = [events EXCEPT ![e] = Append(@, ev)]
      BY <2>2 DEF Insert, Appended
    <3>4. Len(events[e]) + 1 = 1
      BY <3>2
    <3> HIDE DEF ev, row
    <3> QED
      BY <1>1, <1>2, <3>1, <3>2, <3>3, <3>4, AppendNamed
  <2> QED
    BY <2>1, <2>2 DEF JoinOrInsert
<1> QED
  BY <1>3, OneRowStep

\* A first retraction's row names the retraction, whichever operation it is of.
LEMMA WithdrawNamed ==
  ASSUME RowsInvariant, NEW e \in EventIds, Withdraw(e), UNCHANGED actions, NEW row,
         row.event = e, row.record = Len(events[e]) + 1,
         row.operation \in {"retract", "toggle"}, row.target = None \/ actions[e] = row.target
  PROVE  NamesAppended(row)
<1> DEFINE ev == Plain("action_retracted")
<1>1. ev \in Events /\ ev.kind = "action_retracted"
  BY PlainType DEF SystemEvents, Plain
<1>2. TypeOK /\ Exists(e) /\ events' = [events EXCEPT ![e] = Append(@, ev)]
  BY DEF Withdraw, Appended, RowsInvariant, StoreInvariant
<1>3. Len(events[e]) + 1 # 1
  BY <1>2, EventsType DEF RowsInvariant, FirstIsCreation
<1>4. ev.kind = KindNamed(row.operation, Len(events[e]) + 1)
  BY <1>1, <1>3 DEF KindNamed
<1> HIDE DEF ev
<1> QED
  BY <1>1, <1>2, <1>4, AppendNamed

\* retract_action, the first time and again.
LEMMA RetractStep ==
  ASSUME RowsInvariant, Effect, NEW key \in Keys, NEW e \in EventIds, RetractAction(key, e)
  PROVE  RowsStep
<1>1. Unused(key) /\ UNCHANGED actions
  BY DEF RetractAction
<1>2. CASE /\ Withdraw(e)
           /\ idempotency' = Saved(key, Row("retract", None, "none", e, Len(events[e]) + 1))
  <2>1. PICK row : row = Row("retract", None, "none", e, Len(events[e]) + 1)
    OBVIOUS
  <2>2. /\ row.event = e /\ row.record = Len(events[e]) + 1
        /\ row.operation = "retract" /\ row.target = None
    BY <2>1 DEF Row
  <2>3. NamesAppended(row)
    BY <1>1, <1>2, <2>2, WithdrawNamed
  <2>4. idempotency' = Saved(key, row)
    BY <1>2, <2>1
  <2> QED
    BY <1>1, <2>3, <2>4, OneRowStep
<1>3. ASSUME NEW i \in DOMAIN events[e], FirstRetractionAt(e, i), UNCHANGED events,
             idempotency' = Saved(key, Row("retract", None, "none", e, i))
      PROVE  RowsStep
  <2>1. PICK row : row = Row("retract", None, "none", e, i)
    OBVIOUS
  <2>2. row.event = e /\ row.record = i /\ row.operation = "retract"
    BY <2>1 DEF Row
  <2>3. NamesEarlier(row)
    BY <1>1, <1>3, <2>2 DEF NamesEarlier
  <2>4. idempotency' = Saved(key, row)
    BY <1>3, <2>1
  <2> QED
    BY <1>1, <2>3, <2>4, OneRowStep
<1> QED
  BY <1>2, <1>3 DEF RetractAction

\* toggle_action: the row of the toggle and the row of what it did.
LEMMA ToggleStep ==
  ASSUME RowsInvariant, Effect, NEW k \in ClientKeys, NEW t \in Targets,
         NEW e \in EventIds, ToggleAction(k, t, e)
  PROVE  RowsStep
<1>1. /\ ClientKey(k) \in Keys /\ ToggleRetract(k) \in Keys /\ ToggleCreate(k) \in Keys
      /\ ClientKey(k) # ToggleRetract(k) /\ ClientKey(k) # ToggleCreate(k)
      /\ Unused(ClientKey(k)) /\ TypeOK
  BY DEF Keys, ClientKey, ToggleRetract, ToggleCreate, ToggleAction, RowsInvariant, StoreInvariant
<1>2. CASE /\ ActiveOn(t) = {e} /\ Unused(ToggleRetract(k)) /\ Withdraw(e) /\ UNCHANGED actions
           /\ idempotency' =
                [Saved(ToggleRetract(k), Row("retract", None, "none", e, Len(events[e]) + 1))
                   EXCEPT ![ClientKey(k)] = Row("toggle", t, "manual-v1", e, Len(events[e]) + 1)]
  <2>1. PICK row1 : row1 = Row("retract", None, "none", e, Len(events[e]) + 1)
    OBVIOUS
  <2>2. PICK row2 : row2 = Row("toggle", t, "manual-v1", e, Len(events[e]) + 1)
    OBVIOUS
  <2>3. actions[e] = t
    BY <1>2 DEF ActiveOn
  <2>4. NamesAppended(row1)
    <3>1. /\ row1.event = e /\ row1.record = Len(events[e]) + 1
          /\ row1.operation = "retract" /\ row1.target = None
      BY <2>1 DEF Row
    <3> QED
      BY <1>2, <3>1, WithdrawNamed
  <2>5. NamesAppended(row2)
    <3>1. /\ row2.event = e /\ row2.record = Len(events[e]) + 1
          /\ row2.operation = "toggle" /\ row2.target = t
      BY <2>2 DEF Row
    <3> QED
      BY <1>2, <2>3, <3>1, WithdrawNamed
  <2>6. idempotency' = [Saved(ToggleRetract(k), row1) EXCEPT ![ClientKey(k)] = row2]
    BY <1>2, <2>1, <2>2
  <2> QED
    BY <1>1, <1>2, <2>4, <2>5, <2>6, TwoRowsStep
<1>3. CASE /\ Unused(ToggleCreate(k)) /\ Insert(e, t)
           /\ idempotency' =
                [Saved(ToggleCreate(k), Row("create", t, "manual-v1", e, 1))
                   EXCEPT ![ClientKey(k)] = Row("toggle", t, "manual-v1", e, 1)]
  <2> DEFINE ev == Plain("negative_feedback_action_recorded")
  <2>1. /\ ev \in Events /\ ev.kind = KindNamed("create", 1) /\ ev.kind = KindNamed("toggle", 1)
    BY PlainType DEF SystemEvents, KindNamed, Plain
  <2>2. events[e] = << >> /\ actions'[e] = t
    BY <1>1, <1>3 DEF Insert, RowsInvariant, StoreInvariant, AbsentIsFresh, TypeOK
  <2>3. events' = [events EXCEPT ![e] = Append(@, ev)]
    BY <1>3 DEF Insert, Appended
  <2>4. Len(events[e]) + 1 = 1
    BY <2>2
  <2> HIDE DEF ev
  <2>5. PICK row1 : row1 = Row("create", t, "manual-v1", e, 1)
    OBVIOUS
  <2>6. PICK row2 : row2 = Row("toggle", t, "manual-v1", e, 1)
    OBVIOUS
  <2>7. NamesAppended(row1)
    <3>1. row1.event = e /\ row1.record = 1 /\ row1.operation = "create" /\ row1.target = t
      BY <2>5 DEF Row
    <3> QED
      BY <1>1, <2>1, <2>2, <2>3, <2>4, <3>1, AppendNamed
  <2>8. NamesAppended(row2)
    <3>1. row2.event = e /\ row2.record = 1 /\ row2.operation = "toggle" /\ row2.target = t
      BY <2>6 DEF Row
    <3> QED
      BY <1>1, <2>1, <2>2, <2>3, <2>4, <3>1, AppendNamed
  <2>9. idempotency' = [Saved(ToggleCreate(k), row1) EXCEPT ![ClientKey(k)] = row2]
    BY <1>3, <2>5, <2>6
  <2> QED
    BY <1>1, <1>3, <2>7, <2>8, <2>9, TwoRowsStep
<1> QED
  BY <1>2, <1>3 DEF ToggleAction

\* record_user_action under an unused key.
LEMMA ResponseStep ==
  ASSUME RowsInvariant, Effect, NEW key \in Keys, NEW e \in EventIds,
         NEW kind \in UserActions, NEW reason \in Reasons \cup {None}, NEW d \in Displays,
         RecordUserAction(key, e, kind, reason, d)
  PROVE  RowsStep
<1>1. TypeOK /\ Unused(key)
  BY DEF RowsInvariant, StoreInvariant, RecordUserAction
<1>2. PICK i \in DOMAIN events[e] :
        LET ev == Response(kind, reason, d, events[e][i].ui, events[e][i].mode)
        IN ev \in Events /\ Recording(e, ev)
  BY <1>1, ResponseEffect
<1>3. PICK ev \in Events : ev.kind = kind /\ events' = [events EXCEPT ![e] = Append(@, ev)]
  BY <1>2 DEF Recording, Response, Plain, Appended
<1>4. PICK row : row = Row(kind, None, "none", e, Len(events[e]) + 1)
  OBVIOUS
<1>5. /\ row.event = e /\ row.record = Len(events[e]) + 1
      /\ row.operation = kind /\ row.target = None
  BY <1>4 DEF Row
<1>6. KindNamed(kind, Len(events[e]) + 1) = kind
  BY DEF KindNamed, UserActions, ReasonActions, ManualOperations
<1>7. NamesAppended(row)
  BY <1>1, <1>3, <1>5, <1>6, AppendNamed
<1>8. idempotency' = Saved(key, row)
  BY <1>4 DEF RecordUserAction
<1> QED
  BY <1>1, <1>7, <1>8, OneRowStep

\* Every transaction keeps the rows and writes new ones for what it did.
LEMMA NextRowsStep ==
  ASSUME RowsInvariant, [Next]_storeVars
  PROVE  RowsStep
<1>1. Effect
  BY StepEffects DEF RowsInvariant, StoreInvariant
<1>2. CASE Create
  BY <1>1, <1>2, CreationStep, KeysType DEF Create, CreateAction
<1>3. CASE Generation
  <2>1. PICK k \in ClientKeys, t \in Targets, e \in EventIds : CreateGeneration(k, t, e)
    BY <1>3 DEF Generation
  <2>2. PICK key \in Generations(k) :
          /\ Unused(key) /\ JoinOrInsert(t, "manual-v1", e)
          /\ idempotency' = Saved(key, Row("create", t, "manual-v1", e, 1))
    BY <2>1 DEF CreateGeneration
  <2>3. key \in Keys
    BY KeysType DEF Generations
  <2> QED
    BY <1>1, <2>2, <2>3, CreationStep DEF Contracts
<1>4. CASE BeginClick
  BY <1>1, <1>4, CreationStep, KeysType DEF BeginClick, BeginHostClick, Contracts
<1>5. CASE Retract
  BY <1>1, <1>5, RetractStep, KeysType DEF Retract
<1>6. CASE Toggle
  BY <1>1, <1>6, ToggleStep DEF Toggle
<1>7. CASE Respond
  BY <1>1, <1>7, ResponseStep, KeysType DEF Respond
<1>8. CASE UNCHANGED idempotency
  BY <1>1, <1>8, NoRowStep
<1> QED
  BY <1>2, <1>3, <1>4, <1>5, <1>6, <1>7, <1>8
     DEF Next, Deadline, SetHostClickDeadline, IssueTicket, IssueDisplayTicket,
         ShowDisplay, RecordDisplay, Gate, FinishGateMessage, storeVars

\* A row once written never changes, nor does the event it names, and when it is
\* written that event is the one its own transaction appended, or the beginning or
\* the retraction it found (store.py:239-264, 365-411, 555-608).
THEOREM RowsAlwaysKeep == Spec => RowsKeepTheirRequest
<1>1. Init => RowsInvariant
  BY InitInvariant, InitRows DEF RowsInvariant
<1>2. RowsInvariant /\ [Next]_storeVars => RowsInvariant'
  BY NextRows
<1>3. RowsInvariant /\ [Next]_storeVars => [RowsStep]_storeVars
  BY NextRowsStep
<1> QED
  BY <1>1, <1>2, <1>3, PTL DEF Spec, RowsKeepTheirRequest

-----------------------------------------------------------------------------
(* Refinement of FeedbackContract *)

\* An action that exists begins with its creation: it is open in the contract.
RefinementInvariant == StoreInvariant /\ FirstIsCreation

AllFacts == {Fact(ev) : ev \in Events}

\* The facts of a sequence of events are a sequence, an entry for each event.
LEMMA FactsType ==
  ASSUME NEW evs \in Seq(Events)
  PROVE  /\ Facts(evs) \in Seq(AllFacts)
         /\ Len(Facts(evs)) = Len(evs)
         /\ DOMAIN Facts(evs) = DOMAIN evs
         /\ \A i \in DOMAIN evs : Facts(evs)[i] = Fact(evs[i])
<1>1. DOMAIN evs = 1..Len(evs) /\ Len(evs) \in Nat
  OBVIOUS
<1>2. \A i \in 1..Len(evs) : Fact(evs[i]) \in AllFacts
  BY <1>1 DEF AllFacts
<1>3. Facts(evs) = [i \in 1..Len(evs) |-> Fact(evs[i])]
  BY <1>1 DEF Facts
<1> QED
  BY <1>1, <1>2, <1>3

\* One event more is one entry more.
LEMMA FactsAppend ==
  ASSUME NEW evs \in Seq(Events), NEW ev \in Events
  PROVE  Facts(Append(evs, ev)) = Append(Facts(evs), Fact(ev))
<1>1. /\ Append(evs, ev) \in Seq(Events)
      /\ Len(Append(evs, ev)) = Len(evs) + 1
      /\ \A i \in 1..Len(evs) : Append(evs, ev)[i] = evs[i]
      /\ Append(evs, ev)[Len(evs) + 1] = ev
      /\ Len(evs) \in Nat /\ DOMAIN evs = 1..Len(evs)
  BY AppendProperties
<1>2. PICK more \in Seq(Events) : more = Append(evs, ev)
  BY <1>1
<1>3. PICK n \in Nat : n = Len(evs)
  BY <1>1
<1>4. /\ Len(more) = n + 1 /\ DOMAIN more = 1..(n + 1) /\ more[n + 1] = ev
      /\ \A i \in 1..n : more[i] = evs[i]
  BY <1>1, <1>2, <1>3
<1>5. Fact(ev) \in AllFacts
  BY DEF AllFacts
<1>6. PICK facts \in Seq(AllFacts) : facts = Facts(evs)
  BY FactsType
<1>7. Len(facts) = n /\ \A i \in 1..n : facts[i] = Fact(evs[i])
  BY <1>1, <1>3, <1>6, FactsType
<1>8. PICK new \in AllFacts : new = Fact(ev)
  BY <1>5
<1>9. /\ Append(facts, new) \in Seq(AllFacts)
      /\ Len(Append(facts, new)) = n + 1
      /\ \A i \in 1..n : Append(facts, new)[i] = facts[i]
      /\ Append(facts, new)[n + 1] = new
  BY <1>7, AppendProperties
<1>10. PICK longer \in Seq(AllFacts) : longer = Facts(more)
  BY FactsType
<1>11. Len(longer) = n + 1 /\ \A i \in 1..(n + 1) : longer[i] = Fact(more[i])
  BY <1>4, <1>10, FactsType
<1>12. \A i \in 1..(n + 1) : longer[i] = Append(facts, new)[i]
  <2> SUFFICES ASSUME NEW i \in 1..(n + 1) PROVE longer[i] = Append(facts, new)[i]
    OBVIOUS
  <2>1. CASE i = n + 1
    BY <1>4, <1>8, <1>9, <1>11, <2>1
  <2>2. CASE i # n + 1
    <3>1. i \in 1..n
      BY <2>2
    <3> QED
      BY <1>4, <1>7, <1>9, <1>11, <3>1
  <2> QED
    BY <2>1, <2>2
<1>13. longer = Append(facts, new)
  BY <1>9, <1>11, <1>12, SeqEqual
<1> QED
  BY <1>2, <1>6, <1>8, <1>10, <1>13

\* So the log of an action is a sequence, an entry for each event.
LEMMA LogType ==
  ASSUME TypeOK, NEW e \in EventIds
  PROVE  /\ DOMAIN Log[e] = DOMAIN events[e]
         /\ \A i \in DOMAIN events[e] : Log[e][i] = Fact(events[e][i])
  BY EventsType, FactsType DEF Log

\* What is said of each event the store appends.
LEMMA FactOf ==
  ASSUME NEW ev
  PROVE  /\ ev.kind = "negative_feedback_action_recorded" => Fact(ev) = Contract!Opened
         /\ ev.kind = "action_retracted" <=> Fact(ev).what = "withdrawn"
         /\ ev.kind = "action_retracted" => Fact(ev) = Contract!Withdrawn
         /\ ev.kind = "inference_gate_decided" <=> Fact(ev).what = "decided"
         /\ ev.kind = "inference_gate_decided" => Fact(ev) = Contract!Decided
         /\ ev.kind = "inference_abstained" => Fact(ev) = Contract!Abstained
         /\ ev.kind = "reason_displayed" <=> Fact(ev).what = "shown"
         /\ ev.kind = "reason_displayed" => Fact(ev) = Contract!Shown(ev.display)
         /\ ev.kind \in UserActions <=> Fact(ev).what = "answered"
         /\ ev.kind \in UserActions => Fact(ev) = Contract!Answered(ev.display)
  BY DEF Fact, UserActions, ReasonActions, ManualOperations, Contract!Opened,
         Contract!Withdrawn, Contract!Decided, Contract!Abstained, Contract!Shown,
         Contract!Answered

\* The log of an action follows its events.
LEMMA LogFollows ==
  ASSUME TypeOK, NEW e \in EventIds, NEW longer, events' = [events EXCEPT ![e] = longer]
  PROVE  Log' = [Log EXCEPT ![e] = Facts(longer)]
<1>1. events'[e] = longer /\ \A f \in EventIds \ {e} : events'[f] = events[f]
  BY DEF TypeOK
<1>2. Log' = [f \in EventIds |-> Facts(events'[f])]
  BY DEF Log
<1>3. [Log EXCEPT ![e] = Facts(longer)]
        = [f \in EventIds |-> IF f = e THEN Facts(longer) ELSE Facts(events[f])]
  BY DEF Log
<1>4. \A f \in EventIds :
        Facts(events'[f]) = IF f = e THEN Facts(longer) ELSE Facts(events[f])
  BY <1>1
<1> QED
  BY <1>2, <1>3, <1>4

\* An event appended is an entry appended, and two are two.
LEMMA LogAppended ==
  ASSUME TypeOK, NEW e \in EventIds, NEW ev \in Events,
         events' = [events EXCEPT ![e] = Append(@, ev)]
  PROVE  Log' = [Log EXCEPT ![e] = Append(@, Fact(ev))]
<1>1. Facts(Append(events[e], ev)) = Append(Facts(events[e]), Fact(ev))
  BY EventsType, FactsAppend
<1>2. Log' = [Log EXCEPT ![e] = Facts(Append(events[e], ev))]
  BY LogFollows
<1> QED
  BY <1>1, <1>2 DEF Log

LEMMA LogAppendedTwice ==
  ASSUME TypeOK, NEW e \in EventIds, NEW ev1 \in Events, NEW ev2 \in Events,
         events' = [events EXCEPT ![e] = Append(Append(@, ev1), ev2)]
  PROVE  Log' = [Log EXCEPT ![e] = Append(Append(@, Fact(ev1)), Fact(ev2))]
<1>1. events[e] \in Seq(Events) /\ Append(events[e], ev1) \in Seq(Events)
  BY EventsType, AppendProperties
<1>2. Facts(Append(Append(events[e], ev1), ev2)) =
        Append(Append(Facts(events[e]), Fact(ev1)), Fact(ev2))
  BY <1>1, FactsAppend
<1>3. Log' = [Log EXCEPT ![e] = Facts(Append(Append(events[e], ev1), ev2))]
  BY LogFollows
<1> QED
  BY <1>2, <1>3 DEF Log

\* The empty database is the contract's initial state.
LEMMA InitRefines == Init => Contract!Init
<1> SUFFICES ASSUME Init PROVE Contract!Init
  OBVIOUS
<1>1. \A e \in EventIds : Log[e] = << >>
  BY DEF Init, Log, Facts
<1>2. Log = [e \in EventIds |-> << >>]
  BY <1>1 DEF Log
<1> QED
  BY <1>2 DEF Contract!Init, Init

\* An active action is live in the contract.
LEMMA ActiveIsLive ==
  ASSUME RefinementInvariant, NEW e \in EventIds, Exists(e), ~Retracted(e)
  PROVE  Contract!Live(e)
<1> TypeOK
  BY DEF RefinementInvariant, StoreInvariant
<1>1. Contract!Said(e, Contract!Opened)
  <2>1. 1 \in DOMAIN events[e] /\ events[e][1].kind = "negative_feedback_action_recorded"
    BY DEF RefinementInvariant, FirstIsCreation
  <2>2. Fact(events[e][1]) = Contract!Opened
    BY <2>1, FactOf
  <2> QED
    BY <2>1, <2>2, LogType DEF Contract!Said
<1>2. ~Contract!Said(e, Contract!Withdrawn)
  <2> SUFFICES ASSUME NEW i \in DOMAIN Log[e], Log[e][i] = Contract!Withdrawn PROVE FALSE
    BY DEF Contract!Said
  <2>1. i \in DOMAIN events[e] /\ Fact(events[e][i]) = Contract!Withdrawn
    BY LogType
  <2>2. events[e][i].kind = "action_retracted"
    BY <2>1, FactOf DEF Contract!Withdrawn
  <2> QED
    BY <2>1, <2>2 DEF RefinementInvariant, StoreInvariant, ViewRemembers
<1> QED
  BY <1>1, <1>2 DEF Contract!Live

\* A new action is one Open of the contract.
LEMMA InsertRefines ==
  ASSUME RefinementInvariant, NEW e \in EventIds, NEW t \in Targets, Insert(e, t)
  PROVE  Contract!Open(e, t)
<1> DEFINE ev == Plain("negative_feedback_action_recorded")
<1>1. ev \in Events /\ ev.kind = "negative_feedback_action_recorded"
  BY PlainType DEF SystemEvents
<1>2. /\ ~Exists(e)
      /\ events' = [events EXCEPT ![e] = Append(@, ev)]
      /\ actions' = [actions EXCEPT ![e] = t]
  BY DEF Insert, Appended
<1> HIDE DEF ev
<1>3. TypeOK /\ events[e] = << >>
  BY <1>2 DEF RefinementInvariant, StoreInvariant, AbsentIsFresh
<1>4. Fact(ev) = Contract!Opened
  BY <1>1, FactOf
<1>5. Log' = [Log EXCEPT ![e] = Append(@, Contract!Opened)]
  BY <1>1, <1>2, <1>3, <1>4, LogAppended
<1>6. Log[e] = << >>
  BY <1>3 DEF Log, Facts
<1>7. Log' = [Log EXCEPT ![e] = <<Contract!Opened>>]
  <2>1. Append(<< >>, Contract!Opened) = <<Contract!Opened>>
    OBVIOUS
  <2> QED
    BY <1>5, <1>6, <2>1
<1> QED
  BY <1>2, <1>6, <1>7 DEF Contract!Open

\* A retraction is one Withdraw of the contract.
LEMMA WithdrawRefines ==
  ASSUME RefinementInvariant, NEW e \in EventIds, Withdraw(e), UNCHANGED actions
  PROVE  Contract!Withdraw(e)
<1> DEFINE ev == Plain("action_retracted")
<1>1. ev \in Events /\ ev.kind = "action_retracted"
  BY PlainType DEF SystemEvents
<1>2. /\ Exists(e) /\ ~Retracted(e)
      /\ events' = [events EXCEPT ![e] = Append(@, ev)]
  BY DEF Withdraw, Appended
<1> HIDE DEF ev
<1>3. Log' = [Log EXCEPT ![e] = Append(@, Contract!Withdrawn)]
  BY <1>1, <1>2, FactOf, LogAppended DEF RefinementInvariant, StoreInvariant
<1> QED
  BY <1>2, <1>3, ActiveIsLive DEF Contract!Withdraw, Contract!Tell

\* A recorded decision is one Decide of the contract.
LEMMA DecideRefines ==
  ASSUME RefinementInvariant, Deciding
  PROVE  \E e \in EventIds : Contract!Decide(e)
<1> TypeOK
  BY DEF RefinementInvariant, StoreInvariant
<1>1. PICK i \in DOMAIN outbox, s \in AllSignals :
        /\ PendingGate(i) /\ Undecided(outbox[i].event)
        /\ Decided(outbox[i].event, s)
        /\ UNCHANGED actions
  BY DEF Deciding
<1>2. PICK e \in EventIds : e = outbox[i].event
  BY OutboxType
<1>3. Exists(e) /\ Undecided(e) /\ Decided(e, s)
  BY <1>1, <1>2 DEF RefinementInvariant, StoreInvariant, OutboxMirrorsActions, Sent, PendingGate
<1>4. Contract!Live(e)
  BY <1>3, ActiveIsLive DEF Undecided, Retracted
<1>5. ~Contract!Said(e, Contract!Decided)
  <2> SUFFICES ASSUME NEW j \in DOMAIN Log[e], Log[e][j] = Contract!Decided PROVE FALSE
    BY DEF Contract!Said
  <2>1. j \in DOMAIN events[e] /\ Fact(events[e][j]) = Contract!Decided
    BY LogType
  <2>2. events[e][j].kind = "inference_gate_decided"
    BY <2>1, FactOf DEF Contract!Decided
  <2> QED
    BY <1>3, <2>1, <2>2 DEF RefinementInvariant, StoreInvariant, ViewRemembers, Undecided
<1> DEFINE decided == [Plain("inference_gate_decided") EXCEPT !.gate = Decision(s)]
           abstained == Plain("inference_abstained")
<1>6. /\ decided \in Events /\ decided.kind = "inference_gate_decided"
      /\ abstained \in Events /\ abstained.kind = "inference_abstained"
  BY DEF Plain, Events, SystemEvents, DisplayModes, UIVersions, Decisions
<1>7. Fact(decided) = Contract!Decided /\ Fact(abstained) = Contract!Abstained
  <2> HIDE DEF decided, abstained
  <2> QED
    BY <1>6, FactOf
<1>8. \/ events' = [events EXCEPT ![e] = Append(@, decided)]
      \/ events' = [events EXCEPT ![e] = Append(Append(@, decided), abstained)]
  BY <1>3 DEF Decided, Appended
<1> HIDE DEF decided, abstained
<1>9. CASE events' = [events EXCEPT ![e] = Append(@, decided)]
  <2>1. Log' = [Log EXCEPT ![e] = Append(@, Contract!Decided)]
    BY <1>6, <1>7, <1>9, LogAppended
  <2> QED
    BY <1>1, <1>4, <1>5, <2>1 DEF Contract!Decide, Contract!Tell
<1>10. CASE events' = [events EXCEPT ![e] = Append(Append(@, decided), abstained)]
  <2>1. Log' = [Log EXCEPT ![e] = Append(Append(@, Contract!Decided), Contract!Abstained)]
    BY <1>6, <1>7, <1>10, LogAppendedTwice
  <2> QED
    BY <1>1, <1>4, <1>5, <2>1 DEF Contract!Decide
<1> QED
  BY <1>8, <1>9, <1>10

\* A display is one Show of the contract, an answer one Answer.
LEMMA RecordRefines ==
  ASSUME RefinementInvariant, NEW e \in EventIds, NEW ev \in Events, Recording(e, ev)
  PROVE  \E d \in Displays : Contract!Show(e, d) \/ Contract!Answer(e, d)
<1> TypeOK
  BY DEF RefinementInvariant, StoreInvariant
<1>1. /\ IsActive(e) /\ ev.display \in Displays
      /\ events' = [events EXCEPT ![e] = Append(@, ev)] /\ UNCHANGED actions
  BY DEF Recording, Appended
<1>2. Contract!Live(e)
  BY <1>1, ActiveIsLive DEF IsActive, Retracted
<1>3. Log' = [Log EXCEPT ![e] = Append(@, Fact(ev))]
  BY <1>1, LogAppended
<1>4. CASE ev.kind = "reason_displayed" /\ ~Shown(e, ev.display)
  <2>1. ~Contract!Said(e, Contract!Shown(ev.display))
    <3> SUFFICES ASSUME NEW i \in DOMAIN Log[e], Log[e][i] = Contract!Shown(ev.display)
                 PROVE  FALSE
      BY DEF Contract!Said
    <3>1. i \in DOMAIN events[e] /\ Fact(events[e][i]) = Contract!Shown(ev.display)
      BY LogType
    <3>2. events[e][i].kind = "reason_displayed"
      BY <3>1, FactOf DEF Contract!Shown
    <3>3. events[e][i].display = ev.display
      BY <3>1, <3>2, FactOf DEF Contract!Shown
    <3> QED
      BY <1>4, <3>1, <3>2, <3>3 DEF Shown, ShownAt
  <2>2. Fact(ev) = Contract!Shown(ev.display)
    BY <1>4, FactOf
  <2>3. Contract!Show(e, ev.display)
    BY <1>1, <1>2, <1>3, <2>1, <2>2 DEF Contract!Show, Contract!Tell
  <2> QED
    BY <1>1, <2>3
<1>5. CASE /\ ev.kind \in UserActions /\ ~Answered(e, ev.display)
           /\ \E i \in DOMAIN events[e] : ShownAt(e, i, ev.display) /\ LastShownAt(e, i)
  <2>1. ~Contract!Said(e, Contract!Answered(ev.display))
    <3> SUFFICES ASSUME NEW i \in DOMAIN Log[e], Log[e][i] = Contract!Answered(ev.display)
                 PROVE  FALSE
      BY DEF Contract!Said
    <3>1. i \in DOMAIN events[e] /\ Fact(events[e][i]) = Contract!Answered(ev.display)
      BY LogType
    <3>2. events[e][i].kind \in UserActions
      BY <3>1, FactOf DEF Contract!Answered
    <3>3. events[e][i].display = ev.display
      BY <3>1, <3>2, FactOf DEF Contract!Answered
    <3> QED
      BY <1>5, <3>1, <3>2, <3>3 DEF Answered, AnsweredAt
  <2>2. Contract!Newest(e, ev.display)
    <3>1. PICK i \in DOMAIN events[e] : ShownAt(e, i, ev.display) /\ LastShownAt(e, i)
      BY <1>5
    <3>2. Log[e][i] = Contract!Shown(ev.display) /\ i \in DOMAIN Log[e]
      BY <3>1, FactOf, LogType DEF ShownAt
    <3>3. ASSUME NEW j \in DOMAIN Log[e], j > i
          PROVE  Log[e][j].what # "shown"
      <4>1. j \in DOMAIN events[e] /\ Log[e][j] = Fact(events[e][j])
        BY LogType
      <4>2. events[e][j].kind # "reason_displayed"
        BY <3>1, <3>3, <4>1 DEF LastShownAt
      <4> QED
        BY <4>1, <4>2, FactOf
    <3> QED
      BY <3>2, <3>3 DEF Contract!Newest
  <2>3. Fact(ev) = Contract!Answered(ev.display)
    BY <1>5, FactOf
  <2>4. Contract!Answer(e, ev.display)
    BY <1>1, <1>2, <1>3, <2>1, <2>2, <2>3 DEF Contract!Answer, Contract!Tell
  <2> QED
    BY <1>1, <2>4
<1> QED
  BY <1>4, <1>5 DEF Recording

\* Every transaction is a step of the contract or a stutter.
LEMMA NextRefines ==
  ASSUME RefinementInvariant, [Next]_storeVars
  PROVE  Contract!Next \/ UNCHANGED <<actions, Log>>
<1>1. TypeOK
  BY DEF RefinementInvariant, StoreInvariant
<1>2. CASE Inserting
  BY <1>2, InsertRefines DEF Inserting, Contract!Next
<1>3. CASE Withdrawing
  BY <1>3, WithdrawRefines DEF Withdrawing, Contract!Next
<1>4. CASE Deciding
  BY <1>4, DecideRefines DEF Contract!Next
<1>5. CASE Marking \/ Resting
  BY <1>5 DEF Marking, Resting, Log
<1>6. CASE \E e \in EventIds, ev \in Events : Recording(e, ev)
  BY <1>6, RecordRefines DEF Contract!Next
<1> QED
  BY <1>1, <1>2, <1>3, <1>4, <1>5, <1>6, StepEffects DEF Effect

\* The store of src/whynote/store.py keeps its promise to its callers, event by
\* event: the log of an action begins with its opening and ends with its withdrawal,
\* holds at most one decision, and each display at most once shown and, while it is
\* the newest, at most once answered (store.py:454-499, 560-608, 620-635).
THEOREM StoreImplementsContract == Spec => ImplementsContract
<1>1. Init => Contract!Init
  BY InitRefines
<1>2. RefinementInvariant /\ [Next]_storeVars => [Contract!Next]_(Contract!contractVars)
  BY NextRefines DEF Contract!contractVars
<1>3. Init => RefinementInvariant
  BY InitInvariant, InitRows DEF RefinementInvariant
<1>4. RefinementInvariant /\ [Next]_storeVars => RefinementInvariant'
  BY NextInvariant, FirstKept, StepEffects DEF RefinementInvariant, StoreInvariant
<1> QED
  BY <1>1, <1>2, <1>3, <1>4, PTL DEF Spec, ImplementsContract, Contract!Spec

-----------------------------------------------------------------------------
(* The S0 button: what its callbacks keep *)

Modes == {"manual_menu", "edit_menu"}
Phases == {"idle", "done"} \cup Waiting

Replies == {"retracted", "legacy_click_unavailable", "answered", "click_superseded",
            "ticket_expired", "click_pending"}
Results == {"none", "conflict", "client_unavailable", "target_changed", "saved", "lost"}
             \cup Replies

SessionRows ==
  [phase : Phases, key : ClientKeys \cup {None}, event : EventIds \cup {None},
   display : Displays \cup {None}, mode : Modes, choice : Choices \cup {None},
   result : Results]

MenuTypeOK == /\ session \in [Sessions -> SessionRows]
              /\ late \subseteq Displays
              /\ issued \subseteq Displays

Live(s) == session[s].phase \in Waiting
Chosen == {"arrived", "checked", "shown"}

-----------------------------------------------------------------------------
(* The invariant *)

\* No host menu suggests, so nothing is ever confirmed.
NoneConfirmed == \A e \in EventIds : view[e].attribution # "confirmed"

\* Under the manual contract an active action is the only one of its target.
LoneActive ==
  \A e, f \in EventIds :
    /\ actions[e] # None /\ actions[e] = actions[f]
    /\ view[e].action = "active" /\ view[f].action = "active"
    => e = f

\* A waiting callback has a menu of a known action, drawn with a display that was
\* issued to it alone; only a callback without a click id waits for its ticket.
MenusIssued ==
  \A s \in Sessions : Live(s) =>
    /\ session[s].event \in EventIds /\ session[s].display \in issued
    /\ session[s].phase = "ticket" => session[s].key = None
    /\ session[s].phase \in Chosen => session[s].choice \in Choices
MenusDistinct ==
  \A s, r \in Sessions : Live(s) /\ Live(r) /\ s # r => session[s].display # session[r].display

\* Events and clicks name displays that were issued.
DisplaysIssued ==
  /\ \A e \in EventIds : \A i \in DOMAIN events[e] : events[e][i].display \in issued \cup {None}
  /\ \A k \in ClientKeys : clicks[k] # NoClick => clicks[k].display \in issued

\* Before its menu is shown a display is in no event; while it is shown it has no
\* answer.
MenusPending ==
  \A s \in Sessions : Live(s) =>
    \A e \in EventIds : \A i \in DOMAIN events[e] :
      events[e][i].display = session[s].display =>
        session[s].phase = "shown" /\ events[e][i].kind \notin UserActions

\* While the ticket of a clicked menu is the newest and its action stands, the
\* menu is still the one the projection calls for, and once shown it was shown last.
IsMenuOf(s, ev) == /\ ev.display = session[s].display /\ ev.mode = session[s].mode
                   /\ ev.ui = ManualUI /\ ev.shown = Reasons
NewestOf(s) ==
  LET e == session[s].event
  IN /\ Live(s) /\ session[s].key # None
     /\ view[e].action = "active" /\ tickets[e] = session[s].display
     => /\ session[s].mode = ModeFor(view[e])
        /\ session[s].phase = "shown" =>
             /\ Exists(e)
             /\ \E i \in DOMAIN events[e] : LastShownAt(e, i) /\ IsMenuOf(s, events[e][i])
NewestMenu == \A s \in Sessions : NewestOf(s)

\* A reserved click keeps the action of its key, and its display is no menu of a
\* callback without a click id.
ClicksKeyed ==
  \A k \in ClientKeys : clicks[k] # NoClick =>
    /\ ~Unused(ClientKey(k))
    /\ clicks[k].event = idempotency[ClientKey(k)].event
    /\ clicks[k].event \in EventIds
    /\ \A s \in Sessions : Live(s) /\ session[s].key = None =>
         session[s].display # clicks[k].display

MenuInvariant ==
  /\ StoreInvariant /\ MenuTypeOK
  /\ NoneConfirmed /\ LoneActive
  /\ MenusIssued /\ MenusDistinct /\ DisplaysIssued
  /\ MenusPending /\ NewestMenu /\ ClicksKeyed

-----------------------------------------------------------------------------
(* What a callback can do *)

\* A callback goes on, or ends, with the menu it had.
Kept(s) ==
  session'[s].phase \in Waiting =>
    /\ Live(s)
    /\ session'[s].key = session[s].key
    /\ session'[s].event = session[s].event
    /\ session'[s].display = session[s].display
    /\ session'[s].mode = session[s].mode
    /\ session'[s].phase = "shown" <=> session[s].phase = "shown"
    /\ session'[s].phase = "ticket" => session[s].phase = "ticket"
    /\ session'[s].phase \in Chosen =>
         \/ session'[s].choice \in Choices
         \/ session[s].phase \in Chosen /\ session'[s].choice = session[s].choice

\* A new action is inserted only when its target has no active one.
LoneInsert == \E e \in EventIds, t \in Targets : ActiveOn(t) = {} /\ Insert(e, t)

\* create_action or begin_host_click answered: s holds a menu for e drawn with a
\* fresh display; only begin_host_click makes it the newest at once.
Opened(s, e, d) ==
  /\ d \notin issued /\ issued' = issued \cup {d}
  /\ \A r \in Sessions \ {s} : session'[r] = session[r]
  /\ session'[s].event = e /\ session'[s].display = d
  /\ session'[s].mode = ModeFor(view[e])
  /\ LoneInsert \/ Resting
OpenedByClick(s, k, e, d) ==
  /\ Opened(s, e, d)
  /\ session'[s].phase = "menu" /\ session'[s].key = k
  /\ Unused(ClientKey(k))
  /\ idempotency'[ClientKey(k)].event = e
  /\ ~Unused(ClientKey(k))'
  /\ \A j \in ClientKeys \ {k} : idempotency'[ClientKey(j)] = idempotency[ClientKey(j)]
  /\ clicks' = [clicks EXCEPT ![k] = [event |-> e, display |-> d, published |-> FALSE]]
  /\ tickets' = [tickets EXCEPT ![e] = d]
OpenedByCreate(s, e, d) ==
  /\ Opened(s, e, d)
  /\ session'[s].phase = "ticket" /\ session'[s].key = None
  /\ UNCHANGED <<clicks, tickets>>

\* issue_display_ticket, only for a menu that had none.
Ticketed(s) ==
  /\ session[s].phase = "ticket"
  /\ tickets' = [tickets EXCEPT ![session[s].event] = session[s].display]
  /\ session' = [session EXCEPT ![s].phase = "menu"]
  /\ UNCHANGED <<actions, events, view, idempotency, outbox, clicks, issued>>

\* record_display of the menu s holds.
ShownBy(s) ==
  LET e == session[s].event
      d == session[s].display
  IN /\ session[s].phase = "checked"
     /\ RecordDisplay(e, d, session[s].mode, Reasons, ManualUI)
     /\ session' = [session EXCEPT ![s].phase = "shown"]
     /\ UNCHANGED issued

\* record_user_action of what the user chose; the callback is over.
AnsweredBy(s) ==
  /\ session[s].phase = "shown"
  /\ RecordUserAction(ChoiceKey(session[s].display), session[s].event,
                      KindOf(session[s].mode, session[s].choice),
                      ReasonOf(session[s].choice), session[s].display)
  /\ \A r \in Sessions \ {s} : session'[r] = session[r]
  /\ session'[s].phase = "done"
  /\ UNCHANGED issued

\* The deadline of a click is published, or only callbacks and clocks move.
Waited ==
  /\ \A s \in Sessions : Kept(s)
  /\ UNCHANGED <<actions, events, view, idempotency, outbox, tickets, issued>>
  /\ \A k \in ClientKeys : /\ clicks'[k].event = clicks[k].event
                           /\ clicks'[k].display = clicks[k].display
                           /\ clicks'[k] = NoClick <=> clicks[k] = NoClick

\* Another button retracts or toggles.
Pressed ==
  /\ LoneInsert \/ Withdrawing \/ Resting
  /\ UNCHANGED <<session, clicks, tickets, issued>>

MenuEffect ==
  \/ \E s \in Sessions, e \in EventIds, d \in Displays :
       \/ OpenedByCreate(s, e, d)
       \/ \E k \in ClientKeys : OpenedByClick(s, k, e, d)
  \/ \E s \in Sessions : Ticketed(s) \/ ShownBy(s) \/ AnsweredBy(s)
  \/ Waited
  \/ Pressed

\* A key once used keeps its row: no operation writes under a used key.
KeysKept == \A k \in ClientKeys :
              ~Unused(ClientKey(k)) => idempotency'[ClientKey(k)] = idempotency[ClientKey(k)]

\* The callbacks' local state has the shape the code gives it.
LEMMA MenuInitType == MenuInit => MenuTypeOK
<1>1. Idle \in SessionRows
  BY DEF SessionRows, Idle, Phases, Modes, Results
<1> QED
  BY <1>1 DEF MenuInit, MenuTypeOK

\* A live callback's menu is of a known action and display.
LEMMA SessionType ==
  ASSUME MenuTypeOK, NEW s \in Sessions
  PROVE  /\ session[s] \in SessionRows
         /\ session[s].mode \in Modes
         /\ session[s].choice \in Choices \cup {None}
         /\ session[s].key \in ClientKeys \cup {None}
         /\ session[s].event \in EventIds \cup {None}
         /\ session[s].display \in Displays \cup {None}
  BY DEF MenuTypeOK, SessionRows

\* Ending a callback keeps the shape, and the other callbacks.
LEMMA FinishEffect ==
  ASSUME MenuTypeOK, NEW s \in Sessions, NEW result \in Results, Finish(s, result)
  PROVE  /\ session' \in [Sessions -> SessionRows]
         /\ session'[s].phase = "done"
         /\ \A r \in Sessions \ {s} : session'[r] = session[r]
         /\ \A r \in Sessions : Kept(r)
<1>1. [Idle EXCEPT !.phase = "done", !.result = result] \in SessionRows
  BY DEF Idle, SessionRows, Phases, Modes
<1>2. session' = [session EXCEPT ![s] = [Idle EXCEPT !.phase = "done", !.result = result]]
  BY DEF Finish
<1>3. [Idle EXCEPT !.phase = "done", !.result = result].phase = "done"
  BY DEF Idle
<1>4. /\ session' \in [Sessions -> SessionRows]
      /\ session'[s].phase = "done"
      /\ \A r \in Sessions \ {s} : session'[r] = session[r]
  BY <1>1, <1>2, <1>3 DEF MenuTypeOK
<1> QED
  BY <1>4 DEF Kept, Waiting, Live

\* So does a move to another phase.
LEMMA MoveEffect ==
  ASSUME MenuTypeOK, NEW s \in Sessions, NEW phase \in Phases, Move(s, phase)
  PROVE  /\ session' \in [Sessions -> SessionRows]
         /\ session' = [session EXCEPT ![s].phase = phase]
         /\ \A r \in Sessions \ {s} : session'[r] = session[r]
         /\ /\ Live(s) /\ phase \notin {"ticket", "shown"} /\ session[s].phase # "shown"
            /\ phase \in Chosen => session[s].phase \in Chosen
            => \A r \in Sessions : Kept(r)
<1>1. session' = [session EXCEPT ![s] = [session[s] EXCEPT !.phase = phase]]
  BY DEF Move
<1>2. /\ session' \in [Sessions -> SessionRows]
      /\ \A r \in Sessions \ {s} : session'[r] = session[r]
      /\ session'[s] = [session[s] EXCEPT !.phase = phase]
  BY <1>1 DEF MenuTypeOK, SessionRows
<1>3. session[s] \in SessionRows
  BY SessionType
<1>4. /\ Live(s) /\ phase \notin {"ticket", "shown"} /\ session[s].phase # "shown"
      /\ phase \in Chosen => session[s].phase \in Chosen
      => Kept(s)
  BY <1>2, <1>3 DEF Kept, SessionRows
<1>5. \A r \in Sessions \ {s} : Kept(r)
  BY <1>2 DEF Kept, Live
<1> QED
  BY <1>2, <1>4, <1>5 DEF Move

\* Distinct clicks have distinct keys, which no derived key equals.
LEMMA KeysDistinct ==
  ASSUME NEW k \in ClientKeys
  PROVE  /\ ClientKey(k) \in Keys
         /\ \A j \in ClientKeys : /\ ClientKey(j) = ClientKey(k) => j = k
                                  /\ ToggleCreate(j) # ClientKey(k)
                                  /\ ToggleRetract(j) # ClientKey(k)
                                  /\ \A e : NextGeneration(j, e) # ClientKey(k)
         /\ \A d : ChoiceKey(d) # ClientKey(k)
  BY DEF Keys, ClientKey, ToggleCreate, ToggleRetract, NextGeneration, ChoiceKey

\* What is written under an unused key leaves the used keys alone.
LEMMA SavedKeeps ==
  ASSUME TypeOK, NEW key \in Keys, Unused(key), NEW row, idempotency' = Saved(key, row)
  PROVE  /\ KeysKept
         /\ idempotency'[key] = row
         /\ \A j \in ClientKeys : ClientKey(j) # key =>
              idempotency'[ClientKey(j)] = idempotency[ClientKey(j)]
<1>1. idempotency \in [Keys -> Rows] /\ \A k \in ClientKeys : ClientKey(k) \in Keys
  BY KeysDistinct DEF TypeOK
<1>2. idempotency' = [idempotency EXCEPT ![key] = row]
  BY DEF Saved
<1> QED
  BY <1>1, <1>2 DEF KeysKept, Unused

\* The manual contract inserts alone or joins and changes nothing.
LEMMA ManualCreating ==
  ASSUME NEW t \in Targets, NEW e \in EventIds, JoinOrInsert(t, "manual-v1", e)
  PROVE  LoneInsert \/ Resting
  BY DEF JoinOrInsert, LoneInsert, Resting

\* A row that names an action is a used row.
LEMMA RowIsUsed ==
  ASSUME NEW e \in EventIds, NEW t, NEW c, NEW i
  PROVE  Row("create", t, c, e, i) # NoRow /\ Row("create", t, c, e, i).event = e
  BY StoreAssumption DEF Row, NoRow

\* The menu a callback opens has the shape of one.
LEMMA OpenType ==
  ASSUME MenuTypeOK, NEW s \in Sessions, NEW e \in EventIds, NEW d \in Displays,
         NEW key \in ClientKeys \cup {None}, NEW phase \in {"menu", "ticket"},
         session' = [session EXCEPT ![s] =
           [Idle EXCEPT !.phase = phase, !.key = key, !.event = e, !.display = d,
                        !.mode = ModeFor(view[e])]],
         issued' = issued \cup {d}, late' = late
  PROVE  /\ MenuTypeOK'
         /\ session'[s].phase = phase /\ session'[s].key = key
         /\ session'[s].event = e /\ session'[s].display = d
         /\ session'[s].mode = ModeFor(view[e])
         /\ \A r \in Sessions \ {s} : session'[r] = session[r]
<1> DEFINE menu == [Idle EXCEPT !.phase = phase, !.key = key, !.event = e, !.display = d,
                                !.mode = ModeFor(view[e])]
<1>1. ModeFor(view[e]) \in Modes
  BY DEF ModeFor, Modes
<1>2. /\ menu \in SessionRows /\ menu.phase = phase /\ menu.key = key
      /\ menu.event = e /\ menu.display = d /\ menu.mode = ModeFor(view[e])
  BY <1>1 DEF Idle, SessionRows, Phases, Waiting, Results
<1> HIDE DEF menu
<1>3. session' = [session EXCEPT ![s] = menu]
  BY DEF menu
<1> QED
  BY <1>2, <1>3 DEF MenuTypeOK

\* A click nobody has reserved yet.
LEMMA ClickEffect ==
  ASSUME TypeOK, MenuTypeOK, NEW s \in Sessions, NEW k \in ClientKeys, NEW t \in Targets,
         NEW d \in Displays, NEW e \in EventIds, Click(s, k, t, d, e)
  PROVE  TypeOK' /\ MenuTypeOK' /\ OpenedByClick(s, k, e, d) /\ KeysKept
<1>1. BeginHostClick(k, t, d, e)
  BY DEF Click
<1>2. TypeOK'
  BY <1>1, BeginHostClickType
<1>3. session' = [session EXCEPT ![s] =
        [Idle EXCEPT !.phase = "menu", !.key = k, !.event = e, !.display = d,
                     !.mode = ModeFor(view[e])]]
  BY DEF Click
<1>4. /\ MenuTypeOK'
      /\ session'[s].phase = "menu" /\ session'[s].key = k
      /\ session'[s].event = e /\ session'[s].display = d
      /\ session'[s].mode = ModeFor(view[e])
      /\ \A r \in Sessions \ {s} : session'[r] = session[r]
  BY <1>3, OpenType DEF Click
<1>5. LoneInsert \/ Resting
  BY <1>1, ManualCreating DEF BeginHostClick
<1>6. PICK row : row = Row("create", t, "manual-v1", e, 1)
  OBVIOUS
<1>7. /\ KeysKept /\ idempotency'[ClientKey(k)] = row
      /\ \A j \in ClientKeys : ClientKey(j) # ClientKey(k) =>
           idempotency'[ClientKey(j)] = idempotency[ClientKey(j)]
  BY <1>1, <1>6, SavedKeeps, KeysDistinct DEF BeginHostClick
<1>8. row # NoRow /\ row.event = e
  BY <1>6, RowIsUsed
<1>9. Opened(s, e, d)
  BY <1>4, <1>5 DEF Opened, Click
<1> QED
  BY <1>1, <1>2, <1>4, <1>7, <1>8, <1>9, KeysDistinct
     DEF OpenedByClick, BeginHostClick, Unused

\* A host without click ids creates or finds its action.
LEMMA LegacyCreateEffect ==
  ASSUME TypeOK, MenuTypeOK, NEW s \in Sessions, NEW k \in ClientKeys, NEW t \in Targets,
         NEW d \in Displays, NEW e \in EventIds, LegacyCreate(s, k, t, d, e)
  PROVE  TypeOK' /\ MenuTypeOK' /\ OpenedByCreate(s, e, d) /\ KeysKept
<1>1. CreateGeneration(k, t, e) \/ UNCHANGED storeVars
  BY DEF LegacyCreate
<1>2. TypeOK'
  BY <1>1, CreateGenerationType DEF TypeOK, storeVars
<1>3. session' = [session EXCEPT ![s] =
        [Idle EXCEPT !.phase = "ticket", !.event = e, !.display = d,
                     !.mode = ModeFor(view[e])]]
  BY DEF LegacyCreate
<1>4. ModeFor(view[e]) \in Modes
  BY DEF ModeFor, Modes
<1>5. /\ MenuTypeOK'
      /\ session'[s].phase = "ticket" /\ session'[s].key = None
      /\ session'[s].event = e /\ session'[s].display = d
      /\ session'[s].mode = ModeFor(view[e])
      /\ \A r \in Sessions \ {s} : session'[r] = session[r]
  <2> DEFINE menu == [Idle EXCEPT !.phase = "ticket", !.event = e, !.display = d,
                                  !.mode = ModeFor(view[e])]
  <2>1. /\ menu \in SessionRows /\ menu.phase = "ticket" /\ menu.key = None
        /\ menu.event = e /\ menu.display = d /\ menu.mode = ModeFor(view[e])
    BY <1>4 DEF Idle, SessionRows, Phases, Waiting, Results
  <2> HIDE DEF menu
  <2>2. session' = [session EXCEPT ![s] = menu]
    BY <1>3 DEF menu
  <2>3. issued' = issued \cup {d} /\ late' = late
    BY DEF LegacyCreate
  <2> QED
    BY <2>1, <2>2, <2>3 DEF MenuTypeOK
<1>6. /\ LoneInsert \/ Resting
      /\ UNCHANGED <<clicks, tickets>>
  BY <1>1, ManualCreating DEF CreateGeneration, storeVars, Resting
<1>7. KeysKept
  <2>1. CASE CreateGeneration(k, t, e)
    <3>1. PICK key \in Generations(k) :
            Unused(key) /\ idempotency' = Saved(key, Row("create", t, "manual-v1", e, 1))
      BY <2>1 DEF CreateGeneration
    <3>2. key \in Keys
      BY KeysType DEF Generations
    <3> QED
      BY <3>1, <3>2, SavedKeeps
  <2>2. CASE UNCHANGED storeVars
    BY <2>2 DEF KeysKept, storeVars
  <2> QED
    BY <1>1, <2>1, <2>2
<1>8. Opened(s, e, d)
  BY <1>5, <1>6 DEF Opened, LegacyCreate
<1> QED
  BY <1>2, <1>5, <1>6, <1>7, <1>8 DEF OpenedByCreate

\* Nothing is written under a key, so all stay.
LEMMA KeysUnwritten == UNCHANGED idempotency => KeysKept
  BY DEF KeysKept

\* The shapes and the keys when only callbacks and clocks move.
LEMMA WaitedEffect ==
  ASSUME TypeOK, MenuTypeOK, UNCHANGED <<storeVars, issued>>,
         session' \in [Sessions -> SessionRows], late' \in SUBSET Displays,
         \A s \in Sessions : Kept(s)
  PROVE  TypeOK' /\ MenuTypeOK' /\ Waited /\ KeysKept
<1>1. TypeOK'
  BY DEF TypeOK, storeVars
<1>2. MenuTypeOK'
  BY DEF MenuTypeOK
<1> QED
  BY <1>1, <1>2, KeysUnwritten DEF Waited, storeVars

\* A callback that stays as it is is kept.
LEMMA SameKept == UNCHANGED session => \A s \in Sessions : Kept(s)
  BY DEF Kept, Live

\* issue_display_ticket answered, or the action is gone.
LEMMA LegacyTicketEffect ==
  ASSUME TypeOK, MenuTypeOK, MenusIssued, NEW s \in Sessions, LegacyTicket(s)
  PROVE  TypeOK' /\ MenuTypeOK' /\ (Ticketed(s) \/ Waited) /\ KeysKept
<1>1. session[s].phase = "ticket" /\ UNCHANGED <<late, issued>>
  BY DEF LegacyTicket
<1>2. session[s].event \in EventIds /\ session[s].display \in Displays
  BY <1>1 DEF MenusIssued, Live, Waiting, MenuTypeOK
<1>3. CASE /\ IssueDisplayTicket(session[s].event, session[s].display)
           /\ Move(s, "menu")
  <2>1. TypeOK'
    BY <1>2, <1>3, IssueDisplayTicketType
  <2>2. session' \in [Sessions -> SessionRows]
    BY <1>3, MoveEffect DEF Phases, Waiting
  <2>3. MenuTypeOK'
    BY <1>1, <2>2 DEF MenuTypeOK
  <2>4. Ticketed(s)
    BY <1>1, <1>3 DEF Ticketed, IssueDisplayTicket, Move
  <2>5. KeysKept
    BY <1>3, KeysUnwritten DEF IssueDisplayTicket
  <2> QED
    BY <2>1, <2>3, <2>4, <2>5
<1>4. CASE Finish(s, "conflict") /\ UNCHANGED storeVars
  BY <1>1, <1>4, FinishEffect, WaitedEffect DEF Results, MenuTypeOK
<1> QED
  BY <1>3, <1>4 DEF LegacyTicket

\* The deadline of a menu is published.
LEMMA PublishDeadlineEffect ==
  ASSUME TypeOK, MenuTypeOK, MenusIssued, NEW s \in Sessions, PublishDeadline(s)
  PROVE  TypeOK' /\ MenuTypeOK' /\ Waited /\ KeysKept
<1>1. PICK k \in ClientKeys, e \in EventIds, d \in Displays : SetHostClickDeadline(k, e, d)
  BY SessionType DEF PublishDeadline, MenusIssued, Live, Waiting, MenuTypeOK
<1>2. TypeOK'
  BY <1>1, SetHostClickDeadlineType
<1>3. UNCHANGED menuVars
  BY DEF PublishDeadline
<1>4. MenuTypeOK' /\ \A r \in Sessions : Kept(r)
  BY <1>3, SameKept DEF MenuTypeOK, menuVars
<1>5. \A j \in ClientKeys : /\ clicks'[j].event = clicks[j].event
                            /\ clicks'[j].display = clicks[j].display
                            /\ clicks'[j] = NoClick <=> clicks[j] = NoClick
  <2>1. clicks \in [ClientKeys -> ClickRows]
    BY DEF TypeOK
  <2>2. clicks' = [clicks EXCEPT ![k] = [clicks[k] EXCEPT !.published = TRUE]]
    BY <1>1 DEF SetHostClickDeadline
  <2>3. clicks[k].event \in EventIds
    BY <1>1 DEF SetHostClickDeadline
  <2>4. clicks'[k] # NoClick /\ clicks[k] # NoClick
    BY <2>1, <2>2, <2>3, StoreAssumption DEF ClickRows, NoClick
  <2> QED
    BY <2>1, <2>2, <2>4 DEF ClickRows
<1> QED
  BY <1>1, <1>2, <1>3, <1>4, <1>5, KeysUnwritten
     DEF Waited, SetHostClickDeadline, menuVars

\* What a repeated click is told is one of the replies.
LEMMA ReplyType ==
  ASSUME NEW k \in ClientKeys, NEW expired
  PROVE  ClickReply(k, expired) \in Replies
<1> DEFINE e == idempotency[ClientKey(k)].event
           d == clicks[k].display
           closing == {i \in DOMAIN events[e] :
                         /\ events[e][i].display = d
                         /\ events[e][i].kind \in
                              {"reason_selected", "reason_edited"} \cup ManualOperations}
<1>1. CASE Retracted(e)
  BY <1>1 DEF ClickReply, Replies
<1>2. CASE ~Retracted(e) /\ clicks[k] = NoClick
  BY <1>2 DEF ClickReply, Replies
<1>3. CASE ~Retracted(e) /\ clicks[k] # NoClick /\ closing # {}
  BY <1>3 DEF ClickReply, Replies
<1>4. CASE ~Retracted(e) /\ clicks[k] # NoClick /\ closing = {}
  BY <1>4 DEF ClickReply, Replies
<1> QED
  BY <1>1, <1>2, <1>3, <1>4

\* The steps of a callback that leave the tables alone.
LEMMA QuietEffect ==
  ASSUME TypeOK, MenuTypeOK, NEW s \in Sessions,
         \/ Retry(s) \/ Choose(s) \/ TimeOut(s) \/ CheckTarget(s)
         \/ ClientFails(s) \/ TargetChanged(s) \/ Crash(s)
  PROVE  TypeOK' /\ MenuTypeOK' /\ Waited /\ KeysKept
<1>1. UNCHANGED <<storeVars, late, issued>>
  BY DEF Retry, ClickAgain, Choose, Answer, TimeOut, CheckTarget, ClientFails,
         TargetChanged, Crash
<1>2. CASE \E result \in Results : Finish(s, result)
  BY <1>1, <1>2, FinishEffect, WaitedEffect DEF MenuTypeOK
<1>3. CASE Choose(s)
  <2>1. PICK choice \in Choices :
          session' = [session EXCEPT ![s].phase = "arrived", ![s].choice = choice]
    BY <1>3 DEF Choose, Answer
  <2>2. session' = [session EXCEPT ![s] =
                     [session[s] EXCEPT !.phase = "arrived", !.choice = choice]]
    BY <2>1
  <2>3. session[s] \in SessionRows /\ Live(s)
    BY <1>3, SessionType DEF Choose, Answer, Live, Waiting
  <2>4. /\ session' \in [Sessions -> SessionRows]
        /\ session'[s] = [session[s] EXCEPT !.phase = "arrived", !.choice = choice]
        /\ \A r \in Sessions \ {s} : session'[r] = session[r]
    BY <2>2, <2>3 DEF MenuTypeOK, SessionRows, Phases, Waiting
  <2>5. Kept(s)
    BY <1>3, <2>3, <2>4 DEF Kept, SessionRows, Choose, Answer
  <2>6. \A r \in Sessions \ {s} : Kept(r)
    BY <2>4 DEF Kept, Live
  <2> QED
    BY <1>1, <2>4, <2>5, <2>6, WaitedEffect DEF MenuTypeOK
<1>4. CASE CheckTarget(s)
  <2>1. Move(s, "checked") /\ Live(s) /\ session[s].phase = "arrived"
    BY <1>4 DEF CheckTarget, Live, Waiting
  <2> QED
    BY <1>1, <2>1, MoveEffect, WaitedEffect DEF Phases, Waiting, MenuTypeOK, Chosen
<1>5. CASE Retry(s)
  <2>1. PICK k \in ClientKeys : Finish(s, ClickReply(k, clicks[k].display \in late))
    BY <1>5 DEF Retry, ClickAgain
  <2>2. ClickReply(k, clicks[k].display \in late) \in Results
    BY ReplyType DEF Results
  <2> QED
    BY <1>2, <2>1, <2>2
<1>6. CASE TimeOut(s) \/ ClientFails(s) \/ TargetChanged(s) \/ Crash(s)
  <2>1. {"ticket_expired", "client_unavailable", "target_changed", "lost"} \subseteq Results
    BY DEF Results, Replies
  <2> QED
    BY <1>2, <1>6, <2>1 DEF TimeOut, ClientFails, TargetChanged, Crash
<1> QED
  BY <1>3, <1>4, <1>5, <1>6

\* What a user can choose is an answer to the menu, and no confirmation.
LEMMA ChoiceType ==
  ASSUME NEW mode \in Modes, NEW choice \in Choices
  PROVE  /\ KindOf(mode, choice) \in {"reason_selected", "reason_edited"} \cup ManualOperations
         /\ KindOf(mode, choice) \in UserActions
         /\ ReasonOf(choice) \in Reasons \cup {None}
  BY DEF KindOf, ReasonOf, UserActions, ReasonActions

\* record_display of the menu, or the conflict it met.
LEMMA ShowMenuEffect ==
  ASSUME TypeOK, MenuTypeOK, MenusIssued, NEW s \in Sessions, ShowMenu(s)
  PROVE  TypeOK' /\ MenuTypeOK' /\ (ShownBy(s) \/ Waited) /\ KeysKept
<1>1. session[s].phase = "checked" /\ UNCHANGED <<late, issued>>
  BY DEF ShowMenu
<1>2. /\ session[s].event \in EventIds /\ session[s].display \in Displays
      /\ session[s].mode \in DisplayModes
  BY <1>1, SessionType DEF MenusIssued, Live, Waiting, MenuTypeOK, Modes, DisplayModes
<1>3. CASE /\ RecordDisplay(session[s].event, session[s].display, session[s].mode,
                            Reasons, ManualUI)
           /\ Move(s, "shown")
  <2>1. TypeOK'
    BY <1>2, <1>3, RecordDisplayType DEF UIVersions
  <2>2. session' \in [Sessions -> SessionRows]
    BY <1>3, MoveEffect DEF Phases, Waiting
  <2>3. MenuTypeOK'
    BY <1>1, <2>2 DEF MenuTypeOK
  <2>4. ShownBy(s)
    BY <1>1, <1>3 DEF ShownBy, Move
  <2>5. KeysKept
    BY <1>3, KeysUnwritten DEF RecordDisplay
  <2> QED
    BY <2>1, <2>3, <2>4, <2>5
<1>4. CASE Finish(s, "conflict") /\ UNCHANGED storeVars
  BY <1>1, <1>4, FinishEffect, WaitedEffect DEF Results, MenuTypeOK
<1> QED
  BY <1>3, <1>4 DEF ShowMenu

\* record_user_action of the choice, or the conflict it met.
LEMMA SaveAnswerEffect ==
  ASSUME TypeOK, MenuTypeOK, MenusIssued, NEW s \in Sessions, SaveAnswer(s)
  PROVE  TypeOK' /\ MenuTypeOK' /\ (AnsweredBy(s) \/ Waited) /\ KeysKept
<1> DEFINE e == session[s].event
           d == session[s].display
           kind == KindOf(session[s].mode, session[s].choice)
           reason == ReasonOf(session[s].choice)
<1>1. session[s].phase = "shown" /\ UNCHANGED <<late, issued>>
  BY DEF SaveAnswer
<1>2. /\ e \in EventIds /\ d \in Displays
      /\ session[s].mode \in Modes /\ session[s].choice \in Choices
  BY <1>1, SessionType DEF MenusIssued, Live, Waiting, Chosen, MenuTypeOK
<1>3. kind \in UserActions /\ reason \in Reasons \cup {None} /\ ChoiceKey(d) \in Keys
  BY <1>2, ChoiceType DEF Keys
<1>4. CASE RecordUserAction(ChoiceKey(d), e, kind, reason, d) /\ Finish(s, "saved")
  <2> HIDE DEF kind, reason
  <2>1. TypeOK'
    BY <1>2, <1>3, <1>4, RecordUserActionType
  <2>2. /\ session' \in [Sessions -> SessionRows] /\ session'[s].phase = "done"
        /\ \A r \in Sessions \ {s} : session'[r] = session[r]
    BY <1>4, FinishEffect DEF Results
  <2>3. MenuTypeOK'
    BY <1>1, <2>2 DEF MenuTypeOK
  <2>4. AnsweredBy(s)
    BY <1>1, <1>4, <2>2 DEF AnsweredBy, kind, reason
  <2>5. PICK row : idempotency' = Saved(ChoiceKey(d), row)
    BY <1>4 DEF RecordUserAction
  <2>6. KeysKept
    BY <1>3, <1>4, <2>5, SavedKeeps DEF RecordUserAction
  <2> QED
    BY <2>1, <2>3, <2>4, <2>6
<1>5. CASE Finish(s, "conflict") /\ UNCHANGED storeVars
  BY <1>1, <1>5, FinishEffect, WaitedEffect DEF Results, MenuTypeOK
<1> QED
  BY <1>4, <1>5 DEF SaveAnswer

\* Another host button retracts or toggles.
LEMMA OtherButtonEffect ==
  ASSUME TypeOK, MenuTypeOK, OtherButton
  PROVE  TypeOK' /\ MenuTypeOK' /\ Pressed /\ KeysKept
<1>1. MenuTypeOK' /\ UNCHANGED <<session, issued>>
  BY DEF OtherButton, MenuTypeOK, menuVars
<1>2. CASE Retract
  <2>1. PICK k \in ClientKeys, e \in EventIds : RetractAction(ClientKey(k), e)
    BY <1>2 DEF Retract
  <2>2. TypeOK'
    BY <2>1, RetractActionType, KeysType
  <2>3. Pressed
    BY <1>1, <2>1 DEF RetractAction, Pressed, Withdrawing, Resting
  <2>4. PICK row : Unused(ClientKey(k)) /\ idempotency' = Saved(ClientKey(k), row)
    BY <2>1 DEF RetractAction
  <2> QED
    BY <1>1, <2>2, <2>3, <2>4, SavedKeeps, KeysType
<1>3. CASE Toggle
  <2>1. PICK k \in ClientKeys, t \in Targets, e \in EventIds : ToggleAction(k, t, e)
    BY <1>3 DEF Toggle
  <2>2. TypeOK'
    BY <2>1, ToggleActionType
  <2>3. Pressed
    BY <1>1, <2>1 DEF ToggleAction, Pressed, LoneInsert, Withdrawing
  <2>4. PICK inner \in {ToggleRetract(k), ToggleCreate(k)} :
          \E row1, row2 : idempotency' = [Saved(inner, row1) EXCEPT ![ClientKey(k)] = row2]
    BY <2>1 DEF ToggleAction
  <2>5. Unused(ClientKey(k))
    BY <2>1 DEF ToggleAction
  <2>6. KeysKept
    BY <2>4, <2>5, KeysDistinct DEF KeysKept, Saved, TypeOK
  <2> QED
    BY <1>1, <2>2, <2>3, <2>6
<1> QED
  BY <1>2, <1>3 DEF OtherButton

\* No step does anything else.
LEMMA MenuEffects ==
  ASSUME TypeOK, MenuTypeOK, MenusIssued, [MenuNext]_vars
  PROVE  TypeOK' /\ MenuTypeOK' /\ MenuEffect /\ KeysKept
<1>1. CASE \E s \in Sessions : Arrive(s)
  BY <1>1, ClickEffect, LegacyCreateEffect DEF Arrive, MenuEffect
<1>2. ASSUME NEW s \in Sessions,
             \/ Retry(s) \/ Choose(s) \/ TimeOut(s) \/ CheckTarget(s)
             \/ ClientFails(s) \/ TargetChanged(s) \/ Crash(s)
      PROVE  TypeOK' /\ MenuTypeOK' /\ MenuEffect /\ KeysKept
  BY <1>2, QuietEffect DEF MenuEffect
<1>3. ASSUME NEW s \in Sessions,
             LegacyTicket(s) \/ PublishDeadline(s) \/ ShowMenu(s) \/ SaveAnswer(s)
      PROVE  TypeOK' /\ MenuTypeOK' /\ MenuEffect /\ KeysKept
  BY <1>3, LegacyTicketEffect, PublishDeadlineEffect, ShowMenuEffect, SaveAnswerEffect
     DEF MenuEffect
<1>4. CASE \E d \in Displays : DeadlinePasses(d)
  BY <1>4, SameKept, WaitedEffect DEF DeadlinePasses, MenuEffect, MenuTypeOK
<1>5. CASE OtherButton
  BY <1>5, OtherButtonEffect DEF MenuEffect
<1>6. CASE UNCHANGED vars
  BY <1>6, SameKept, WaitedEffect DEF vars, menuVars, MenuEffect, MenuTypeOK
<1> QED
  BY <1>1, <1>2, <1>3, <1>4, <1>5, <1>6 DEF MenuNext, Advance

-----------------------------------------------------------------------------
(* What a step leaves of the events and the projection *)

\* What an event makes of the attribution.
LEMMA ApplyAttribution ==
  ASSUME NEW v \in Projections, NEW ev \in Events
  PROVE  /\ ev.kind \in {"negative_feedback_action_recorded", "reason_displayed"} =>
              Apply(v, ev).attribution = v.attribution
         /\ v.attribution # "confirmed" /\ ev.kind # "reason_confirmed" =>
              Apply(v, ev).attribution # "confirmed"
<1>1. ev.kind \in {"negative_feedback_action_recorded", "reason_displayed"} =>
        Attribution(v, ev)[1] = v.attribution
  BY DEF Attribution, ReasonActions
<1>2. v.attribution # "confirmed" /\ ev.kind # "reason_confirmed" =>
        Attribution(v, ev)[1] # "confirmed"
  BY DEF Attribution, ReasonActions, StatusOf, Suggested
<1> QED
  BY <1>1, <1>2 DEF Apply, Projected

\* The one event a step of a host can append, and to which action.
HostAppends(e, ev) ==
  /\ Appended(e, ev)
  /\ \/ /\ ev.kind \in {"negative_feedback_action_recorded", "action_retracted"}
        /\ ev.display = None
        /\ ev.kind = "negative_feedback_action_recorded" => ~Exists(e)
        /\ LoneInsert \/ Withdrawing
     \/ \E s \in Sessions :
          /\ e = session[s].event /\ ev.display = session[s].display
          /\ TicketIsCurrent(e, session[s].display)
          /\ \/ /\ ShownBy(s)
                /\ ev = Display(session[s].display, session[s].mode, Reasons, ManualUI)
             \/ /\ AnsweredBy(s)
                /\ ev.kind \in {"reason_selected", "reason_edited"} \cup ManualOperations

\* An insertion appends the creation, without a display.
LEMMA InsertAppends ==
  LoneInsert => \E e \in EventIds, ev \in Events : HostAppends(e, ev)
<1> SUFFICES ASSUME LoneInsert PROVE \E e \in EventIds, ev \in Events : HostAppends(e, ev)
  OBVIOUS
<1>1. PICK e \in EventIds, t \in Targets : Insert(e, t)
  BY DEF LoneInsert
<1>2. /\ Plain("negative_feedback_action_recorded") \in Events
      /\ Plain("negative_feedback_action_recorded").kind = "negative_feedback_action_recorded"
      /\ Plain("negative_feedback_action_recorded").display = None
  BY PlainType DEF Plain, SystemEvents
<1> QED
  BY <1>1, <1>2 DEF Insert, HostAppends

\* A retraction appends itself, without a display.
LEMMA WithdrawAppends ==
  Withdrawing => \E e \in EventIds, ev \in Events : HostAppends(e, ev)
<1> SUFFICES ASSUME Withdrawing PROVE \E e \in EventIds, ev \in Events : HostAppends(e, ev)
  OBVIOUS
<1>1. PICK e \in EventIds : Withdraw(e)
  BY DEF Withdrawing
<1>2. /\ Plain("action_retracted") \in Events
      /\ Plain("action_retracted").kind = "action_retracted"
      /\ Plain("action_retracted").display = None
  BY PlainType DEF Plain, SystemEvents
<1> QED
  BY <1>1, <1>2 DEF Withdraw, HostAppends

\* record_display appends the display; it is a recording of the store.
LEMMA ShownAppends ==
  ASSUME TypeOK, MenuTypeOK, MenusIssued, NEW s \in Sessions, ShownBy(s)
  PROVE  \E e \in EventIds, ev \in Events : HostAppends(e, ev) /\ Recording(e, ev)
<1>1. /\ session[s].event \in EventIds /\ session[s].display \in Displays
      /\ session[s].mode \in DisplayModes
  BY SessionType DEF ShownBy, MenusIssued, Live, Waiting, MenuTypeOK, Modes, DisplayModes
<1> DEFINE ev == Display(session[s].display, session[s].mode, Reasons, ManualUI)
<1>2. ev \in Events /\ Recording(session[s].event, ev)
  BY <1>1, DisplayEffect DEF ShownBy, UIVersions
<1>3. ev.display = session[s].display
  BY DEF Display, Plain
<1>4. TicketIsCurrent(session[s].event, session[s].display)
  BY DEF ShownBy, RecordDisplay
<1> HIDE DEF ev
<1>5. HostAppends(session[s].event, ev)
  BY <1>2, <1>3, <1>4 DEF HostAppends, Recording, ev
<1> QED
  BY <1>1, <1>2, <1>5

\* record_user_action appends the answer; it is a recording of the store.
LEMMA AnsweredAppends ==
  ASSUME TypeOK, MenuTypeOK, MenusIssued, NEW s \in Sessions, AnsweredBy(s)
  PROVE  \E e \in EventIds, ev \in Events :
           e = session[s].event /\ HostAppends(e, ev) /\ Recording(e, ev)
<1> DEFINE kind == KindOf(session[s].mode, session[s].choice)
           reason == ReasonOf(session[s].choice)
<1>1. /\ session[s].event \in EventIds /\ session[s].display \in Displays
      /\ session[s].mode \in Modes /\ session[s].choice \in Choices
  BY SessionType DEF AnsweredBy, MenusIssued, Live, Waiting, Chosen, MenuTypeOK
<1>2. /\ kind \in {"reason_selected", "reason_edited"} \cup ManualOperations
      /\ kind \in UserActions /\ reason \in Reasons \cup {None}
  BY <1>1, ChoiceType
<1>3. RecordUserAction(ChoiceKey(session[s].display), session[s].event, kind, reason,
                       session[s].display)
  BY DEF AnsweredBy
<1> HIDE DEF kind, reason
<1>4. PICK i \in DOMAIN events[session[s].event] :
        LET ev == Response(kind, reason, session[s].display,
                           events[session[s].event][i].ui, events[session[s].event][i].mode)
        IN ev \in Events /\ Recording(session[s].event, ev)
  BY <1>1, <1>2, <1>3, ResponseEffect
<1>5. PICK ev \in Events : /\ Recording(session[s].event, ev)
                           /\ ev.kind = kind /\ ev.display = session[s].display
  BY <1>4 DEF Response, Plain
<1>6. TicketIsCurrent(session[s].event, session[s].display)
  BY <1>3 DEF RecordUserAction, Accepts
<1>7. HostAppends(session[s].event, ev)
  BY <1>2, <1>5, <1>6 DEF HostAppends, Recording
<1> QED
  BY <1>1, <1>5, <1>7

\* A step of a host is a step of the store that appends one such event or none.
LEMMA HostStep ==
  ASSUME TypeOK, MenuTypeOK, MenusIssued, MenuEffect
  PROVE  /\ Effect
         /\ \/ UNCHANGED <<events, view>>
            \/ \E e \in EventIds, ev \in Events : HostAppends(e, ev)
<1>1. CASE LoneInsert
  BY <1>1, InsertAppends DEF Effect, LoneInsert, Inserting
<1>2. CASE Withdrawing
  BY <1>2, WithdrawAppends DEF Effect
<1>3. CASE Resting
  BY <1>3 DEF Effect, Resting
<1>4. CASE \E s \in Sessions : ShownBy(s) \/ AnsweredBy(s)
  BY <1>4, ShownAppends, AnsweredAppends DEF Effect
<1>5. CASE Waited \/ \E s \in Sessions : Ticketed(s)
  BY <1>5 DEF Waited, Ticketed, Effect, Resting
<1> QED
  BY <1>1, <1>2, <1>3, <1>4, <1>5
     DEF MenuEffect, Pressed, OpenedByClick, OpenedByCreate, Opened

\* A retracted action stays retracted, nothing is confirmed, and an action that was
\* not there and a display leave the attribution alone.
LEMMA ViewKept ==
  ASSUME TypeOK, NoneConfirmed, NEW e \in EventIds, NEW ev \in Events, HostAppends(e, ev)
  PROVE  /\ \A f \in EventIds : view'[f].action = "active" => view[f].action = "active"
         /\ NoneConfirmed'
         /\ ev.kind \in {"negative_feedback_action_recorded", "reason_displayed"} =>
              view'[e].attribution = view[e].attribution
         /\ ev.kind = "action_retracted" => view'[e].action # "active"
<1>1. Appended(e, ev) /\ view[e] \in Projections
  BY EventsType DEF HostAppends
<1>2. view'[e] = Apply(view[e], ev) /\ \A f \in EventIds \ {e} : view'[f] = view[f]
  BY <1>1 DEF Appended, TypeOK
<1>3. ev.kind # "reason_confirmed"
  BY DEF HostAppends, Display, Plain, ManualOperations
<1>4. view'[e].action = IF ev.kind = "action_retracted" THEN "retracted" ELSE view[e].action
  BY <1>1, <1>2, ApplyAction
<1> QED
  BY <1>1, <1>2, <1>3, <1>4, ApplyAttribution DEF NoneConfirmed

\* Every event of the next state was there, or is the one appended.
LEMMA EventsGrown ==
  ASSUME TypeOK, NEW e \in EventIds, NEW ev \in Events, Appended(e, ev)
  PROVE  \A f \in EventIds : \A i \in DOMAIN events'[f] :
           \/ i \in DOMAIN events[f] /\ events'[f][i] = events[f][i]
           \/ f = e /\ i = Len(events[e]) + 1 /\ events'[f][i] = ev
<1>1. ASSUME NEW i \in DOMAIN events'[e]
      PROVE  \/ i \in DOMAIN events[e] /\ events'[e][i] = events[e][i]
             \/ i = Len(events[e]) + 1 /\ events'[e][i] = ev
  BY <1>1, AppendedEffect, EventsType
<1> QED
  BY <1>1, AppendedEffect

-----------------------------------------------------------------------------
(* The invariant is inductive *)

\* A callback that waits after a step waited before it, with the same menu, or
\* opened one in the step.
Carried(s) ==
  /\ Live(s)
  /\ session'[s].key = session[s].key
  /\ session'[s].event = session[s].event
  /\ session'[s].display = session[s].display
  /\ session'[s].mode = session[s].mode
  /\ session'[s].phase = "shown" => session[s].phase = "shown" \/ ShownBy(s)
  /\ session[s].phase = "shown" => session'[s].phase = "shown"
  /\ session'[s].phase = "ticket" => session[s].phase = "ticket"
  /\ session'[s].phase \in Chosen =>
       \/ session'[s].choice \in Choices
       \/ session[s].phase \in Chosen /\ session'[s].choice = session[s].choice
OpenedNow(s, e, d) ==
  OpenedByCreate(s, e, d) \/ \E k \in ClientKeys : OpenedByClick(s, k, e, d)

\* A callback that does not change is carried when it waits.
LEMMA SameCarried ==
  ASSUME NEW s \in Sessions, session'[s] = session[s], Live(s)
  PROVE  Carried(s)
  BY DEF Carried

\* There is no third case.
LEMMA SessionCarried ==
  ASSUME MenuTypeOK, MenuEffect, NEW s \in Sessions, Live(s)'
  PROVE  \/ \E e \in EventIds, d \in Displays : OpenedNow(s, e, d)
         \/ Carried(s)
<1>1. session'[s].phase \in Waiting
  BY DEF Live
<1>2. CASE session'[s] = session[s]
  BY <1>1, <1>2, SameCarried DEF Live
<1>3. ASSUME NEW r \in Sessions, NEW e \in EventIds, NEW d \in Displays, OpenedNow(r, e, d)
      PROVE  session'[s] = session[s] \/ OpenedNow(s, e, d)
  BY <1>3 DEF OpenedNow, OpenedByCreate, OpenedByClick, Opened
<1>4. ASSUME NEW r \in Sessions, Ticketed(r)
      PROVE  session'[s] = session[s] \/ Carried(s)
  <2>1. CASE r = s
    <3>1. session'[s] = [session[s] EXCEPT !.phase = "menu"] /\ session[s] \in SessionRows
      BY <1>4, <2>1, SessionType DEF Ticketed, MenuTypeOK
    <3> QED
      BY <1>4, <2>1, <3>1 DEF Carried, SessionRows, Ticketed, Live, Waiting, Chosen
  <2>2. CASE r # s
    BY <1>4, <2>2 DEF Ticketed, MenuTypeOK
  <2> QED
    BY <2>1, <2>2
<1>5. ASSUME NEW r \in Sessions, ShownBy(r)
      PROVE  session'[s] = session[s] \/ Carried(s)
  <2>1. CASE r = s
    <3>1. session'[s] = [session[s] EXCEPT !.phase = "shown"] /\ session[s] \in SessionRows
      BY <1>5, <2>1, SessionType DEF ShownBy, MenuTypeOK
    <3>2. session[s].phase = "checked"
      BY <1>5, <2>1 DEF ShownBy
    <3> QED
      BY <1>5, <2>1, <3>1, <3>2 DEF Carried, SessionRows, Live, Waiting, Chosen
  <2>2. CASE r # s
    BY <1>5, <2>2 DEF ShownBy, MenuTypeOK
  <2> QED
    BY <2>1, <2>2
<1>6. ASSUME NEW r \in Sessions, AnsweredBy(r)
      PROVE  session'[s] = session[s]
  BY <1>1, <1>6 DEF AnsweredBy, Waiting
<1>7. CASE Waited
  BY <1>1, <1>7 DEF Waited, Kept, Carried
<1>8. CASE Pressed
  BY <1>2, <1>8 DEF Pressed
<1>9. CASE \E r \in Sessions, e \in EventIds, d \in Displays : OpenedNow(r, e, d)
  BY <1>2, <1>3, <1>9
<1>10. CASE \E r \in Sessions : Ticketed(r) \/ ShownBy(r) \/ AnsweredBy(r)
  BY <1>2, <1>4, <1>5, <1>6, <1>10
<1>11. \/ \E r \in Sessions, e \in EventIds, d \in Displays : OpenedNow(r, e, d)
       \/ \E r \in Sessions : Ticketed(r) \/ ShownBy(r) \/ AnsweredBy(r)
       \/ Waited \/ Pressed
  BY DEF MenuEffect, OpenedNow
<1> QED
  BY <1>2, <1>7, <1>8, <1>9, <1>10, <1>11

\* A display once issued is never issued again.
LEMMA IssuedGrows == MenuEffect => issued \subseteq issued'
  BY DEF MenuEffect, OpenedByCreate, OpenedByClick, Opened, Ticketed, ShownBy, AnsweredBy,
         Waited, Pressed

\* The menus of waiting callbacks stay known.
LEMMA MenusIssuedKept ==
  ASSUME MenuTypeOK, MenusIssued, MenuEffect
  PROVE  MenusIssued'
<1> SUFFICES ASSUME NEW s \in Sessions, Live(s)'
             PROVE  /\ session'[s].event \in EventIds /\ session'[s].display \in issued'
                    /\ session'[s].phase = "ticket" => session'[s].key = None
                    /\ session'[s].phase \in Chosen => session'[s].choice \in Choices
  BY DEF MenusIssued
<1>1. ASSUME NEW e \in EventIds, NEW d \in Displays, OpenedNow(s, e, d)
      PROVE  /\ session'[s].event \in EventIds /\ session'[s].display \in issued'
             /\ session'[s].phase = "ticket" => session'[s].key = None
             /\ session'[s].phase \notin Chosen
  BY <1>1 DEF OpenedNow, OpenedByCreate, OpenedByClick, Opened, Chosen
<1>2. CASE Carried(s)
  BY <1>2, IssuedGrows DEF Carried, MenusIssued
<1> QED
  BY <1>1, <1>2, SessionCarried

\* No two callbacks come to hold the same display.
LEMMA MenusDistinctKept ==
  ASSUME MenuTypeOK, MenusIssued, MenusDistinct, MenuEffect
  PROVE  MenusDistinct'
<1> SUFFICES ASSUME NEW s \in Sessions, NEW r \in Sessions, Live(s)', Live(r)', s # r
             PROVE  session'[s].display # session'[r].display
  BY DEF MenusDistinct
<1>1. ASSUME NEW x \in Sessions, NEW y \in Sessions, Live(y)', x # y,
             NEW e \in EventIds, NEW d \in Displays, OpenedNow(x, e, d)
      PROVE  session'[x].display # session'[y].display
  <2>1. /\ session'[x].display = d /\ d \notin issued
        /\ session'[y] = session[y]
    BY <1>1 DEF OpenedNow, OpenedByCreate, OpenedByClick, Opened
  <2> QED
    BY <1>1, <2>1 DEF MenusIssued, Live
<1>2. CASE Carried(s) /\ Carried(r)
  BY <1>2 DEF Carried, MenusDistinct
<1> QED
  BY <1>1, <1>2, SessionCarried

\* What is appended names a display that was issued.
LEMMA AppendedIssued ==
  ASSUME MenusIssued, NEW e \in EventIds, NEW ev \in Events, HostAppends(e, ev)
  PROVE  \/ ev.display = None
         \/ \E s \in Sessions :
              /\ Live(s) /\ session[s].display \in issued
              /\ e = session[s].event /\ ev.display = session[s].display
              /\ TicketIsCurrent(e, session[s].display)
              /\ \/ ShownBy(s) /\ ev.kind = "reason_displayed"
                 \/ AnsweredBy(s)
  BY DEF HostAppends, MenusIssued, ShownBy, AnsweredBy, Live, Waiting, Display, Plain

\* Events and clicks go on naming issued displays.
LEMMA DisplaysIssuedKept ==
  ASSUME TypeOK, MenuTypeOK, MenusIssued, DisplaysIssued, MenuEffect
  PROVE  DisplaysIssued'
<1>1. issued \subseteq issued'
  BY IssuedGrows
<1>2. \A e \in EventIds : \A i \in DOMAIN events'[e] : events'[e][i].display \in issued' \cup {None}
  <2>1. CASE UNCHANGED events
    BY <1>1, <2>1 DEF DisplaysIssued
  <2>2. ASSUME NEW f \in EventIds, NEW ev \in Events, HostAppends(f, ev)
        PROVE  \A e \in EventIds : \A i \in DOMAIN events'[e] :
                 events'[e][i].display \in issued' \cup {None}
    <3>1. ev.display \in issued \cup {None}
      BY <2>2, AppendedIssued
    <3>2. Appended(f, ev)
      BY <2>2 DEF HostAppends
    <3> QED
      BY <1>1, <3>1, <3>2, EventsGrown DEF DisplaysIssued
  <2> QED
    BY <2>1, <2>2, HostStep
<1>3. \A k \in ClientKeys : clicks'[k] # NoClick => clicks'[k].display \in issued'
  <2>1. CASE UNCHANGED clicks
    BY <1>1, <2>1 DEF DisplaysIssued
  <2>2. CASE Waited
    BY <1>1, <2>2 DEF Waited, DisplaysIssued
  <2>3. ASSUME NEW s \in Sessions, NEW k \in ClientKeys, NEW e \in EventIds, NEW d \in Displays,
               OpenedByClick(s, k, e, d)
        PROVE  \A j \in ClientKeys : clicks'[j] # NoClick => clicks'[j].display \in issued'
    <3>1. /\ clicks'[k].display = d /\ d \in issued'
          /\ \A j \in ClientKeys \ {k} : clicks'[j] = clicks[j]
      BY <2>3 DEF OpenedByClick, Opened, TypeOK
    <3> QED
      BY <1>1, <3>1 DEF DisplaysIssued
  <2> QED
    BY <2>1, <2>2, <2>3 DEF MenuEffect, OpenedByCreate, Ticketed, ShownBy, AnsweredBy,
                            RecordDisplay, RecordUserAction, Pressed
<1> QED
  BY <1>2, <1>3 DEF DisplaysIssued

\* A display is in no event before its menu is shown, and has no answer while it is.
LEMMA MenusPendingKept ==
  ASSUME TypeOK, MenuTypeOK, MenusIssued, MenusDistinct, DisplaysIssued, MenusPending, MenuEffect
  PROVE  MenusPending'
<1> SUFFICES ASSUME NEW s \in Sessions, Live(s)', NEW e \in EventIds, NEW i \in DOMAIN events'[e],
                    events'[e][i].display = session'[s].display
             PROVE  session'[s].phase = "shown" /\ events'[e][i].kind \notin UserActions
  BY DEF MenusPending
<1>1. \/ i \in DOMAIN events[e] /\ events'[e][i] = events[e][i]
      \/ \E ev \in Events : HostAppends(e, ev) /\ events'[e][i] = ev
  <2>1. CASE UNCHANGED events
    BY <2>1
  <2>2. ASSUME NEW f \in EventIds, NEW ev \in Events, HostAppends(f, ev)
        PROVE  \/ i \in DOMAIN events[e] /\ events'[e][i] = events[e][i]
               \/ f = e /\ events'[e][i] = ev
    BY <2>2, EventsGrown DEF HostAppends
  <2> QED
    BY <2>1, <2>2, HostStep
<1>2. ASSUME NEW f \in EventIds, NEW d \in Displays, OpenedNow(s, f, d)
      PROVE  FALSE
  <2>1. session'[s].display = d /\ d \notin issued /\ d # None
    BY <1>2, StoreAssumption DEF OpenedNow, OpenedByCreate, OpenedByClick, Opened
  <2>2. \A ev \in Events : HostAppends(e, ev) => ev.display \in issued \cup {None}
    BY AppendedIssued
  <2> QED
    BY <1>1, <2>1, <2>2 DEF DisplaysIssued
<1>3. CASE Carried(s)
  <2>1. Live(s) /\ session'[s].display = session[s].display
    BY <1>3 DEF Carried
  <2>2. session[s].display # None
    BY <2>1, StoreAssumption DEF MenusIssued, MenuTypeOK
  <2>3. CASE i \in DOMAIN events[e] /\ events'[e][i] = events[e][i]
    BY <1>3, <2>1, <2>3 DEF MenusPending, Carried
  <2>4. ASSUME NEW ev \in Events, HostAppends(e, ev), events'[e][i] = ev
        PROVE  session'[s].phase = "shown" /\ ev.kind \notin UserActions
    <3>1. PICK r \in Sessions :
            /\ Live(r) /\ ev.display = session[r].display
            /\ (ShownBy(r) /\ ev.kind = "reason_displayed") \/ AnsweredBy(r)
      BY <2>1, <2>2, <2>4, AppendedIssued
    <3>2. r = s
      BY <2>1, <2>4, <3>1 DEF MenusDistinct
    <3>3. ~AnsweredBy(s)
      BY DEF AnsweredBy, Live, Waiting
    <3>4. session'[s].phase = "shown"
      BY <3>1, <3>2, <3>3, SessionType DEF ShownBy, MenuTypeOK, SessionRows
    <3> QED
      BY <3>1, <3>2, <3>3, <3>4 DEF UserActions, ReasonActions, ManualOperations
  <2> QED
    BY <1>1, <2>3, <2>4
<1> QED
  BY <1>2, <1>3, SessionCarried

\* An action is inserted only where its target has no active one, so no second one.
LEMMA LoneActiveKept ==
  ASSUME TypeOK, MenuTypeOK, MenusIssued, NoneConfirmed, LoneActive, MenuEffect
  PROVE  LoneActive'
<1>1. \A f \in EventIds : view'[f].action = "active" => view[f].action = "active"
  BY HostStep, ViewKept
<1>2. CASE LoneInsert
  <2>1. PICK e \in EventIds, t \in Targets : ActiveOn(t) = {} /\ Insert(e, t)
    BY <1>2 DEF LoneInsert
  <2>2. actions'[e] = t /\ \A f \in EventIds \ {e} : actions'[f] = actions[f]
    BY <2>1 DEF Insert, TypeOK
  <2>3. \A f \in EventIds \ {e} : actions'[f] = t => view'[f].action # "active"
    BY <1>1, <2>1, <2>2 DEF ActiveOn
  <2> QED
    BY <1>1, <2>2, <2>3 DEF LoneActive
<1>3. CASE UNCHANGED actions
  BY <1>1, <1>3 DEF LoneActive
<1> QED
  BY <1>2, <1>3 DEF MenuEffect, OpenedByCreate, OpenedByClick, Opened, Resting, Ticketed,
                    ShownBy, AnsweredBy, RecordDisplay, RecordUserAction, Waited, Pressed,
                    Withdrawing

\* An action keeps its events and its attribution while others are opened and another
\* one is retracted.
LEMMA LoneInsertElsewhere ==
  ASSUME TypeOK, NoneConfirmed, LoneInsert \/ Withdrawing \/ Resting, NEW f \in EventIds,
         view'[f].action = "active"
  PROVE  /\ view'[f].attribution = view[f].attribution /\ view[f].action = "active"
         /\ Exists(f) => events'[f] = events[f] /\ Exists(f)'
<1>1. CASE LoneInsert
  <2>1. PICK e \in EventIds, t \in Targets : Insert(e, t)
    BY <1>1 DEF LoneInsert
  <2>2. PICK ev \in Events : /\ ev.kind = "negative_feedback_action_recorded"
                             /\ ev.display = None /\ Appended(e, ev)
    BY <2>1, PlainType DEF Insert, Plain, SystemEvents
  <2>3. HostAppends(e, ev)
    BY <1>1, <2>1, <2>2 DEF HostAppends, Insert
  <2>4. /\ view'[f].attribution = view[f].attribution /\ view[f].action = "active"
    BY <2>2, <2>3, ViewKept, AppendedEffect
  <2>5. Exists(f) => f # e
    BY <2>1 DEF Insert
  <2>6. \A g \in EventIds \ {e} : actions'[g] = actions[g] /\ events'[g] = events[g]
    BY <2>1, <2>2, AppendedEffect DEF Insert, TypeOK
  <2> QED
    BY <2>4, <2>5, <2>6 DEF Exists
<1>2. CASE Withdrawing
  <2>1. PICK e \in EventIds : Withdraw(e) /\ UNCHANGED actions
    BY <1>2 DEF Withdrawing
  <2>2. PICK ev \in Events : /\ ev.kind = "action_retracted"
                             /\ ev.display = None /\ Appended(e, ev)
    BY <2>1, PlainType DEF Withdraw, Plain, SystemEvents
  <2>3. HostAppends(e, ev)
    BY <1>2, <2>2 DEF HostAppends
  <2>4. f # e
    BY <2>2, <2>3, ViewKept
  <2> QED
    BY <2>1, <2>2, <2>4, AppendedEffect DEF Exists
<1>3. CASE Resting
  BY <1>3 DEF Resting, Exists
<1> QED
  BY <1>1, <1>2, <1>3

\* A menu whose action and ticket are as they were is as it was.
LEMMA MenuStays ==
  ASSUME NEW s \in Sessions, NewestOf(s), Live(s), session[s].event \in EventIds,
         session'[s].key = session[s].key, session'[s].event = session[s].event,
         session'[s].display = session[s].display, session'[s].mode = session[s].mode,
         session'[s].phase = "shown" => session[s].phase = "shown",
         session[s].key # None, view[session[s].event].action = "active",
         tickets[session[s].event] = session[s].display,
         view'[session[s].event].attribution = view[session[s].event].attribution,
         Exists(session[s].event) =>
           /\ events'[session[s].event] = events[session[s].event]
           /\ actions'[session[s].event] # None
  PROVE  NewestOf(s)'
<1>1. PICK e \in EventIds : e = session[s].event
  OBVIOUS
<1>2. PICK d : d = session[s].display
  OBVIOUS
<1>3. ModeFor(view[e]) = ModeFor(view'[e])
  BY <1>1 DEF ModeFor
<1>4. /\ session[s].mode = ModeFor(view[e])
      /\ session[s].phase = "shown" =>
           /\ Exists(e)
           /\ \E i \in DOMAIN events[e] : LastShownAt(e, i) /\ IsMenuOf(s, events[e][i])
  BY <1>1, <1>2 DEF NewestOf
<1>5. session'[s].mode = ModeFor(view'[e])
  BY <1>3, <1>4
<1>6. session'[s].phase = "shown" =>
        /\ actions'[e] # None
        /\ \E i \in DOMAIN events'[e] : LastShownAt(e, i)' /\ IsMenuOf(s, events'[e][i])
  BY <1>1, <1>4 DEF LastShownAt
<1>7. \A ev : IsMenuOf(s, ev) => /\ ev.display = session'[s].display
                                 /\ ev.mode = session'[s].mode
                                 /\ ev.ui = ManualUI /\ ev.shown = Reasons
  BY DEF IsMenuOf
<1> QED
  BY <1>1, <1>2, <1>5, <1>6, <1>7 DEF NewestOf, IsMenuOf, Exists, LastShownAt

\* A callback that does not change shows nothing.
LEMMA SameShowsNothing ==
  ASSUME MenuTypeOK, NEW s \in Sessions, session'[s] = session[s]
  PROVE  ~ShownBy(s)
<1> SUFFICES ASSUME ShownBy(s) PROVE FALSE
  OBVIOUS
<1>1. session' = [session EXCEPT ![s].phase = "shown"] /\ session[s].phase = "checked"
  BY DEF ShownBy
<1>2. session'[s].phase = "shown"
  BY <1>1, SessionType DEF MenuTypeOK, SessionRows
<1> QED
  BY <1>1, <1>2

\* The newest menu stays the one the projection calls for.
LEMMA NewestMenuKept ==
  ASSUME TypeOK, MenuTypeOK, NoneConfirmed, MenusIssued, MenusDistinct, NewestMenu, MenuEffect
  PROVE  NewestMenu'
<1> SUFFICES ASSUME NEW s \in Sessions, Live(s)', session'[s].key # None,
                    view'[session'[s].event].action = "active",
                    tickets'[session'[s].event] = session'[s].display
             PROVE  NewestOf(s)'
  BY DEF NewestMenu, NewestOf
<1>1. CASE \E e \in EventIds, d \in Displays : OpenedNow(s, e, d)
  <2>1. PICK e \in EventIds, d \in Displays : OpenedNow(s, e, d)
    BY <1>1
  <2>2. /\ session'[s].event = e /\ session'[s].phase # "shown"
        /\ session'[s].mode = ModeFor(view[e])
        /\ LoneInsert \/ Resting
    BY <2>1 DEF OpenedNow, OpenedByCreate, OpenedByClick, Opened
  <2>3. view'[e].attribution = view[e].attribution
    BY <2>2, LoneInsertElsewhere
  <2> QED
    BY <2>2, <2>3 DEF NewestOf, ModeFor
<1>2. CASE Carried(s)
  <2>1. PICK e \in EventIds : e = session[s].event
    BY <1>2 DEF Carried, MenusIssued
  <2>2. PICK d \in Displays : d = session[s].display
    BY <1>2 DEF Carried, MenusIssued, MenuTypeOK
  <2>3. /\ Live(s) /\ session[s].key # None /\ d \in issued
        /\ session'[s].key = session[s].key /\ session'[s].event = e
        /\ session'[s].display = d /\ session'[s].mode = session[s].mode
        /\ session'[s].phase = "shown" => session[s].phase = "shown" \/ ShownBy(s)
        /\ view'[e].action = "active" /\ tickets'[e] = d /\ d # None
    BY <1>2, <2>1, <2>2, StoreAssumption DEF Carried, MenusIssued
  <2>4. NewestOf(s)
    BY DEF NewestMenu
  <2>5. view[e].action = "active"
    BY <2>3, HostStep, ViewKept
  <2>6. ASSUME tickets[e] = d, ~ShownBy(s), LoneInsert \/ Withdrawing \/ Resting
        PROVE  NewestOf(s)'
    BY <2>1, <2>2, <2>3, <2>4, <2>5, <2>6, LoneInsertElsewhere, MenuStays DEF Exists
  <2>7. ASSUME NEW r \in Sessions, NEW f \in EventIds, NEW x \in Displays, OpenedNow(r, f, x)
        PROVE  NewestOf(s)'
    <3>1. /\ x \notin issued
          /\ LoneInsert \/ Resting
          /\ \/ tickets' = tickets
             \/ tickets' = [tickets EXCEPT ![f] = x]
      BY <2>7 DEF OpenedNow, OpenedByCreate, OpenedByClick, Opened
    <3>2. tickets[e] = d
      BY <2>3, <3>1 DEF TypeOK
    <3>3. ~ShownBy(s)
      BY <2>7, <1>2 DEF ShownBy, RecordDisplay, Carried, OpenedNow, OpenedByCreate, OpenedByClick, Opened
    <3> QED
      BY <2>6, <3>1, <3>2, <3>3
  <2>8. ASSUME NEW r \in Sessions, Ticketed(r)
        PROVE  NewestOf(s)'
    <3>1. session[r].key = None /\ Live(r) /\ Resting
      BY <2>8 DEF Ticketed, MenusIssued, Live, Waiting, Resting
    <3>2. r # s /\ session[r].display # d
      BY <2>2, <2>3, <3>1 DEF MenusDistinct
    <3>3. tickets[e] = d
      BY <2>3, <2>8, <3>2 DEF Ticketed, TypeOK
    <3>4. ~ShownBy(s)
      BY <2>8, <3>2, SameShowsNothing DEF Ticketed, MenuTypeOK
    <3> QED
      BY <2>6, <3>1, <3>3, <3>4
  <2>9. ASSUME NEW r \in Sessions, ShownBy(r)
        PROVE  NewestOf(s)'
    <3>1. /\ session[r].event \in EventIds /\ session[r].display \in Displays
          /\ session[r].mode \in DisplayModes /\ Live(r)
      BY <2>9, SessionType
         DEF ShownBy, MenusIssued, Live, Waiting, MenuTypeOK, Modes, DisplayModes
    <3>2. PICK f \in EventIds : f = session[r].event
      BY <3>1
    <3>3. PICK x \in Displays : x = session[r].display
      BY <3>1
    <3>4. PICK ev \in Events : ev = Display(x, session[r].mode, Reasons, ManualUI)
      BY <3>1, <3>3, DisplayEffect, <2>9 DEF ShownBy, UIVersions
    <3>5. /\ RecordDisplay(f, x, session[r].mode, Reasons, ManualUI)
          /\ Appended(f, ev) /\ tickets[f] \in {None, x} /\ Exists(f)
          /\ UNCHANGED <<actions, tickets>>
      BY <2>9, <3>2, <3>3, <3>4 DEF ShownBy, RecordDisplay, TicketIsCurrent
    <3>6. HostAppends(f, ev)
      BY <2>9, <3>2, <3>3, <3>4, <3>5 DEF HostAppends, TicketIsCurrent, Display, Plain
    <3>7. /\ ev.kind = "reason_displayed" /\ ev.display = x /\ ev.mode = session[r].mode
          /\ ev.ui = ManualUI /\ ev.shown = Reasons
      BY <3>4 DEF Display, Plain
    <3>8. CASE r = s
      <4>1. f = e /\ x = d
        BY <2>1, <2>2, <3>2, <3>3, <3>8
      <4>2. view'[e].attribution = view[e].attribution
        BY <3>6, <3>7, <4>1, ViewKept
      <4>3. session[s].mode = ModeFor(view[e])
        BY <2>1, <2>2, <2>3, <2>4, <2>5, <3>5 DEF NewestOf
      <4>4. session'[s].mode = ModeFor(view'[e])
        BY <2>3, <4>2, <4>3 DEF ModeFor
      <4>5. PICK n \in Nat : n = Len(events[e]) + 1
        BY EventsType
      <4>6. /\ DOMAIN events'[e] = 1..n /\ events'[e][n] = ev
        BY <3>5, <4>1, <4>5, AppendedEffect
      <4>7. n \in DOMAIN events'[e] /\ LastShownAt(e, n)'
        BY <3>7, <4>5, <4>6, EventsType DEF LastShownAt
      <4>8. /\ ev.display = session'[s].display /\ ev.mode = session'[s].mode
            /\ ev.ui = ManualUI /\ ev.shown = Reasons
        BY <2>3, <3>7, <3>8, <4>1
      <4>9. Exists(e)'
        BY <3>5, <4>1 DEF Exists
      <4> QED
        BY <2>3, <4>4, <4>6, <4>7, <4>8, <4>9 DEF NewestOf, IsMenuOf, LastShownAt, Exists
    <3>9. CASE r # s
      <4>1. x # d
        BY <2>2, <2>3, <3>1, <3>3, <3>9 DEF MenusDistinct
      <4>2. tickets[e] = d /\ f # e
        BY <2>3, <3>5, <4>1
      <4>3. events'[e] = events[e] /\ view'[e] = view[e] /\ actions'[e] = actions[e]
        BY <3>5, <4>2, AppendedEffect
      <4>4. ~ShownBy(s)
        BY <2>9, <3>9, SameShowsNothing DEF ShownBy, MenuTypeOK
      <4> QED
        BY <2>1, <2>2, <2>3, <2>4, <2>5, <4>2, <4>3, <4>4, MenuStays DEF Exists
    <3> QED
      BY <3>8, <3>9
  <2>10. ASSUME NEW r \in Sessions, AnsweredBy(r)
         PROVE  NewestOf(s)'
    <3>1. /\ session[r].event \in EventIds /\ session[r].display \in Displays /\ Live(r)
      BY <2>10, SessionType DEF AnsweredBy, MenusIssued, Live, Waiting, MenuTypeOK
    <3>2. r # s
      BY <2>10 DEF AnsweredBy, Live, Waiting
    <3>3. session'[s] = session[s] /\ UNCHANGED <<actions, tickets>>
      BY <2>10, <3>2 DEF AnsweredBy, RecordUserAction
    <3>4. tickets[e] = d
      BY <2>3, <3>3
    <3>5. session[r].display # d
      BY <2>2, <2>3, <3>1, <3>2 DEF MenusDistinct
    <3>6. TicketIsCurrent(session[r].event, session[r].display)
      BY <2>10 DEF AnsweredBy, RecordUserAction, Accepts
    <3>7. session[r].event # e
      BY <2>3, <3>4, <3>5, <3>6 DEF TicketIsCurrent
    <3>8. PICK f \in EventIds, ev \in Events : f = session[r].event /\ Appended(f, ev)
      BY <2>10, <3>1, AnsweredAppends DEF HostAppends
    <3>9. events'[e] = events[e] /\ view'[e] = view[e] /\ actions'[e] = actions[e]
      BY <3>3, <3>7, <3>8, AppendedEffect
    <3>10. ~ShownBy(s)
      BY <3>3, SameShowsNothing
    <3> QED
      BY <2>1, <2>2, <2>3, <2>4, <2>5, <3>4, <3>9, <3>10, MenuStays DEF Exists
  <2>11. CASE Waited
    <3>1. session'[s].phase = "shown" => session[s].phase = "shown"
      BY <2>11 DEF Waited, Kept, Waiting
    <3>2. ~ShownBy(s)
      BY <3>1, SessionType DEF ShownBy, MenuTypeOK, SessionRows
    <3> QED
      BY <2>3, <2>6, <2>11, <3>2 DEF Waited, Resting
  <2>12. CASE Pressed
    <3>1. ~ShownBy(s)
      BY <2>12, SameShowsNothing DEF Pressed
    <3> QED
      BY <2>3, <2>6, <2>12, <3>1 DEF Pressed
  <2> QED
    BY <2>7, <2>8, <2>9, <2>10, <2>11, <2>12 DEF MenuEffect, OpenedNow
<1> QED
  BY <1>1, <1>2, SessionCarried

\* A reserved click keeps its action and its display.
LEMMA ClicksKept ==
  ASSUME TypeOK, MenuEffect, ClicksKeyed, KeysKept, NEW k \in ClientKeys, clicks[k] # NoClick
  PROVE  /\ clicks'[k] # NoClick
         /\ clicks'[k].event = clicks[k].event
         /\ clicks'[k].display = clicks[k].display
         /\ idempotency'[ClientKey(k)] = idempotency[ClientKey(k)]
<1>1. ~Unused(ClientKey(k))
  BY DEF ClicksKeyed
<1>2. CASE clicks' = clicks
  BY <1>1, <1>2 DEF KeysKept
<1>3. CASE Waited
  BY <1>1, <1>3 DEF KeysKept, Waited
<1>4. ASSUME NEW s \in Sessions, NEW j \in ClientKeys, NEW e \in EventIds, NEW d \in Displays,
             OpenedByClick(s, j, e, d)
      PROVE  clicks'[k] = clicks[k]
  BY <1>1, <1>4 DEF OpenedByClick, TypeOK
<1> QED
  BY <1>1, <1>2, <1>3, <1>4 DEF KeysKept, MenuEffect, OpenedByCreate, Ticketed, ShownBy,
       AnsweredBy, RecordDisplay, RecordUserAction, Pressed

\* Reserved clicks keep their keys, and their displays to themselves.
LEMMA ClicksKeyedKept ==
  ASSUME TypeOK, MenuTypeOK, MenusIssued, DisplaysIssued, ClicksKeyed, KeysKept, MenuEffect
  PROVE  ClicksKeyed'
<1> SUFFICES ASSUME NEW k \in ClientKeys, clicks'[k] # NoClick
             PROVE  /\ idempotency'[ClientKey(k)] # NoRow
                    /\ clicks'[k].event = idempotency'[ClientKey(k)].event
                    /\ clicks'[k].event \in EventIds
                    /\ \A s \in Sessions : Live(s)' /\ session'[s].key = None =>
                         session'[s].display # clicks'[k].display
  BY DEF ClicksKeyed, Unused
<1>1. ASSUME NEW s \in Sessions, NEW e \in EventIds, NEW d \in Displays, OpenedByClick(s, k, e, d)
      PROVE  /\ idempotency'[ClientKey(k)] # NoRow
             /\ clicks'[k].event = idempotency'[ClientKey(k)].event
             /\ clicks'[k].event \in EventIds
             /\ \A r \in Sessions : Live(r)' /\ session'[r].key = None =>
                  session'[r].display # clicks'[k].display
  <2>1. clicks'[k].event = e /\ clicks'[k].display = d
    BY <1>1 DEF OpenedByClick, TypeOK
  <2>2. /\ idempotency'[ClientKey(k)] # NoRow /\ idempotency'[ClientKey(k)].event = e
        /\ session'[s].key # None /\ d \notin issued
        /\ \A r \in Sessions \ {s} : session'[r] = session[r]
    BY <1>1, StoreAssumption DEF OpenedByClick, Opened, Unused
  <2>3. \A r \in Sessions : Live(r)' /\ session'[r].key = None => session'[r].display # d
    BY <2>2 DEF MenusIssued, Live
  <2> QED
    BY <2>1, <2>2, <2>3
<1>2. CASE clicks[k] # NoClick
  <2>1. /\ clicks'[k].event = clicks[k].event /\ clicks'[k].display = clicks[k].display
        /\ idempotency'[ClientKey(k)] = idempotency[ClientKey(k)]
    BY <1>2, ClicksKept
  <2>2. ASSUME NEW s \in Sessions, Live(s)', session'[s].key = None
        PROVE  session'[s].display # clicks[k].display
    <3>1. ASSUME NEW e \in EventIds, NEW d \in Displays, OpenedNow(s, e, d)
          PROVE  session'[s].display # clicks[k].display
      BY <1>2, <3>1 DEF OpenedNow, OpenedByClick, OpenedByCreate, Opened, DisplaysIssued
    <3>2. CASE Carried(s)
      BY <1>2, <2>2, <3>2 DEF Carried, ClicksKeyed
    <3> QED
      BY <2>2, <3>1, <3>2, SessionCarried
  <2> QED
    BY <1>2, <2>1, <2>2 DEF ClicksKeyed, Unused
<1>3. CASE clicks[k] = NoClick
  <2>1. ASSUME NEW s \in Sessions, NEW j \in ClientKeys, NEW e \in EventIds, NEW d \in Displays,
               OpenedByClick(s, j, e, d)
        PROVE  j = k
    BY <1>3, <2>1 DEF OpenedByClick, TypeOK
  <2>2. clicks' # clicks /\ ~Waited
    BY <1>3 DEF Waited
  <2> QED
    BY <1>1, <2>1, <2>2 DEF MenuEffect, OpenedByCreate, Ticketed, ShownBy, AnsweredBy,
                            RecordDisplay, RecordUserAction, Pressed
<1> QED
  BY <1>2, <1>3

\* Before anybody clicks the invariant holds.
LEMMA MenuInitInvariant == MenuInit => MenuInvariant
<1> SUFFICES ASSUME MenuInit PROVE MenuInvariant
  OBVIOUS
<1>1. StoreInvariant /\ MenuTypeOK /\ Init
  BY InitInvariant, MenuInitType DEF MenuInit
<1>2. \A s \in Sessions : ~Live(s)
  BY DEF MenuInit, Idle, Live, Waiting
<1>3. NoneConfirmed /\ LoneActive
  BY <1>1 DEF Init, NoneConfirmed, LoneActive, FreshProjection
<1>4. DisplaysIssued /\ ClicksKeyed
  BY <1>1 DEF Init, DisplaysIssued, ClicksKeyed
<1>5. MenusIssued /\ MenusDistinct /\ MenusPending /\ NewestMenu
  BY <1>2 DEF MenusIssued, MenusDistinct, MenusPending, NewestMenu, NewestOf
<1> QED
  BY <1>1, <1>3, <1>4, <1>5 DEF MenuInvariant

\* Every step of the callbacks, the clocks and the other buttons preserves it.
LEMMA MenuNextInvariant == MenuInvariant /\ [MenuNext]_vars => MenuInvariant'
<1> SUFFICES ASSUME MenuInvariant, [MenuNext]_vars PROVE MenuInvariant'
  OBVIOUS
<1> USE DEF MenuInvariant
<1>1. TypeOK
  BY DEF StoreInvariant
<1>2. TypeOK' /\ MenuTypeOK' /\ MenuEffect /\ KeysKept
  BY <1>1, MenuEffects
<1>3. StoreInvariant'
  BY <1>1, <1>2, HostStep, EffectInvariant
<1>4. NoneConfirmed'
  <2>1. CASE UNCHANGED <<events, view>>
    BY <2>1 DEF NoneConfirmed
  <2> QED
    BY <1>1, <1>2, <2>1, HostStep, ViewKept
<1>5. LoneActive'
  BY <1>1, <1>2, LoneActiveKept
<1>6. MenusIssued' /\ MenusDistinct'
  BY <1>2, MenusIssuedKept, MenusDistinctKept
<1>7. DisplaysIssued' /\ MenusPending'
  BY <1>1, <1>2, DisplaysIssuedKept, MenusPendingKept
<1>8. NewestMenu'
  BY <1>1, <1>2, NewestMenuKept
<1>9. ClicksKeyed'
  BY <1>1, <1>2, ClicksKeyedKept
<1> QED
  BY <1>2, <1>3, <1>4, <1>5, <1>6, <1>7, <1>8, <1>9

\* The invariant that ties the menus callbacks hold to the tickets, the events and
\* the projections holds for any number of callbacks, clicks and displays.
THEOREM MenuInvariance == MenuSpec => []MenuInvariant
<1>1. MenuInit => MenuInvariant
  BY MenuInitInvariant
<1>2. MenuInvariant /\ [MenuNext]_vars => MenuInvariant'
  BY MenuNextInvariant
<1> QED
  BY <1>1, <1>2, PTL DEF MenuSpec

-----------------------------------------------------------------------------
(* What follows from it *)

\* A target has at most one active action, however many tabs and processes click
\* (store.py:247-264, 421-428).
THEOREM TargetsHaveOneActive == MenuSpec => []OneActivePerTarget
<1>1. MenuInvariant => OneActivePerTarget
  <2> SUFFICES ASSUME LoneActive, NEW t \in Targets PROVE Cardinality(ActiveOn(t)) <= 1
    BY DEF MenuInvariant, OneActivePerTarget
  <2>1. \A e, f \in ActiveOn(t) : e = f
    BY StoreAssumption DEF ActiveOn, LoneActive
  <2>2. CASE ActiveOn(t) = {}
    BY <2>2, FS_EmptySet
  <2>3. CASE ActiveOn(t) # {}
    <3>1. PICK e : ActiveOn(t) = {e}
      BY <2>1, <2>3
    <3>2. Cardinality({e}) = 1
      BY FS_Singleton
    <3> QED
      BY <3>1, <3>2
  <2> QED
    BY <2>2, <2>3
<1> QED
  BY <1>1, MenuInvariance, PTL

\* A menu the projection calls for is one validate_display accepts.
LEMMA CalledForIsValid ==
  ASSUME TypeOK, NoneConfirmed, NEW e \in EventIds, view[e].action = "active"
  PROVE  ValidDisplay(view[e], ModeFor(view[e]), Reasons, ManualUI)
<1>1. view[e].attribution \in Statuses \ {"confirmed"}
  BY DEF TypeOK, Projections, NoneConfirmed
<1> QED
  BY <1>1, MenuAssumption
     DEF ValidDisplay, ModeFor, DisplayModes, ManualUI, Statuses, Submitted, Unanswered,
         Passed, Suggested

\* An answer to a menu the projection calls for is one validate_user_action accepts.
LEMMA AnswerIsValid ==
  ASSUME TypeOK, NoneConfirmed, NEW e \in EventIds, view[e].action = "active",
         NEW choice \in Choices, NEW display, display.mode = ModeFor(view[e]),
         display.ui = ManualUI, display.shown = Reasons
  PROVE  ValidResponse(view[e], KindOf(ModeFor(view[e]), choice), ReasonOf(choice), display)
<1>1. view[e].attribution \in Statuses \ {"confirmed"}
  BY DEF TypeOK, Projections, NoneConfirmed
<1>2. CASE choice \in ManualOperations
  <2>1. KindOf(ModeFor(view[e]), choice) = choice /\ ReasonOf(choice) = None
    BY <1>2, MenuAssumption DEF KindOf, ReasonOf
  <2>2. choice \notin ReasonActions
    BY <1>2 DEF ManualOperations, ReasonActions
  <2> QED
    BY <1>2, <2>1, <2>2 DEF ValidResponse
<1>3. CASE choice \in Reasons /\ ModeFor(view[e]) = "edit_menu"
  <2>1. /\ KindOf(ModeFor(view[e]), choice) = "reason_edited" /\ ReasonOf(choice) = choice
        /\ view[e].attribution \in {"selected", "edited"}
    BY <1>3, MenuAssumption DEF KindOf, ReasonOf, ModeFor
  <2> QED
    BY <1>3, <2>1 DEF ValidResponse, ReasonActions, DisplayActions, AllowedFrom, SeenStatus,
                      Submitted, ManualUI
<1>4. CASE choice \in Reasons /\ ModeFor(view[e]) = "manual_menu"
  <2>1. /\ KindOf(ModeFor(view[e]), choice) = "reason_selected" /\ ReasonOf(choice) = choice
        /\ view[e].attribution \in Unanswered \cup Passed
    BY <1>1, <1>4, MenuAssumption
       DEF KindOf, ReasonOf, ModeFor, Statuses, Submitted, Unanswered, Passed
  <2> QED
    BY <1>4, <2>1 DEF ValidResponse, ReasonActions, DisplayActions, AllowedFrom, SeenStatus,
                      Unanswered, ManualUI
<1> QED
  BY <1>2, <1>3, <1>4, MenuAssumption DEF ModeFor

\* The menu whose ticket is the newest is accepted, and any answer to it, however
\* long the callback waited in between (s0_action.py:136, 221-246).
THEOREM NewestMenuAlwaysAccepted == MenuSpec => []NewestMenuIsAccepted
<1>1. MenuInvariant => NewestMenuIsAccepted
  <2> SUFFICES ASSUME MenuInvariant, NEW s \in Sessions, NEW e, NEW d,
                      e = session[s].event, d = session[s].display,
                      session[s].key # None, Live(s), IsActive(e), tickets[e] = d
               PROVE  IF session[s].phase = "shown"
                        THEN \A choice \in Choices :
                               Accepts(e, KindOf(session[s].mode, choice), ReasonOf(choice), d)
                        ELSE ValidDisplay(view[e], session[s].mode, Reasons, ManualUI)
    BY DEF NewestMenuIsAccepted, Live
  <2>1. TypeOK /\ NoneConfirmed /\ e \in EventIds /\ view[e].action = "active"
    BY DEF MenuInvariant, StoreInvariant, MenusIssued, IsActive
  <2>2. /\ session[s].mode = ModeFor(view[e])
        /\ session[s].phase = "shown" =>
             /\ Exists(e)
             /\ \E i \in DOMAIN events[e] : LastShownAt(e, i) /\ IsMenuOf(s, events[e][i])
    BY <2>1 DEF MenuInvariant, NewestMenu, NewestOf
  <2>3. CASE session[s].phase # "shown"
    BY <2>1, <2>2, <2>3, CalledForIsValid
  <2>4. CASE session[s].phase = "shown"
    <3>1. PICK i \in DOMAIN events[e] : LastShownAt(e, i) /\ IsMenuOf(s, events[e][i])
      BY <2>2, <2>4
    <3>2. ~Answered(e, d)
      BY <2>1 DEF MenuInvariant, MenusPending, Answered, AnsweredAt
    <3>3. ShownAt(e, i, d)
      BY <3>1 DEF LastShownAt, ShownAt, IsMenuOf
    <3>4. ASSUME NEW choice \in Choices
          PROVE  ValidResponse(view[e], KindOf(session[s].mode, choice), ReasonOf(choice), events[e][i])
      BY <2>1, <2>2, <3>1, AnswerIsValid DEF IsMenuOf
    <3> QED
      BY <2>2, <2>4, <3>1, <3>2, <3>3, <3>4 DEF Accepts, TicketIsCurrent
  <2> QED
    BY <2>3, <2>4
<1> QED
  BY <1>1, MenuInvariance, PTL

\* An answer that closes a menu is recorded for the display of the click.
Closed(k) ==
  \E i \in DOMAIN events[idempotency[ClientKey(k)].event] :
    LET ev == events[idempotency[ClientKey(k)].event][i]
    IN /\ ev.display = clicks[k].display
       /\ ev.kind \in {"reason_selected", "reason_edited"} \cup ManualOperations

\* When a reserved click is told each of the three final replies.
RepliesTold ==
  \A k \in ClientKeys : clicks[k] # NoClick =>
    LET e == idempotency[ClientKey(k)].event
        reply == ClickReply(k, clicks[k].display \in late)
    IN /\ reply = "retracted" <=> Retracted(e)
       /\ reply = "answered" <=> ~Retracted(e) /\ Closed(k)
       /\ reply = "click_superseded" <=>
            ~Retracted(e) /\ ~Closed(k) /\ ~TicketIsCurrent(e, clicks[k].display)

\* The replies are read from the tables alone.
LEMMA RepliesFromTables == RepliesTold
<1> SUFFICES ASSUME NEW k \in ClientKeys, clicks[k] # NoClick, NEW e,
                    e = idempotency[ClientKey(k)].event
             PROVE  LET reply == ClickReply(k, clicks[k].display \in late)
                    IN /\ reply = "retracted" <=> Retracted(e)
                       /\ reply = "answered" <=> ~Retracted(e) /\ Closed(k)
                       /\ reply = "click_superseded" <=>
                            ~Retracted(e) /\ ~Closed(k) /\ ~TicketIsCurrent(e, clicks[k].display)
  BY DEF RepliesTold
<1>1. CASE Retracted(e)
  BY <1>1 DEF ClickReply
<1>2. CASE ~Retracted(e) /\ Closed(k)
  <2>1. {i \in DOMAIN events[e] :
           /\ events[e][i].display = clicks[k].display
           /\ events[e][i].kind \in {"reason_selected", "reason_edited"} \cup ManualOperations} # {}
    BY <1>2 DEF Closed
  <2> QED
    BY <1>2, <2>1 DEF ClickReply
<1>3. CASE ~Retracted(e) /\ ~Closed(k)
  <2>1. {i \in DOMAIN events[e] :
           /\ events[e][i].display = clicks[k].display
           /\ events[e][i].kind \in {"reason_selected", "reason_edited"} \cup ManualOperations} = {}
    BY <1>3 DEF Closed
  <2> QED
    BY <1>3, <2>1 DEF ClickReply
<1> QED
  BY <1>1, <1>2, <1>3

\* Once a newer menu has the ticket the older display never gets it back, and is
\* never answered again.
LEMMA SupersededStays ==
  ASSUME TypeOK, MenuTypeOK, MenusIssued, DisplaysIssued, ClicksKeyed, MenuEffect,
         NEW k \in ClientKeys, clicks[k] # NoClick, NEW e \in EventIds, NEW d,
         d = clicks[k].display, ~TicketIsCurrent(e, d)
  PROVE  /\ tickets'[e] \notin {None, d}
         /\ \A f \in EventIds, ev \in Events : HostAppends(f, ev) =>
              f # e \/ ev.display # d
<1>1. tickets[e] \notin {None, d} /\ d \in issued
  BY DEF TicketIsCurrent, DisplaysIssued
<1>2. tickets'[e] \notin {None, d}
  <2>1. ASSUME NEW s \in Sessions, NEW f \in EventIds, NEW x \in Displays, OpenedNow(s, f, x)
        PROVE  tickets'[e] \notin {None, d}
    <3>1. /\ x \notin issued /\ x # None
          /\ \/ tickets' = tickets
             \/ tickets' = [tickets EXCEPT ![f] = x]
      BY <2>1, StoreAssumption DEF OpenedNow, OpenedByCreate, OpenedByClick, Opened
    <3> QED
      BY <1>1, <3>1 DEF TypeOK
  <2>2. ASSUME NEW s \in Sessions, Ticketed(s)
        PROVE  tickets'[e] \notin {None, d}
    <3>1. /\ session[s].key = None /\ Live(s)
          /\ session[s].event \in EventIds /\ session[s].display \in Displays
          /\ tickets' = [tickets EXCEPT ![session[s].event] = session[s].display]
      BY <2>2, SessionType DEF Ticketed, MenusIssued, Live, Waiting, MenuTypeOK
    <3>2. session[s].display \notin {None, d}
      BY <3>1, StoreAssumption DEF ClicksKeyed
    <3> QED
      BY <1>1, <3>1, <3>2 DEF TypeOK
  <2>3. CASE UNCHANGED tickets
    BY <1>1, <2>3
  <2> QED
    BY <2>1, <2>2, <2>3 DEF MenuEffect, OpenedNow, ShownBy, AnsweredBy, RecordDisplay,
                            RecordUserAction, Waited, Pressed
<1>3. \A f \in EventIds, ev \in Events : HostAppends(f, ev) => f # e \/ ev.display # d
  BY <1>1, AppendedIssued, StoreAssumption DEF TicketIsCurrent, MenuTypeOK
<1> QED
  BY <1>2, <1>3

\* What a repeated click is told settles: superseded, answered and retracted are
\* final but for a retraction (store.py:317-349, s0_action.py:112-130).
THEOREM RepliesAlwaysSettle == MenuSpec => RepliesSettle
<1>1. RepliesTold /\ RepliesTold'
  BY RepliesFromTables, PTL
<1>2. ASSUME MenuInvariant, [MenuNext]_vars, RepliesTold, RepliesTold',
             NEW k \in ClientKeys, clicks[k] # NoClick
      PROVE  LET before == ClickReply(k, clicks[k].display \in late)
                 after  == ClickReply(k, clicks[k].display \in late)'
             IN /\ before = "retracted" => after = "retracted"
                /\ before = "answered" => after \in {"answered", "retracted"}
                /\ before = "click_superseded" => after \in {"click_superseded", "retracted"}
  <2>1. TypeOK /\ TypeOK' /\ MenuTypeOK /\ MenuEffect /\ KeysKept
    BY <1>2, MenuEffects DEF MenuInvariant, StoreInvariant
  <2>2. PICK e \in EventIds : e = idempotency[ClientKey(k)].event
    BY <1>2 DEF MenuInvariant, ClicksKeyed
  <2>3. PICK d : d = clicks[k].display
    OBVIOUS
  <2>4. /\ clicks'[k] # NoClick /\ clicks'[k].display = d
        /\ idempotency'[ClientKey(k)].event = e
    BY <1>2, <2>1, <2>2, <2>3, ClicksKept DEF MenuInvariant
  <2>5. \A f \in EventIds : Retracted(f) => Retracted(f)'
    <3>1. \A f \in EventIds : view'[f].action = "active" => view[f].action = "active"
      BY <1>2, <2>1, HostStep, ViewKept DEF MenuInvariant
    <3>2. \A f \in EventIds : view'[f].action \in {"active", "retracted"}
      BY <2>1 DEF TypeOK, Projections
    <3> QED
      BY <3>1, <3>2 DEF Retracted
  <2>6. Closed(k) => Closed(k)'
    <3>1. \A i \in DOMAIN events[e] : i \in DOMAIN events'[e] /\ events'[e][i] = events[e][i]
      BY <1>2, <2>1, HostStep, HistoryKept DEF MenuInvariant
    <3> QED
      BY <2>2, <2>3, <2>4, <3>1 DEF Closed
  <2>7. ~TicketIsCurrent(e, d) /\ ~Closed(k) => ~TicketIsCurrent(e, d)' /\ ~Closed(k)'
    <3> SUFFICES ASSUME ~TicketIsCurrent(e, d), ~Closed(k)
                 PROVE  ~TicketIsCurrent(e, d)' /\ ~Closed(k)'
      OBVIOUS
    <3>1. /\ tickets'[e] \notin {None, d}
          /\ \A f \in EventIds, ev \in Events : HostAppends(f, ev) => f # e \/ ev.display # d
      BY <1>2, <2>1, <2>3, SupersededStays DEF MenuInvariant
    <3>2. \A i \in DOMAIN events'[e] :
            \/ i \in DOMAIN events[e] /\ events'[e][i] = events[e][i]
            \/ events'[e][i].display # d
      <4>1. CASE UNCHANGED events
        BY <4>1
      <4>2. ASSUME NEW f \in EventIds, NEW ev \in Events, HostAppends(f, ev)
            PROVE  \A i \in DOMAIN events'[e] :
                     \/ i \in DOMAIN events[e] /\ events'[e][i] = events[e][i]
                     \/ events'[e][i].display # d
        BY <2>1, <3>1, <4>2, EventsGrown DEF HostAppends
      <4> QED
        BY <1>2, <2>1, <4>1, <4>2, HostStep DEF MenuInvariant
    <3> QED
      BY <2>2, <2>3, <2>4, <3>1, <3>2 DEF Closed, TicketIsCurrent
  <2>8. ClickReply(k, clicks[k].display \in late) = "retracted"
          => ClickReply(k, clicks[k].display \in late)' = "retracted"
    BY <1>2, <2>2, <2>4, <2>5 DEF RepliesTold
  <2>9. ClickReply(k, clicks[k].display \in late) = "answered"
          => ClickReply(k, clicks[k].display \in late)' \in {"answered", "retracted"}
    BY <1>2, <2>2, <2>4, <2>6 DEF RepliesTold
  <2>10. ClickReply(k, clicks[k].display \in late) = "click_superseded"
           => ClickReply(k, clicks[k].display \in late)' \in {"click_superseded", "retracted"}
    BY <1>2, <2>2, <2>3, <2>4, <2>7 DEF RepliesTold
  <2> QED
    BY <2>8, <2>9, <2>10
<1>3. MenuInvariant /\ [MenuNext]_vars /\ RepliesTold /\ RepliesTold' =>
        [\A k \in ClientKeys : clicks[k] # NoClick =>
           LET before == ClickReply(k, clicks[k].display \in late)
               after  == ClickReply(k, clicks[k].display \in late)'
           IN /\ before = "retracted" => after = "retracted"
              /\ before = "answered" => after \in {"answered", "retracted"}
              /\ before = "click_superseded" => after \in {"click_superseded", "retracted"}]_vars
  BY <1>2
<1> QED
  BY <1>1, <1>3, MenuInvariance, PTL DEF MenuSpec, RepliesSettle

-----------------------------------------------------------------------------
(* The history of one action *)

LogKinds == UserActions \cup SystemEvents

\* The events a history is made of.
LogEvents ==
  {Plain(kind) : kind \in LogKinds \ ReasonEvents}
    \cup {[Plain(kind) EXCEPT !.reason = r] : kind \in ReasonEvents, r \in Reasons}
    \cup {[Plain("inference_gate_decided") EXCEPT !.gate = Decision(s)] : s \in AllSignals}

\* Which event the status and the reason are owed to.
OwedToRetraction == Withdrawn /\ state.attribution = "none" /\ state.reason = None

OwedToReason ==
  \E i \in Deciders :
    /\ IsMax(i, Deciders) /\ log[i].kind \in ReasonActions
    /\ state.attribution = StatusOf[log[i].kind] /\ state.reason = log[i].reason

OwedToNoneMatched ==
  \E i \in Deciders :
    /\ IsMax(i, Deciders) /\ log[i].kind = "reason_none_matched"
    /\ \A j \in Passing : j < i
    /\ state.attribution = "none_matched" /\ state.reason = None

OwedToPass ==
  \E j \in Passing :
    /\ IsMax(j, Passing)
    /\ \A i \in Deciders : i < j
    /\ Deciders # {} => \E i \in Deciders : IsMax(i, Deciders) /\ log[i].kind = "reason_none_matched"
    /\ state.attribution = StatusOf[log[j].kind] /\ state.reason = None

OwedToSuggestion ==
  /\ Deciders = {} /\ Passing = {}
  /\ \E i \in Suggestions :
       /\ IsMin(i, Suggestions)
       /\ IF \E j \in At({"attribution_invalidated"}) : i < j
            THEN state.attribution = "invalidated" /\ state.reason = None
            ELSE state.attribution = Suggested /\ state.reason = log[i].reason

OwedToNothing ==
  /\ Deciders = {} /\ Passing = {} /\ Suggestions = {}
  /\ state.attribution = "none" /\ state.reason = None

LogInv ==
  /\ log \in Seq(LogEvents)
  /\ IF Withdrawn THEN state.action = "retracted" ELSE state.action = "active"
  /\ \/ OwedToRetraction
     \/ /\ ~Withdrawn
        /\ \/ OwedToReason \/ OwedToNoneMatched \/ OwedToPass
           \/ OwedToSuggestion \/ OwedToNothing

\* What events look like.
LEMMA EventShapes ==
  ASSUME NEW ev \in LogEvents
  PROVE  /\ ev.kind \in LogKinds
         /\ ev.kind \in ReasonEvents \/ ev.reason = None
BY DEF LogEvents, Plain, LogKinds, ReasonEvents, ReasonActions, UserActions, SystemEvents

\* What is appended comes last.
LEMMA LogGrows ==
  ASSUME log \in Seq(LogEvents), NEW ev \in LogEvents, log' = Append(log, ev)
  PROVE  LET n == Len(log) + 1 IN
         /\ log' \in Seq(LogEvents) /\ n \in Nat /\ log'[n] = ev
         /\ \A kinds : At(kinds) \subseteq 1..(n - 1)
         /\ \A kinds : At(kinds)' = IF ev.kind \in kinds THEN At(kinds) \cup {n} ELSE At(kinds)
         /\ \A i \in 1..(n - 1) : log'[i] = log[i]
<1> DEFINE n == Len(log) + 1
<1>1. /\ log' \in Seq(LogEvents) /\ n \in Nat /\ log'[n] = ev /\ n - 1 \in Nat
      /\ DOMAIN log = 1..(n - 1) /\ DOMAIN log' = 1..n /\ n \notin DOMAIN log
      /\ \A i \in 1..(n - 1) : log'[i] = log[i]
  OBVIOUS
<1>2. DOMAIN log' = DOMAIN log \cup {n}
  BY <1>1
<1> HIDE DEF n
<1>3. \A kinds : At(kinds) \subseteq 1..(n - 1)
  BY <1>1 DEF At
<1>4. ASSUME NEW kinds
      PROVE  {i \in DOMAIN log' : log'[i].kind \in kinds}
               = IF ev.kind \in kinds THEN At(kinds) \cup {n} ELSE At(kinds)
  BY <1>1, <1>2 DEF At
<1>5. \A kinds : At(kinds)' = {i \in DOMAIN log' : log'[i].kind \in kinds}
  BY DEF At
<1> QED BY <1>1, <1>3, <1>4, <1>5 DEF n

Declining == {"reason_declined", "reason_skipped", "reason_unresponded"}
Invalidations == At({"attribution_invalidated"})

\* What the statuses can be.
LEMMA OwedStatuses ==
  /\ OwedToReason => state.attribution \in Submitted
  /\ OwedToNoneMatched => state.attribution = "none_matched"
  /\ OwedToPass => state.attribution \in {"declined", "skipped", "unresponded"}
  /\ OwedToSuggestion => state.attribution \in {"invalidated", Suggested}
  /\ OwedToNothing => state.attribution = "none"
<1>1. OwedToReason => state.attribution \in Submitted
  BY DEF OwedToReason, StatusOf, ReasonActions, Submitted
<1>2. OwedToPass => state.attribution \in {"declined", "skipped", "unresponded"}
  <2>1. \A j \in Passing : log[j].kind \in Declining
    BY DEF Passing, At, Declining
  <2> QED BY <2>1 DEF OwedToPass, StatusOf, Declining
<1> QED BY <1>1, <1>2 DEF OwedToNoneMatched, OwedToSuggestion, OwedToNothing

\* An event that decides nothing leaves what is owed to what decided.
LEMMA OwedRests ==
  ASSUME log' \in Seq(LogEvents), NEW n \in Nat,
         Deciders \subseteq 1..(n - 1), Passing \subseteq 1..(n - 1),
         \A i \in 1..(n - 1) : log'[i] = log[i],
         Deciders' = Deciders, UNCHANGED <<state.attribution, state.reason>>
  PROVE  /\ OwedToReason => OwedToReason'
         /\ Passing' = Passing /\ OwedToNoneMatched => OwedToNoneMatched'
         /\ Passing' = Passing /\ OwedToPass => OwedToPass'
<1>1. OwedToReason => OwedToReason'
  BY DEF OwedToReason, IsMax
<1>2. Passing' = Passing /\ OwedToNoneMatched => OwedToNoneMatched'
  BY DEF OwedToNoneMatched, IsMax
<1>3. Passing' = Passing /\ OwedToPass => OwedToPass'
  BY DEF OwedToPass, IsMax
<1> QED BY <1>1, <1>2, <1>3

\* One more event.
LEMMA EventKeeps ==
  ASSUME LogInv, NEW ev \in LogEvents, log' = Append(log, ev), state' = Apply(state, ev)
  PROVE  LogInv'
<1>0. PICK n \in Nat : n = Len(log) + 1
  BY DEF LogInv
<1> DEFINE Gains(kinds) == IF ev.kind \in kinds THEN At(kinds) \cup {n} ELSE At(kinds)
<1>1. /\ log' \in Seq(LogEvents) /\ n \in Nat /\ log'[n] = ev
      /\ \A kinds : At(kinds) \subseteq 1..(n - 1)
      /\ \A kinds : At(kinds)' = Gains(kinds)
      /\ \A i \in 1..(n - 1) : log'[i] = log[i]
  BY <1>0, LogGrows DEF LogInv
<1>2. /\ Deciders \subseteq 1..(n - 1) /\ Passing \subseteq 1..(n - 1)
      /\ Suggestions \subseteq 1..(n - 1) /\ Invalidations \subseteq 1..(n - 1)
      /\ \A i \in 1..(n - 1) : i < n /\ i # n
  BY <1>1 DEF Deciders, Passing, Suggestions, Invalidations
<1>3. /\ Deciders' = IF ev.kind \in ReasonActions \cup {"reason_none_matched"}
                       THEN Deciders \cup {n} ELSE Deciders
      /\ Passing' = IF ev.kind \in Declining THEN Passing \cup {n} ELSE Passing
      /\ Suggestions' = IF ev.kind = "model_suggestion_recorded" THEN Suggestions \cup {n} ELSE Suggestions
      /\ Invalidations' = IF ev.kind = "attribution_invalidated" THEN Invalidations \cup {n}
                          ELSE Invalidations
      /\ Withdrawn' <=> Withdrawn \/ ev.kind = "action_retracted"
  <2>1. /\ At(ReasonActions \cup {"reason_none_matched"})' = Gains(ReasonActions \cup {"reason_none_matched"})
        /\ At(Declining)' = Gains(Declining)
        /\ At({"model_suggestion_recorded"})' = Gains({"model_suggestion_recorded"})
        /\ At({"attribution_invalidated"})' = Gains({"attribution_invalidated"})
        /\ At({"action_retracted"})' = Gains({"action_retracted"})
    BY <1>1
  <2> QED BY <2>1 DEF Deciders, Passing, Suggestions, Invalidations, Withdrawn, Declining
<1>4. ev.kind \in ReasonEvents \/ ev.reason = None
  BY EventShapes
<1>5. CASE Withdrawn
  <2>1. state' = state /\ Withdrawn' /\ OwedToRetraction
    BY <1>3, <1>5 DEF LogInv, Apply
  <2> QED BY <1>1, <1>5, <2>1 DEF LogInv, OwedToRetraction
<1>6. CASE ~Withdrawn
  <2>1. /\ state.action = "active" /\ ~OwedToRetraction
        /\ OwedToReason \/ OwedToNoneMatched \/ OwedToPass \/ OwedToSuggestion \/ OwedToNothing
    BY <1>6 DEF LogInv, OwedToRetraction
  <2>2. /\ state'.action = IF ev.kind = "action_retracted" THEN "retracted" ELSE state.action
        /\ state'.attribution = Attribution(state, ev)[1]
        /\ state'.reason = Attribution(state, ev)[2]
    BY <2>1 DEF Apply, Projected
  <2>3. CASE ev.kind = "action_retracted"
    <3>1. Attribution(state, ev) = <<"none", None>>
      BY <2>3 DEF Attribution, ReasonActions
    <3>2. OwedToRetraction' /\ state'.action = "retracted" /\ Withdrawn'
      BY <1>3, <2>2, <2>3, <3>1 DEF OwedToRetraction
    <3> QED BY <1>1, <3>2 DEF LogInv
  <2>4. ASSUME ev.kind # "action_retracted",
               (OwedToReason \/ OwedToNoneMatched \/ OwedToPass \/ OwedToSuggestion \/ OwedToNothing)'
        PROVE  LogInv'
    <3>1. state'.action = "active" /\ ~Withdrawn'
      BY <1>3, <1>6, <2>1, <2>2, <2>4
    <3> QED BY <1>1, <2>4, <3>1 DEF LogInv
  <2>5. CASE ev.kind \in ReasonActions
    <3>1. Attribution(state, ev) = <<StatusOf[ev.kind], ev.reason>>
      BY <2>5 DEF Attribution, ReasonActions
    <3>2. n \in Deciders' /\ IsMax(n, Deciders)'
      BY <1>2, <1>3, <2>5 DEF IsMax
    <3>3. OwedToReason'
      <4>1. log'[n].kind \in ReasonActions /\ state'.attribution = StatusOf[log'[n].kind]
            /\ state'.reason = log'[n].reason
        BY <1>1, <2>2, <2>5, <3>1
      <4> QED BY <3>2, <4>1 DEF OwedToReason
    <3>4. ev.kind # "action_retracted"
      BY <2>5 DEF ReasonActions
    <3> QED BY <2>4, <3>3, <3>4
  <2>6. CASE ev.kind = "reason_none_matched"
    <3>1. Attribution(state, ev) = <<"none_matched", None>>
      BY <2>6 DEF Attribution, ReasonActions
    <3>2. n \in Deciders' /\ IsMax(n, Deciders)' /\ Passing' = Passing
      BY <1>2, <1>3, <2>6 DEF IsMax, Declining
    <3>3. \A j \in Passing' : j < n
      BY <1>2, <3>2
    <3>4. OwedToNoneMatched'
      <4>1. log'[n].kind = "reason_none_matched" /\ state'.attribution = "none_matched"
            /\ state'.reason = None
        BY <1>1, <2>2, <2>6, <3>1
      <4> QED BY <3>2, <3>3, <4>1 DEF OwedToNoneMatched
    <3> QED BY <2>4, <2>6, <3>4
  <2>7. CASE ev.kind \in Declining
    <3>0. ev.kind # "action_retracted" /\ Deciders' = Deciders /\ Passing' = Passing \cup {n}
      BY <1>3, <2>7 DEF Declining, ReasonActions
    <3>1. CASE OwedToReason
      <4>1. Attribution(state, ev) = <<state.attribution, state.reason>>
        BY <2>7, <3>1, OwedStatuses DEF Attribution, Declining, ReasonActions
      <4>2. UNCHANGED <<state.attribution, state.reason>>
        BY <2>2, <4>1
      <4>3. OwedToReason'
        BY <1>1, <1>2, <3>0, <3>1, <4>2, OwedRests
      <4> QED BY <2>4, <3>0, <4>3
    <3>2. CASE ~OwedToReason
      <4>1. state.attribution \notin Submitted
        BY <2>1, <3>2, OwedStatuses DEF Submitted, Suggested
      <4>2. Attribution(state, ev) = <<StatusOf[ev.kind], None>>
        BY <2>7, <4>1 DEF Attribution, Declining, ReasonActions
      <4>3. n \in Passing' /\ IsMax(n, Passing)' /\ \A i \in Deciders' : i < n
        BY <1>2, <3>0 DEF IsMax
      <4>4. Deciders # {} =>
              \E i \in Deciders : IsMax(i, Deciders) /\ log[i].kind = "reason_none_matched"
        BY <2>1, <3>2 DEF OwedToNoneMatched, OwedToPass, OwedToSuggestion, OwedToNothing
      <4>5. (Deciders # {} =>
              \E i \in Deciders : IsMax(i, Deciders) /\ log[i].kind = "reason_none_matched")'
        BY <1>1, <1>2, <3>0, <4>4 DEF IsMax
      <4>6. OwedToPass'
        <5>1. state'.attribution = StatusOf[log'[n].kind] /\ state'.reason = None
          BY <1>1, <2>2, <4>2
        <5> QED BY <4>3, <4>5, <5>1 DEF OwedToPass
      <4> QED BY <2>4, <3>0, <4>6
    <3> QED BY <3>1, <3>2
  <2>8. CASE ev.kind \notin ReasonActions \cup Declining \cup {"reason_none_matched", "action_retracted"}
    <3>0. Deciders' = Deciders /\ Passing' = Passing
      BY <1>3, <2>8
    <3>1. CASE OwedToReason \/ OwedToNoneMatched \/ OwedToPass
      <4>1. state.attribution \notin {"none", Suggested}
        BY <3>1, OwedStatuses DEF Submitted, Suggested
      <4>2. Attribution(state, ev) = <<state.attribution, state.reason>>
        BY <2>8, <4>1 DEF Attribution, Declining
      <4>3. UNCHANGED <<state.attribution, state.reason>>
        BY <2>2, <4>2
      <4>4. (OwedToReason \/ OwedToNoneMatched \/ OwedToPass)'
        BY <1>1, <1>2, <3>0, <3>1, <4>3, OwedRests
      <4> QED BY <2>4, <2>8, <4>4
    <3>2. CASE OwedToSuggestion
      <4>1. PICK i \in Suggestions :
              /\ IsMin(i, Suggestions)
              /\ IF \E j \in Invalidations : i < j
                   THEN state.attribution = "invalidated" /\ state.reason = None
                   ELSE state.attribution = Suggested /\ state.reason = log[i].reason
        BY <3>2 DEF OwedToSuggestion, Invalidations
      <4>2. i \in Suggestions' /\ IsMin(i, Suggestions)' /\ log'[i] = log[i]
        <5>1. log'[i] = log[i] /\ i \in Suggestions'
          BY <1>1, <1>2, <1>3, <4>1
        <5>2. \A j \in Suggestions' : i <= j
          BY <1>2, <1>3, <4>1 DEF IsMin
        <5> QED BY <5>1, <5>2 DEF IsMin
      <4>3. IF (\E j \in Invalidations : i < j)'
              THEN state'.attribution = "invalidated" /\ state'.reason = None
              ELSE state'.attribution = Suggested /\ state'.reason = log'[i].reason
        <5>1. CASE \E j \in Invalidations : i < j
          <6>1. Attribution(state, ev) = <<state.attribution, state.reason>>
            BY <2>8, <4>1, <5>1 DEF Attribution, Declining, Suggested
          <6> QED BY <1>3, <2>2, <4>1, <5>1, <6>1
        <5>2. CASE ev.kind = "attribution_invalidated" /\ ~\E j \in Invalidations : i < j
          <6>1. Attribution(state, ev) = <<"invalidated", None>>
            BY <4>1, <5>2 DEF Attribution, Suggested, ReasonActions
          <6> QED BY <1>2, <1>3, <2>2, <4>1, <5>2, <6>1
        <5>3. CASE ev.kind # "attribution_invalidated" /\ ~\E j \in Invalidations : i < j
          <6>1. Attribution(state, ev) = <<state.attribution, state.reason>>
            BY <2>8, <4>1, <5>3 DEF Attribution, Declining, Suggested
          <6> QED BY <1>3, <2>2, <4>1, <4>2, <5>3, <6>1
        <5> QED BY <5>1, <5>2, <5>3
      <4>4. OwedToSuggestion'
        BY <3>0, <3>2, <4>2, <4>3 DEF OwedToSuggestion, Invalidations
      <4> QED BY <2>4, <2>8, <4>4
    <3>3. CASE OwedToNothing
      <4>1. CASE ev.kind = "model_suggestion_recorded"
        <5>1. Attribution(state, ev) = <<Suggested, ev.reason>>
          BY <3>3, <4>1 DEF OwedToNothing, Attribution, ReasonActions, Suggested
        <5>2. Suggestions' = {n} /\ Invalidations' = Invalidations
          BY <1>3, <3>3, <4>1 DEF OwedToNothing
        <5>3. n \in Suggestions' /\ IsMin(n, Suggestions)' /\ ~(\E j \in Invalidations : n < j)'
          BY <1>1, <1>2, <5>2 DEF IsMin
        <5>4. OwedToSuggestion'
          <6>1. state'.attribution = Suggested /\ state'.reason = log'[n].reason
            BY <1>1, <2>2, <5>1
          <6>2. Deciders' = {} /\ Passing' = {}
            BY <3>0, <3>3 DEF OwedToNothing
          <6> QED BY <5>3, <6>1, <6>2 DEF OwedToSuggestion, Invalidations
        <5> QED BY <2>4, <2>8, <5>4
      <4>2. CASE ev.kind # "model_suggestion_recorded"
        <5>1. Attribution(state, ev) = <<state.attribution, state.reason>>
          BY <2>8, <3>3, <4>2 DEF OwedToNothing, Attribution, Declining, Suggested
        <5>2. OwedToNothing'
          <6>1. state'.attribution = "none" /\ state'.reason = None
            BY <2>2, <3>3, <5>1 DEF OwedToNothing
          <6>2. Deciders' = {} /\ Passing' = {} /\ Suggestions' = {}
            BY <1>3, <3>0, <3>3, <4>2 DEF OwedToNothing
          <6> QED BY <6>1, <6>2 DEF OwedToNothing
        <5> QED BY <2>4, <2>8, <5>2
      <4> QED BY <4>1, <4>2
    <3> QED BY <2>1, <3>1, <3>2, <3>3
  <2> QED BY <2>3, <2>5, <2>6, <2>7, <2>8
<1> QED BY <1>5, <1>6

\* The first event of a history.
LEMMA LogInvInitially == LogInit => LogInv
<1> SUFFICES ASSUME LogInit PROVE LogInv
  OBVIOUS
<1>1. /\ Recorded \in LogEvents /\ Recorded.kind = "negative_feedback_action_recorded"
      /\ log = <<Recorded>>
  <2>1. "negative_feedback_action_recorded" \in LogKinds \ ReasonEvents
    BY DEF LogKinds, SystemEvents, ReasonEvents, ReasonActions
  <2>2. Recorded \in LogEvents
    BY <2>1 DEF Recorded, LogEvents
  <2>3. Recorded.kind = "negative_feedback_action_recorded"
    BY DEF Recorded, Plain
  <2> QED BY <2>2, <2>3 DEF LogInit
<1>2. log \in Seq(LogEvents) /\ \A i \in DOMAIN log : log[i].kind = "negative_feedback_action_recorded"
  BY <1>1
<1>3. Deciders = {} /\ Passing = {} /\ Suggestions = {} /\ ~Withdrawn
  BY <1>2 DEF Deciders, Passing, Suggestions, Withdrawn, At, ReasonActions
<1>4. Attribution(FreshProjection, Recorded) = <<"none", None>>
  BY <1>1 DEF Attribution, FreshProjection, ReasonActions
<1>5. state = Projected(FreshProjection, Recorded)
  BY DEF LogInit, Apply, FreshProjection
<1>6. state.action = "active" /\ state.attribution = "none" /\ state.reason = None
  BY <1>1, <1>4, <1>5 DEF Projected, FreshProjection
<1> QED BY <1>2, <1>3, <1>6 DEF LogInv, OwedToNothing

\* Every step.
LEMMA LogNextKeeps == LogInv /\ [LogNext]_logVars => LogInv'
<1>1. ASSUME LogInv, NEW ev \in LogEvents, Extend(ev)
      PROVE  LogInv'
  BY <1>1, EventKeeps DEF Extend
<1>2. ASSUME LogInv, RecordPlain PROVE LogInv'
  <2>1. PICK kind \in LogKinds \ ReasonEvents : Extend(Plain(kind))
    BY <1>2 DEF RecordPlain, LogKinds
  <2>2. Plain(kind) \in LogEvents
    BY DEF LogEvents
  <2> QED BY <1>1, <1>2, <2>1, <2>2
<1>3. ASSUME LogInv, RecordReason PROVE LogInv'
  <2>1. PICK kind \in ReasonEvents, r \in Reasons : Extend([Plain(kind) EXCEPT !.reason = r])
    BY <1>3 DEF RecordReason
  <2>2. [Plain(kind) EXCEPT !.reason = r] \in LogEvents
    BY DEF LogEvents
  <2> QED BY <1>1, <1>3, <2>1, <2>2
<1>4. ASSUME LogInv, RecordDecision PROVE LogInv'
  <2>1. PICK s \in LogSignals : Extend([Plain("inference_gate_decided") EXCEPT !.gate = Decision(s)])
    BY <1>4 DEF RecordDecision
  <2>2. [Plain("inference_gate_decided") EXCEPT !.gate = Decision(s)] \in LogEvents
    BY LogAssumption DEF LogEvents
  <2> QED BY <1>1, <1>4, <2>1, <2>2
<1>5. ASSUME LogInv, UNCHANGED logVars PROVE LogInv'
  BY <1>5 DEF logVars, LogInv, OwedToRetraction, OwedToReason, OwedToNoneMatched, OwedToPass,
              OwedToSuggestion, OwedToNothing, Withdrawn, Deciders, Passing, Suggestions, At, IsMax, IsMin
<1> QED BY <1>2, <1>3, <1>4, <1>5 DEF LogNext

\* The last of some events is one event.
LEMMA OneLast ==
  ASSUME NEW S \in SUBSET Nat, NEW i \in S, IsMax(i, S)
  PROVE  \A j \in S : IsMax(j, S) => j = i
BY DEF IsMax

\* So is the first.
LEMMA OneFirst ==
  ASSUME NEW S \in SUBSET Nat, NEW i \in S, IsMin(i, S)
  PROVE  \A j \in S : IsMin(j, S) => j = i
BY DEF IsMin

\* Whoever the status is owed to, it is the one the declarative reading names.
LEMMA OwedIsRead == LogInv => ProjectMatchesReference
<1> SUFFICES ASSUME LogInv PROVE <<state.attribution, state.reason>> = ReferenceAttribution
  BY DEF ProjectMatchesReference
<1> DEFINE firm   == {i \in Deciders : IsMax(i, Deciders)}
           stands == \E i \in firm : log[i].kind \in ReasonActions
           free   == {i \in Passing : \A j \in firm : j < i}
           quiet  == Deciders = {} /\ Passing = {}
           first  == {i \in Suggestions : IsMin(i, Suggestions)}
           undone == \E i \in first : \E j \in At({"attribution_invalidated"}) : i < j
           lastPass == CHOOSE j \in free : IsMax(j, free)
           decider == CHOOSE j \in firm : TRUE
           suggestion == CHOOSE j \in first : TRUE
           passed == <<StatusOf[log[lastPass].kind], None>>
           decided == <<StatusOf[log[decider].kind], log[decider].reason>>
           suggested == IF undone THEN <<"invalidated", None>> ELSE <<Suggested, log[suggestion].reason>>
<1>1. /\ Withdrawn => ReferenceAttribution = <<"none", None>>
      /\ ~Withdrawn /\ ~stands /\ free # {} => ReferenceAttribution = passed
      /\ ~Withdrawn /\ firm # {} /\ (stands \/ free = {}) => ReferenceAttribution = decided
      /\ ~Withdrawn /\ firm = {} /\ free = {} /\ ~stands /\ quiet /\ first # {} =>
           ReferenceAttribution = suggested
      /\ ~Withdrawn /\ firm = {} /\ free = {} /\ ~stands /\ first = {} =>
           ReferenceAttribution = <<"none", None>>
  <2>1. ReferenceAttribution =
          CASE Withdrawn -> <<"none", None>>
            [] ~Withdrawn /\ ~stands /\ free # {} -> passed
            [] ~Withdrawn /\ firm # {} /\ (stands \/ free = {}) -> decided
            [] ~Withdrawn /\ quiet /\ first # {} -> suggested
            [] OTHER -> <<"none", None>>
    BY DEF ReferenceAttribution
  <2>2. /\ Withdrawn \in BOOLEAN /\ stands \in BOOLEAN /\ quiet \in BOOLEAN
        /\ quiet => firm = {} /\ free = {}
    BY DEF Withdrawn
  <2> HIDE DEF firm, stands, free, quiet, first, undone, passed, decided, suggested
  <2> QED BY <2>1, <2>2
<1>2. Deciders \in SUBSET Nat /\ Passing \in SUBSET Nat /\ Suggestions \in SUBSET Nat
  <2>1. DOMAIN log \in SUBSET Nat
    BY DEF LogInv
  <2> QED BY <2>1 DEF Deciders, Passing, Suggestions, At
<1>3. \A i \in Deciders : log[i].kind \in ReasonActions \cup {"reason_none_matched"}
  BY DEF Deciders, At
<1>4. \A i \in DOMAIN log : log[i].kind \in ReasonEvents \/ log[i].reason = None
  BY EventShapes DEF LogInv
<1> HIDE DEF firm, stands, free, quiet, first, undone, lastPass, decider, suggestion,
             passed, decided, suggested
<1>5. CASE Withdrawn
  BY <1>1, <1>5 DEF LogInv, OwedToRetraction
<1>6. CASE ~Withdrawn /\ OwedToReason
  <2>1. PICK i \in Deciders :
          /\ IsMax(i, Deciders) /\ log[i].kind \in ReasonActions
          /\ state.attribution = StatusOf[log[i].kind] /\ state.reason = log[i].reason
    BY <1>6 DEF OwedToReason
  <2>2. firm = {i} /\ stands
    BY <1>2, <2>1, OneLast DEF firm, stands
  <2>3. decider = i
    BY <2>2 DEF decider
  <2>4. ReferenceAttribution = decided
    <3>1. firm # {} /\ stands /\ ~Withdrawn
      BY <1>6, <2>2
    <3> QED BY <1>1, <3>1
  <2> QED BY <2>1, <2>3, <2>4 DEF decided
<1>7. CASE ~Withdrawn /\ OwedToNoneMatched
  <2>1. PICK i \in Deciders :
          /\ IsMax(i, Deciders) /\ log[i].kind = "reason_none_matched"
          /\ \A j \in Passing : j < i
          /\ state.attribution = "none_matched" /\ state.reason = None
    BY <1>7 DEF OwedToNoneMatched
  <2>2. firm = {i} /\ ~stands
    BY <1>2, <2>1, OneLast DEF firm, stands, ReasonActions
  <2>3. free = {}
    <3> SUFFICES ASSUME NEW j \in free PROVE FALSE
      OBVIOUS
    <3>1. j \in Passing /\ i < j
      BY <2>2 DEF free
    <3>2. j < i /\ i \in Nat /\ j \in Nat
      BY <1>2, <2>1, <3>1
    <3> QED BY <3>1, <3>2
  <2>4. decider = i
    BY <2>2 DEF decider
  <2>5. log[i].reason = None /\ StatusOf[log[i].kind] = "none_matched"
    BY <1>4, <2>1 DEF Deciders, At, ReasonEvents, ReasonActions, StatusOf
  <2>6. ReferenceAttribution = decided
    <3>1. firm # {} /\ ~stands /\ free = {} /\ ~Withdrawn
      BY <1>7, <2>2, <2>3
    <3> QED BY <1>1, <3>1
  <2> QED BY <2>1, <2>4, <2>5, <2>6 DEF decided
<1>8. CASE ~Withdrawn /\ OwedToPass
  <2>1. PICK j \in Passing :
          /\ IsMax(j, Passing) /\ \A i \in Deciders : i < j
          /\ Deciders # {} => \E i \in Deciders : IsMax(i, Deciders) /\ log[i].kind = "reason_none_matched"
          /\ state.attribution = StatusOf[log[j].kind] /\ state.reason = None
    BY <1>8 DEF OwedToPass
  <2>2. ~stands
    <3> SUFFICES ASSUME NEW i \in firm, log[i].kind \in ReasonActions PROVE FALSE
      BY DEF stands
    <3>1. i \in Deciders /\ IsMax(i, Deciders)
      BY DEF firm
    <3>2. PICK k \in Deciders : IsMax(k, Deciders) /\ log[k].kind = "reason_none_matched"
      BY <2>1, <3>1
    <3>3. k = i
      BY <1>2, <3>1, <3>2, OneLast
    <3> QED BY <3>2, <3>3 DEF ReasonActions
  <2>3. j \in free /\ IsMax(j, free) /\ free \in SUBSET Nat
    BY <1>2, <2>1 DEF free, firm, IsMax
  <2>4. lastPass = j
    BY <2>3, OneLast DEF lastPass
  <2>5. ReferenceAttribution = passed
    <3>1. free # {} /\ ~stands /\ ~Withdrawn
      BY <1>8, <2>2, <2>3
    <3> QED BY <1>1, <3>1
  <2> QED BY <2>1, <2>4, <2>5 DEF passed
<1>9. CASE ~Withdrawn /\ OwedToSuggestion
  <2>1. PICK i \in Suggestions :
          /\ IsMin(i, Suggestions)
          /\ IF \E j \in At({"attribution_invalidated"}) : i < j
               THEN state.attribution = "invalidated" /\ state.reason = None
               ELSE state.attribution = Suggested /\ state.reason = log[i].reason
    BY <1>9 DEF OwedToSuggestion
  <2>2. firm = {} /\ free = {} /\ ~stands /\ quiet
    BY <1>9 DEF OwedToSuggestion, firm, free, stands, quiet
  <2>3. first = {i}
    BY <1>2, <2>1, OneFirst DEF first
  <2>4. suggestion = i
    BY <2>3 DEF suggestion
  <2>5. undone <=> \E j \in At({"attribution_invalidated"}) : i < j
    BY <2>3 DEF undone
  <2>6. ReferenceAttribution = suggested
    BY <1>1, <1>9, <2>2, <2>3
  <2> QED BY <2>1, <2>4, <2>5, <2>6 DEF suggested
<1>10. CASE ~Withdrawn /\ OwedToNothing
  <2>1. firm = {} /\ free = {} /\ ~stands /\ first = {}
    BY <1>10 DEF OwedToNothing, firm, free, stands, first
  <2> QED BY <1>1, <1>10, <2>1 DEF OwedToNothing
<1> QED BY <1>5, <1>6, <1>7, <1>8, <1>9, <1>10 DEF LogInv, OwedToRetraction

\* The loop of project computes the declarative reading of every history, whatever its
\* length: the last reason or "none matched" decides, a pass counts only where no reason
\* stands, the first suggestion shows only where the user never answered, and nothing after
\* the retraction counts.
THEOREM LoopIsReading == LogSpec => []ProjectMatchesReference
<1> QED BY LogInvInitially, LogNextKeeps, OwedIsRead, PTL DEF LogSpec

=============================================================================
