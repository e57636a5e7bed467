----------------------------- MODULE FeedbackStore -----------------------------
(***************************************************************************)
(* EventStore of src/whynote/store.py: one SQLite database shared by every *)
(* host process.  Each operation runs inside one BEGIN IMMEDIATE           *)
(* transaction, so each is one action here; a call that raises rolls back  *)
(* and is no step.  One principal owns every row: all lookups are keyed by *)
(* tenant and actor, and other principals only ever get NotFoundError.     *)
(* The projection of an action is kept beside its events (view), the fold  *)
(* of FeedbackDomain!Apply over them.                                      *)
(***************************************************************************)
EXTENDS FeedbackDomain, FiniteSets

CONSTANTS EventIds,   \* identifiers uuid4 can give to actions
          Targets,    \* answer versions a user can give feedback on
          ClientKeys, \* idempotency keys chosen by callers
          Displays,   \* display identifiers
          Signals     \* gate signals the policy service can return

ASSUME StoreAssumption ==
  /\ None \notin EventIds \cup Targets \cup ClientKeys \cup Displays
  /\ Signals \subseteq AllSignals

Contracts == {"manual-v1", "none"}

\* Every idempotency key the code derives: hashes are injective here.
ClientKey(k)      == <<"client", k>>
NextGeneration(k, e) == <<"generation", k, e>>
ToggleCreate(k)   == <<"toggle-create", k>>
ToggleRetract(k)  == <<"toggle-retract", k>>
ChoiceKey(d)      == <<"s0-choice", d>>
Keys == {ClientKey(k) : k \in ClientKeys}
          \cup {NextGeneration(k, e) : k \in ClientKeys, e \in EventIds}
          \cup {ToggleCreate(k) : k \in ClientKeys}
          \cup {ToggleRetract(k) : k \in ClientKeys}
          \cup {ChoiceKey(d) : d \in Displays}

Topics == {"feedback.gate.requested", "feedback.action.retracted"}

VARIABLES
  actions,     \* event id -> its target, None before the row exists
  events,      \* event id -> its append-only events
  view,        \* event id -> project(events)
  idempotency, \* key -> its row
  outbox,      \* messages in order of insertion
  clicks,      \* host_clicks: key -> reserved menu
  tickets      \* display_tickets: event id -> the only display that may write

storeVars == <<actions, events, view, idempotency, outbox, clicks, tickets>>

NoRow   == [operation |-> "none", target |-> None, contract |-> "none",
            event |-> None, record |-> 0]
NoClick == [event |-> None, display |-> None, published |-> FALSE]

Init ==
  /\ actions = [e \in EventIds |-> None]
  /\ events = [e \in EventIds |-> << >>]
  /\ view = [e \in EventIds |-> FreshProjection]
  /\ idempotency = [k \in Keys |-> NoRow]
  /\ outbox = << >>
  /\ clicks = [k \in ClientKeys |-> NoClick]
  /\ tickets = [e \in EventIds |-> None]

-----------------------------------------------------------------------------
(* Reading the tables *)

Exists(e)   == actions[e] # None
Retracted(e) == view[e].action = "retracted"
IsActive(e) == Exists(e) /\ view[e].action = "active"
ActiveOn(t) == {e \in EventIds : actions[e] = t /\ view[e].action = "active"}

Row(operation, t, c, e, i) ==
  [operation |-> operation, target |-> t, contract |-> c, event |-> e, record |-> i]
Unused(key) == idempotency[key] = NoRow
SameRequest(key, operation, t, c) ==
  /\ idempotency[key].operation = operation
  /\ idempotency[key].target = t
  /\ idempotency[key].contract = c

\* An unknown ticket restricts nothing (displays older than tickets).
TicketIsCurrent(e, d) == tickets[e] \in {None, d}

ShownAt(e, i, d) == events[e][i].kind = "reason_displayed" /\ events[e][i].display = d
Shown(e, d)      == \E i \in DOMAIN events[e] : ShownAt(e, i, d)
LastShownAt(e, i) ==
  /\ i \in DOMAIN events[e] /\ events[e][i].kind = "reason_displayed"
  /\ \A j \in DOMAIN events[e] : j > i => events[e][j].kind # "reason_displayed"
AnsweredAt(e, i, d) == events[e][i].kind \in UserActions /\ events[e][i].display = d
Answered(e, d)   == \E i \in DOMAIN events[e] : AnsweredAt(e, i, d)

-----------------------------------------------------------------------------
(* Writing the tables *)

Appended(e, ev) ==
  /\ events' = [events EXCEPT ![e] = Append(@, ev)]
  /\ view' = [view EXCEPT ![e] = Apply(@, ev)]

Saved(key, row) == [idempotency EXCEPT ![key] = row]

Message(e, topic) == [event |-> e, topic |-> topic, processed |-> FALSE]

\* Mutant: the gate is asked once per target, not once per action.
InsertAskedOncePerTarget(e, t) ==
  /\ ~Exists(e)
  /\ actions' = [actions EXCEPT ![e] = t]
  /\ Appended(e, Plain("negative_feedback_action_recorded"))
  /\ outbox' = IF \E f \in EventIds : actions[f] = t THEN outbox
               ELSE Append(outbox, Message(e, "feedback.gate.requested"))

\* The action row, its first event and its gate message commit together.
Insert(e, t) ==
  /\ ~Exists(e)
  /\ actions' = [actions EXCEPT ![e] = t]
  /\ Appended(e, Plain("negative_feedback_action_recorded"))
  /\ outbox' = Append(outbox, Message(e, "feedback.gate.requested"))

\* Mutant: an active action of the target does not stop an insertion.
JoinOrInsertBlind(t, c, e) ==
  \/ /\ c = "manual-v1" /\ ActiveOn(t) = {e}
     /\ UNCHANGED <<actions, events, view, outbox>>
  \/ Insert(e, t)

\* The manual contract joins the single active action of its target and refuses
\* to choose between several; the older contract always inserts.
JoinOrInsert(t, c, e) ==
  \/ /\ c = "manual-v1" /\ ActiveOn(t) = {e}
     /\ UNCHANGED <<actions, events, view, outbox>>
  \/ /\ c = "manual-v1" => ActiveOn(t) = {}
     /\ Insert(e, t)

-----------------------------------------------------------------------------
(* Operations that create *)

\* create_action with an unused key; a used one is a replay and writes nothing.
CreateAction(k, t, c, e) ==
  /\ Unused(ClientKey(k))
  /\ JoinOrInsert(t, c, e)
  /\ idempotency' = Saved(ClientKey(k), Row("create", t, c, e, 1))
  /\ UNCHANGED <<clicks, tickets>>

\* restart_retracted: the keys reached while every older generation is retracted.
Generations(k) ==
  {ClientKey(k)} \cup {NextGeneration(k, e) : e \in {x \in EventIds : Retracted(x)}}
Reached(k, key) ==
  \/ key = ClientKey(k)
  \/ \E old \in Generations(k) :
       /\ ~Unused(old)
       /\ Retracted(idempotency[old].event)
       /\ key = NextGeneration(k, idempotency[old].event)

\* create_action(restart_retracted=True) of a host callback without a click id.
CreateGeneration(k, t, e) ==
  /\ ~Unused(ClientKey(k)) => SameRequest(ClientKey(k), "create", t, "manual-v1")
  /\ \E key \in Generations(k) :
       /\ Reached(k, key) /\ Unused(key)
       /\ JoinOrInsert(t, "manual-v1", e)
       /\ idempotency' = Saved(key, Row("create", t, "manual-v1", e, 1))
  /\ UNCHANGED <<clicks, tickets>>

\* begin_host_click with a new click: create or join, reserve the menu and make
\* its display the only one that may write.
BeginHostClick(k, t, d, e) ==
  /\ Unused(ClientKey(k))
  /\ JoinOrInsert(t, "manual-v1", e)
  /\ idempotency' = Saved(ClientKey(k), Row("create", t, "manual-v1", e, 1))
  /\ clicks' = [clicks EXCEPT ![k] = [event |-> e, display |-> d, published |-> FALSE]]
  /\ tickets' = [tickets EXCEPT ![e] = d]

\* Mutant: the ticket is looked at before the answer.
ClickReplyTicketFirst(k, expired) ==
  LET e == idempotency[ClientKey(k)].event
      d == clicks[k].display
  IN CASE Retracted(e) -> "retracted"
       [] ~Retracted(e) /\ clicks[k] = NoClick -> "legacy_click_unavailable"
       [] ~Retracted(e) /\ clicks[k] # NoClick /\ ~TicketIsCurrent(e, d) -> "click_superseded"
       [] OTHER -> IF \E i \in DOMAIN events[e] : /\ events[e][i].display = d
                                                  /\ events[e][i].kind \in UserActions
                     THEN "answered" ELSE "click_pending"

\* What begin_host_click answers to a click it has already reserved; expired says
\* whether the caller's clock has passed the published deadline.
ClickReply(k, expired) ==
  LET e == idempotency[ClientKey(k)].event
      d == clicks[k].display
      closing == {i \in DOMAIN events[e] :
                    /\ events[e][i].display = d
                    /\ events[e][i].kind \in
                         {"reason_selected", "reason_edited"} \cup ManualOperations}
  IN CASE Retracted(e) -> "retracted"
       [] ~Retracted(e) /\ clicks[k] = NoClick -> "legacy_click_unavailable"
       [] ~Retracted(e) /\ clicks[k] # NoClick /\ closing # {} -> "answered"
       [] ~Retracted(e) /\ clicks[k] # NoClick /\ closing = {} ->
            IF ~TicketIsCurrent(e, d) THEN "click_superseded"
            ELSE IF clicks[k].published /\ expired THEN "ticket_expired"
            ELSE "click_pending"

\* set_host_click_deadline: published once, for the menu that was reserved.
SetHostClickDeadline(k, e, d) ==
  /\ clicks[k].event = e /\ clicks[k].display = d
  /\ clicks' = [clicks EXCEPT ![k].published = TRUE]
  /\ UNCHANGED <<actions, events, view, idempotency, outbox, tickets>>

-----------------------------------------------------------------------------
(* Operations on an existing action *)

\* The first retraction appends its event and its message together.
Withdraw(e) ==
  /\ Exists(e) /\ ~Retracted(e)
  /\ Appended(e, Plain("action_retracted"))
  /\ outbox' = Append(outbox, Message(e, "feedback.action.retracted"))

FirstRetractionAt(e, i) ==
  /\ i \in DOMAIN events[e] /\ events[e][i].kind = "action_retracted"
  /\ \A j \in DOMAIN events[e] : j < i => events[e][j].kind # "action_retracted"

\* retract_action with an unused key: a later request only records that the
\* action was already retracted, and when.
RetractAction(key, e) ==
  /\ Unused(key)
  /\ \/ /\ Withdraw(e)
        /\ idempotency' = Saved(key, Row("retract", None, "none", e, Len(events[e]) + 1))
     \/ /\ Retracted(e)
        /\ \E i \in DOMAIN events[e] :
             /\ FirstRetractionAt(e, i)
             /\ idempotency' = Saved(key, Row("retract", None, "none", e, i))
        /\ UNCHANGED <<events, view, outbox>>
  /\ UNCHANGED <<actions, clicks, tickets>>

\* toggle_action with an unused key: retract the one active action of the target
\* or create one; the inner operation and the toggle save a row each.
ToggleAction(k, t, e) ==
  /\ Unused(ClientKey(k))
  /\ \/ /\ ActiveOn(t) = {e} /\ Unused(ToggleRetract(k))
        /\ Withdraw(e)
        /\ idempotency' =
             [Saved(ToggleRetract(k), Row("retract", None, "none", e, Len(events[e]) + 1))
                EXCEPT ![ClientKey(k)] = Row("toggle", t, "manual-v1", e, Len(events[e]) + 1)]
        /\ UNCHANGED actions
     \/ /\ ActiveOn(t) = {} /\ Unused(ToggleCreate(k))
        /\ Insert(e, t)
        /\ idempotency' =
             [Saved(ToggleCreate(k), Row("create", t, "manual-v1", e, 1))
                EXCEPT ![ClientKey(k)] = Row("toggle", t, "manual-v1", e, 1)]
  /\ UNCHANGED <<clicks, tickets>>

\* issue_display_ticket: the newest menu supersedes every pending one.
IssueDisplayTicket(e, d) ==
  /\ IsActive(e)
  /\ tickets' = [tickets EXCEPT ![e] = d]
  /\ UNCHANGED <<actions, events, view, idempotency, outbox, clicks>>

Display(d, mode, shown, ui) ==
  [Plain("reason_displayed") EXCEPT !.display = d, !.mode = mode,
                                    !.shown = shown, !.ui = ui]

\* record_display of a display not recorded yet.
RecordDisplay(e, d, mode, shown, ui) ==
  /\ Exists(e) /\ ~Shown(e, d)
  /\ TicketIsCurrent(e, d)
  /\ ValidDisplay(view[e], mode, shown, ui)
  /\ Appended(e, Display(d, mode, shown, ui))
  /\ UNCHANGED <<actions, idempotency, outbox, clicks, tickets>>

Response(kind, reason, d, ui, mode) ==
  [Plain(kind) EXCEPT !.reason = reason, !.display = d, !.ui = ui, !.mode = mode]

\* Mutant: a display is answered under another key once more.
AcceptsAgain(e, kind, reason, d) ==
  /\ Exists(e) /\ TicketIsCurrent(e, d)
  /\ \E i \in DOMAIN events[e] :
       /\ ShownAt(e, i, d) /\ LastShownAt(e, i)
       /\ ValidResponse(view[e], kind, reason, events[e][i])

\* Whether record_user_action appends this answer to the display shown last.
Accepts(e, kind, reason, d) ==
  /\ Exists(e) /\ TicketIsCurrent(e, d) /\ ~Answered(e, d)
  /\ \E i \in DOMAIN events[e] :
       /\ ShownAt(e, i, d) /\ LastShownAt(e, i)
       /\ ValidResponse(view[e], kind, reason, events[e][i])

\* Mutant: a used key is not looked up; its row is written over.
RecordUserActionAnew(key, e, kind, reason, d) ==
  /\ Accepts(e, kind, reason, d)
  /\ \E i \in DOMAIN events[e] :
       /\ LastShownAt(e, i)
       /\ Appended(e, Response(kind, reason, d, events[e][i].ui, events[e][i].mode))
  /\ idempotency' = Saved(key, Row(kind, None, "none", e, Len(events[e]) + 1))
  /\ UNCHANGED <<actions, outbox, clicks, tickets>>

\* record_user_action with an unused key; a used one replays or conflicts.
RecordUserAction(key, e, kind, reason, d) ==
  /\ Unused(key)
  /\ Accepts(e, kind, reason, d)
  /\ \E i \in DOMAIN events[e] :
       /\ LastShownAt(e, i)
       /\ Appended(e, Response(kind, reason, d, events[e][i].ui, events[e][i].mode))
  /\ idempotency' = Saved(key, Row(kind, None, "none", e, Len(events[e]) + 1))
  /\ UNCHANGED <<actions, outbox, clicks, tickets>>

-----------------------------------------------------------------------------
(* The gate's half of the outbox *)

PendingGate(i) == /\ i \in DOMAIN outbox
                  /\ outbox[i].topic = "feedback.gate.requested"
                  /\ ~outbox[i].processed

\* next_gate_message: the oldest message not processed.
IsNextGate(i) == PendingGate(i) /\ \A j \in 1..(i - 1) : ~PendingGate(j)

Undecided(e) == view[e].action = "active" /\ view[e].gate = None

Decided(e, s) ==
  LET decided == [Plain("inference_gate_decided") EXCEPT !.gate = Decision(s)]
      abstained == Plain("inference_abstained")
  IN IF Denied(s) = {}
       THEN /\ events' = [events EXCEPT ![e] = Append(Append(@, decided), abstained)]
            /\ view' = [view EXCEPT ![e] = Apply(Apply(@, decided), abstained)]
       ELSE Appended(e, decided)

\* Mutant: the decision commits, the message is marked only when there is none.
FinishGateMessageUnmarked(i, signals) ==
  /\ PendingGate(i)
  /\ \/ /\ Undecided(outbox[i].event)
        /\ \E s \in signals : ~SignalsRejected(s) /\ Decided(outbox[i].event, s)
        /\ UNCHANGED outbox
     \/ /\ ~Undecided(outbox[i].event)
        /\ outbox' = [outbox EXCEPT ![i].processed = TRUE]
        /\ UNCHANGED <<events, view>>
  /\ UNCHANGED <<actions, idempotency, clicks, tickets>>

\* Mutant: the message of a retracted action is left where it is.
FinishGateMessageOnlyActive(i, signals) ==
  /\ PendingGate(i)
  /\ Undecided(outbox[i].event)
  /\ \E s \in signals : ~SignalsRejected(s) /\ Decided(outbox[i].event, s)
  /\ outbox' = [outbox EXCEPT ![i].processed = TRUE]
  /\ UNCHANGED <<actions, idempotency, clicks, tickets>>

\* finish_gate_message: decide at most once, and never for a retracted action; it
\* raises, and rolls back, when an undecided active action comes without signals
\* (signals is a set of at most one element) or with signals decide_gate rejects.
FinishGateMessage(i, signals) ==
  /\ PendingGate(i)
  /\ \/ /\ Undecided(outbox[i].event)
        /\ \E s \in signals : ~SignalsRejected(s) /\ Decided(outbox[i].event, s)
     \/ /\ ~Undecided(outbox[i].event)
        /\ UNCHANGED <<events, view>>
  /\ outbox' = [outbox EXCEPT ![i].processed = TRUE]
  /\ UNCHANGED <<actions, idempotency, clicks, tickets>>

-----------------------------------------------------------------------------
(* Every caller: the HTTP API, the demo page, the host actions and a worker *)

Create == \E k \in ClientKeys, t \in Targets, c \in Contracts, e \in EventIds :
            CreateAction(k, t, c, e)
Generation == \E k \in ClientKeys, t \in Targets, e \in EventIds :
                CreateGeneration(k, t, e)
BeginClick == \E k \in ClientKeys, t \in Targets, d \in Displays, e \in EventIds :
                BeginHostClick(k, t, d, e)
Deadline == \E k \in ClientKeys, e \in EventIds, d \in Displays :
              SetHostClickDeadline(k, e, d)
Retract == \E k \in ClientKeys, e \in EventIds : RetractAction(ClientKey(k), e)
Toggle == \E k \in ClientKeys, t \in Targets, e \in EventIds : ToggleAction(k, t, e)
IssueTicket == \E e \in EventIds, d \in Displays : IssueDisplayTicket(e, d)
ShowDisplay == \E e \in EventIds, d \in Displays, mode \in DisplayModes, ui \in UIVersions,
                  shown \in {Reasons} \cup {{r} : r \in Reasons} :
                 RecordDisplay(e, d, mode, shown, ui)
Respond == \E k \in ClientKeys, e \in EventIds, kind \in UserActions,
              reason \in Reasons \cup {None}, d \in Displays :
             RecordUserAction(ClientKey(k), e, kind, reason, d)
Gate == \E i \in DOMAIN outbox, s \in Signals : IsNextGate(i) /\ FinishGateMessage(i, {s})

Next == \/ Create \/ Generation \/ BeginClick \/ Deadline \/ Retract \/ Toggle
        \/ IssueTicket \/ ShowDisplay \/ Respond \/ Gate

Spec == Init /\ [][Next]_storeVars

-----------------------------------------------------------------------------
(* Properties *)

Events == [kind : UserActions \cup SystemEvents, reason : Reasons \cup {None},
           display : Displays \cup {None}, mode : DisplayModes, ui : UIVersions,
           shown : SUBSET Reasons, gate : Decisions \cup {None}]
Rows == [operation : {"none", "create", "retract", "toggle"} \cup UserActions,
         target : Targets \cup {None}, contract : Contracts,
         event : EventIds \cup {None}, record : Nat]
Messages == [event : EventIds, topic : Topics, processed : BOOLEAN]
ClickRows == [event : EventIds \cup {None}, display : Displays \cup {None},
              published : BOOLEAN]

\* The shape of the database.
TypeOK ==
  /\ actions \in [EventIds -> Targets \cup {None}]
  /\ events \in [EventIds -> Seq(Events)]
  /\ view \in [EventIds -> Projections]
  /\ idempotency \in [Keys -> Rows]
  /\ outbox \in Seq(Messages)
  /\ clicks \in [ClientKeys -> ClickRows]
  /\ tickets \in [EventIds -> Displays \cup {None}]

Sent(e, topic) == \E i \in DOMAIN outbox : outbox[i].event = e /\ outbox[i].topic = topic

\* An action and its gate message are born together, exactly one message each; a
\* retraction message exists exactly for a retracted action, once.  A crash or a
\* retry between the two writes would break it; and since it holds, the constraint
\* UNIQUE (event_id, topic) never turns a request away (store.py:91, 265-281, 402-407).
OutboxMirrorsActions ==
  /\ \A i, j \in DOMAIN outbox :
       outbox[i].event = outbox[j].event /\ outbox[i].topic = outbox[j].topic => i = j
  /\ \A e \in EventIds :
       /\ Exists(e) <=> Sent(e, "feedback.gate.requested")
       /\ Exists(e) /\ Retracted(e) <=> Sent(e, "feedback.action.retracted")

\* The kind of event a row of the operation names at place i.
KindNamed(operation, i) ==
  CASE operation = "create" -> "negative_feedback_action_recorded"
    [] operation = "retract" -> "action_retracted"
    [] operation = "toggle" -> IF i = 1 THEN "negative_feedback_action_recorded"
                                        ELSE "action_retracted"
    [] OTHER -> operation

\* The row names the one event its transaction appended anywhere, of the kind of
\* its operation, in an action on the answer version it was asked for.
NamesAppended(row) ==
  LET e == row.event
      n == row.record
  IN /\ n = Len(events[e]) + 1 /\ Len(events'[e]) = n
     /\ events' = [events EXCEPT ![e] = Append(@, events'[e][n])]
     /\ events'[e][n].kind = KindNamed(row.operation, n)
     /\ row.target # None => actions'[e] = row.target

\* Nothing was appended: the row names the beginning of the only action active on
\* its answer version, or the retraction that was there before.
NamesEarlier(row) ==
  /\ UNCHANGED <<actions, events>>
  /\ \/ /\ row.operation = "create" /\ row.contract = "manual-v1"
        /\ ActiveOn(row.target) = {row.event} /\ row.record = 1
     \/ row.operation = "retract" /\ FirstRetractionAt(row.event, row.record)

RowIsNew(key) == Unused(key) /\ idempotency'[key] # NoRow

\* What a transaction does to the rows: a used one stays as it is, and so does the
\* event it names; a new one names what its transaction did.
RowsStep ==
  \A key \in Keys :
    LET row == idempotency'[key]
    IN /\ ~Unused(key) =>
            /\ row = idempotency[key]
            /\ events'[row.event][row.record] = events[row.event][row.record]
       /\ RowIsNew(key) => NamesAppended(row) \/ NamesEarlier(row)

\* So a request sent again after a lost answer replays that request and no other,
\* whatever was created, joined, toggled, answered or retracted in between
\* (store.py:239-264, 365-411, 555-573).
RowsKeepTheirRequest == [][RowsStep]_storeVars

\* The gate decides an action at most once and never after its retraction, however
\* many workers hold its message; a decided action is never asked about again.
GateDecidesOnce ==
  \A e \in EventIds :
    /\ \A i, j \in DOMAIN events[e] :
         /\ events[e][i].kind = "inference_gate_decided"
         /\ events[e][j].kind \in {"inference_gate_decided", "action_retracted"}
         /\ j <= i
         => i = j
    /\ view[e].gate # None => ~\E i \in DOMAIN outbox : PendingGate(i) /\ outbox[i].event = e

-----------------------------------------------------------------------------
(* Refinement *)

\* What an event says in the terms of FeedbackContract: an answer of any kind is an
\* answer to its display.
Fact(ev) ==
  [what |-> CASE ev.kind = "negative_feedback_action_recorded" -> "opened"
              [] ev.kind = "action_retracted" -> "withdrawn"
              [] ev.kind = "inference_gate_decided" -> "decided"
              [] ev.kind = "inference_abstained" -> "abstained"
              [] ev.kind = "reason_displayed" -> "shown"
              [] ev.kind \in UserActions -> "answered"
              [] OTHER -> "unforeseen",
   display |-> IF ev.kind \in UserActions \cup {"reason_displayed"} THEN ev.display ELSE None]

\* Event by event and in order, so that a second decision, answer or retraction is
\* a second entry.
Facts(evs) == [i \in DOMAIN evs |-> Fact(evs[i])]
Log == [e \in EventIds |-> Facts(events[e])]

Contract == INSTANCE FeedbackContract WITH home <- actions, log <- Log

\* Every transaction of the store is one step of the contract or none, whatever
\* the keys, tickets and projections it goes by: an action is decided at most once
\* and each display shown and answered at most once, the last one shown only, and
\* nothing is appended after the retraction.
ImplementsContract == Contract!Spec

=============================================================================
