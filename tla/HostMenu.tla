------------------------------- MODULE HostMenu -------------------------------
(***************************************************************************)
(* The S0 button of integrations/openwebui/s0_action.py over FeedbackStore.*)
(* A callback is a coroutine: it reserves a menu in one transaction, waits *)
(* for the browser, and only then records the display and the answer, each *)
(* in a transaction of its own.  Between any two steps every other callback,*)
(* a retraction or a toggle of another host button may run, the answer may *)
(* be lost, or the process may die.  The same click may be sent again.     *)
(***************************************************************************)
EXTENDS FeedbackStore

CONSTANTS Sessions,  \* callbacks running at once
          Choices    \* what the menus let a user choose

\* The catalogue of reasons is fixed and not empty, and no reason code is the name
\* of an operation of the menu (domain.py:10-39).
ASSUME MenuAssumption ==
  /\ Choices \subseteq Reasons \cup ManualOperations
  /\ Reasons # {} /\ Reasons \cap ManualOperations = {}

VARIABLES session,  \* callback -> its local state
          late,     \* displays whose deadline has passed
          issued    \* displays already drawn from uuid4, which never repeats

menuVars == <<session, late, issued>>
vars == <<storeVars, menuVars>>

Idle == [phase |-> "idle", key |-> None, event |-> None, display |-> None,
         mode |-> "manual_menu", choice |-> None, result |-> "none"]

Waiting == {"ticket", "menu", "arrived", "checked", "shown"}

MenuInit == /\ Init
            /\ session = [s \in Sessions |-> Idle]
            /\ late = {} /\ issued = {}

\* Mutant: a selected reason is offered the first menu again.
ModeForConfirmed(v) ==
  IF v.attribution \in {"confirmed", "edited"} THEN "edit_menu" ELSE "manual_menu"

\* The menu a projection calls for.
ModeFor(v) == IF v.attribution \in {"selected", "edited"} THEN "edit_menu" ELSE "manual_menu"

Finish(s, result) ==
  session' = [session EXCEPT ![s] = [Idle EXCEPT !.phase = "done", !.result = result]]

Move(s, phase) == session' = [session EXCEPT ![s].phase = phase]

\* A click nobody has reserved yet: the menu is drawn from the state the same
\* transaction returned.
Click(s, k, t, d, e) ==
  /\ session[s].phase \in {"idle", "done"}
  /\ d \notin issued
  /\ BeginHostClick(k, t, d, e)
  /\ session' = [session EXCEPT ![s] =
       [Idle EXCEPT !.phase = "menu", !.key = k, !.event = e, !.display = d,
                    !.mode = ModeFor(view[e])]]
  /\ issued' = issued \cup {d}
  /\ UNCHANGED late

\* The same click sent again (a retry, another tab, after a crash): answered from
\* the tables, no menu, no change.
ClickAgain(s, k) ==
  /\ session[s].phase \in {"idle", "done"}
  /\ idempotency[ClientKey(k)].operation = "create"
  /\ Finish(s, ClickReply(k, clicks[k].display \in late))
  /\ UNCHANGED <<storeVars, late, issued>>

\* A host without click ids: create_action and issue_display_ticket are two
\* transactions, and the menu is drawn from what the first one saw.
LegacyCreate(s, k, t, d, e) ==
  /\ session[s].phase \in {"idle", "done"}
  /\ d \notin issued
  /\ \/ CreateGeneration(k, t, e)
     \/ /\ \E key \in Generations(k) :
             /\ Reached(k, key)
             /\ SameRequest(key, "create", t, "manual-v1")
             /\ idempotency[key].event = e /\ ~Retracted(e)
        /\ UNCHANGED storeVars
  /\ session' = [session EXCEPT ![s] =
       [Idle EXCEPT !.phase = "ticket", !.event = e, !.display = d,
                    !.mode = ModeFor(view[e])]]
  /\ issued' = issued \cup {d}
  /\ UNCHANGED late

LegacyTicket(s) ==
  /\ session[s].phase = "ticket"
  /\ \/ /\ IssueDisplayTicket(session[s].event, session[s].display)
        /\ Move(s, "menu")
     \/ /\ ~IsActive(session[s].event)
        /\ Finish(s, "conflict")
        /\ UNCHANGED storeVars
  /\ UNCHANGED <<late, issued>>

\* Mutant: the deadline is written once the answer is there.
PublishDeadlineOnAnswer(s) ==
  /\ session[s].phase = "arrived" /\ session[s].key # None
  /\ ~clicks[session[s].key].published
  /\ SetHostClickDeadline(session[s].key, session[s].event, session[s].display)
  /\ UNCHANGED menuVars

\* The deadline is written by a thread beside the callback.
PublishDeadline(s) ==
  /\ session[s].phase \in {"menu", "arrived"} /\ session[s].key # None
  /\ ~clicks[session[s].key].published
  /\ SetHostClickDeadline(session[s].key, session[s].event, session[s].display)
  /\ UNCHANGED menuVars

\* Both clocks pass the deadline of a menu that was sent.
DeadlinePasses(d) ==
  /\ d \in issued \ late
  /\ \A s \in Sessions : session[s].display = d => session[s].phase # "ticket"
  /\ late' = late \cup {d}
  /\ UNCHANGED <<storeVars, session, issued>>

\* The browser answers: lateness is judged now, before anything else runs.
Answer(s, choice) ==
  /\ session[s].phase = "menu"
  /\ session[s].display \notin late
  /\ session' = [session EXCEPT ![s].phase = "arrived", ![s].choice = choice]
  /\ UNCHANGED <<storeVars, late, issued>>

Published(s) == session[s].key # None => clicks[session[s].key].published

\* wait_for gives up, or the answer came too late; either way the deadline write
\* is awaited first.
TimeOut(s) ==
  /\ session[s].phase = "menu" /\ session[s].display \in late
  /\ Published(s)
  /\ Finish(s, "ticket_expired")
  /\ UNCHANGED <<storeVars, late, issued>>

\* The browser answers with an error or with no option of this menu.
ClientFails(s) ==
  /\ session[s].phase = "menu" /\ Published(s)
  /\ Finish(s, "client_unavailable")
  /\ UNCHANGED <<storeVars, late, issued>>

\* The chat and the answer version are read again and are still the same.
CheckTarget(s) ==
  /\ session[s].phase = "arrived" /\ Published(s)
  /\ Move(s, "checked")
  /\ UNCHANGED <<storeVars, late, issued>>

TargetChanged(s) ==
  /\ \/ session[s].phase = "shown"
     \/ session[s].phase = "arrived" /\ Published(s)
  /\ Finish(s, "target_changed")
  /\ UNCHANGED <<storeVars, late, issued>>

ShowMenu(s) ==
  LET e == session[s].event
      d == session[s].display
  IN /\ session[s].phase = "checked"
     /\ \/ /\ RecordDisplay(e, d, session[s].mode, Reasons, ManualUI)
           /\ Move(s, "shown")
        \/ /\ ~(TicketIsCurrent(e, d)
                  /\ ValidDisplay(view[e], session[s].mode, Reasons, ManualUI))
           /\ Finish(s, "conflict")
           /\ UNCHANGED storeVars
     /\ UNCHANGED <<late, issued>>

KindOf(mode, choice) ==
  IF choice \in ManualOperations THEN choice
  ELSE IF mode = "edit_menu" THEN "reason_edited" ELSE "reason_selected"
ReasonOf(choice) == IF choice \in Reasons THEN choice ELSE None

SaveAnswer(s) ==
  LET e == session[s].event
      d == session[s].display
      kind == KindOf(session[s].mode, session[s].choice)
      reason == ReasonOf(session[s].choice)
  IN /\ session[s].phase = "shown"
     /\ \/ /\ RecordUserAction(ChoiceKey(d), e, kind, reason, d)
           /\ Finish(s, "saved")
        \/ /\ ~Accepts(e, kind, reason, d)
           /\ Finish(s, "conflict")
           /\ UNCHANGED storeVars
     /\ UNCHANGED <<late, issued>>

\* The browser session, the worker or the database connection is gone.
Crash(s) ==
  /\ session[s].phase \in Waiting
  /\ Finish(s, "lost")
  /\ UNCHANGED <<storeVars, late, issued>>

OtherButton ==
  /\ Retract \/ Toggle
  /\ UNCHANGED menuVars

Arrive(s) == \E k \in ClientKeys, t \in Targets, d \in Displays, e \in EventIds :
               Click(s, k, t, d, e) \/ LegacyCreate(s, k, t, d, e)
Retry(s) == \E k \in ClientKeys : ClickAgain(s, k)
Choose(s) == \E choice \in Choices : Answer(s, choice)

Advance(s) == \/ LegacyTicket(s) \/ PublishDeadline(s) \/ TimeOut(s)
              \/ CheckTarget(s) \/ ShowMenu(s) \/ SaveAnswer(s)

MenuNext ==
  \/ \E s \in Sessions : \/ Arrive(s) \/ Retry(s) \/ Choose(s) \/ Advance(s)
                         \/ ClientFails(s) \/ TargetChanged(s) \/ Crash(s)
  \/ \E d \in Displays : DeadlinePasses(d)
  \/ OtherButton

\* asyncio resumes a callback that can go on, the deadline thread runs, and time
\* passes; nothing makes a user click or answer.
Fairness == /\ \A s \in Sessions : WF_vars(Advance(s))
            /\ \A d \in Displays : WF_vars(DeadlinePasses(d))

MenuSpec == MenuInit /\ [][MenuNext]_vars /\ Fairness

-----------------------------------------------------------------------------
(* Properties *)

\* However many callbacks, tabs and processes click at once, a target has at most
\* one active action under the manual contract (store.py:247-264, 421-428).
OneActivePerTarget == \A t \in Targets : Cardinality(ActiveOn(t)) <= 1

\* The menu of a click was drawn from a state read long before it is recorded, yet
\* while its ticket is the newest and the action stands, the store accepts it and
\* accepts any answer to it: the user never meets a conflict that is not a newer
\* click or a retraction (s0_action.py:136, 221-246).
NewestMenuIsAccepted ==
  \A s \in Sessions :
    LET e == session[s].event
        d == session[s].display
    IN /\ session[s].key # None
       /\ session[s].phase \in Waiting
       /\ IsActive(e) /\ tickets[e] = d
       => IF session[s].phase = "shown"
            THEN \A choice \in Choices : Accepts(e, KindOf(session[s].mode, choice), ReasonOf(choice), d)
            ELSE ValidDisplay(view[e], session[s].mode, Reasons, ManualUI)

\* What a repeated click is told settles: superseded, answered and retracted are
\* final, so a user told that a newer menu took over never finds the old one
\* answered, and an answer once reported is never taken back except by retraction.
RepliesSettle ==
  [][\A k \in ClientKeys : clicks[k] # NoClick =>
       LET before == ClickReply(k, clicks[k].display \in late)
           after  == ClickReply(k, clicks[k].display \in late)'
       IN /\ before = "retracted" => after = "retracted"
          /\ before = "answered" => after \in {"answered", "retracted"}
          /\ before = "click_superseded" => after \in {"click_superseded", "retracted"}]_vars

\* No callback hangs: an abandoned menu ends at its deadline even when the thread
\* that publishes the deadline is slow (s0_action.py:163-199).
CallbacksEnd ==
  \A s \in Sessions : (session[s].phase \in Waiting) ~> (session[s].phase = "done")

=============================================================================
