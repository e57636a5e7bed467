---------------------------- MODULE Suggestions ----------------------------
(***************************************************************************)
(* The suggestion receipts of one feedback action: suggestions.py over the  *)
(* action's event log, driven by the callbacks of template_action.py.  Each *)
(* operation is one transaction; the callback waits for a model, for the    *)
(* browser to draw the suggestion and for its answers in between, and other *)
(* tabs, buttons and the clock go on meanwhile.                             *)
(***************************************************************************)
EXTENDS Naturals, Sequences, FiniteSetsExt

CONSTANTS
    Tabs,           \* callbacks; each has one suggestion and one display of its own
    Reasons,
    UserOps,        \* what a browser may send
    TTL,            \* TTL_SECONDS
    MaxNow, MaxLog,
    None

OPERATIONS == {"yes", "no", "none_matched", "skip", "close", "decline", "correct"}

ASSUME SuggestionAssumption ==
    /\ TTL \in Nat \ {0} /\ None \notin Reasons
    /\ UserOps \subseteq OPERATIONS \cup {"manual", "done"}

VARIABLES
    log,            \* the events of the action that concern suggestions, in order
    now,            \* the wall clock
    lost,           \* when the answer lost its registered receipt; None while it has it
    config,         \* the configuration: its suggestion versions
    tabs,           \* the callbacks
    touched         \* history: the configuration has changed

tabsVars == <<log, now, lost, config, tabs, touched>>

Versions == {"a", "b"}
NoTab == [at |-> "new"]

TabsInit ==
    /\ log = << >> /\ now = 0 /\ lost = None /\ config = "a" /\ touched = FALSE
    /\ tabs = [t \in Tabs |-> NoTab]

-----------------------------------------------------------------------------
(* Reading an event log: which of its events, by their places *)

All == DOMAIN log
Of(seen, kind) == {i \in seen : log[i].kind = kind}
By(seen, kind, t) == {i \in Of(seen, kind) : log[i].tab = t}
Newest(events) == log[Max(events)]
Retracted(seen) == Of(seen, "retracted") # {}
LastResponse == Max({0} \cup Of(All, "responded"))

(* project_suggestions: the last reason the user confirmed or corrected. *)
Chosen(seen) == {i \in Of(seen, "responded") : log[i].op \in {"yes", "correct"}}
Project(seen) ==
    IF Chosen(seen) = {} \/ Retracted(seen) THEN None ELSE Newest(Chosen(seen)).reason

(* _admit: the action is active, its answer still the registered one. *)
Admitted == ~Retracted(All) /\ lost = None
AdmittedFor(t) == Admitted /\ config = tabs[t].config

(* _current: the newest suggestion, of these versions, in its time, not      *)
(* invalidated.  `arrived` was taken before the transaction waited.         *)
CurrentOfAny(t, arrived) ==
    \E i \in By(All, "generated", t) :
        /\ log[i].config = config
        /\ log[i].expires - TTL <= arrived /\ arrived < log[i].expires
        /\ By(All, "invalidated", t) = {}
Current(t, arrived) ==
    LET generated == Of(All, "generated")
        suggestion == Newest(generated)
    IN /\ generated # {} /\ suggestion.tab = t
       /\ suggestion.config = config
       /\ suggestion.expires - TTL <= arrived /\ arrived < suggestion.expires
       /\ By(All, "invalidated", t) = {}
Suggestion(t) == Newest(By(All, "generated", t))

(* respond: the last display drawn is this one, the reason is one of it, no  *)
(* response came since, and a display is answered once and then corrected.  *)
LastDrawn(t) == Of(All, "rendered") # {} /\ Newest(Of(All, "rendered")).tab = t
Answerable(t, op, reason) ==
    /\ LastDrawn(t)
    /\ op \in {"yes", "no", "correct"} => reason \in Suggestion(t).reasons
    /\ LastResponse = tabs[t].previous
    /\ op # "correct" => By(All, "responded", t) = {}
    /\ op = "correct" => Project(All) \notin {None, reason}

-----------------------------------------------------------------------------
(* The callback *)

Set(t, tab) == tabs' = [tabs EXCEPT ![t] = tab]
Return(t, result) == Set(t, [tabs[t] EXCEPT !.at = "done", !.result = result,
                                           !.arrived = 0, !.previous = 0])
ToMenu(t, result) == Set(t, [tabs[t] EXCEPT !.at = "menu", !.result = result,
                                           !.arrived = 0, !.previous = 0,
                                           !.op = None, !.reason = None, !.confirmed = None])
Quiet == UNCHANGED <<log, now, lost, config, touched>>
Record(event) == log' = Append(log, event) /\ UNCHANGED <<now, lost, config, touched>>

(* The first look at the configuration, the chat and the action, then the    *)
(* model is asked.                                                          *)
Begin(t) ==
    /\ tabs[t].at = "new" /\ Quiet
    /\ Set(t, [at |-> IF Admitted THEN "evaluating" ELSE "done", config |-> config,
               result |-> IF Admitted THEN None ELSE "superseded",
               previous |-> 0, confirmed |-> None, arrived |-> 0, op |-> None, reason |-> None])

(* generate: whatever happened while the model worked is looked at again.    *)
(* A model that finds nothing, or fails, leaves the ordinary menu.          *)
Generate(t) ==
    /\ tabs[t].at = "evaluating" /\ Len(log) < MaxLog
    /\ \/ /\ ~AdmittedFor(t)
          /\ Return(t, "superseded") /\ Quiet
       \/ /\ AdmittedFor(t)
          /\ \E reasons \in SUBSET Reasons :
               /\ Record([kind |-> "generated", tab |-> t, reasons |-> reasons, config |-> config,
                          at |-> now, expires |-> now + TTL])
               /\ IF reasons = {} THEN ToMenu(t, "manual")
                                  ELSE Set(t, [tabs[t] EXCEPT !.at = "drawing"])
       \/ AdmittedFor(t) /\ ToMenu(t, "fallback") /\ Quiet

(* What else happened is looked at once more before the suggestion is drawn. *)
NotDrawn(t) ==
    /\ tabs[t].at = "drawing" /\ ~AdmittedFor(t) /\ Quiet
    /\ Return(t, "superseded")

(* receive: what the browser sends counts from its arrival, and only before  *)
(* the suggestion expires.                                                  *)
Drawn(t) ==
    /\ tabs[t].at = "drawing" /\ now < Suggestion(t).expires /\ Quiet
    /\ Set(t, [tabs[t] EXCEPT !.at = "drawn", !.arrived = now])

\* Mutant: the time of the receipt is read when the database answers.
TimeOfRecording(t) == now
TimeOf(t) == tabs[t].arrived

(* render *)
RecordRender(t) ==
    /\ tabs[t].at = "drawn" /\ Len(log) < MaxLog
    /\ IF AdmittedFor(t) /\ Current(t, TimeOf(t))
         THEN /\ Record([kind |-> "rendered", tab |-> t, at |-> now])
              /\ Set(t, [tabs[t] EXCEPT !.at = "rendered"])
         ELSE Return(t, "superseded") /\ Quiet

(* The response it will have to replace is read in a transaction of its own. *)
ReadPrevious(t) ==
    /\ tabs[t].at = "rendered" /\ Quiet
    /\ Set(t, [tabs[t] EXCEPT !.at = "asking", !.previous = LastResponse])

Answered(t) ==
    /\ tabs[t].at = "asking" /\ now < Suggestion(t).expires /\ Quiet
    /\ \E op \in UserOps :
       \E reason \in IF op \in {"yes", "no", "correct"} THEN Reasons ELSE {None} :
         Set(t, [tabs[t] EXCEPT !.at = "answered", !.arrived = now, !.op = op, !.reason = reason])

(* The minute is over, the browser is gone or what it sends is no answer: a   *)
(* reason already confirmed stays, unless it was that; else the ordinary menu.*)
Unanswered(t) ==
    /\ tabs[t].at \in {"drawing", "asking"} /\ Quiet
    /\ \/ /\ tabs[t].confirmed # None
          /\ Return(t, IF AdmittedFor(t) THEN "confirmed" ELSE "superseded")
       \/ ToMenu(t, "fallback")

(* manual: the ordinary menu opens where everything is still in force. *)
OpenMenu(t) ==
    /\ tabs[t].at = "menu" /\ Quiet
    /\ Return(t, IF AdmittedFor(t) THEN tabs[t].result ELSE "superseded")

(* An answer out of turn: nothing to correct or to finish yet, or another    *)
(* first answer.                                                            *)
OutOfTurn(t) == IF tabs[t].confirmed = None THEN tabs[t].op \in {"correct", "done"}
                                            ELSE tabs[t].op \notin {"correct", "done"}

RecordAnswer(t) ==
    LET op == IF tabs[t].op = "manual" THEN "skip" ELSE tabs[t].op
        reason == tabs[t].reason
    IN
    /\ tabs[t].at = "answered" /\ Len(log) < MaxLog
    /\ \/ /\ ~AdmittedFor(t)
          /\ Return(t, "superseded") /\ Quiet
       \/ /\ AdmittedFor(t) /\ OutOfTurn(t)
          /\ ToMenu(t, "fallback") /\ Quiet
       \/ /\ AdmittedFor(t) /\ ~OutOfTurn(t) /\ op = "done"
          /\ Return(t, "confirmed") /\ Quiet
       \/ /\ AdmittedFor(t) /\ ~OutOfTurn(t) /\ op # "done"
          /\ ~(Current(t, TimeOf(t)) /\ Answerable(t, op, reason))
          /\ Return(t, "superseded") /\ Quiet
       \/ /\ AdmittedFor(t) /\ ~OutOfTurn(t) /\ op # "done"
          /\ Current(t, TimeOf(t)) /\ Answerable(t, op, reason)
          /\ Record([kind |-> "responded", tab |-> t, op |-> op, reason |-> reason,
                     arrived |-> tabs[t].arrived, at |-> now])
          /\ IF op \in {"yes", "correct"}
               THEN Set(t, [tabs[t] EXCEPT !.at = "asking", !.confirmed = reason,
                                            !.previous = Len(log) + 1])
               ELSE IF tabs[t].op \in {"manual", "no", "none_matched"}
                    THEN ToMenu(t, "manual") ELSE Return(t, op)

-----------------------------------------------------------------------------
(* Everybody else *)

Invalidate(t) ==
    /\ Len(log) < MaxLog /\ Admitted /\ Current(t, now)
    /\ Record([kind |-> "invalidated", tab |-> t, at |-> now]) /\ UNCHANGED tabs
Retract ==
    /\ Len(log) < MaxLog /\ ~Retracted(All)
    /\ Record([kind |-> "retracted", at |-> now]) /\ UNCHANGED tabs
(* The answer is regenerated, edited or deleted: its receipt never returns.  *)
Withdraw ==
    /\ lost = None /\ lost' = now
    /\ UNCHANGED <<log, now, config, tabs, touched>>
Reconfigure ==
    /\ ~touched /\ touched' = TRUE /\ config' \in Versions \ {config}
    /\ UNCHANGED <<log, now, lost, tabs>>
Tick == now < MaxNow /\ now' = now + 1 /\ UNCHANGED <<log, lost, config, tabs, touched>>

TabStep(t) == Begin(t) \/ Generate(t) \/ NotDrawn(t) \/ Drawn(t) \/ RecordRender(t)
              \/ ReadPrevious(t) \/ Answered(t) \/ Unanswered(t) \/ RecordAnswer(t)
              \/ OpenMenu(t) \/ Invalidate(t)
TabsNext == (\E t \in Tabs : TabStep(t)) \/ Retract \/ Withdraw \/ Reconfigure \/ Tick
TabsSpec == TabsInit /\ [][TabsNext]_tabsVars

-----------------------------------------------------------------------------
(* The report *)

Upto(cutoff) == {i \in All : log[i].at <= cutoff}

(* One row for each suggestion generated by the cutoff. *)
LateResponses(seen, t) == By(All, "responded", t)
RowResponses(seen, t) == By(seen, "responded", t)
ReportRow(seen, cutoff, t) ==
    LET responses == RowResponses(seen, t)
        generated == log[Min(By(seen, "generated", t))]
        valid == \E i \in responses : log[i].op # "close"
        rendered == By(seen, "rendered", t) # {}
        due == IF cutoff < generated.expires THEN "pending"
               ELSE IF rendered THEN "unresponded" ELSE "render_unknown"
        withdrawn == CASE Retracted(seen) -> "action_retracted"
                       [] lost # None /\ lost <= cutoff -> "answer_unavailable"
                       [] By(seen, "invalidated", t) # {} -> "invalidated"
                       [] Newest(Of(seen, "generated")).tab # t -> "superseded"
                       [] OTHER -> due
    IN [displayable |-> generated.reasons # {}, rendered |-> rendered, valid |-> valid,
        confirmed |-> \E i \in responses : log[i].op \in {"yes", "correct"},
        status |-> IF generated.reasons = {} THEN "abstained"
                   ELSE IF valid THEN "responded" ELSE withdrawn]
Report(cutoff) ==
    LET seen == Upto(cutoff)
    IN [t \in {t \in Tabs : By(seen, "generated", t) # {}} |-> ReportRow(seen, cutoff, t)]

-----------------------------------------------------------------------------
(* Properties *)

(* A reason counts as confirmed by the user only if it was among those the   *)
(* last drawn suggestion showed, the answer to it arrived in its minute, and  *)
(* by then neither a newer suggestion was made nor this one or the action     *)
(* withdrawn: no tab confirms what another one has replaced                 *)
(* (suggestions.py:276-307).                                                *)
ConfirmedWasShown ==
    \A i \in Of(All, "responded") :
        LET before == 1..(i - 1)
            shown == Newest(Of(before, "generated"))
        IN /\ Of(before, "rendered") # {} /\ Newest(Of(before, "rendered")).tab = log[i].tab
           /\ Of(before, "generated") # {} /\ shown.tab = log[i].tab
           /\ log[i].op \in {"yes", "correct"} => log[i].reason \in shown.reasons
           /\ shown.at <= log[i].arrived /\ log[i].arrived < shown.expires
           /\ ~Retracted(before) /\ By(before, "invalidated", log[i].tab) = {}

(* What the callback reports back is so: a confirmed reason is on record as   *)
(* this display's answer, and an answer that arrived in time is turned down   *)
(* only because the action, the answer, the configuration or the suggestion   *)
(* was replaced or the user corrects a reason into itself, never because a    *)
(* recheck or the database took long (suggestions.py:263).                  *)
Causes(t) ==
    \/ Retracted(All) \/ lost # None \/ touched
    \/ By(All, "invalidated", t) # {}
    \/ Of(All, "generated") # {} /\ Newest(Of(All, "generated")).tab # t
    \/ tabs[t].op \in {"yes", "no", "correct"} /\ tabs[t].reason \notin Suggestion(t).reasons
    \/ tabs[t].op = "correct" /\ tabs[t].reason = tabs[t].confirmed
RepliesTellTheLog ==
    \A t \in Tabs : tabs[t].at = "done" =>
        /\ tabs[t].result = "superseded" => Causes(t)
        /\ tabs[t].result = "confirmed" =>
             /\ By(All, "responded", t) # {}
             /\ Newest(By(All, "responded", t)).reason = tabs[t].confirmed

(* The denominators of the report nest at every cutoff: a response is counted *)
(* only under a suggestion counted as drawn, a drawn one only where there was *)
(* something to show, and what is still pending has not expired             *)
(* (suggestions.py:440-470).                                                *)
ReportNests ==
    \A cutoff \in 0..now : LET rows == Report(cutoff) IN
        \A t \in DOMAIN rows :
            /\ rows[t].confirmed => rows[t].valid
            /\ rows[t].valid => rows[t].rendered
            /\ rows[t].rendered => rows[t].displayable
            /\ rows[t].status = "pending" => \A u \in DOMAIN rows :
                 Suggestion(u).at <= Suggestion(t).at /\ cutoff < Suggestion(t).expires
=============================================================================
