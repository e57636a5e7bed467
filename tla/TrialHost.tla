------------------------------- MODULE TrialHost -------------------------------
(***************************************************************************)
(* What runs over TrialStore: the Pipe of integrations/openwebui/s1_pipe.py*)
(* with the stream of src/whynote/s1_provider.py, the hooks of             *)
(* src/whynote/s1_host.py that the patched host calls, and the guarded     *)
(* store of integrations/openwebui/s1_action.py.  Every await is a place   *)
(* where another callback, an edit or a crash can come in between.         *)
(***************************************************************************)
EXTENDS TrialStore

CONSTANTS Pipes,   \* generation requests being served
          Prior,   \* message -> the answer before it in its chat, or None
          Drafts,  \* what an edit can make of a message; None deletes it
          Tracking \* whether research is enabled when an attempt is reserved

ASSUME HostAssumption ==
  /\ Prior \in [Messages -> Messages \cup {None}]
  /\ \A m \in Messages : Prior[m] # None => ChatOf[Prior[m]] = ChatOf[m]
  /\ None \notin Messages \cup Chats
  /\ Tracking \subseteq BOOLEAN
  /\ Drafts \subseteq [prompt : Prompts, text : Texts \cup {None}] \cup {None}

VARIABLES saved,     \* what the host has saved: message -> its prompt and text
          runs,      \* pipe -> its local variables
          edit,      \* the edit being handled, between its hook and its write
          enabled,   \* the entry's configuration file enables it
          held,      \* targets a feedback callback has qualified
          feedback,  \* targets feedback was recorded for
          asked,     \* attempt -> the earlier answer its request contained
          lost       \* attempts in flight whose end no callback will report any more

hostVars == <<saved, runs, edit, enabled, held, feedback, asked, lost>>
vars == <<trialVars, hostVars>>

Contents == [prompt : Prompts, text : Texts \cup {None}]

Lose(as) == lost' = lost \cup {a \in as \ {None} : InFlight(a)}

Idle == [phase |-> "idle", message |-> None, attempt |-> None, shown |-> None, prior |-> None]

Init ==
  /\ TrialInit
  /\ \E p \in Prompts : saved = [m \in Messages |-> [prompt |-> p, text |-> None]]
  /\ runs = [p \in Pipes |-> Idle]
  /\ edit = << >>
  /\ enabled = TRUE
  /\ held = {} /\ feedback = {} /\ lost = {}
  /\ asked = [a \in Attempts |-> None]

-----------------------------------------------------------------------------
(* A generation *)

\* The configuration is enabled and the store available: a first check.
Check(p, m) ==
  /\ runs[p].phase = "idle" /\ enabled /\ Available
  /\ runs' = [runs EXCEPT ![p] = [Idle EXCEPT !.phase = "checked", !.message = m]]
  /\ UNCHANGED <<trialVars, saved, edit, enabled, held, feedback, asked, lost>>

\* The host reads the chat.
Read(p) ==
  LET m == runs[p].message IN
  /\ runs[p].phase = "checked" /\ saved[m] # None
  /\ runs' = [runs EXCEPT ![p].phase = "read", ![p].shown = saved[m],
                          ![p].prior = IF Prior[m] = None THEN None ELSE saved[Prior[m]]]
  /\ UNCHANGED <<trialVars, saved, edit, enabled, held, feedback, asked, lost>>

\* Mutant: the earlier answer is taken from the chat without a receipt.
AdmitUnqualified(p) ==
  LET m == runs[p].message IN
  /\ runs[p].phase = "read"
  /\ Prior[m] # None => runs[p].prior # None /\ runs[p].prior.text # None
  /\ Enroll(ChatOf[m])
  /\ runs' = [runs EXCEPT ![p].phase = "admitted"]
  /\ UNCHANGED <<saved, edit, enabled, held, feedback, asked, lost>>

\* generation_input and enroll: an earlier answer needs its receipt.
Admit(p) ==
  LET m == runs[p].message IN
  /\ runs[p].phase = "read"
  /\ Prior[m] # None => \E a \in Reserved : Qualifies(a, Prior[m], runs[p].prior)
  /\ Enroll(ChatOf[m])
  /\ runs' = [runs EXCEPT ![p].phase = "admitted"]
  /\ UNCHANGED <<saved, edit, enabled, held, feedback, asked, lost>>

\* The connection is there: reserve, and return the stream to the host.
Begin(p) ==
  LET run == runs[p] IN
  /\ run.phase = "admitted"
  /\ \E a \in Attempts, tracked \in Tracking :
       /\ Reserve(a, run.message, run.shown.prompt, tracked)
       /\ asked' = [asked EXCEPT ![a] = IF run.prior = None THEN None ELSE run.prior.text]
       /\ runs' = [runs EXCEPT ![p] = [Idle EXCEPT !.phase = "reserved", !.attempt = a,
                                                   !.message = run.message]]
  /\ UNCHANGED <<saved, edit, enabled, held, feedback, lost>>

\* Anything refuses the request before it is reserved, or the client goes away.
Refused(p) ==
  /\ runs[p].phase \in {"checked", "read", "admitted"}
  /\ runs' = [runs EXCEPT ![p] = Idle]
  /\ UNCHANGED <<trialVars, saved, edit, enabled, held, feedback, asked, lost>>

\* The host never starts the stream, whose finally would have closed the attempt.
NotStarted(p) ==
  /\ runs[p].phase = "reserved"
  /\ runs' = [runs EXCEPT ![p] = Idle]
  /\ Lose({runs[p].attempt})
  /\ UNCHANGED <<trialVars, saved, edit, enabled, held, feedback, asked>>

\* The provider answers in full, with a usage or without a valid one.
Answered(p) ==
  LET a == runs[p].attempt IN
  /\ runs[p].phase = "reserved"
  /\ \E text \in Texts, usage \in Costs \cup {None} :
       /\ Finish(a, text, usage)
       /\ runs' = [runs EXCEPT ![p].phase = "saving", ![p].shown = text]
  /\ UNCHANGED <<saved, edit, enabled, held, feedback, asked, lost>>

\* Mutant: a stream that fails does not close its attempt.
FailedUnclosed(p) ==
  /\ runs[p].phase = "reserved"
  /\ runs' = [runs EXCEPT ![p].phase = "saving"]
  /\ UNCHANGED <<trialVars, saved, edit, enabled, held, feedback, asked, lost>>

\* The stream breaks off, is cancelled or runs into its timeout, or the answer is cut.
Failed(p) ==
  LET a == runs[p].attempt IN
  /\ runs[p].phase = "reserved"
  /\ \E usage \in Costs \cup {None} : Finish(a, None, usage)
  /\ runs' = [runs EXCEPT ![p].phase = "saving"]
  /\ UNCHANGED <<saved, edit, enabled, held, feedback, asked, lost>>

\* The host saves the answer, or the error, if the chat is still there, and keeps what
\* it saved for the hook.
Save(p) ==
  LET m == runs[p].message IN
  /\ runs[p].phase = "saving" /\ saved[m] # None
  /\ saved' = [saved EXCEPT ![m].text = runs[p].shown]
  /\ runs' = [runs EXCEPT ![p].phase = "saved", ![p].shown = saved'[m]]
  /\ UNCHANGED <<trialVars, edit, enabled, held, feedback, asked, lost>>

\* The chat is gone, or the client is, or the save fails.
NotSaved(p) ==
  /\ runs[p].phase = "saving"
  /\ runs' = [runs EXCEPT ![p] = Idle]
  /\ Lose({runs[p].attempt})
  /\ UNCHANGED <<trialVars, saved, edit, enabled, held, feedback, asked>>

\* confirm_saved_response, unless the entry was disabled meanwhile.
Confirm(p) ==
  /\ runs[p].phase = "saved"
  /\ IF enabled THEN ConfirmSaved(runs[p].message, runs[p].shown) /\ lost' = lost
     ELSE UNCHANGED trialVars /\ Lose({runs[p].attempt})
  /\ runs' = [runs EXCEPT ![p] = Idle]
  /\ UNCHANGED <<saved, edit, enabled, held, feedback, asked>>

-----------------------------------------------------------------------------
(* Edits, feedback, the operator *)

Exists(c) == \E m \in Messages : ChatOf[m] = c /\ saved[m] # None

\* invalidate_edit, with the history the browser sends: whatever it would change in
\* a saved message invalidates the chat before it is written.  A message it adds, or
\* adds again, is compared with nothing.
EditChat(c, history) ==
  /\ edit = << >> /\ Exists(c)
  /\ edit' = history
  /\ IF \E m \in DOMAIN history : saved[m] \notin {None, history[m]}
       THEN Invalidate(c, FALSE) ELSE UNCHANGED trialVars
  /\ UNCHANGED <<saved, runs, enabled, held, feedback, asked, lost>>

\* The hook of the routes that update or delete one message.
EditMessage(m, draft) ==
  /\ edit = << >> /\ saved[m] # None
  /\ edit' = [k \in {m} |-> draft]
  /\ Invalidate(ChatOf[m], FALSE)
  /\ UNCHANGED <<saved, runs, enabled, held, feedback, asked, lost>>

\* The hook of the deletion of a chat.
DeleteChat(c) ==
  /\ edit = << >> /\ Exists(c)
  /\ edit' = [m \in {m \in Messages : ChatOf[m] = c} |-> None]
  /\ Invalidate(c, TRUE)
  /\ UNCHANGED <<saved, runs, enabled, held, feedback, asked, lost>>

\* The host writes what the hook let through.
Write ==
  /\ edit # << >>
  /\ saved' = [m \in Messages |-> IF m \in DOMAIN edit THEN edit[m] ELSE saved[m]]
  /\ edit' = << >>
  /\ UNCHANGED <<trialVars, runs, enabled, held, feedback, asked, lost>>

\* A feedback callback reads the chat and qualifies its target.
Press(m) ==
  /\ enabled
  /\ \E a \in Reserved :
       /\ Qualifies(a, m, saved[m])
       /\ held' = held \cup {[attempt |-> a, shown |-> saved[m]]}
  /\ UNCHANGED <<trialVars, saved, runs, edit, enabled, feedback, asked, lost>>

\* Mutant: the callback records with the store that has no guard.
RecordUnguarded(h) ==
  /\ enabled /\ h \in held
  /\ feedback' = feedback \cup {h}
  /\ UNCHANGED <<trialVars, saved, runs, edit, enabled, held, asked, lost>>

\* A later transaction of the callback records something: the guard asks for the
\* receipt again in the same transaction.
Record(h) ==
  /\ enabled /\ h \in held
  /\ HasReceipt(h.attempt)
  /\ feedback' = feedback \cup {h}
  /\ UNCHANGED <<trialVars, saved, runs, edit, enabled, held, asked, lost>>

Switch ==
  /\ enabled' = ~enabled
  /\ UNCHANGED <<trialVars, saved, runs, edit, held, feedback, asked, lost>>

\* The host dies, with every callback and the edit it was handling.
Crash ==
  /\ \/ \E p \in Pipes : runs[p] # Idle
     \/ edit # << >> \/ held # {}
  /\ runs' = [p \in Pipes |-> Idle]
  /\ edit' = << >> /\ held' = {}
  /\ Lose({runs[p].attempt : p \in Pipes})
  /\ UNCHANGED <<trialVars, saved, enabled, feedback, asked>>

\* The history a browser sends: what is saved, with at most one message changed.
Histories(c) ==
  LET copy == [m \in {m \in Messages : ChatOf[m] = c} |-> saved[m]]
  IN {copy} \cup {[copy EXCEPT ![m] = d] : m \in DOMAIN copy, d \in Drafts}

Next ==
  \/ \E p \in Pipes :
       \/ \E m \in Messages : Check(p, m)
       \/ Read(p) \/ Admit(p) \/ Begin(p) \/ Refused(p) \/ NotStarted(p)
       \/ Answered(p) \/ Failed(p) \/ Save(p) \/ NotSaved(p) \/ Confirm(p)
  \/ \E c \in Chats : DeleteChat(c) \/ \E h \in Histories(c) : EditChat(c, h)
  \/ \E m \in Messages : Press(m) \/ \E d \in Drafts : EditMessage(m, d)
  \/ \E h \in held : Record(h)
  \/ Write \/ Switch \/ Crash

\* A stream ends by itself (its timeout is a minute), and the host goes on with a
\* response it has begun.
Fairness == \A p \in Pipes :
  /\ WF_vars(NotStarted(p) \/ Answered(p) \/ Failed(p))
  /\ WF_vars(Save(p) \/ NotSaved(p))
  /\ WF_vars(Confirm(p))

Spec == Init /\ [][Next]_vars /\ Fairness

-----------------------------------------------------------------------------
(* Properties *)

\* Feedback is recorded only for an answer in force: not after its regeneration, an
\* edit, a deletion or a revocation, although the callback read its target before
\* (s1_action.py:59-69).
FeedbackInForce ==
  [][\A h \in feedback' \ feedback : ~Withdrawn(h.attempt)]_vars

\* Feedback judges, and later requests contain, only text that a generation of this
\* program answered and the host saved, whatever was edited between.
OnlyGenuineText ==
  /\ \A h \in feedback : /\ generations[h.attempt].status = "completed"
                         /\ Matches(h.attempt, h.shown)
  /\ \A a \in Reserved :
       Prior[generations[a].message] # None =>
         \E b \in Reserved : /\ generations[b].message = Prior[generations[a].message]
                             /\ generations[b].status = "completed"
                             /\ generations[b].answer = asked[a]

\* Why a generation may stay in flight and keep the trial closed until somebody
\* reconciles it (s1.py:222-223): its end was lost, or its chat changed under it.
Interrupted(a) ==
  LET m == generations[a].message IN
  \/ a \in lost
  \/ current[m] # a
  \/ ~Admitted(m)
  \/ saved[m] # None => saved[m].prompt # generations[a].prompt

\* Otherwise it ends.
InFlightSettles == \A a \in Attempts : InFlight(a) ~> (~InFlight(a) \/ Interrupted(a))

=============================================================================
