# Whynote: models, checks and proofs

TLA+ modules for the parts of Whynote whose correctness depends on the order in which
several actors act, or on two programs reading the same record alike: the feedback store and
what runs over it (the Open WebUI button, the gate worker, the research suggestions), the
trial store with its generations and receipts, the paid model batches with their ledger and
budget pools, the runs of the local model, and the studies and analyses made of what those
leave. Paths are relative to the repository; `store.py` stands for `src/whynote/store.py` and so on.

    tlc -workers 2 -config MCHostMenu.cfg MCHostMenu      # model-check one run
    tlapm FeedbackStoreProofs.tla                         # check the proofs of one module

`PROJECT.json` lists the components, the runs, the mutants that show each property can be
broken by a bug of the code, the source lines of every definition, the hazards and the
theorems.

## 1. The system

| component | state it keeps | operations | what makes it hard |
|---|---|---|---|
| Domain rules (`domain.py`) | none: `project` folds an action's events | `project`, `decide_gate`, `validate_display`, `validate_user_action` | events arrive in any order; a late suggestion must not replace a reason the user gave |
| Event store (`store.py`) | SQLite tables: actions, events, idempotency keys, host clicks, display tickets, outbox | create (with generations), click, deadline, retract, toggle, ticket, display, answer, gate decision | several host processes, retries under the same key, tabs that overtake each other; each operation is one `BEGIN IMMEDIATE` transaction, sequences of them are not |
| Gate worker (`process_one_gate`) | a message it read in an earlier transaction | read, evaluate outside any transaction, decide | two workers with one message, a status that is stale when used, a policy that raises |
| S0 button (`s0_action.py`) | local variables of a coroutine across `await` | click, menu, deadline thread, answer, display, save | everything it read at the click may have changed when the browser answers a minute later |
| Retract and toggle buttons (`s1_retract_action.py`, `local_chain_action.py`) | none | one store call each | run between any two steps of the above |
| HTTP API (`api.py`) | none | checks the current target, then calls the store | the check and the call are two transactions |
| Two-stage batch (`two_stage_batch.py`, `two_stage.py`) | ledger: a row per target and per request; running totals; pool register; frozen plan; results file | register a pool, freeze, claim, prepare, start, send, answer, finish, recover, export | a crash between a payment and its record, budgets, a gate that closes at any moment, two processes, files moved away |
| Three-packet collection (`two_stage_v3_batch.py`, `two_stage_v3.py`) | the same ledger | the same, with one to three requests planned from lengths and no early end when one fails | partial failure; a plan that must hold for every answer |
| S1 trial store (`s1.py`, `s1_host.py`, `s1_provider.py`, `s1_pipe.py`, `s1_action.py`) | generations, current receipts, admitted chats | reserve, finish, confirm the save, qualify, invalidate, revoke | one generation in flight, interrupted ones, text restored after an invalidation |
| Research suggestions (`suggestions.py`, `template_suggestions.py`, `live_suggestions.py`, `template_action.py`) | the action's events: suggestions, renders, responses, invalidations | generate, render, respond, correct, time out, invalidate, report | expiry judged with an earlier clock, two tabs correcting one response, denominators of the report |
| Confirmation registry (`two_stage_confirmation.py`, `two_stage_research.py`, `two_stage_calibration.py`) | registry of frozen samples, workspace files | search thresholds, freeze, consume once | crashes between registry and files; thresholds tuned on old answers and unfinished labels |
| Human review (`two_stage_review.py`, `two_stage_review_ui.py`) | locked label files and receipts | lock, import, reconcile labels | two reviewers, two desks, imports |
| Exploration (`explore*.py`, `windows_session.py`) | append-only journal, register of exposures, resident worker | prepare, run, cancel, resume, report | late answers, crashes with an attempt in doubt, a report made while the run goes on |
| Controlled replay and self review (`controlled_replay.py`, `controlled_worker.py`, `replay.py`, `self_review*.py`) | rows of predictions, sealed labels | supervise slots, infer, report | a run that cannot be resumed; rows written by one program and judged by another |
| Offline analysis (`two_stage_offline.py`, `two_stage_groups.py`, `evaluation_signals.py`) | none; reads results, ledgers and source files | check, decide anew, group | must reproduce what other programs decided, from less |
| Diagnostics, Windows isolation, demos, data conversion, provider access | files written once | sequential programs | operating system or shape checks |

How they interact: the S0 button, the HTTP API and the other buttons call the store in
their own processes and share nothing but the SQLite file. The store writes an outbox
message for each action and each retraction; the gate worker takes them one by one, oldest
first. The trial store and the suggestion store are subclasses of `EventStore` over the
same file. The two batches share the `Ledger` class, the `Gate`, the process lock and the
budget-pool register. A collection's results feed reviews, a threshold search and one
confirmation study; the older batch's results feed the offline analysis, which reads the
source rows again that the exploration's preparation made the targets of. The exploration
and the controlled replay take the same model lock, one at a time.

What makes each of them correct is stated by the properties of section 4. `PROJECT.json` has the hazards, each at its line.

## 2. Modules

    FeedbackDomain ─┬─ FeedbackLog ─────────────────┬─────────── MCRecords (with ConfirmationStudy)
                    └─ FeedbackStore ─┬─ HostMenu ──┼─ MCHostMenu
                       (INSTANCE      │             └─ FeedbackStoreProofs
                       FeedbackContract) ├─ MCFeedbackStore
                                      └─ GateWorker ── MCGateWorker
    Suggestions ──────┬─ MCSuggestions
    BudgetPool ───────┼─ MCBudgetPool
    ConfirmationStudy ┴─ RegisterProofs
    TrialStore ── TrialHost ─┬─ MCTrialHost
    (INSTANCE                └─ TrialProofs
    TrialContract)
    StageLedger ── BatchProcess ─┬─ TwoStageBatch ── MCTwoStageBatch
                                 ├─ PacketBatch ───────────────┐
                                 └─ BatchProofs ─┬─ TwoStageProofs (with TwoStageBatch, SavedAnswers)
                                                 └─ PacketProofs (with PacketBatch, SourceGroups,
                                                                    ThresholdSearch)
    PacketPlan ── ThresholdSearch ─────────────────────────────┤
    SavedAnswers, SourceGroups ────────────────────────────────┴─ MCPacketBatch
    ExploreRun ── MCExploreRun ─┬─ MCModelRuns
    ControlledReplay ───────────┘
        └─ ModelRunProofs (with ExploreRun)
    FoldProofs ── TrialProofs, BatchProofs, PacketProofs, RegisterProofs, ModelRunProofs

`MCRecords`, `MCPacketBatch` and `MCModelRuns` put systems that share no state beside each
other: an initial choice says which of them a behaviour is of, the others stand still. Each
of these systems is checked as if it were alone.

**FeedbackDomain** holds the pure rules as operators: `Apply` is one turn of the loop of
`project`, `Decision` is `decide_gate`, `ValidDisplay` and `ValidResponse` are the two
validators. Reasons are an abstract set; `None` is a user who says that none matched, and
what is absent.

**FeedbackLog** grows one action's history, event by event, in every order `project`
accepts. Its reference reading of a log is declarative (the last submission before the
retraction, and so on) and is compared with the fold.

**FeedbackStore** is `EventStore`. One action per operation, because every operation is one
immediate transaction and a call that raises rolls back. `actions`, `events`,
`idempotency`, `clicks`, `tickets` and `outbox` are the tables; `view` is the
projection the code recomputes from `events` at each read, kept beside them. Idempotency
keys keep the structure the code gives them by hashing (a client's key, the next generation
derived from a key and an action, the two keys of a toggle, the key of a choice in a menu),
with injective hashes. One principal owns all rows: every query of the store names tenant
and actor, so others only meet `NotFoundError`.

**FeedbackContract** is the abstract promise, one log of facts for each action: it begins when
the action is opened for a target and ends when it is withdrawn; in between the gate decides
once, a display is shown once, and only the display shown last is answered, once. `FeedbackStore`
instantiates it with `home <- actions, log <- Log`: `Log` reads the events of the table one by
one, in order (`Fact`, `Facts`). A second
decision or a second answer in the table is a second fact, which no step of the contract adds.

**HostMenu** adds the callbacks of the S0 button. Phases are the places where the coroutine
waits: for the browser (`menu`), between the browser's answer and the recheck of the target
(`arrived`), before the display is recorded (`checked`) and before the answer is saved
(`shown`). The deadline is a thread that publishes through the store; both clocks of a
display are one set `late`. A click that is sent again, the host without click ids, and the
retract and toggle buttons are actions of their own.

**GateWorker** splits `process_one_gate` at its transaction boundaries.

**TrialStore** is class `TrialStore` with the research ledger it writes along: chats that are
admitted, generations, the newest attempt of each answer, the states recorded for each
attempt. Each operator is one transaction; `Note` is `record_state`, which records a kind
once and only for attempts that research tracks.

**TrialContract** is what the trial promises, without chats, messages, texts or ledger: one slot
and a purse. A generation takes the free slot and its reservation; it gives back once what it
did not cost, or nothing if its use is unknown; it leaves the slot when its save is confirmed or
its answer is not coming. An answer is in force from its save until it is replaced or withdrawn,
and what is over never comes into force. `TrialStore` instantiates it (`Slot`, `Running`,
`Receipts`, `Over`, and the budget less `Spent` as the purse).

**TrialHost** runs over it. A request is an instance of the pipe with a phase for each place
where another callback can come in between: the first check, the read of the chat, the
admission, the reservation, the stream, the host's save, the hook after the save. Edits and
deletions are two steps, the hook and the write. A feedback callback is the target it has
qualified (`held`), which it may record for at any later time, in any number of transactions.
`asked` and `lost` are history: what an attempt's request contained, and which attempts in
flight no callback will close any more.

**StageLedger** is class `Ledger`: the two tables and the totals a process keeps in memory.
A crash loses the totals only. Each operation is one `synchronous=FULL` transaction.

**BatchProcess** is what both batches do with a ledger: open it and read the totals, recover
what the last process left, claim a target with the reservations of its requests, and for
each request record it as built, record it as started, send it, record its answer. `sent`
counts the requests that left; no process can read it, and it outlives every crash. The
gate outside the ledger (CANCEL file, source admission, approved configuration, expiry) is
one Boolean that may change at any time; it is asked where the code asks it.

**TwoStageBatch** and **PacketBatch** add what the two programs do differently: what is
required before a claim, what ends a target, what a closed gate makes of it.

**BudgetPool** is the start of a run of either program, from the lock to the opened ledger:
the glance at the files, the freezing of configuration and plan, the row in the register,
the creation and the identification of the ledger. Each is a file or a transaction of its
own, so a crash leaves any prefix; `Remove` is an operator who moves files away. `issued`
remembers every live ledger ever made, also those moved away.

**PacketPlan** is the arithmetic of a collection's target: which routes an answer selects,
which reasons they call for, the packets those fill (`Pack`), the number of requests promised
before any answer (`MaximumRequests`), and the outcome of the answers. The two loops over the
catalogue are recursive functions of the number of entries passed (`Packing`, `Weighing`).
**ThresholdSearch** is
the search over such outcomes: the label made of reviews (`LabelOf`), the score of a target
under a policy (`EvaluateTarget`), and the thresholds of the three risks searched one after the
other over any grid of the scores that holds the baseline, while opinions keep arriving.

**SavedAnswers** is the older batch's decision making (`_accepted`, `select_routes`,
`prepare_reasons`, `_result`, `summarize_assessment`), the record that `export` writes, and
the analysis that decides it again. The batch decides over the text of the materials; the
analysis has only the answers and the metadata saved with the record. Both call the same
functions on what they have.

**SourceGroups** reads one file of utterances twice: row by row with `WildFeedbackMapper`,
as `prepare` does when the targets are made, up to its limits of rows and of targets and with
an eye on the bytes of a conversation, and by `segments` and `group_original`, which know
neither, find the user's turn after a target and take its label.

**Suggestions** is the log of the suggestion receipts of one action with one callback for
each tab: it draws, waits for the browser, answers, corrects, gives up waiting (`Unanswered`)
or goes on to the ordinary menu (`OpenMenu`), and looks before each of these whether all is
still in force, while other buttons invalidate or retract, the answer loses its receipt and
the clock goes on. `Report` is the row of the research
report for every cutoff.

**ExploreRun** is `execute` with its journal, its register of exposures and its resident
worker behind a bounded channel. A process may die between any two writes and tear the last
line, and a full disk may tear one under a process that goes on; the row after a torn one is
on its line (`spoilt`, for the exposures); a worker may answer
after it was given up; a report reads the journal in two steps.
`calls` counts what the model was given and is read by nobody.

**ControlledReplay** is `execute_real` and `execute_slots` with the guard before and after
each slot, the worker's three schemes with their fallback, the row made of each answer, and
the report: `validate_predictions`, the flags, the ratios. Source and admitted files may
change and the clock runs at any moment.

**ConfirmationStudy** is the review workspace and the registry shared by all workspaces:
locked labels with receipts, imports, the search, the freeze (registry first, file after),
the consumption and the analysis, by several desks that die.

**FeedbackStoreProofs**, **TrialProofs**, **BatchProofs**, **TwoStageProofs**,
**PacketProofs**, **RegisterProofs** and **ModelRunProofs** hold the proofs, **FoldProofs** the
induction over finite sets, over numbers and over the turns of a loop they share (section 6).

## 3. Abstractions that matter

* Wall clocks: deadlines are events (`DeadlinePasses`); `created_at` in the outbox is the
  order of insertion, that is, a clock that does not go back. A tie or a step of the clock
  would change which of two messages a worker takes first, and is left out.
* Amounts are natural numbers of one unit. The code's decimals are exact, so only order and
  sums matter.
* Text, signatures, hashes of content, labels, timing measurements and the export files are
  left out. Input that cannot be built, or is too large, is a nondeterministic choice at the
  place where the code finds out.
* A gate denial read immediately before a transaction is one step with that transaction:
  the gate closing between the two is the same as closing right after the transaction,
  because the code does not look at the gate in between.
* A generation's answer is one of a few texts, a message what was asked and answered in it;
  digests are injective. A chat is deleted when it has no message left. One edit is handled
  at a time, and it changes, deletes or restores one message; two edits that overlap are a
  listed hazard. The deletion of one chat stands for the host's deletion of several.
  `HasReceipt` leaves out
  that mode and model of the provider are the configured ones, which never change here, and a
  request carries one earlier exchange where the code carries four.
* A process lock is the `off` phase: only one process can be past it, and its death
  releases it.
* `BudgetPool`: the configuration is a pool, an approval and `terms` for the rest of it. The
  refusals that read nothing but the configuration, and the previews and reports that need
  no ledger, are left out.
* `Suggestions`: request ids, the texts, the durations of the report and the status of a
  browser that cannot show a suggestion (`client_unavailable`) are left out; a tick is a second
  that matters.
* `ExploreRun`: the pages that show a case, the preparation's exclusions, the identifiers of
  attempts and the content of the row written when a model is loaded are left out.
* `ConfirmationStudy`: labels are complete and blind; drafts, adjudications, pins of a
  search and the saving of artifacts are left out.
* `PacketPlan`, `ThresholdSearch`: a text is a length, probability and confidence together
  one level, and what the model answers of a reason does not depend on the other reasons in
  its packet. A risk passes by a table over its two counts (`Passing`), which stands for the
  binomial bound, in the one of its branches the search's caller takes
  (`two_stage_research.py:185`); a target too long for its route request is left out; a reviewer
  without expertise is one who has not reviewed; the delay before
  a second opinion, folds, reliability curves and strata are left out.
* `ControlledReplay`: a question is its outcome, a timeout stands for every listed failure, a
  few instants for the clock; a source or a file that changes stays changed; the supervisor
  does not crash (its run could not be continued); labels are sealed before and read at the
  report; the limits of the gates are not judged.
* `SavedAnswers`: thresholds and answers are levels around the baseline, one target, the
  contract with materials; the agreement with ledger, summary and file pins is left out.
* `SourceGroups`: of the three sources the one whose rows depend on each other; a row is its
  number, turn, role, label and topic flag, whether it has text, and whether it can be read.
  The comparison of text and digests in `group_original` is implied by the pin of the file.

## 4. Runs

| run | module, configuration | bounds | question |
|---|---|---|---|
| `records` | MCRecords | 2 reasons, logs of up to 5 events, every signal record with at most one failing check; 2 workspaces, 2 units, 2 desks, 2 reviewers, 3 reviews, 1 crash | does the loop say what the log says? is a population studied once, and labelled after its freeze? |
| `store` | MCFeedbackStore, MCStore | 3 keys; 2 actions on 1 target with 1 display, or 1 action with 2 displays (`Extent`) | do outbox, keys and events stay in step, and is each transaction a step of the contract? |
| `host_menu` | MCHostMenu | 2 callbacks, 2 actions, 2 displays, 2 keys | interleaved callbacks, retries, crashes: which menu is answerable, and does every callback end? |
| `gate_worker` | MCGateWorker | 2 workers, 2 actions, 3 keys, signals that pass, deny and raise | racing workers; is every action settled? |
| `suggestions` | MCSuggestions | 2 tabs, 2 reasons, lifetime and clock of 2, logs of 5 events | is what is confirmed what was shown, and does the report add up? |
| `trial_requests` | MCTrialHost, MCTrialRequests | 2 requests and 2 attempts for 1 answer, a budget of one reservation and a half, usage of half a reservation or unknown, tracked or not | one generation, one story, one purse: is each step one of the contract? |
| `trial_edits` | MCTrialHost, MCTrialEdits | 1 request at a time, 2 attempts, 2 answers of one chat, 2 prompts, 2 texts | what may be judged and what may be asked, whatever is edited |
| `two_stage_batch` | MCTwoStageBatch | 3 targets, limit of 4 reservations, costs of half and of twice a reservation | safety and termination of the batch over crashes and closures |
| `budget_pool` | MCBudgetPool | 2 directories, 2 processes, 4 configurations over 2 pools and 2 approvals, 1 crash, 2 removals | does an allowance pay for one ledger? |
| `packet_batch` | MCPacketBatch | collection: a target of 3 and one of 2 requests; search: 2 targets, 5 kinds of the first, 3 reviews, 3 reasons; saved answers: 3 reasons, 5 states of a material; source: 5 rows of 12 kinds, a preparation of 4 rows or of 2 targets, conversations of 4 bytes | partial failure, the promise of a plan, the worth of selected thresholds, the faithfulness of the offline analysis |
| `explore_run` | MCModelRuns | exploration: 3 slots, 2 faults, 1 edit; replay: 1 sample, 3 slots, 3 instants | what the model is asked, once, and whether what it says is accepted |
| `explore_report` | MCExploreRun, MCExploreReport | 3 slots, 1 fault | expects a violation, see below |

What they show:

* `ProjectMatchesReference`: the fold agrees with a declarative reading of the log, whatever
  the order of suggestions, menus, answers and the retraction.
* `StudiedOnce`, `LabelsFollowFreeze`: the registry's row is the one thing two workspaces
  share, and it is enough, whatever desk dies between the row and the file.
* `OutboxMirrorsActions`, `RowsKeepTheirRequest`: the tables never disagree, whatever mix of
  calls and retries led there; the row of a key, once written, never changes, nor does the event
  it names, so that a retry replays its own request.
* `ImplementsContract`: no action is decided twice, no display shown or answered twice or
  answered after a newer one, and nothing is appended after the retraction. No step of the
  contract touches two actions, so the run has two displays only where there is one; the proof
  has any number of both.
* `OneActivePerTarget`, `NewestMenuIsAccepted`, `RepliesSettle`, `CallbacksEnd`: the stale
  reads of the callback are harmless. The newest menu, drawn long ago, is still valid and
  every choice in it is accepted; what a repeated click is told is never taken back. For a
  host without click ids the second of these does not hold (`s0_action.py:131`): the model
  has that path too, and the property is stated for clicks with an id.
* `GateDecidesOnce`, `EveryActionSettles`: the decision to evaluate, taken on an old status,
  errs only towards evaluating in vain.
* `ConfirmedWasShown`, `RepliesTellTheLog`, `ReportNests`: of two tabs only the one drawn last
  confirms, in its time; a tab turned down learns it for a reason; every column of the report
  is part of the one before it, at every cutoff.
* `ImplementsTrialContract`: whatever races or is interrupted, generations take turns in one
  slot, the purse is never overdrawn and gets back once what one did not cost, and an answer
  that was replaced or withdrawn, also while it was in flight, never comes into force. The
  first check of a request is only advice; the reservation decides.
* `LedgerTellsReceipts`, `FeedbackInForce`, `OnlyGenuineText`: what research calls eligible is
  what the host saved; what was superseded, invalidated or revoked has no receipt again, also
  when the text is put back; feedback recorded long after its target was read is for an answer
  still in force, and an edited answer never reaches a later request.
* `InFlightSettles`: a generation ends, unless its end was lost (a crash, a stream the host
  never started, a save that failed, an entry switched off) or its chat changed under it.
  Those are the cases in which the code asks for reconciliation (`s1.py:223`).
* `SentOnceOnRecord`, `OutcomeTellsRequests`, `OutcomesStand`, `OvershootIsOneRequest`,
  `BatchSettles`: no request is sent twice over any number of crashes and restarts; an
  outcome is final and says truthfully whether something was sent; a request that costs more
  than was held for it can push the total over the limit once, and nothing leaves after it.
  The collection has its own `OutcomeTellsRequests`: a failed packet makes its target a
  partial error and never a success, and what was answered is kept.
* `OneLedgerPerAllowance`, `LedgersKeepTheirPlan`, `StrandedOnlyByCrash`: a pool or approval
  never pays for two ledgers, also after plan or ledger were moved away; a ledger never stands
  beside another plan than its own; and a pool that no run accepts any more was stranded by a
  crash between the register and the ledger, or by an operator, and by nothing else.
* `ReservationSuffices`: the packing after the answers never needs more packets than the plan
  made before them, whatever routes are selected. `SelectedPolicyHolds`: selected thresholds
  would pass again on a new collection under them, unless a label that was read is contested
  afterwards (`Upheld`).
* `HistoryReproduces`, `AssessmentTellsOutcome`: the analysis accepts every record a run can
  leave, and what it says under other thresholds is what a run with these would have said; the
  assessment, which was added to the format later, never contradicts the outcome beside it.
  `FeedbackIsOfNextTurn`: the two readers of a source file cut it alike wherever both can read
  it, and a signal is of the turn that follows the target. The target has the text of that turn
  exactly if the preparation came to it, and found it neither empty nor too large.
* `OneExchangePerSlot`, `CompletedIsComplete`, `SegmentEnds`: over crashes, cancels and resumes
  a slot is sent once and was registered as exposed before (a fault spoils the row of one input
  at most), an answer belongs to its slot, a segment ends even if the worker never
  answers, and only a finished run is reported as completed.
* `AnswersAccepted`, `MadeInForce`, `LossesAddUp`: nothing that a worker may answer makes the
  run worthless, every row was made between seal and expiry by the approved source, and each
  defect is lost or hit exactly once in the report.

`explore_report` finds a state in which `NotStartedIsUnstarted` is false:
`explore_report.py:51` groups attempts by `COALESCE(bucket,'interrupted')` but its `GROUP BY
bucket` names the column, so an attempt still open and one recorded as interrupted are two
groups of one name, and the dictionary keeps the last. An attempt that was begun, and perhaps
sent, is then counted as not started. It takes a run that was stopped and then killed, or one
that was stopped and is going on again while the report is made.

Why the bounds are enough: the operations relate at most two actions of one target (joining
a generation, toggling), two displays of one action (a newer ticket), a message and an older
one, a request and the one before it, an attempt and the one it supersedes. Each run
has that number and one retry or one process more. Five events are the shortest history with the recording of the action, a suggestion, a
submission, one more submission or pass, and a retraction. A batch of three targets has one finished, one running
and one pending at once, and its limit lets the budget run out on the second or on the third.
Two directories, two pools and two approvals are what a conflict over one of them needs. Three
slots are one answered, one in doubt and one never sent. Five rows hold a conversation with
a feedback and the row that breaks it, or the reset that follows.
The runs check no type invariants: each is a part of an invariant that is proved (section 6).

Deadlock checking is off in all runs, because each of these systems may stop: nobody has to
click, the logs and identifiers are bounded, a batch that is done is started by nobody.

Symmetry is used in the runs of the records, the store, the suggestions and the trial
requests, which check no liveness, over constants that appear in no ordered expression.

## 5. Fairness

* `HostMenu`: weak fairness of the steps a coroutine takes by itself (asyncio resumes what
  can go on, the deadline thread runs) and of time. No fairness of users, of the browser or
  of crashes.
* `GateWorker`: weak fairness of polling; strong fairness of an evaluation that does not
  raise and of the second transaction: a worker may fail any number of times, but not every
  time. Without it nothing in the code skips a message whose evaluation always raises, which
  is a listed hazard.
* `TrialHost`: weak fairness of the end of a stream (its timeout is a minute,
  `s1_provider.py:50`) and of what the host does with a response it began: save it or give
  up, then call the hook. Nothing of users, edits, switches or crashes.
* `TwoStageBatch`: weak fairness of a running process; somebody reopens the gate and starts
  the batch again; strong fairness of the steps up to the start of a request, so that not
  every process dies at the same place of one target. Nothing is assumed of the answers.
  After the start of a request no fairness is needed: a crash there leaves the target to be
  reconciled, which is an outcome.
* `ExploreRun`: weak fairness of the supervisor's next step (`RunStep`), which includes its
  wait with a deadline. Nothing is assumed of the worker: that is the point of `SegmentEnds`.

## 6. Proofs

TLAPS proves every invariant, action property and refinement that the passing runs check, for
all values of the constants that satisfy the named assumptions, without bounds on the number of
callbacks, targets, crashes or events. Each proof finds an inductive invariant, shows that every
action preserves it, and derives the property. The invariants were checked by TLC on the runs
first.

**The store** (FeedbackStoreProofs; `StoreAssumption`, `ReasonsAssumption`,
`DecisionsAssumption`: `None` is no identifier, reason or decision):

* `StoreTypeCorrect`: `Spec => []TypeOK`. The work is in the lemmas on `Apply`, `Decision` and
  the helpers that insert, append, save and withdraw; then one lemma per operation.
* `OutboxAlwaysMirrors` and `GateAlwaysDecidesOnce`. Neither is inductive. The strengthening
  `StoreInvariant` adds that an identifier without a row has no history (`AbsentIsFresh`),
  without which an insertion could inherit a decision, and that the projection remembers
  retractions and decisions (`ViewRemembers`), because the guards of the operations look at
  the projection and the properties at the events. `StepEffects` reduces the ten operations to
  five effects on the four tables involved, and each effect is shown to preserve each conjunct.
* `RowsAlwaysKeep`: a row once written, and the event it names, never change, and when it is
  written that event is the one its transaction appended, the opening of the action it joined
  or the retraction it found. `RowsInvariant` adds that a row names an event of its operation and
  that an action begins with its creation, which is what joining it and toggling it record.
* `StoreImplementsContract`: every transaction is a step of `FeedbackContract` under the
  mapping, or a stutter. The guards of the store are on its projection and tickets, those of the
  contract on the log; `RefinementInvariant` ties them.
* `LoopIsReading` (`ProjectMatchesReference`, over FeedbackLog): `LogInv` says to which event of
  the history the status and the reason are owed: a retraction, the newest deciding answer, a
  later pass, the first suggestion or nothing. With that the loop is compared with the reading
  one event at a time, and no induction over the log is needed.

**The S0 button** (same module; `MenuAssumption`: there is a reason, and no reason has the name
of one of the other buttons of the menu): `TargetsHaveOneActive`, `NewestMenuAlwaysAccepted`,
`RepliesAlwaysSettle`. `MenuInvariant` ties the display a callback holds to the three places
that know of it: it was issued to this callback alone (`MenusDistinct`), no event names it before
its menu is shown and no answer while it is shown (`MenusPending`), and while its ticket is the
newest the projection still calls for its menu (`NewestMenu`). Without the last, the answer that
arrives a minute later could meet a projection that moved on. `MenuEffects` reduces the steps to
seven kinds.

**The trial store** (TrialProofs; `TrialAssumption`, `HostAssumption`): `OneGenerationAtATime`,
`LedgerAgreesWithReceipts`, `TextsAreGenuine`, `FeedbackStaysInForce`. `TablesInvariant` orders
the kinds the ledger records (`eligible` follows only the two kinds of a generation nobody
touched) and ties a withdrawal to the receipt that is gone. `HostInvariant` says of a text read
earlier that it is the answer of a completed attempt (`RestsOnAnswer`, `TargetsGenuine`), which
stays true of an old attempt although the receipt may be gone by the time the text is used.
`TrialImplementsContract`: `StepIsTransaction` reduces the nineteen actions to five
transactions, and each of these is one step of TrialContract or none. `PurseInv` adds that the
generations are finitely many and that one whose end is not told has no settlement (so its
charge, and its share of the sum, changes once), and that a chat with a generation was admitted,
without which admitting it again could bring back what was over. `BudgetIsKept`: the charges
never exceed the budget. That what a provider can report is no more than a reservation is
`TrialAssumption`; `finish` takes no other usage (`s1.py:237-246`).

**The suggestions** (RegisterProofs; `SuggestionAssumption`: a lifetime, `None` is no reason,
browsers send what the code knows): `ConfirmationsWereShown`, `RepliesAlwaysTellTheLog`,
`ReportsAlwaysNest`. `LogInv` orders the log by its times and says that a tab makes one
suggestion and draws it only if it has reasons. `TabInv` says for each phase of a callback what
it may rely on: what it drew, what it read as the previous response and what it confirmed stand
(`Standing`) until another tab makes a suggestion (`Overtaken`). So a refusal has a cause in the
log (`Caused`), which nothing takes away. The steps of others are handled once, by what they
leave a tab to go by (`Kept`).

**The two batches**, for any number of targets, any limit, reserve and costs, and (for the
collection) any plan of one to three requests per target (`LedgerAssumption`, which also says
that targets and requests are finitely many, `BatchAssumption`, and what names the requests:
`BothAssumption`; `StagesAssumption`, `RequestsAssumption`):

* `RequestsSentOnce`, `OutcomesAreTrue`, `OutcomesAreFinal` (TwoStageProofs) and their packet
  counterparts (PacketProofs). `BatchInv` (BatchProofs), shared by both, ties the phase of the
  process to the row of the request it holds (`RequestOnRecord`): until the request in hand
  leaves, `sent` is 0 for it. `PendingUnsent` says that a target that waits, again or still, has
  sent nothing. Without it a second claim, which overwrites the rows of its target, could hide a
  request that was paid for. `Stands` is the step-wise form of the finality of outcomes.
  `TargetInHand` and, for the collection, `OutcomeInHand` say what the process knows of rows it
  wrote earlier, which is what an ending claims.
* `OvershootIsBounded`, `PacketOvershootIsBounded`. `MoneyInv` says what each row holds and
  counts, that the totals of a process are the sums over the table, and that a process waits for
  an answer only if they were within the limit when it sent. The sums are the community modules'
  folds over finite sets; FoldProofs shows by the smallest counterexample (`SmallestSubset`) that
  they exist, and what they do when one entry changes.

**The pools** (RegisterProofs; `ConstantsApart`), for any number of directories, processes,
configurations, crashes and removed files: `AllowancesPayOnce`, `LedgersStayWithPlans`,
`PoolsAreNotStranded`. `PoolInv` adds the lock (`Locked`), that a process past the plan still has
it before it (`PlanHeld`: nobody removes files while it runs), that rows of the register share
neither pool nor approval (`RowsUnique`), that every ledger ever issued has its row, and `Fresh`:
a process about to create a ledger holds a row that none was issued under. `ServedInv` adds that
a bound pool without a ledger is in the hands of the process about to create it.

**The studies** (RegisterProofs; `StudyAssumption`: no workspace calibrates on what it confirms,
and a population is not empty): `PopulationsStudiedOnce` and `LabelsAlwaysFollowFreeze`.
`StudyInv` adds that the registry names, for every unit of a study, that study (`UnitsClaimed`).
`AnalysedOnce` follows the one desk that consumed a study until it has analysed it, and
`Registered` says that the freeze file comes after the row of the registry and that a desk which
still has labels to save checked the freeze before.

**The runs of the local model** (ModelRunProofs):

* `SlotsMeetTheModelOnce`, `ReportsOfCompletion` (`RunAssumption`: finitely many numbered slots).
  `RunInv` ties the process to the journal (`JournalIsRead`: what `rebuild` makes of it is the
  index of the process), the attempt in hand to its row and its exposure, and the answer that is
  awaited to the worker that owes it (`WorkerOwes`). `SpoiltByFaults` counts the exposures lost
  on a torn line. `Replay` is a recursive function over the
  journal; that it is defined, and what one more row changes, is shown by the smallest
  counterexample (`SmallestNat`).
* `AnswersAlwaysAccepted`, `RowsAreMadeInForce`, `LossesAlwaysAddUp` (`ManifestAssumption`: a
  schedule names samples of its manifest; `PapersAssumption`: the order of the papers' dates).
  `ReplayInv` keeps every row acceptable to the report, and the answer in hand one that its
  scheme can give.

**The plan and the search** (PacketProofs, over PacketPlan and ThresholdSearch), for any
catalogue, any lengths and any number of targets, labels and thresholds (`CatalogAssumption`:
the catalogue names each reason once, lengths are natural numbers, evidence is finite;
`SearchAssumption`: targets have a length, and what passes is a number of errors):

* `WeighIsExact`: for every state and every set of reasons, the number of packets estimated by
  adding up lengths is the number the packing makes of them. The two loops are run beside each
  other: `Packed` says that the packets hold what was called for so far, `Weighed` that the bytes
  and the count kept by the estimate are those of the open packet.
* `ReservationsSuffice` follows: the maximum is over all pairs of routes, the selected one among
  them (`MaximumCovers`).
* `SelectedThresholdsHold`. The search judges answers that were collected under another policy.
  `NothingNewIsTheSame`: a policy that asks nothing new of a collected target would get the same
  routes and the same answers from a collection made under it. This rests on `FewerFit`: a
  selection within one that fitted the budget fits it as well, since at no turn of the loop have
  fewer questions over a shorter state opened more packets (`NotAhead`). `EarlierAxesStand`: a
  threshold chosen later leaves the events of the axes before it alone. `SearchInv` adds that
  units and reviews are filed side by side (`Filed`), what the search knows at each stage
  (`Staged`), that what it knew of a reason stays so (`StillKnown`; routes may be contested, hence
  `Upheld`), and that every axis passed so far passes under the thresholds chosen so far
  (`PassedSoFar`).

**The analyses**:

* `HistoriesReproduce`, `AssessmentsTellOutcomes` (TwoStageProofs, over SavedAnswers;
  `AnswersAssumption`: no reason is of the task or domain "unknown", one reason applies to all
  and needs only request and answer, as in the catalogue; answers are what `validate_response`
  passes). `SavedInv` says what a status tells of the answers beside it; the rest is that both
  programs select, prepare and judge alike from the text and from the saved metadata.
* `SignalsFollowTargets` (PacketProofs, over SourceGroups; `SourceAssumption`). `SourceInv` says
  that a target's context is an unbroken conversation up to it, and that its feedback is the row
  after it exactly if that was read, continues the conversation and leaves it small enough. The
  loop of `segments` is unfolded with
  `SmallestNat`: a row has a start exactly if it ends an unbroken conversation.

Only model-checked is liveness (`CallbacksEnd`, `EveryActionSettles`, `BatchSettles`,
`SegmentEnds`, `InFlightSettles`): fairness and ENABLED are beyond the prover.

## 7. Order of work

Modelled first were the store with its contract and callers, then the ledger and the two
batches with their proofs, the trial store, the pools, the suggestions, the runs of the local
model, and last the studies and analyses. What would add most next:

1. Proofs of the refusals and replies of the store as seen by one client.
2. Overlapping edits of a chat.
3. Drafts and adjudications of the reviews, and the weights of a sample.
4. The two sources of `map_record`, and the denominators of the groups.

## 8. Not modelled

`validate_jev_response` and the other parsers are shape checks on one value. Weights, folds,
reliability curves and intervals are real-valued statistics. The comparison of two histories
and the counts of the groups (`two_stage_groups.py`), the patterns that find materials in text,
the diagnostics and the mapping of data sets read immutable files and write a result once.
Windows isolation is a set of operating-system calls whose guarantees are not this code's.
Demos and provider access have no rule of their own. The counts of a batch's summary, the
older batch's report, the older replay over a provider and the measurement of timings are left
out of the modules that would own them. `PROJECT.json` names for every component what is left
out of it. The definitions stand for a little under a third of the implementation's lines.
