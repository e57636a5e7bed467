------------------------------- MODULE ExploreRun -------------------------------
(***************************************************************************)
(* One exploration run: execute of src/whynote/explore_run.py with its     *)
(* resident worker and the bounded line channel of windows_session.py, its *)
(* journal on disk, crashes and resumes, and a report made meanwhile.      *)
(*                                                                         *)
(* A slot is one input under one scheme, in the order of the plan.  The    *)
(* journal keeps only the rows of attempts, in order; of the rows that     *)
(* begin and end a segment it keeps the last end, which is all that is     *)
(* ever read of them.  version numbers what the fingerprint and the guard  *)
(* compare, from edit to edit: code, runtime, model, configuration, files. *)
(***************************************************************************)
EXTENDS Naturals, Sequences, FiniteSets

CONSTANTS Slots,      \* 1 .. planned_slots
          InputOf,    \* slot -> input
          Withheld,   \* input -> the bucket of one never sent, excluded when the run was
                      \* prepared ("skipped") or over one mebibyte ("ineligible"); None
          MaxEdits, MaxFaults, None, Torn

BUCKETS == {"suggested", "technical_failure", "ineligible", "skipped", "interrupted"}
Tables == [Slots -> {"none", "open"} \cup BUCKETS]

ASSUME RunAssumption ==
  /\ Slots \subseteq Nat /\ IsFiniteSet(Slots)
  /\ \A s \in Slots : Withheld[InputOf[s]] \in {None, "skipped", "ineligible"}
  /\ None \notin Tables

VARIABLES
  journal,    \* the attempt rows of journal.jsonl
  ended,      \* status of its last segment_stopped or segment_completed row
  torn,       \* a line of it is incomplete, or another row follows on that line
  runtime,    \* runtime.json: None, a version, or Torn
  exposures,  \* inputs with a readable row in exposure.jsonl
  ragged,     \* its last line is incomplete
  spoilt,     \* inputs with a row on a line that began with an incomplete one
  proc,       \* the process that holds the model lock
  index,      \* its index.sqlite3: slot -> "none", "open" or a bucket
  worker,     \* the resident worker: what it was asked and what it has answered
  calls,      \* slot -> how often its text was sent to a worker
  summary,    \* the report being made, or the last one: summary.json
  version, faults, expired, cancel

disk == <<journal, ended, torn, runtime, exposures, ragged, spoilt>>
memory == <<proc, index, worker, calls>>
world == <<version, faults, expired, cancel>>
vars == <<disk, memory, summary, world>>

\* A result: its bucket and, when the run must stop for it, why.
Result(bucket, error) == [bucket |-> bucket, error |-> error]
Uncaught == Result("technical_failure", "uncaught_error")

Off == [pc |-> "off", slot |-> 0, result |-> Result("skipped", None),
        cause |-> None, version |-> None]
NoWorker == [alive |-> FALSE, owes |-> << >>, inbox |-> << >>]
Unstarted == [s \in Slots |-> "none"]

Init ==
  /\ journal = << >> /\ ended = None /\ torn = FALSE /\ runtime = None
  /\ exposures = {} /\ ragged = FALSE /\ spoilt = {}
  /\ proc = Off /\ index = Unstarted /\ worker = NoWorker
  /\ calls = [s \in Slots |-> 0]
  /\ summary = None
  /\ version = 0 /\ faults = 0 /\ expired = FALSE /\ cancel = FALSE

-----------------------------------------------------------------------------
(* The journal and what is derived of it *)

Row(event, slot, bucket) == [event |-> event, slot |-> slot, bucket |-> bucket]

\* What one row makes of the table of attempts; None is a journal that is refused.
Replayed(table, row) ==
  LET to == IF row.event = "started" THEN "open" ELSE row.bucket
      from == IF row.event = "started" THEN "none" ELSE "open"
  IN IF table = None \/ table[row.slot] # from THEN None
     ELSE [table EXCEPT ![row.slot] = to]

\* The tables after each of the rows.
Replay(rows) ==
  LET table[n \in 0..Len(rows)] ==
        IF n = 0 THEN Unstarted ELSE Replayed(table[n - 1], rows[n])
  IN table

\* Mutant: attempts without a result are forgotten, to be made again.
RebuiltFinished(rows) ==
  LET table == Replay(rows)[Len(rows)]
  IN IF table = None THEN None
     ELSE [s \in Slots |-> IF table[s] = "open" THEN "none" ELSE table[s]]

\* The index rebuilt from a journal, never trusted over it.
Rebuilt(rows) == Replay(rows)[Len(rows)]

Readable == ~torn /\ Rebuilt(journal) # None

-----------------------------------------------------------------------------
(* Starting *)

\* run: nothing has been started here.  The runtime file is created exclusively.
Start ==
  /\ proc.pc = "off" /\ ~expired
  /\ runtime = None /\ journal = << >> /\ ~torn
  /\ proc' = [Off EXCEPT !.pc = "saving", !.version = version]
  /\ UNCHANGED <<disk, index, worker, calls, summary, world>>

SaveRuntime ==
  /\ proc.pc = "saving"
  /\ runtime' = proc.version
  /\ index' = Unstarted
  /\ proc' = [proc EXCEPT !.pc = "segment"]
  /\ UNCHANGED <<journal, ended, torn, exposures, ragged, spoilt, worker, calls, summary, world>>

\* resume: the same fingerprint, and a journal that can be replayed.
Resume ==
  /\ proc.pc = "off" /\ ~expired
  /\ runtime = version /\ Readable
  /\ index' = Rebuilt(journal)
  /\ proc' = [Off EXCEPT !.pc = "segment", !.version = version]
  /\ UNCHANGED <<disk, worker, calls, summary, world>>

BeginSegment ==
  /\ proc.pc = "segment"
  /\ proc' = [proc EXCEPT !.pc = "recover"]
  /\ UNCHANGED <<disk, index, worker, calls, summary, world>>

\* An attempt a dead process left open has an unknown result and is not made again.
Recover ==
  /\ proc.pc = "recover"
  /\ \/ \E s \in Slots :
          /\ index[s] = "open"
          /\ journal' = Append(journal, Row("ended", s, "interrupted"))
          /\ index' = [index EXCEPT ![s] = "interrupted"]
          /\ UNCHANGED proc
     \/ /\ \A s \in Slots : index[s] # "open"
        /\ proc' = [proc EXCEPT !.pc = "next"]
        /\ UNCHANGED <<journal, index>>
  /\ UNCHANGED <<ended, torn, runtime, exposures, ragged, spoilt, worker, calls, summary, world>>

-----------------------------------------------------------------------------
(* One slot *)

GuardHolds == version = proc.version

\* The segment ends: the worker is closed on the way out.
Stop(cause) == /\ proc' = [proc EXCEPT !.pc = "closing", !.cause = cause]
               /\ worker' = NoWorker

ToDo == {s \in Slots : index[s] = "none"}
First == CHOOSE s \in ToDo : \A t \in ToDo : s <= t

AllDone ==
  /\ proc.pc = "next" /\ ToDo = {}
  /\ Stop(IF GuardHolds THEN None ELSE "uncaught_error")
  /\ UNCHANGED <<disk, index, calls, summary, world>>

\* The checks before the next input is read.
StopHere ==
  /\ proc.pc = "next" /\ ToDo # {}
  /\ \/ cancel /\ Stop("cancelled")
     \/ ~cancel /\ ~GuardHolds /\ Stop("uncaught_error")
     \/ ~cancel /\ GuardHolds /\ expired /\ Stop("source_expired")
  /\ UNCHANGED <<disk, index, calls, summary, world>>

MayBegin == ToDo # {} /\ ~cancel /\ GuardHolds /\ ~expired

BeginSlot ==
  /\ proc.pc = "next" /\ MayBegin
  /\ journal' = Append(journal, Row("started", First, None))
  /\ index' = [index EXCEPT ![First] = "open"]
  /\ proc' = [proc EXCEPT !.pc = "started", !.slot = First]
  /\ UNCHANGED <<ended, torn, runtime, exposures, ragged, spoilt, worker, calls, summary, world>>

\* The result of a slot, after the guard has had its say.
Conclude(result) ==
  proc' = [proc EXCEPT !.pc = "result", !.result =
             IF result.error \in {"source_expired", "cancelled"} \/ GuardHolds
             THEN result ELSE Uncaught]

\* An input that is never shown to the model.
Withhold ==
  /\ proc.pc = "started"
  /\ Withheld[InputOf[proc.slot]] # None
  /\ Conclude(Result(Withheld[InputOf[proc.slot]], None))
  /\ UNCHANGED <<disk, index, worker, calls, summary, world>>

\* Mutant: an input is sent before its exposure is registered.
ExposeLater ==
  /\ proc.pc = "started" /\ Withheld[InputOf[proc.slot]] = None
  /\ proc' = [proc EXCEPT !.pc = "invoking"]
  /\ UNCHANGED <<disk, index, worker, calls, summary, world>>

\* The exposure is registered before the input is sent; a row that follows an incomplete
\* one is on its line, and lost with it.
Expose ==
  /\ proc.pc = "started" /\ Withheld[InputOf[proc.slot]] = None
  /\ \/ ~ragged /\ exposures' = exposures \cup {InputOf[proc.slot]} /\ UNCHANGED spoilt
     \/ ragged /\ spoilt' = spoilt \cup {InputOf[proc.slot]} /\ UNCHANGED exposures
  /\ ragged' = FALSE
  /\ proc' = [proc EXCEPT !.pc = "invoking"]
  /\ UNCHANGED <<journal, ended, torn, runtime, index, worker, calls, summary, world>>

\* The sources expire between the exposure and the request.
ExpiredHere ==
  /\ proc.pc = "invoking" /\ expired
  /\ Conclude(Result("skipped", "source_expired"))
  /\ worker' = NoWorker
  /\ UNCHANGED <<disk, index, calls, summary, world>>

\* The model is loaded into a new worker, or is not: an error or a timeout, another error
\* of the worker or another source than the program's, a cancel.
Load ==
  /\ proc.pc = "invoking" /\ ~expired /\ ~worker.alive
  /\ \/ /\ worker' = [NoWorker EXCEPT !.alive = TRUE]
        /\ UNCHANGED proc
     \/ /\ \E r \in {Result("technical_failure", None), Uncaught} : Conclude(r)
        /\ UNCHANGED worker
     \/ /\ cancel /\ Conclude(Result("interrupted", "cancelled"))
        /\ UNCHANGED worker
  /\ UNCHANGED <<disk, index, calls, summary, world>>

\* The text goes to the worker; a worker that still has something to say is refused.
Request ==
  /\ proc.pc = "invoking" /\ ~expired /\ worker.alive
  /\ \/ /\ worker.inbox = << >>
        /\ worker' = [worker EXCEPT !.owes = Append(@, proc.slot)]
        /\ calls' = [calls EXCEPT ![proc.slot] = @ + 1]
        /\ proc' = [proc EXCEPT !.pc = "waiting"]
     \/ /\ worker.inbox # << >>
        /\ Conclude(Uncaught) /\ worker' = NoWorker
        /\ UNCHANGED calls
  /\ UNCHANGED <<disk, index, summary, world>>

\* What the answer of a slot makes of it; the worker is closed after an uncaught error.
Classified(answer) ==
  IF answer.slot # proc.slot THEN Uncaught
  ELSE Result(answer.bucket, answer.error)

Receive ==
  /\ proc.pc = "waiting" /\ worker.inbox # << >>
  /\ Conclude(Classified(Head(worker.inbox)))
  /\ worker' = IF Head(worker.inbox).error # None THEN NoWorker
               ELSE [worker EXCEPT !.inbox = Tail(@)]
  /\ UNCHANGED <<disk, index, calls, summary, world>>

\* Mutant: a worker that is too late is kept for the next input.
GiveUpKeeping ==
  /\ proc.pc = "waiting"
  /\ Conclude(Result("technical_failure", None))
  /\ UNCHANGED <<disk, index, worker, calls, summary, world>>

\* Mutant: only a worker that has died is given up.
GiveUpDead ==
  /\ proc.pc = "waiting" /\ ~worker.alive
  /\ Conclude(Result("technical_failure", None))
  /\ worker' = NoWorker
  /\ UNCHANGED <<disk, index, calls, summary, world>>

\* The deadline passes, or the worker is dead: it is closed with all it still owes.
GiveUp ==
  /\ proc.pc = "waiting"
  /\ Conclude(Result("technical_failure", None))
  /\ worker' = NoWorker
  /\ UNCHANGED <<disk, index, calls, summary, world>>

\* A cancel request is seen while the answer is awaited.
CancelHere ==
  /\ proc.pc = "waiting" /\ cancel
  /\ Conclude(Result("interrupted", "cancelled"))
  /\ worker' = NoWorker
  /\ UNCHANGED <<disk, index, calls, summary, world>>

\* The result is recorded; some results stop the run.
Record ==
  /\ proc.pc = "result"
  /\ journal' = Append(journal, Row("ended", proc.slot, proc.result.bucket))
  /\ index' = [index EXCEPT ![proc.slot] = proc.result.bucket]
  /\ LET cause == IF proc.result.error # None THEN proc.result.error
                  ELSE IF expired THEN "source_expired" ELSE None
     IN IF cause # None THEN Stop(cause)
        ELSE proc' = [proc EXCEPT !.pc = "next"] /\ UNCHANGED worker
  /\ UNCHANGED <<ended, torn, runtime, exposures, ragged, spoilt, calls, summary, world>>

\* The segment's last row; the lock is released.
EndSegment ==
  /\ proc.pc = "closing"
  /\ ended' = IF proc.cause = None THEN "COMPLETED" ELSE "STOPPED"
  /\ proc' = Off
  /\ UNCHANGED <<journal, torn, runtime, exposures, ragged, spoilt, index, worker, calls, summary, world>>

RunStep ==
  \/ SaveRuntime \/ BeginSegment \/ Recover \/ AllDone \/ StopHere \/ BeginSlot
  \/ Withhold \/ Expose \/ ExpiredHere \/ Load \/ Request \/ Receive \/ GiveUp
  \/ CancelHere \/ Record \/ EndSegment

-----------------------------------------------------------------------------
(* The worker, faults and the world *)

\* The worker answers what it was asked, in order.
WorkerAnswers ==
  /\ worker.owes # << >>
  /\ \E r \in {Result("suggested", None), Result("ineligible", None),
               Result("technical_failure", None), Uncaught} :
       worker' = [worker EXCEPT !.owes = Tail(@),
                    !.inbox = Append(@, [slot |-> Head(worker.owes),
                                         bucket |-> r.bucket, error |-> r.error])]
  /\ UNCHANGED <<disk, proc, index, calls, summary, world>>

Fault == faults < MaxFaults /\ faults' = faults + 1

\* A row of the journal is about to be written.
Writing ==
  \/ proc.pc \in {"segment", "result", "closing"}
  \/ proc.pc = "recover" /\ \E s \in Slots : index[s] = "open"
  \/ proc.pc = "next" /\ MayBegin
  \/ proc.pc = "invoking" /\ ~expired /\ ~worker.alive  \* of a loaded model

\* The process dies, perhaps in the middle of a line or of a file.
Crash ==
  /\ proc.pc # "off" /\ Fault
  /\ \/ UNCHANGED <<torn, runtime, ragged>>
     \/ Writing /\ torn' = TRUE /\ UNCHANGED <<runtime, ragged>>
     \/ proc.pc = "saving" /\ runtime' = Torn /\ UNCHANGED <<torn, ragged>>
     \/ proc.pc = "started" /\ ragged' = TRUE /\ UNCHANGED <<torn, runtime>>
  /\ proc' = Off /\ worker' = NoWorker
  /\ UNCHANGED <<journal, ended, exposures, spoilt, index, calls, summary,
                 version, expired, cancel>>

\* The disk is full: a row is not written, or in part.  That ends the process before its
\* segment and at the end of it, else the segment or the slot: an attempt may stay open.
WriteFails ==
  /\ Fault
  /\ \/ /\ Writing /\ torn' \in {torn, TRUE} /\ UNCHANGED <<runtime, ragged>>
        /\ \/ proc.pc \in {"segment", "closing"} /\ proc' = Off /\ UNCHANGED worker
           \/ proc.pc \in {"recover", "next", "result"} /\ Stop("uncaught_error")
           \/ proc.pc = "invoking" /\ Conclude(Uncaught) /\ UNCHANGED worker
     \/ /\ proc.pc = "saving" /\ runtime' \in {runtime, Torn}
        /\ proc' = Off /\ UNCHANGED <<torn, ragged, worker>>
     \/ /\ proc.pc = "started" /\ ragged' \in {ragged, TRUE}
        /\ Conclude(Uncaught) /\ UNCHANGED <<torn, runtime, worker>>
  /\ UNCHANGED <<journal, ended, exposures, spoilt, index, calls, summary,
                 version, expired, cancel>>

Edit == /\ version < MaxEdits /\ version' = version + 1
        /\ UNCHANGED <<disk, memory, summary, faults, expired, cancel>>
Expire == /\ ~expired /\ expired' = TRUE
          /\ UNCHANGED <<disk, memory, summary, version, faults, cancel>>
\* The request file is created, and renamed before the run is resumed.
CancelFile == /\ cancel' = ~cancel
              /\ UNCHANGED <<disk, memory, summary, version, faults, expired>>

-----------------------------------------------------------------------------
(* The report *)

Number(table, status) == Cardinality({s \in Slots : table[s] = status})

\* The attempts a report counts as interrupted: open ones and recorded ones are two
\* groups of one name, of which the second replaces the first.
Interrupted(table) ==
  IF Number(table, "interrupted") > 0 THEN Number(table, "interrupted")
  ELSE Number(table, "open")
NotStarted(table) ==
  Cardinality(Slots) - Interrupted(table)
    - Cardinality({s \in Slots : table[s] \in BUCKETS \ {"interrupted"}})

\* The report rebuilds an index of its own.
ReadAttempts ==
  /\ Readable
  /\ LET table == Rebuilt(journal)
     IN summary' = [status |-> "reading",
                    settled |-> NotStarted(table) = 0 /\ Interrupted(table) = 0,
                    hidden |-> NotStarted(table) - Number(table, "none")]
  /\ UNCHANGED <<disk, memory, world>>

\* Mutant: a run whose last segment completed is complete.
StatusOfSegment(settled) ==
  IF ended = "STOPPED" THEN "STOPPED"
  ELSE IF ended = "COMPLETED" \/ settled THEN "COMPLETED" ELSE "PARTIAL"

Status(settled) ==
  IF ended = "STOPPED" THEN "STOPPED" ELSE IF settled THEN "COMPLETED" ELSE "PARTIAL"

\* It reads the journal again for the segments, and writes the summary.
Summarise ==
  /\ summary # None /\ summary.status = "reading" /\ ~torn
  /\ summary' = [summary EXCEPT !.status = Status(summary.settled)]
  /\ UNCHANGED <<disk, memory, world>>

Next ==
  \/ Start \/ Resume \/ RunStep \/ WorkerAnswers \/ Crash \/ WriteFails
  \/ Edit \/ Expire \/ CancelFile \/ ReadAttempts \/ Summarise

\* A process that is running goes on, worker or no worker.
Fairness == WF_vars(RunStep)

Spec == Init /\ [][Next]_vars /\ Fairness

-----------------------------------------------------------------------------
(* Properties *)

\* A slot and the model meet once, over every crash, cancel and resume: an attempt
\* whose result is unknown is never made again (README.md:254); what the model has
\* seen is registered as exposed, but for one row at most for each crash or full disk;
\* and the answer received while a slot waits is its own, never the late one of an
\* earlier slot.
OneExchangePerSlot ==
  /\ \A s \in Slots : /\ calls[s] <= 1
                      /\ calls[s] = 1 => InputOf[s] \in exposures \cup spoilt
  /\ Cardinality(spoilt) <= faults
  /\ proc.pc = "waiting" /\ worker.inbox # << >> => Head(worker.inbox).slot = proc.slot

\* A report says COMPLETED only when every slot has a known result, although it reads
\* the journal twice while the run may go on.
CompletedIsComplete ==
  summary # None /\ summary.status = "COMPLETED"
    => \A s \in Slots : Rebuilt(journal)[s] \in BUCKETS \ {"interrupted"}

\* What a report calls not started has not been started ("未开始", explore_report.py:25).
NotStartedIsUnstarted ==
  summary # None /\ summary.status # "reading" => summary.hidden = 0

\* A run that has begun ends, even if its worker never answers.
SegmentEnds == proc.pc # "off" ~> proc.pc = "off"

=============================================================================
