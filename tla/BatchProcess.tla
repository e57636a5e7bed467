------------------------------ MODULE BatchProcess ------------------------------
(***************************************************************************)
(* The process that works on a ledger, as far as the two-stage batch and   *)
(* the three-packet collection agree: one process at a time, held apart by *)
(* an OS lock that dies with it, opens the ledger, recovers what the last  *)
(* one left, and sends the requests of one target after the other, each    *)
(* recorded as prepared, as started and as answered.  Between any two      *)
(* transactions the process may die, and the gate outside it (CANCEL file, *)
(* source admission, approved configuration, expiry) may close.  A denial  *)
(* read just before a transaction is one step with it: closing right after *)
(* the read looks the same.                                                *)
(***************************************************************************)
EXTENDS StageLedger, Sequences

CONSTANT None

ASSUME BatchAssumption == "route" \in StageNames /\ None \notin Targets

VARIABLES open, \* whether everything Gate.check reads outside the ledger allows
          run,  \* the process
          sent  \* <<target, stage>> -> requests that left, over every process

batchVars == <<open, run, sent>>
vars == <<ledgerVars, batchVars>>

Off == [phase |-> "off", target |-> None, stage |-> "route", left |-> << >>,
        failed |-> FALSE, todo |-> {}, status |-> "none", stop |-> FALSE]

Init == /\ LedgerInit
        /\ open = TRUE
        /\ run = Off
        /\ sent = [k \in StageKeys |-> 0]

\* Mutant: what is spent is looked at when a target is claimed, not at each request.
AllowedWhateverSpent == open

\* Gate.check once the ledger is open.
Allowed == open /\ Committed <= Limit

Go(phase) == run' = [run EXCEPT !.phase = phase]
Ending(status, stop) ==
  run' = [run EXCEPT !.phase = "finish", !.status = status, !.stop = stop]
Exit == run' = Off /\ totals' = NoTotals

-----------------------------------------------------------------------------
(* The batch *)

\* The locks are taken and the ledger opened.
Begin ==
  /\ run.phase = "off" /\ open
  /\ RefreshBudget
  /\ Go("recover")
  /\ UNCHANGED <<targets, stages, open, sent>>

RecoverNext ==
  /\ run.phase = "recover"
  /\ \E t \in Targets : Recover(t)
  /\ UNCHANGED batchVars

Recovered == run.phase = "recover" /\ \A t \in Targets : targets[t] # "running"

\* The pending targets are read once.
ReadPending == run' = [run EXCEPT !.phase = "next", !.todo = Pending]

\* The target and the reservations of its requests.
ClaimTarget(t, names) ==
  /\ run.phase = "next" /\ t \in run.todo /\ Allowed
  /\ Claim(t, names)
  /\ run' = [Off EXCEPT !.phase = "admit", !.target = t, !.todo = run.todo \ {t}]
  /\ UNCHANGED <<open, sent>>

FinishTarget ==
  /\ run.phase = "finish"
  /\ Finish(run.target, run.status)
  /\ run' = [Off EXCEPT !.phase = IF run.stop THEN "stopped" ELSE "next", !.todo = run.todo]
  /\ UNCHANGED <<open, sent>>

Stopped ==
  /\ run.phase = "stopped"
  /\ Exit
  /\ UNCHANGED <<targets, stages, open, sent>>

-----------------------------------------------------------------------------
(* One request *)

\* The request is on record as built.
Prepare ==
  /\ run.phase = "admit" /\ Allowed
  /\ Stage(run.target, run.stage, "not_sent", 0)
  /\ Go("prepared")
  /\ UNCHANGED <<open, sent>>

\* Mutant: the start is written when the answer is there.
MarkStartedLater ==
  /\ run.phase = "prepared" /\ Allowed
  /\ Go("started")
  /\ UNCHANGED <<ledgerVars, open, sent>>

\* The start is durable before the request leaves.
MarkStarted ==
  /\ run.phase = "prepared" /\ Allowed
  /\ Stage(run.target, run.stage, "started", 0)
  /\ Go("started")
  /\ UNCHANGED <<open, sent>>

\* The gate is asked once more, and the request leaves.
Send ==
  /\ run.phase = "started" /\ Allowed
  /\ sent' = [sent EXCEPT ![<<run.target, run.stage>>] = @ + 1]
  /\ Go("waiting")
  /\ UNCHANGED <<ledgerVars, open>>

Complete ==
  /\ run.phase = "waiting"
  /\ \E cost \in Costs : Stage(run.target, run.stage, "completed", cost)
  /\ Go("answered")
  /\ UNCHANGED <<open, sent>>

\* A timeout, an HTTP error or an answer that breaks the contract.
FailStage == run.phase = "waiting" /\ Stage(run.target, run.stage, "failed_or_unknown", 0)

\* The route is known, and with it the requests for reasons that follow.
Planned(requests) ==
  /\ run.phase = "answered" /\ run.stage = "route" /\ Allowed
  /\ run' = [run EXCEPT !.phase = "planned", !.left = requests]
  /\ UNCHANGED <<ledgerVars, open, sent>>

ReasonsAnswered ==
  /\ run.phase = "answered" /\ run.stage # "route" /\ Allowed
  /\ Go("planned")
  /\ UNCHANGED <<ledgerVars, open, sent>>

NextRequest ==
  /\ run.phase = "planned" /\ run.left # << >>
  /\ run' = [run EXCEPT !.phase = "admit", !.stage = Head(run.left), !.left = Tail(@)]
  /\ UNCHANGED <<ledgerVars, open, sent>>

-----------------------------------------------------------------------------
(* The environment *)

\* The process is killed, the machine stops or the database fails.
Crash ==
  /\ run.phase # "off"
  /\ Exit
  /\ UNCHANGED <<targets, stages, open, sent>>

GateMoves == /\ open' = ~open
             /\ UNCHANGED <<ledgerVars, run, sent>>

-----------------------------------------------------------------------------
(* Properties *)

Processes ==
  [phase : {"off", "recover", "next", "admit", "prepared", "started", "waiting",
            "answered", "planned", "finish", "stopped"},
   target : Targets \cup {None}, stage : StageNames, left : Seq(StageNames),
   failed : BOOLEAN, todo : SUBSET Targets,
   status : {"none"} \cup Statuses, stop : BOOLEAN]

\* No request is sent twice, whatever process died where, and none leaves that the
\* ledger does not have on record (README.md:110, two_stage_batch.py:687-694).
SentOnceOnRecord ==
  \A k \in StageKeys : /\ sent[k] <= 1
                       /\ sent[k] = 1 => stages[k].status \in SentStatuses

\* What is spent and held can pass the limit by what one request cost more than was
\* held for it, and never by more: no other leaves afterwards (two_stage_batch.py:310).
OvershootIsOneRequest ==
  \E cost \in Costs \cup {Reserve} :
    HeldBy(StageKeys) + EstimateOf(StageKeys) <= Limit + cost - Reserve

\* An outcome is final: a target that failed, succeeded or waits to be reconciled is
\* never run again, in this process or a later one.
OutcomesStand ==
  [][\A t \in Targets :
       targets[t] \notin {"pending", "running"} => targets'[t] = targets[t]]_vars

=============================================================================
