----------------------------- MODULE TwoStageBatch -----------------------------
(***************************************************************************)
(* run and execute of src/whynote/two_stage_batch.py with classify of      *)
(* src/whynote/two_stage.py: each target needs its route, and the reasons  *)
(* if the route calls for them; any failed request ends its target.        *)
(***************************************************************************)
EXTENDS BatchProcess

Both == {"route", "reasons"}

ASSUME BothAssumption == StageNames = Both

\* Nothing is claimed unless a whole target can be afforded.
Proceed ==
  /\ Recovered /\ Pending # {}
  /\ Allowed /\ CanReserve(2)
  /\ ReadPending
  /\ UNCHANGED <<ledgerVars, open, sent>>

ClaimNext == \E t \in run.todo : ClaimTarget(t, Both)

\* Nothing is left to do, or the gate or the budget stops the batch.
End ==
  /\ \/ Recovered /\ (Pending = {} \/ ~(Allowed /\ CanReserve(2)))
     \/ run.phase = "next" /\ (run.todo = {} \/ ~(Allowed /\ CanReserve(2)))
  /\ Exit
  /\ UNCHANGED <<targets, stages, open, sent>>

\* The input cannot be built: invalid, or no longer the one of the frozen plan.
InputFails ==
  /\ run.phase = "admit" /\ run.stage = "route"
  /\ Ending("error", FALSE) \/ Ending("pending", TRUE)
  /\ UNCHANGED <<ledgerVars, open, sent>>

\* The size of a request is looked at once it is on record.
TooLarge ==
  /\ run.phase = "prepared"
  /\ Ending("error", FALSE)
  /\ UNCHANGED <<ledgerVars, open, sent>>

RequestFails ==
  /\ FailStage
  /\ Ending("error", FALSE)
  /\ UNCHANGED <<open, sent>>

PlanReasons == \E requests \in {<< >>, <<"reasons">>} : Planned(requests)

\* Every request it needed was answered, and the gate is open to the end.
Succeed ==
  /\ run.phase = "planned" /\ run.left = << >> /\ Allowed
  /\ Ending("success", FALSE)
  /\ UNCHANGED <<ledgerVars, open, sent>>

Checked == \/ run.phase \in {"admit", "prepared", "started", "answered"}
           \/ run.phase = "planned" /\ run.left = << >>

\* Mutant: a target the gate stopped is pending again unless it was answered.
DeniedUnanswered ==
  /\ Checked /\ ~Allowed
  /\ Ending(IF \E s \in StageNames : stages[<<run.target, s>>].status = "completed"
              THEN "error" ELSE "pending", TRUE)
  /\ UNCHANGED <<ledgerVars, open, sent>>

\* The gate is closed at one of the checks: the batch stops, and the target is
\* pending again only when nothing of it is on record as started.
Denied ==
  /\ Checked /\ ~Allowed
  /\ Ending(IF WasSent(run.target) THEN "error" ELSE "pending", TRUE)
  /\ UNCHANGED <<ledgerVars, open, sent>>

Work == \/ Begin \/ RecoverNext \/ Proceed \/ ClaimNext \/ End \/ FinishTarget \/ Stopped
        \/ Prepare \/ MarkStarted \/ Send \/ Complete \/ RequestFails \/ PlanReasons
        \/ ReasonsAnswered \/ NextRequest \/ Succeed \/ Denied

Next == Work \/ InputFails \/ TooLarge \/ Crash \/ GateMoves

\* Somebody starts the batch again and approves it again, and no step of a target is
\* the one every process dies at or every gate closes before.
Fairness ==
  /\ WF_vars(~open /\ GateMoves)
  /\ SF_vars(Begin) /\ SF_vars(RecoverNext) /\ SF_vars(Proceed)
  /\ SF_vars(ClaimNext) /\ SF_vars(Prepare) /\ SF_vars(MarkStarted)
  /\ WF_vars(Work)

Spec == Init /\ [][Next]_vars /\ Fairness

-----------------------------------------------------------------------------
(* Properties *)

\* What an outcome says of the requests behind it: a pending target sent nothing, a
\* successful one has every answer it asked for, and what is to be reconciled has a
\* request whose fate or whose target's fate is unknown (README.md:110).
OutcomeTellsRequests ==
  \A t \in Targets :
    /\ targets[t] = "pending" => ~WasSent(t)
    /\ targets[t] = "reconcile" => WasSent(t)
    /\ targets[t] = "success" =>
         /\ stages[<<t, "route">>].status = "completed"
         /\ stages[<<t, "reasons">>].status \in {"completed", "not_sent"}

\* A batch started again and again comes to an end: every target has an outcome, or
\* those without one wait for a budget that cannot reserve them (README.md:110-116).
BatchSettles ==
  <>[](\A t \in Targets :
         \/ targets[t] \notin {"pending", "running"}
         \/ /\ targets[t] = "pending"
            /\ HeldBy(StageKeys) + EstimateOf(StageKeys) + 2 * Reserve > Limit)

=============================================================================
