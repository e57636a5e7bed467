------------------------------ MODULE PacketBatch ------------------------------
(***************************************************************************)
(* run and execute of src/whynote/two_stage_v3_batch.py with classify of   *)
(* src/whynote/two_stage_v3.py: each target needs its route and up to two  *)
(* packets of reasons, as many as its plan reserved; a failed packet does  *)
(* not keep the other one back.                                            *)
(***************************************************************************)
EXTENDS BatchProcess

CONSTANT Requests   \* target -> maximum_requests of the size plan

ASSUME RequestsAssumption == Requests \in [Targets -> 1..3]

STAGES == <<"route", "reasons.1", "reasons.2">>

ASSUME StagesAssumption == StageNames = {STAGES[i] : i \in 1..3}

Reserved(t) == {STAGES[i] : i \in 1..Requests[t]}

Proceed ==
  /\ Recovered
  /\ ReadPending
  /\ UNCHANGED <<ledgerVars, open, sent>>

ClaimNext == \E t \in run.todo : ClaimTarget(t, Reserved(t))

\* Nothing is left to do, or the gate or the budget stops the collection.
End ==
  /\ run.phase = "next"
  /\ run.todo = {} \/ ~Allowed \/ \E t \in run.todo : ~CanReserve(Requests[t])
  /\ Exit
  /\ UNCHANGED <<targets, stages, open, sent>>

\* The input is invalid or too large for its route, or no longer the planned one.
InputFails ==
  /\ run.phase = "admit" /\ run.stage = "route"
  /\ Ending("error", FALSE) \/ Ending("reconcile", TRUE)
  /\ UNCHANGED <<ledgerVars, open, sent>>

\* A failed route ends the target, a failed packet is remembered.
RequestFails ==
  /\ FailStage
  /\ \/ /\ run.stage = "route"
        /\ Ending("error", FALSE)
     \/ /\ run.stage # "route"
        /\ run' = [run EXCEPT !.phase = "planned", !.failed = TRUE]
  /\ UNCHANGED <<open, sent>>

\* plan_reasons: no packet (none eligible, or more than fit), or some of those reserved.
PlanReasons ==
  /\ run.phase = "answered"
  /\ \E n \in 1..Requests[run.target] : Planned(SubSeq(STAGES, 2, n))

\* Mutant: the collection forgets that a packet failed.
SettleForgetful ==
  /\ run.phase = "planned" /\ run.left = << >>
  /\ Ending("success", FALSE) \/ Ending("input_budget_limited", FALSE)
  /\ UNCHANGED <<ledgerVars, open, sent>>

\* Nothing is left to ask: the gate is not asked again.
Settle ==
  /\ run.phase = "planned" /\ run.left = << >>
  /\ IF run.failed THEN Ending("partial_error", FALSE)
     ELSE Ending("success", FALSE) \/ (run.stage = "route" /\ Ending("input_budget_limited", FALSE))
  /\ UNCHANGED <<ledgerVars, open, sent>>

\* The gate is closed.  At the start of a target it is denied before its input is
\* read (to be reconciled) or before its route is built (an error); later what was
\* answered is kept as a partial result, except between record and request.
Denied ==
  /\ ~Allowed
  /\ \/ /\ run.phase = "admit" /\ run.stage = "route"
        /\ Ending("reconcile", TRUE) \/ Ending("error", TRUE)
     \/ /\ run.phase = "admit" /\ run.stage # "route"
        /\ Ending("partial_error", TRUE)
     \/ /\ run.phase \in {"prepared", "started"}
        /\ Ending("reconcile", TRUE)
     \/ /\ run.phase = "answered"
        /\ Ending("partial_error", TRUE)
  /\ UNCHANGED <<ledgerVars, open, sent>>

Next == \/ Begin \/ RecoverNext \/ Proceed \/ ClaimNext \/ End \/ FinishTarget \/ Stopped
        \/ InputFails \/ Prepare \/ MarkStarted \/ Send \/ Complete \/ RequestFails
        \/ PlanReasons \/ ReasonsAnswered \/ NextRequest \/ Settle \/ Denied
        \/ Crash \/ GateMoves

Spec == Init /\ [][Next]_vars

-----------------------------------------------------------------------------
(* Properties *)

\* What an outcome says of the requests behind it: only an unsent target is pending,
\* success means that every request was answered, a partial error that the route was
\* and its answers are kept, an error that there is nothing to keep.
OutcomeTellsRequests ==
  \A t \in Targets :
    LET status(s) == stages[<<t, s>>].status IN
    /\ targets[t] = "pending" => ~WasSent(t)
    /\ targets[t] \in {"success", "input_budget_limited", "partial_error"} =>
         status("route") = "completed"
    /\ targets[t] = "success" =>
         \A s \in StageNames : status(s) \notin {"started", "failed_or_unknown"}
    /\ targets[t] = "error" => \A s \in StageNames : status(s) # "completed"

=============================================================================
