------------------------------ MODULE PacketProofs ------------------------------
(***************************************************************************)
(* The three-packet collection, for any number of targets, any size plan   *)
(* and any cost: nothing is sent twice or off the record although a failed *)
(* packet does not end its target, outcomes say what was answered, and one *)
(* request at most passes the limit.  The second part is about the source  *)
(* rows that the analysis takes the feedback of a target from.  The third  *)
(* is about the plan of the packets, for any catalogue and budget, and the *)
(* fourth about the thresholds that are searched on what was collected.    *)
(***************************************************************************)
EXTENDS PacketBatch, SourceGroups, ThresholdSearch, BatchProofs, SequenceTheorems

\* The phases in which requests of the target in hand may still change.
Asking == Holding \ {"finish"}

Unclear == {"started", "failed_or_unknown"}

\* What is known of the target in hand, phase by phase.
TargetInHand ==
  LET status(s) == Row(run.target, s).status IN
  /\ run.phase \in Asking /\ run.stage = "route" =>
       /\ \A s \in StageNames : s # "route" => status(s) \notin SentStatuses
       /\ \A i \in 2..Requests[run.target] : status(STAGES[i]) = "reserved"
  /\ run.phase \in Asking /\ run.stage # "route" => status("route") = "completed"
  /\ run.phase \in Asking /\ run.failed = FALSE =>
       \A s \in StageNames : s # run.stage => status(s) \notin Unclear
  /\ run.phase = "planned" =>
       /\ status("route") = "completed"
       /\ run.failed = FALSE => status(run.stage) = "completed"

\* What the outcome about to be written says.
OutcomeInHand ==
  LET status(s) == Row(run.target, s).status IN
  run.phase = "finish" =>
    /\ run.status \in {"success", "input_budget_limited", "partial_error", "error", "reconcile"}
    /\ run.status \in {"success", "input_budget_limited", "partial_error"} =>
         status("route") = "completed"
    /\ run.status = "success" => \A s \in StageNames : status(s) \notin Unclear
    /\ run.status = "error" => \A s \in StageNames : status(s) # "completed"

PacketInv == /\ BatchInv
             /\ TargetInHand
             /\ OutcomeInHand
             /\ OutcomeTellsRequests

-----------------------------------------------------------------------------

\* The names of the requests.
LEMMA Names ==
  /\ STAGES[1] = "route" /\ STAGES[2] = "reasons.1" /\ STAGES[3] = "reasons.2"
  /\ StageNames = {"route", "reasons.1", "reasons.2"}
  BY StagesAssumption DEF STAGES

\* What plan_reasons leaves to be asked are packets the size plan reserved, in order.
LEMMA PacketsAreReserved ==
  ASSUME PacketInv, run.phase = "answered", run.stage = "route",
         NEW n \in 1..Requests[run.target]
  PROVE  LET requests == SubSeq(STAGES, 2, n) IN
         /\ requests \in Seq(StageNames)
         /\ \A i \in 1..Len(requests) :
              /\ Row(run.target, requests[i]).status = "reserved"
              /\ requests[i] # run.stage
              /\ \A j \in 1..Len(requests) : requests[i] = requests[j] => i = j
<1> DEFINE requests == SubSeq(STAGES, 2, n)
<1>1. run.target \in Targets
  BY DEF PacketInv, BatchInv, HoldsRunning, Holding
<1>2. Requests[run.target] \in 1..3
  BY <1>1, RequestsAssumption
<1>3. n \in 1..3 /\ STAGES \in Seq(StageNames) /\ Len(STAGES) = 3
  BY <1>2, Names DEF STAGES
<1>4. requests \in Seq(StageNames) /\ Len(requests) = n - 1
      /\ \A i \in 1..n - 1 : requests[i] = STAGES[i + 1]
  BY <1>3, SubSeqProperties
<1>5. \A i \in 1..n - 1 :
        /\ i + 1 \in 2..Requests[run.target]
        /\ i + 1 \in {2, 3}
  BY <1>2, <1>3
<1>6. \A i \in 2..Requests[run.target] : Row(run.target, STAGES[i]).status = "reserved"
  BY DEF PacketInv, TargetInHand, Asking, Holding
<1>7. \A i \in 1..n - 1 : Row(run.target, requests[i]).status = "reserved"
  BY <1>4, <1>5, <1>6
<1>8. \A i \in 1..n - 1 :
        /\ requests[i] # "route"
        /\ \A j \in 1..n - 1 : requests[i] = requests[j] => i = j
  BY <1>4, <1>5, Names
<1> QED
  BY <1>4, <1>7, <1>8

\* The shared part of the invariant is kept by every step, and outcomes stand.
LEMMA StepKeepsBatch ==
  ASSUME PacketInv, [Next]_vars
  PROVE  BatchInv' /\ Stands
<1> USE DEF PacketInv
<1>1. CASE Begin
  BY <1>1, BeginKeeps
<1>2. CASE RecoverNext
  BY <1>2, RecoverKeeps
<1>3. CASE Proceed
  BY <1>3, ReadPendingKeeps DEF Proceed, ledgerVars
<1>4. CASE ClaimNext
  <2>1. PICK t \in run.todo : ClaimTarget(t, Reserved(t))
    BY <1>4 DEF ClaimNext
  <2>2. t \in Targets
    BY DEF BatchInv, Shape, Processes
  <2>3. Reserved(t) \subseteq StageNames /\ "route" \in Reserved(t)
    BY <2>2, Names, RequestsAssumption, StagesAssumption DEF Reserved
  <2> QED
    BY <2>1, <2>2, <2>3, ClaimKeeps
<1>5. CASE End
  BY <1>5, ExitKeeps DEF End
<1>6. CASE FinishTarget
  BY <1>6, FinishKeeps
<1>7. CASE Stopped
  BY <1>7, ExitKeeps DEF Stopped
<1>8. CASE Prepare
  BY <1>8, PrepareKeeps
<1>9. CASE MarkStarted
  BY <1>9, StartKeeps
<1>10. CASE Send
  BY <1>10, SendKeeps
<1>11. CASE Complete
  BY <1>11, CompleteKeeps
<1>12. CASE RequestFails
  <2>1. /\ run' \in Processes
        /\ run'.target = run.target /\ run'.stage = run.stage /\ run'.left = run.left
        /\ \/ run'.phase = "planned"
           \/ run'.phase = "finish" /\ run'.status = "error"
    BY <1>12 DEF RequestFails, Ending, BatchInv, Shape, Processes, Statuses
  <2> QED
    BY <1>12, <2>1, FailKeeps DEF RequestFails, Statuses
<1>13. CASE PlanReasons
  <2>1. PICK n \in 1..Requests[run.target] : Planned(SubSeq(STAGES, 2, n))
    BY <1>13 DEF PlanReasons
  <2>2. run.phase = "answered" /\ run.stage = "route"
    BY <2>1 DEF Planned
  <2> QED
    BY <2>1, <2>2, PacketsAreReserved, PlannedKeeps
<1>14. CASE ReasonsAnswered
  BY <1>14, ReasonsKeep
<1>15. CASE NextRequest
  BY <1>15, NextRequestKeeps
<1>16. CASE Settle \/ Denied \/ InputFails
  <2>1. /\ run.phase \in Holding /\ UNCHANGED <<targets, stages, sent>>
        /\ \E status \in Statuses \ {"pending"}, stop \in BOOLEAN : Ending(status, stop)
    BY <1>16 DEF Settle, Denied, InputFails, ledgerVars, Holding, Statuses
  <2> QED
    BY <2>1, EndingKeeps
<1>17. CASE Crash
  BY <1>17, ExitKeeps DEF Crash
<1>18. CASE GateMoves
  BY <1>18, GateKeeps DEF GateMoves, ledgerVars
<1>19. CASE UNCHANGED vars
  BY <1>19, GateKeeps DEF vars, ledgerVars, batchVars
<1> QED
  BY <1>1, <1>2, <1>3, <1>4, <1>5, <1>6, <1>7, <1>8, <1>9, <1>10, <1>11, <1>12, <1>13,
     <1>14, <1>15, <1>16, <1>17, <1>18, <1>19 DEF Next

\* A request that failed ends its target, or is remembered.
LEMMA FailEffect ==
  ASSUME PacketInv, RequestFails
  PROVE  /\ run.phase = "waiting" /\ run'.target = run.target /\ run'.stage = run.stage
         /\ targets' = targets
         /\ stages'[<<run.target, run.stage>>].status = "failed_or_unknown"
         /\ \A s \in StageNames :
              s # run.stage => stages'[<<run.target, s>>] = stages[<<run.target, s>>]
         /\ \/ run.stage = "route" /\ run'.phase = "finish" /\ run'.status = "error"
            \/ run.stage # "route" /\ run'.phase = "planned" /\ run'.failed = TRUE
<1> USE DEF PacketInv
<1>1. run.phase = "waiting" /\ Stage(run.target, run.stage, "failed_or_unknown", 0)
  BY DEF RequestFails, FailStage
<1>2. run.target \in Targets /\ run.stage \in StageNames /\ TablesOK
  BY <1>1 DEF BatchInv, HoldsRunning, Holding, Shape, Processes
<1>3. /\ targets' = targets
      /\ stages'[<<run.target, run.stage>>].status = "failed_or_unknown"
      /\ \A k \in StageKeys \ {<<run.target, run.stage>>} : stages'[k] = stages[k]
  BY <1>1, <1>2, StageEffect DEF SentStatuses
<1>4. \A s \in StageNames :
        s # run.stage => stages'[<<run.target, s>>] = stages[<<run.target, s>>]
  BY <1>2, <1>3 DEF StageKeys
<1>5. /\ run'.target = run.target /\ run'.stage = run.stage
      /\ \/ run.stage = "route" /\ run'.phase = "finish" /\ run'.status = "error"
         \/ run.stage # "route" /\ run'.phase = "planned" /\ run'.failed = TRUE
  BY DEF RequestFails, Ending, BatchInv, Shape, Processes
<1> QED
  BY <1>1, <1>3, <1>4, <1>5

\* What is known of the target in hand is kept by every step.
LEMMA StepKeepsTarget ==
  ASSUME PacketInv, BatchInv', [Next]_vars
  PROVE  TargetInHand'
<1> USE DEF PacketInv
<1>1. CASE run'.phase \notin Asking
  BY <1>1 DEF TargetInHand, Asking, Holding
<1>2. CASE ClaimNext
  <2>1. PICK t \in run.todo : ClaimTarget(t, Reserved(t))
    BY <1>2 DEF ClaimNext
  <2>2. t \in Targets
    BY DEF BatchInv, Shape, Processes
  <2>3. run'.phase = "admit" /\ run'.target = t /\ run'.stage = "route"
    BY <2>1 DEF ClaimTarget, Off
  <2>4. \A s \in StageNames : stages'[<<t, s>>].status \notin SentStatuses
    BY <2>3 DEF BatchInv, RequestOnRecord, WasSent
  <2>5. Reserved(t) \subseteq StageNames /\ \A i \in 1..Requests[t] : STAGES[i] \in Reserved(t)
    BY <2>2, Names, RequestsAssumption, StagesAssumption DEF Reserved
  <2>6. \A s \in Reserved(t) : stages'[<<t, s>>].status = "reserved"
    BY <2>1, <2>2, <2>5, ClaimEffect DEF ClaimTarget, BatchInv, Shape
  <2>7. \A i \in 2..Requests[t] : stages'[<<t, STAGES[i]>>].status = "reserved"
    BY <2>2, <2>5, <2>6, RequestsAssumption
  <2> QED
    BY <2>3, <2>4, <2>7 DEF TargetInHand, Row, Unclear, SentStatuses
<1>3. CASE Prepare \/ MarkStarted \/ Send \/ Complete
  <2>1. /\ run.phase \in Asking /\ run'.phase # "planned"
        /\ run'.target = run.target /\ run'.stage = run.stage
        /\ \A s \in StageNames :
             s # run.stage => stages'[<<run.target, s>>] = stages[<<run.target, s>>]
    BY <1>3, RequestStep DEF Asking
  <2>2. run'.failed = run.failed
    BY <1>3 DEF Prepare, MarkStarted, Send, Complete, Go, BatchInv, Shape, Processes
  <2>3. run.target \in Targets
    BY <2>1 DEF BatchInv, HoldsRunning, Asking
  <2>4. \A i \in 2..Requests[run.target] : STAGES[i] \in StageNames /\ STAGES[i] # "route"
    BY <2>3, Names, RequestsAssumption
  <2>5. "route" \in StageNames
    BY Names
  <2> QED
    BY <2>1, <2>2, <2>4, <2>5 DEF TargetInHand, Row
<1>4. CASE RequestFails
  <2>1. "route" \in StageNames
    BY Names
  <2> QED
    BY <1>1, <1>4, <2>1, FailEffect DEF TargetInHand, Row, Asking, Holding
<1>5. CASE Settle \/ Denied \/ InputFails
  <2>1. run'.phase = "finish"
    BY <1>5 DEF Settle, Denied, InputFails, Ending, BatchInv, Shape, Processes
  <2> QED
    BY <1>1, <2>1 DEF Asking
<1>6. CASE PlanReasons \/ ReasonsAnswered
  <2>1. /\ run.phase = "answered" /\ run'.phase = "planned" /\ run'.target = run.target
        /\ run'.stage = run.stage /\ run'.failed = run.failed /\ stages' = stages
    BY <1>6 DEF PlanReasons, Planned, ReasonsAnswered, Go, ledgerVars, BatchInv, Shape, Processes
  <2>2. Row(run.target, run.stage).status = "completed"
    BY <2>1 DEF BatchInv, RequestOnRecord
  <2> QED
    BY <2>1, <2>2 DEF TargetInHand, Row, Asking, Holding
<1>7. CASE NextRequest
  <2>1. /\ run.phase = "planned" /\ run'.phase = "admit" /\ run'.target = run.target
        /\ run'.stage = Head(run.left) /\ run'.failed = run.failed /\ stages' = stages
    BY <1>7 DEF NextRequest, ledgerVars, BatchInv, Shape, Processes
  <2>2. Head(run.left) # "route"
    <3>1. run.left \in Seq(StageNames) /\ run.left # << >>
      BY <1>7 DEF NextRequest, BatchInv, Shape, Processes
    <3>2. Head(run.left) = run.left[1] /\ 1 \in 1..Len(run.left)
      BY <3>1, EmptySeq
    <3> QED
      BY <2>1, <3>2 DEF BatchInv, LeftReserved, Holding
  <2>3. run.failed = FALSE => \A s \in StageNames : stages[<<run.target, s>>].status \notin Unclear
    BY <2>1 DEF TargetInHand, Row, Asking, Holding, Unclear
  <2> QED
    BY <2>1, <2>2, <2>3 DEF TargetInHand, Row
<1>8. CASE GateMoves \/ UNCHANGED vars
  <2>1. run' = run /\ stages' = stages
    BY <1>8 DEF GateMoves, vars, ledgerVars, batchVars
  <2> QED
    BY <2>1 DEF TargetInHand, Row
<1>9. CASE Begin \/ RecoverNext \/ Proceed \/ End \/ FinishTarget \/ Stopped \/ Crash
  <2>1. CASE Begin \/ Proceed
    BY <1>1, <2>1 DEF Begin, Go, Proceed, ReadPending, Asking, Holding, BatchInv, Shape, Processes
  <2>2. CASE RecoverNext
    BY <1>1, <2>2 DEF RecoverNext, batchVars, Asking, Holding
  <2>3. CASE End \/ Stopped \/ Crash
    BY <1>1, <2>3 DEF End, Stopped, Crash, Exit, Off, Asking, Holding
  <2>4. CASE FinishTarget
    BY <1>1, <2>4, OffIsProcess DEF FinishTarget, Off, Asking, Holding
  <2> QED
    BY <1>9, <2>1, <2>2, <2>3, <2>4
<1> QED
  BY <1>2, <1>3, <1>4, <1>5, <1>6, <1>7, <1>8, <1>9 DEF Next

\* The outcome about to be written is true of the requests.
LEMMA StepKeepsOutcome ==
  ASSUME PacketInv, BatchInv', [Next]_vars
  PROVE  OutcomeInHand'
<1> USE DEF PacketInv
<1>1. CASE run'.phase # "finish"
  BY <1>1 DEF OutcomeInHand
<1>2. CASE RequestFails
  <2>1. CASE run.stage = "route"
    <3>1. \A s \in StageNames : stages'[<<run.target, s>>].status # "completed"
      BY <1>2, <2>1, FailEffect DEF TargetInHand, Row, Asking, Holding, SentStatuses
    <3> QED
      BY <1>2, <2>1, <3>1, FailEffect DEF OutcomeInHand, Row
  <2>2. CASE run.stage # "route"
    BY <1>1, <1>2, <2>2, FailEffect
  <2> QED
    BY <2>1, <2>2
<1>3. CASE Settle
  <2>1. /\ run.phase = "planned" /\ run'.phase = "finish" /\ run'.target = run.target
        /\ stages' = stages
        /\ \/ run'.status = "partial_error"
           \/ run.failed = FALSE /\ run'.status \in {"success", "input_budget_limited"}
    BY <1>3 DEF Settle, Ending, ledgerVars, BatchInv, Shape, Processes
  <2>2. run.failed = FALSE => \A s \in StageNames : stages[<<run.target, s>>].status \notin Unclear
    BY <2>1 DEF TargetInHand, Row, Asking, Holding, Unclear
  <2> QED
    BY <2>1, <2>2 DEF TargetInHand, OutcomeInHand, Row
<1>4. CASE (InputFails \/ Denied) /\ run.phase = "admit" /\ run.stage = "route"
  <2>1. /\ run'.phase = "finish" /\ run'.target = run.target /\ stages' = stages
        /\ run'.status \in {"error", "reconcile"}
    BY <1>4 DEF InputFails, Denied, Ending, ledgerVars, BatchInv, Shape, Processes
  <2>2. \A s \in StageNames : stages[<<run.target, s>>].status # "completed"
    BY <1>4 DEF TargetInHand, BatchInv, RequestOnRecord, Row, Asking, Holding, SentStatuses
  <2> QED
    BY <2>1, <2>2 DEF OutcomeInHand, Row
<1>5. CASE Denied /\ ~(run.phase = "admit" /\ run.stage = "route")
  <2>1. /\ run'.phase = "finish" /\ run'.target = run.target /\ stages' = stages
        /\ \/ run'.status = "reconcile"
           \/ /\ run'.status = "partial_error"
              /\ run.phase = "answered" \/ (run.phase = "admit" /\ run.stage # "route")
    BY <1>5 DEF Denied, Ending, ledgerVars, BatchInv, Shape, Processes
  <2>2. run'.status = "partial_error" => stages[<<run.target, "route">>].status = "completed"
    BY <2>1 DEF TargetInHand, BatchInv, RequestOnRecord, Row, Asking, Holding
  <2> QED
    BY <2>1, <2>2 DEF OutcomeInHand, Row
<1>6. CASE GateMoves \/ UNCHANGED vars
  <2>1. run' = run /\ stages' = stages
    BY <1>6 DEF GateMoves, vars, ledgerVars, batchVars
  <2> QED
    BY <2>1 DEF OutcomeInHand, Row
<1>7. CASE \/ Begin \/ RecoverNext \/ Proceed \/ ClaimNext \/ End \/ FinishTarget \/ Stopped
           \/ PlanReasons \/ ReasonsAnswered \/ NextRequest \/ Crash
  <2>1. CASE Begin \/ Proceed \/ PlanReasons \/ ReasonsAnswered \/ NextRequest
    BY <1>1, <2>1 DEF Begin, Go, Proceed, ReadPending, PlanReasons, Planned, ReasonsAnswered,
       NextRequest, BatchInv, Shape, Processes
  <2>2. CASE RecoverNext
    BY <1>1, <2>2 DEF RecoverNext, batchVars
  <2>3. CASE ClaimNext
    BY <1>1, <2>3 DEF ClaimNext, ClaimTarget, Off
  <2>4. CASE FinishTarget
    BY <1>1, <2>4 DEF FinishTarget, Off
  <2>5. CASE End \/ Stopped \/ Crash
    BY <1>1, <2>5 DEF End, Stopped, Crash, Exit, Off
  <2> QED
    BY <1>7, <2>1, <2>2, <2>3, <2>4, <2>5
<1>8. CASE Prepare \/ MarkStarted \/ Send \/ Complete
  BY <1>1, <1>8, RequestStep
<1> QED
  BY <1>2, <1>3, <1>4, <1>5, <1>6, <1>7, <1>8 DEF Next, InputFails

\* Only a recovery or the end of a target gives it an outcome.
LEMMA OnlyFinishSettles ==
  ASSUME PacketInv, [Next]_vars, ~RecoverNext, ~FinishTarget,
         NEW t \in Targets, targets[t] \in {"pending", "running"}
  PROVE  targets'[t] \in {"pending", "running"}
<1>1. CASE ClaimNext
  <2>1. PICK u \in run.todo : Claim(u, Reserved(u))
    BY <1>1 DEF ClaimNext, ClaimTarget
  <2>2. targets' = [targets EXCEPT ![u] = "running"]
    BY <2>1 DEF Claim
  <2> QED
    BY <2>2 DEF PacketInv, BatchInv, Shape, TablesOK
<1>2. CASE Prepare \/ MarkStarted \/ Send \/ Complete
  BY <1>2, RequestStep DEF PacketInv
<1>3. CASE RequestFails
  BY <1>3, FailEffect
<1>4. CASE \/ Begin \/ Proceed \/ End \/ Stopped \/ PlanReasons \/ ReasonsAnswered
           \/ NextRequest \/ Settle \/ Denied \/ InputFails \/ Crash
           \/ GateMoves \/ UNCHANGED vars
  <2>1. targets' = targets
    BY <1>4 DEF Begin, Proceed, End, Stopped, PlanReasons, Planned, ReasonsAnswered, NextRequest,
       Settle, Denied, InputFails, Crash, GateMoves, vars, ledgerVars
  <2> QED
    BY <2>1
<1> QED
  BY <1>1, <1>2, <1>3, <1>4 DEF Next

\* What the outcome of one target says of its requests.
Tells(t) ==
  LET status(s) == stages[<<t, s>>].status IN
  /\ targets[t] = "pending" => ~WasSent(t)
  /\ targets[t] \in {"success", "input_budget_limited", "partial_error"} =>
       status("route") = "completed"
  /\ targets[t] = "success" => \A s \in StageNames : status(s) \notin Unclear
  /\ targets[t] = "error" => \A s \in StageNames : status(s) # "completed"

\* What outcomes say of the requests behind them is kept by every step.
LEMMA StepKeepsOutcomes ==
  ASSUME PacketInv, BatchInv', Stands, [Next]_vars
  PROVE  OutcomeTellsRequests'
<1> USE DEF PacketInv
<1> SUFFICES ASSUME NEW t \in Targets PROVE Tells(t)'
  BY DEF OutcomeTellsRequests, Tells, Unclear
<1>1. targets'[t] = "pending" => ~WasSent(t)'
  BY DEF BatchInv, PendingUnsent
<1>2. CASE targets[t] \notin {"pending", "running"}
  <2>1. /\ targets'[t] = targets[t]
        /\ \A s \in StageNames : stages'[<<t, s>>].status = stages[<<t, s>>].status
    BY <1>2 DEF Stands
  <2>2. Tells(t) /\ "route" \in StageNames
    BY Names DEF OutcomeTellsRequests, Tells, Unclear
  <2> QED
    BY <1>2, <2>1, <2>2 DEF Tells
<1>3. CASE targets[t] \in {"pending", "running"} /\ RecoverNext
  <2>1. PICK u \in Targets : Recover(u)
    BY <1>3 DEF RecoverNext
  <2>2. targets'[t] \in {"pending", "running", "reconcile"}
    BY <1>3, <2>1 DEF Recover, Finish, BatchInv, Shape, TablesOK
  <2> QED
    BY <1>1, <2>2 DEF Tells
<1>4. CASE targets[t] \in {"pending", "running"} /\ FinishTarget
  <2>1. /\ run.phase = "finish" /\ run.target \in Targets /\ run.status \in Statuses
        /\ Finish(run.target, run.status)
    BY <1>4 DEF FinishTarget, BatchInv, HoldsRunning, Holding
  <2>2. /\ targets' = [targets EXCEPT ![run.target] = run.status]
        /\ \A k \in StageKeys :
             stages'[k].status = IF k[1] = run.target /\ stages[k].status = "reserved"
                                   THEN "not_sent" ELSE stages[k].status
    BY <2>1, FinishEffect DEF BatchInv, Shape
  <2>3. CASE t # run.target
    <3>1. targets'[t] = targets[t]
      BY <2>2, <2>3 DEF BatchInv, Shape, TablesOK
    <3> QED
      BY <1>1, <1>4, <3>1 DEF Tells
  <2>4. CASE t = run.target
    <3>1. targets'[t] = run.status
      BY <2>2, <2>4 DEF BatchInv, Shape, TablesOK
    <3>2. \A s \in StageNames :
            stages'[<<t, s>>].status = IF stages[<<t, s>>].status = "reserved"
                                         THEN "not_sent" ELSE stages[<<t, s>>].status
      BY <2>2, <2>4 DEF StageKeys
    <3>3. "route" \in StageNames
      BY Names
    <3> QED
      BY <1>1, <2>1, <2>4, <3>1, <3>2, <3>3 DEF Tells, OutcomeInHand, Row, Unclear
  <2> QED
    BY <2>3, <2>4
<1>5. CASE targets[t] \in {"pending", "running"} /\ ~RecoverNext /\ ~FinishTarget
  BY <1>1, <1>5, OnlyFinishSettles DEF Tells
<1> QED
  BY <1>2, <1>3, <1>4, <1>5

\* What is held and spent stays within the bound, whatever the step.
LEMMA StepKeepsMoney ==
  ASSUME PacketInv, MoneyInv, [Next]_vars
  PROVE  MoneyInv'
<1> USE DEF PacketInv
<1>1. CASE Begin
  BY <1>1, BeginMoney
<1>2. CASE RecoverNext
  BY <1>2, RecoverMoney
<1>3. CASE ClaimNext
  <2>1. PICK t \in run.todo : ClaimTarget(t, Reserved(t))
    BY <1>3 DEF ClaimNext
  <2>2. t \in Targets
    BY DEF BatchInv, Shape, Processes
  <2>3. Reserved(t) \subseteq StageNames
    BY <2>2, RequestsAssumption, StagesAssumption DEF Reserved
  <2> QED
    BY <2>1, <2>2, <2>3, ClaimMoney
<1>4. CASE End \/ Stopped \/ Crash
  BY <1>4, ExitMoney DEF End, Stopped, Crash
<1>5. CASE FinishTarget
  BY <1>5, FinishTargetMoney
<1>6. CASE Prepare \/ MarkStarted \/ Send \/ Complete
  BY <1>6, RequestMoney
<1>7. CASE RequestFails
  <2>1. /\ run'.phase \in {"finish", "planned"}
        /\ run'.target = run.target /\ run'.stage = run.stage
        /\ FailStage
    BY <1>7 DEF RequestFails, Ending, BatchInv, Shape, Processes
  <2> QED
    BY <2>1, FailMoney
<1>8. CASE \/ Proceed \/ PlanReasons \/ ReasonsAnswered \/ NextRequest \/ Settle
           \/ Denied \/ InputFails
  <2>1. /\ UNCHANGED ledgerVars /\ run.phase # "off"
        /\ run'.phase \notin {"prepared", "waiting"}
    <3>1. CASE Proceed
      BY <3>1 DEF Proceed, Recovered, ReadPending, BatchInv, Shape, Processes
    <3>2. CASE PlanReasons \/ ReasonsAnswered \/ NextRequest
      BY <3>2 DEF PlanReasons, Planned, ReasonsAnswered, NextRequest, Go, BatchInv, Shape, Processes
    <3>3. CASE Settle \/ InputFails
      <4>1. PICK status \in Statuses, stop \in BOOLEAN : Ending(status, stop)
        BY <3>3 DEF Settle, InputFails, Statuses
      <4> QED
        BY <3>3, <4>1 DEF Settle, InputFails, Ending, BatchInv, Shape, Processes
    <3>4. CASE Denied
      <4>1. PICK status \in {"reconcile", "error", "partial_error"} : Ending(status, TRUE)
        BY <3>4 DEF Denied
      <4> QED
        BY <3>4, <4>1 DEF Denied, Ending, BatchInv, Shape, Processes
    <3> QED
      BY <1>8, <3>1, <3>2, <3>3, <3>4
  <2> QED
    BY <2>1, ProcessMoney
<1>9. CASE GateMoves \/ UNCHANGED vars
  BY <1>9, OutsideMoney DEF GateMoves, vars, batchVars
<1> QED
  BY <1>1, <1>2, <1>3, <1>4, <1>5, <1>6, <1>7, <1>8, <1>9 DEF Next

-----------------------------------------------------------------------------

\* The invariant holds of a new ledger.
LEMMA PacketInitial == Init => PacketInv
<1> SUFFICES ASSUME Init PROVE PacketInv
  OBVIOUS
<1>1. TargetInHand /\ OutcomeInHand
  BY DEF TargetInHand, OutcomeInHand, Init, Off, Asking, Holding
<1>2. OutcomeTellsRequests
  BY DEF OutcomeTellsRequests, Init, LedgerInit, StageKeys, NoRow, WasSent, SentStatuses
<1> QED
  BY <1>1, <1>2, BatchInitial DEF PacketInv

\* The invariant is inductive (two_stage_v3_batch.py:275-327).
THEOREM PacketInvariance == Spec => []PacketInv
<1>1. PacketInv /\ [Next]_vars => PacketInv'
  BY StepKeepsBatch, StepKeepsTarget, StepKeepsOutcome, StepKeepsOutcomes DEF PacketInv
<1> QED
  BY <1>1, PacketInitial, PTL DEF Spec

\* No request of the collection is sent twice or off the record, although it goes on
\* after a failed packet (two_stage_v3.py:557-566).
THEOREM PacketsSentOnce == Spec => []SentOnceOnRecord
<1>1. PacketInv => SentOnceOnRecord
  BY DEF PacketInv, BatchInv
<1> QED
  BY <1>1, PacketInvariance, PTL

\* A success has all its answers, a partial result its route, an error none
\* (two_stage_v3_batch.py:312-324, two_stage_v3.py:562-570).
THEOREM PacketOutcomesAreTrue == Spec => []OutcomeTellsRequests
<1>1. PacketInv => OutcomeTellsRequests
  BY DEF PacketInv
<1> QED
  BY <1>1, PacketInvariance, PTL

\* Outcomes of the collection are final too.
THEOREM PacketOutcomesAreFinal == Spec => OutcomesStand
<1>1. PacketInv /\ [Next]_vars =>
        [\A t \in Targets :
           targets[t] \notin {"pending", "running"} => targets'[t] = targets[t]]_vars
  BY StepKeepsBatch DEF Stands
<1> QED
  BY <1>1, PacketInvariance, PTL DEF Spec, OutcomesStand

\* The collection too: it claims as many reserves as the plan of a target says, and goes
\* on after a failed packet (two_stage_batch.py:310, two_stage_v3_batch.py:283).
THEOREM PacketOvershootIsBounded == Spec => []OvershootIsOneRequest
<1>1. Init => PacketInv /\ MoneyInv
  BY PacketInitial, MoneyInitial
<1>2. PacketInv /\ MoneyInv /\ [Next]_vars => MoneyInv'
  BY StepKeepsMoney
<1>3. MoneyInv => OvershootIsOneRequest
  BY DEF MoneyInv
<1> QED
  BY <1>1, <1>2, <1>3, PacketInvariance, PTL DEF Spec

-----------------------------------------------------------------------------
(* The feedback of a source row (SourceGroups) *)

\* A row that the mapper takes for the k-th of a conversation, counted from none.
Fits(row, k) == /\ ~Unreadable(row) /\ row.number = k
                /\ row.turn = TurnAt(k) /\ row.role = RoleAt(k) /\ row.bytes > 0

\* Rows from start to last were one conversation to the mapper.
Mapped(file, start, last) == \A i \in start .. last : Fits(file[i], i - start)

\* What the mapper expects is what continues the conversation it is in.
MapperTells ==
  mapper.expected # Unbound =>
    /\ mapper.start \in 1 .. prepared
    /\ mapper.expected = prepared + 1 - mapper.start
    /\ mapper.bytes = Volume(rows, mapper.start, prepared)
    /\ Mapped(rows, mapper.start, prepared)

\* A target is an answer of a mapped conversation, and has the user's turn after it
\* as its feedback exactly when the mapper came to it and took it.
OriginalTells(o) ==
  /\ o = [row |-> o.row, start |-> o.start, number |-> o.number, feedback |-> o.feedback]
  /\ o.row \in 1 .. prepared /\ o.start \in 1 .. o.row /\ o.number = o.row - o.start
  /\ Mapped(rows, o.start, o.row) /\ rows[o.row].role = "Agent"
  /\ o.feedback = IF /\ o.row + 1 \in 1 .. prepared /\ Mapped(rows, o.start, o.row + 1)
                     /\ Volume(rows, o.start, o.row + 1) <= MaxBytes
                  THEN o.row + 1 ELSE Unbound
  /\ o.row = prepared => mapper = [start |-> o.start, expected |-> o.number + 1,
                                   bytes |-> Volume(rows, o.start, o.row)]

SourceInv ==
  /\ rows \in Seq(Utterances) /\ prepared \in 0 .. Len(rows)
  /\ ~ReadEnough => prepared = Len(rows)
  /\ mapper = [start |-> mapper.start, expected |-> mapper.expected, bytes |-> mapper.bytes]
  /\ MapperTells
  /\ \A o \in originals : OriginalTells(o)

-----------------------------------------------------------------------------
(* The bytes of a conversation *)

\* The sums of the bytes of the first rows of a file.
IsTotal(upto, file) ==
  upto = [n \in 0 .. Len(file) |-> IF n = 0 THEN 0 ELSE upto[n - 1] + file[n].bytes]

\* There are such sums of any number of rows.
LEMMA TotalsExist ==
  ASSUME NEW file, NEW k \in Nat
  PROVE  \E upto : /\ DOMAIN upto = 0 .. k
                   /\ \A i \in 0 .. k :
                        upto[i] = IF i = 0 THEN 0 ELSE upto[i - 1] + file[i].bytes
<1> DEFINE SumsTo(upto, n) ==
             /\ DOMAIN upto = 0 .. n
             /\ \A i \in 0 .. n : upto[i] = IF i = 0 THEN 0 ELSE upto[i - 1] + file[i].bytes
           B == {n \in Nat : ~\E upto : SumsTo(upto, n)}
<1> SUFFICES ASSUME B # {} PROVE FALSE
  OBVIOUS
<1>1. PICK n \in B : \A m \in B : n <= m
  <2>1. B \subseteq Nat
    OBVIOUS
  <2> HIDE DEF B
  <2> QED
    BY <2>1, SmallestNat
<1>2. CASE n = 0
  <2>1. PICK none : none = [i \in 0 .. 0 |-> 0]
    OBVIOUS
  <2>2. \A i \in 0 .. 0 : i = 0 /\ none[i] = 0
    BY <2>1
  <2>3. SumsTo(none, 0)
    BY <2>1, <2>2
  <2> QED
    BY <1>1, <1>2, <2>3
<1>3. CASE n # 0
  <2>1. n \in Nat /\ n - 1 \in Nat /\ n - 1 \notin B
    BY <1>1, <1>3
  <2>2. PICK upto : SumsTo(upto, n - 1)
    BY <2>1
  <2>3. PICK last : last = upto[n - 1] + file[n].bytes
    OBVIOUS
  <2>4. PICK more : more = [i \in 0 .. n |-> IF i = n THEN last ELSE upto[i]]
    OBVIOUS
  <2>5. /\ DOMAIN more = 0 .. n /\ more[n] = last
        /\ \A i \in 0 .. n - 1 : more[i] = upto[i]
    BY <2>1, <2>4
  <2>6. ASSUME NEW i \in 0 .. n
        PROVE  more[i] = IF i = 0 THEN 0 ELSE more[i - 1] + file[i].bytes
    <3>1. CASE i = n
      <4>1. more[i - 1] = upto[n - 1] /\ i # 0
        BY <1>3, <2>1, <2>5, <3>1
      <4> QED
        BY <2>3, <2>5, <3>1, <4>1
    <3>2. CASE i # n
      <4>1. i \in 0 .. n - 1 /\ (i # 0 => i - 1 \in 0 .. n - 1)
        BY <2>1, <2>6, <3>2
      <4>2. more[i] = upto[i] /\ (i # 0 => more[i - 1] = upto[i - 1])
        BY <2>5, <4>1
      <4> QED
        BY <2>2, <4>1, <4>2
    <3> QED
      BY <3>1, <3>2
  <2>7. SumsTo(more, n)
    BY <2>5, <2>6
  <2> QED
    BY <1>1, <2>7
<1> QED
  BY <1>2, <1>3

\* The bytes of rows are a difference of such sums.
LEMMA VolumeTells ==
  ASSUME NEW file \in Seq(Utterances)
  PROVE  \E upto :
           /\ upto[0] = 0 /\ \A i \in 0 .. Len(file) : upto[i] \in Nat
           /\ \A i \in 1 .. Len(file) : upto[i] = upto[i - 1] + file[i].bytes
           /\ \A s, n : Volume(file, s, n) = upto[n] - upto[s - 1]
<1>1. PICK k \in Nat : k = Len(file)
  OBVIOUS
<1>2. \E upto : IsTotal(upto, file)
  <2>1. PICK upto : /\ DOMAIN upto = 0 .. k
                    /\ \A i \in 0 .. k : upto[i] = IF i = 0 THEN 0 ELSE upto[i - 1] + file[i].bytes
    BY <1>1, TotalsExist
  <2>2. PICK g : g = [i \in 0 .. k |-> IF i = 0 THEN 0 ELSE upto[i - 1] + file[i].bytes]
    OBVIOUS
  <2>3. DOMAIN g = 0 .. k /\ \A i \in 0 .. k : g[i] = upto[i]
    BY <2>1, <2>2
  <2>4. DEFINE h == [i \in 0 .. k |-> upto[i]]
  <2>5. h = g
    BY <2>2, <2>1
  <2>6. h = [i \in 0 .. k |-> IF i = 0 THEN 0 ELSE h[i - 1] + file[i].bytes]
    <3>1. \A i \in 0 .. k : i # 0 => h[i - 1] = upto[i - 1]
      OBVIOUS
    <3> QED
      BY <2>1, <3>1
  <2>7. IsTotal(h, file)
    BY <1>1, <2>6 DEF IsTotal
  <2> QED
    BY <2>7
<1>3. PICK upto : upto = CHOOSE u : IsTotal(u, file)
  OBVIOUS
<1>4. IsTotal(upto, file)
  BY <1>2, <1>3
<1>5. ASSUME NEW s, NEW n PROVE Volume(file, s, n) = upto[n] - upto[s - 1]
  BY <1>3 DEF Volume, IsTotal
<1>6. \A i \in 0 .. k : upto[i] = IF i = 0 THEN 0 ELSE upto[i - 1] + file[i].bytes
  <2>1. \A f, g : g = [i \in 0 .. k |-> IF i = 0 THEN 0 ELSE f[i - 1] + file[i].bytes]
          => \A i \in 0 .. k : g[i] = IF i = 0 THEN 0 ELSE f[i - 1] + file[i].bytes
    OBVIOUS
  <2> QED
    BY <1>1, <1>4, <2>1 DEF IsTotal
<1>7. \A i \in 1 .. k : file[i].bytes \in Nat
  BY <1>1, SourceAssumption
<1>8. \A i \in 0 .. k : upto[i] \in Nat
  <2> DEFINE B == {i \in 0 .. k : upto[i] \notin Nat}
  <2> SUFFICES ASSUME B # {} PROVE FALSE
    OBVIOUS
  <2>1. PICK i \in B : \A m \in B : i <= m
    <3>1. B \subseteq Nat
      OBVIOUS
    <3> HIDE DEF B
    <3> QED
      BY <3>1, SmallestNat
  <2>2. i # 0
    BY <1>6, <2>1
  <2>3. i - 1 \in 0 .. k /\ i - 1 \notin B /\ i \in 1 .. k
    BY <2>1, <2>2
  <2>4. upto[i - 1] \in Nat /\ upto[i] = upto[i - 1] + file[i].bytes
    BY <1>6, <2>2, <2>3
  <2> QED
    BY <1>7, <2>1, <2>3, <2>4
<1> QED
  BY <1>1, <1>5, <1>6, <1>8

\* One more row has its bytes, and changes no earlier sum.
LEMMA VolumeGrows ==
  ASSUME NEW file \in Seq(Utterances), NEW row \in Utterances,
         NEW more, more = Append(file, row)
  PROVE  /\ \A s \in 1 .. Len(file), n \in 0 .. Len(file) : Volume(more, s, n) = Volume(file, s, n)
         /\ \A s \in 1 .. Len(file) :
              Volume(more, s, Len(file) + 1) = Volume(file, s, Len(file)) + row.bytes
         /\ Volume(more, Len(file) + 1, Len(file) + 1) = row.bytes
<1>1. PICK l \in Nat : l = Len(file)
  OBVIOUS
<1>2. /\ more \in Seq(Utterances) /\ Len(more) = l + 1 /\ more[l + 1] = row
      /\ \A i \in 1 .. l : more[i] = file[i]
  BY <1>1
<1>3. PICK f : /\ f[0] = 0 /\ \A i \in 0 .. l : f[i] \in Nat
               /\ \A i \in 1 .. l : f[i] = f[i - 1] + file[i].bytes
               /\ \A s, n : Volume(file, s, n) = f[n] - f[s - 1]
  BY <1>1, VolumeTells
<1>4. PICK g : /\ g[0] = 0 /\ \A i \in 0 .. l + 1 : g[i] \in Nat
               /\ \A i \in 1 .. l + 1 : g[i] = g[i - 1] + more[i].bytes
               /\ \A s, n : Volume(more, s, n) = g[n] - g[s - 1]
  <2>1. \E g : /\ g[0] = 0 /\ \A i \in 0 .. Len(more) : g[i] \in Nat
               /\ \A i \in 1 .. Len(more) : g[i] = g[i - 1] + more[i].bytes
               /\ \A s, n : Volume(more, s, n) = g[n] - g[s - 1]
    BY <1>2, VolumeTells
  <2> QED
    BY <1>2, <2>1
<1>5. \A i \in 0 .. l : f[i] = g[i]
  <2> DEFINE B == {i \in 0 .. l : f[i] # g[i]}
  <2> SUFFICES ASSUME B # {} PROVE FALSE
    OBVIOUS
  <2>1. PICK i \in B : \A m \in B : i <= m
    <3>1. B \subseteq Nat
      OBVIOUS
    <3> HIDE DEF B
    <3> QED
      BY <3>1, SmallestNat
  <2>2. i # 0
    BY <1>3, <1>4, <2>1
  <2>3. i - 1 \in 0 .. l /\ i - 1 \notin B /\ i \in 1 .. l /\ i \in 1 .. l + 1
    BY <2>1, <2>2
  <2>4. f[i] = f[i - 1] + file[i].bytes /\ g[i] = g[i - 1] + more[i].bytes /\ f[i - 1] = g[i - 1]
    BY <1>3, <1>4, <2>3
  <2>5. f[i] = g[i]
    BY <1>2, <2>3, <2>4
  <2> QED
    BY <2>1, <2>5
<1>6. g[l + 1] = g[l] + row.bytes /\ row.bytes \in Nat
  <2>1. l + 1 \in 1 .. l + 1 /\ l + 1 - 1 = l
    OBVIOUS
  <2> QED
    BY <1>2, <1>4, <2>1, SourceAssumption
<1>7. ASSUME NEW s \in 1 .. l, NEW n \in 0 .. l PROVE Volume(more, s, n) = Volume(file, s, n)
  <2>1. s - 1 \in 0 .. l
    OBVIOUS
  <2>2. g[s - 1] = f[s - 1] /\ g[n] = f[n]
    BY <1>5, <2>1
  <2>3. Volume(more, s, n) = g[n] - g[s - 1] /\ Volume(file, s, n) = f[n] - f[s - 1]
    BY <1>3, <1>4
  <2> QED
    BY <2>2, <2>3
<1>8. ASSUME NEW s \in 1 .. l PROVE Volume(more, s, l + 1) = Volume(file, s, l) + row.bytes
  <2>1. s - 1 \in 0 .. l /\ l \in 0 .. l
    OBVIOUS
  <2>2. f[l] \in Nat /\ f[s - 1] \in Nat /\ g[s - 1] = f[s - 1] /\ g[l] = f[l]
    BY <1>3, <1>5, <2>1
  <2> QED
    BY <1>3, <1>4, <1>6, <2>2
<1>9. Volume(more, l + 1, l + 1) = row.bytes
  <2>1. l + 1 - 1 = l /\ l \in 0 .. l /\ l \in 0 .. l + 1
    OBVIOUS
  <2>2. g[l] \in Nat /\ Volume(more, l + 1, l + 1) = g[l + 1] - g[l]
    BY <1>4, <2>1
  <2> QED
    BY <1>6, <2>2
<1> QED
  BY <1>1, <1>7, <1>8, <1>9

-----------------------------------------------------------------------------
(* The conversations that segments cuts *)

\* What segments knows after n rows, from what it knew after fewer.
IsCut(cut, k) == cut = [n \in 0 .. k |-> IF n = 0 THEN Unstarted ELSE Put(cut[n - 1], n)]

\* The loop has an outcome for every number of rows.
LEMMA CutsExist ==
  ASSUME NEW k \in Nat
  PROVE  \E cut : IsCut(cut, k)
<1> DEFINE B == {n \in Nat : ~\E cut : IsCut(cut, n)}
<1> SUFFICES ASSUME B # {} PROVE FALSE
  OBVIOUS
<1>1. PICK n \in B : \A m \in B : n <= m
  <2>1. B \subseteq Nat
    OBVIOUS
  <2> HIDE DEF B
  <2> QED
    BY <2>1, SmallestNat
<1>2. CASE n = 0
  <2> DEFINE none == [i \in 0 .. 0 |-> Unstarted]
  <2>1. none = [i \in 0 .. 0 |-> IF i = 0 THEN Unstarted ELSE Put(none[i - 1], i)]
    <3>1. \A i \in 0 .. 0 : i = 0
      OBVIOUS
    <3> QED
      BY <3>1
  <2>2. IsCut(none, 0)
    BY <2>1 DEF IsCut
  <2> QED
    BY <1>2, <2>2
<1>3. CASE n # 0
  <2>1. n \in Nat /\ n - 1 \in Nat /\ n - 1 \notin B
    BY <1>1, <1>3
  <2>2. PICK cut : IsCut(cut, n - 1)
    BY <2>1
  <2>3. /\ DOMAIN cut = 0 .. n - 1
        /\ \A i \in 0 .. n - 1 : cut[i] = IF i = 0 THEN Unstarted ELSE Put(cut[i - 1], i)
    <3>1. \A f, g : g = [i \in 0 .. n - 1 |-> IF i = 0 THEN Unstarted ELSE Put(f[i - 1], i)]
            => /\ DOMAIN g = 0 .. n - 1
               /\ \A i \in 0 .. n - 1 : g[i] = IF i = 0 THEN Unstarted ELSE Put(f[i - 1], i)
      OBVIOUS
    <3> QED
      BY <2>2, <3>1 DEF IsCut
  <2>4. PICK last : last = Put(cut[n - 1], n)
    OBVIOUS
  <2>5. PICK more : more = [i \in 0 .. n |-> IF i = n THEN last ELSE cut[i]]
    OBVIOUS
  <2>6. /\ DOMAIN more = 0 .. n /\ more[n] = last
        /\ \A i \in 0 .. n - 1 : more[i] = cut[i]
    BY <2>1, <2>5
  <2>7. ASSUME NEW i \in 0 .. n
        PROVE  more[i] = IF i = 0 THEN Unstarted ELSE Put(more[i - 1], i)
    <3>1. CASE i = n
      <4>1. more[i - 1] = cut[n - 1] /\ i # 0
        BY <1>3, <2>1, <2>6, <3>1
      <4> QED
        BY <2>4, <2>6, <3>1, <4>1
    <3>2. CASE i # n
      <4>1. i \in 0 .. n - 1 /\ (i # 0 => i - 1 \in 0 .. n - 1)
        BY <2>1, <2>7, <3>2
      <4>2. more[i] = cut[i] /\ (i # 0 => more[i - 1] = cut[i - 1])
        BY <2>6, <4>1
      <4> QED
        BY <2>3, <4>1, <4>2
    <3> QED
      BY <3>1, <3>2
  <2>8. more = [i \in 0 .. n |-> more[i]]
    BY <2>5
  <2>9. more = [i \in 0 .. n |-> IF i = 0 THEN Unstarted ELSE Put(more[i - 1], i)]
    BY <2>7, <2>8
  <2>10. IsCut(more, n)
    BY <2>9 DEF IsCut
  <2> QED
    BY <1>1, <2>10
<1> QED
  BY <1>2, <1>3

\* Rows are of one unbroken conversation at most.
LEMMA OneConversation ==
  ASSUME NEW n \in Nat, NEW s \in 1 .. n, NEW t \in 1 .. n, Unbroken(s, n), Unbroken(t, n)
  PROVE  s = t
<1>1. /\ rows[s].number = 0 /\ rows[t].number = 0
      /\ s <= t => rows[t].number = t - s
      /\ t <= s => rows[s].number = s - t
  BY DEF Unbroken
<1> QED
  BY <1>1

\* After n rows the loop is in the unbroken conversation of the last one, if there is one.
InConversation(at, n) ==
  \/ at = Unstarted /\ \A s \in 1 .. n : ~Unbroken(s, n)
  \/ \E s \in 1 .. n : at = [start |-> s, expected |-> n - s + 1] /\ Unbroken(s, n)

\* One more row.
LEMMA PutTells ==
  ASSUME NEW n \in Nat, n + 1 \in DOMAIN rows, NEW at, InConversation(at, n)
  PROVE  InConversation(Put(at, n + 1), n + 1)
<1> DEFINE row == rows[n + 1]
           reset == Selectable(row) /\ row.number = 0
           start == IF reset THEN n + 1 ELSE at.start
           expected == IF reset THEN 0 ELSE at.expected
           valid == /\ Selectable(row) /\ start # Unbound /\ row.number = expected
                    /\ row.turn = TurnAt(row.number) /\ row.role = RoleAt(row.number)
                    /\ n + 1 = start + row.number
<1>1. Put(at, n + 1) = IF valid THEN [start |-> start, expected |-> expected + 1] ELSE Unstarted
  BY DEF Put
<1>2. Unbound \notin Nat
  BY SourceAssumption
<1>3. ASSUME NEW s \in 1 .. n
      PROVE  Unbroken(s, n + 1) <=>
               /\ Unbroken(s, n) /\ Selectable(row) /\ row.number = n + 1 - s
               /\ row.turn = TurnAt(n + 1 - s) /\ row.role = RoleAt(n + 1 - s)
  <2>1. s .. (n + 1) = (s .. n) \cup {n + 1}
    BY <1>3
  <2> QED
    BY <2>1 DEF Unbroken
<1>4. Unbroken(n + 1, n + 1) <=>
        /\ Selectable(row) /\ row.number = 0
        /\ row.turn = TurnAt(0) /\ row.role = RoleAt(0)
  <2>1. (n + 1) .. (n + 1) = {n + 1} /\ n + 1 - (n + 1) = 0
    OBVIOUS
  <2> QED
    BY <2>1 DEF Unbroken
<1>5. 1 .. (n + 1) = (1 .. n) \cup {n + 1}
  OBVIOUS
<1> HIDE DEF row
<1>6. CASE reset
  <2>1. valid <=> row.turn = TurnAt(0) /\ row.role = RoleAt(0)
    BY <1>2, <1>6
  <2>2. CASE valid
    <3>1. Put(at, n + 1) = [start |-> n + 1, expected |-> n + 1 - (n + 1) + 1]
      BY <1>1, <1>6, <2>2
    <3>2. Unbroken(n + 1, n + 1)
      BY <1>4, <1>6, <2>1, <2>2
    <3>3. n + 1 \in 1 .. n + 1
      OBVIOUS
    <3> QED
      BY <3>1, <3>2, <3>3 DEF InConversation
  <2>3. CASE ~valid
    <3>1. Put(at, n + 1) = Unstarted
      BY <1>1, <2>3
    <3>2. \A s \in 1 .. n : row.number # n + 1 - s
      BY <1>6
    <3>3. \A s \in 1 .. n + 1 : ~Unbroken(s, n + 1)
      BY <1>3, <1>4, <1>5, <2>1, <2>3, <3>2
    <3> QED
      BY <3>1, <3>3 DEF InConversation
  <2> QED
    BY <2>2, <2>3
<1>7. CASE ~reset /\ at = Unstarted /\ \A s \in 1 .. n : ~Unbroken(s, n)
  <2>1. start = Unbound
    BY <1>7 DEF Unstarted
  <2>2. Put(at, n + 1) = Unstarted
    BY <1>1, <2>1
  <2>3. \A s \in 1 .. n + 1 : ~Unbroken(s, n + 1)
    BY <1>3, <1>4, <1>5, <1>7
  <2> QED
    BY <2>2, <2>3 DEF InConversation
<1>8. CASE ~reset /\ \E s \in 1 .. n : at = [start |-> s, expected |-> n - s + 1] /\ Unbroken(s, n)
  <2>1. PICK s \in 1 .. n : at = [start |-> s, expected |-> n - s + 1] /\ Unbroken(s, n)
    BY <1>8
  <2>2. start = s /\ expected = n - s + 1 /\ start # Unbound
    BY <1>2, <1>8, <2>1
  <2>3. valid <=> Unbroken(s, n + 1)
    <3>1. n + 1 - s = n - s + 1 /\ n + 1 = s + (n - s + 1)
      OBVIOUS
    <3> QED
      BY <1>3, <2>1, <2>2, <3>1
  <2>4. CASE valid
    <3>1. Put(at, n + 1) = [start |-> s, expected |-> n + 1 - s + 1]
      BY <1>1, <2>2, <2>4
    <3>2. s \in 1 .. n + 1
      OBVIOUS
    <3> QED
      BY <2>3, <2>4, <3>1, <3>2 DEF InConversation
  <2>5. CASE ~valid
    <3>1. Put(at, n + 1) = Unstarted
      BY <1>1, <2>5
    <3>2. ~Unbroken(n + 1, n + 1)
      BY <1>4, <1>8
    <3>3. ASSUME NEW t \in 1 .. n PROVE ~Unbroken(t, n + 1)
      <4>1. Unbroken(t, n + 1) => Unbroken(t, n)
        BY <1>3, <3>3
      <4>2. Unbroken(t, n) => t = s
        BY <2>1, <3>3, OneConversation
      <4> QED
        BY <2>3, <2>5, <4>1, <4>2
    <3> QED
      BY <1>5, <3>1, <3>2, <3>3 DEF InConversation
  <2> QED
    BY <2>4, <2>5
<1> QED
  BY <1>6, <1>7, <1>8 DEF InConversation

\* The cut of a file: a row has a start exactly if it is in an unbroken conversation.
LEMMA SegmentsTell ==
  ASSUME rows \in Seq(Utterances), NEW n \in 1 .. Len(rows)
  PROVE  \/ Segments[n] = Unbound /\ \A s \in 1 .. n : ~Unbroken(s, n)
         \/ Segments[n] \in 1 .. n /\ Unbroken(Segments[n], n)
<1>1. PICK k \in Nat : k = Len(rows)
  OBVIOUS
<1>2. PICK cut : IsCut(cut, k) /\ Segments = [i \in 1 .. k |-> cut[i].start]
  <2>1. PICK cut : cut = CHOOSE c : IsCut(c, k)
    OBVIOUS
  <2>2. IsCut(cut, k)
    BY <2>1, CutsExist
  <2>3. Segments = [i \in 1 .. k |-> cut[i].start]
    BY <1>1, <2>1 DEF Segments, IsCut
  <2> QED
    BY <2>2, <2>3
<1>3. \A i \in 0 .. k : cut[i] = IF i = 0 THEN Unstarted ELSE Put(cut[i - 1], i)
  <2>1. \A f, g : g = [i \in 0 .. k |-> IF i = 0 THEN Unstarted ELSE Put(f[i - 1], i)]
          => \A i \in 0 .. k : g[i] = IF i = 0 THEN Unstarted ELSE Put(f[i - 1], i)
    OBVIOUS
  <2> QED
    BY <1>2, <2>1 DEF IsCut
<1>4. \A i \in 0 .. k : InConversation(cut[i], i)
  <2> DEFINE B == {i \in 0 .. k : ~InConversation(cut[i], i)}
  <2> SUFFICES ASSUME B # {} PROVE FALSE
    OBVIOUS
  <2>1. PICK i \in B : \A m \in B : i <= m
    <3>1. B \subseteq Nat
      OBVIOUS
    <3> HIDE DEF B
    <3> QED
      BY <3>1, SmallestNat
  <2>2. CASE i = 0
    <3>1. cut[0] = Unstarted
      BY <1>3
    <3>2. 1 .. 0 = {}
      OBVIOUS
    <3> QED
      BY <2>1, <2>2, <3>1, <3>2 DEF InConversation
  <2>3. CASE i # 0
    <3>1. i \in Nat /\ i - 1 \in 0 .. k /\ i - 1 \notin B /\ i \in DOMAIN rows /\ i - 1 + 1 = i
      BY <1>1, <2>1, <2>3
    <3>2. InConversation(cut[i - 1], i - 1)
      BY <3>1
    <3>3. cut[i] = Put(cut[i - 1], i)
      BY <1>3, <2>1, <2>3
    <3>4. PICK m \in Nat : m = i - 1
      BY <3>1
    <3>5. InConversation(Put(cut[m], m + 1), m + 1)
      BY <3>1, <3>2, <3>4, PutTells
    <3> QED
      BY <2>1, <3>1, <3>3, <3>4, <3>5
  <2> QED
    BY <2>2, <2>3
<1>5. Segments[n] = cut[n].start /\ n \in 0 .. k
  BY <1>1, <1>2
<1>6. CASE cut[n] = Unstarted /\ \A s \in 1 .. n : ~Unbroken(s, n)
  BY <1>5, <1>6 DEF Unstarted
<1>7. CASE \E s \in 1 .. n : cut[n] = [start |-> s, expected |-> n - s + 1] /\ Unbroken(s, n)
  <2>1. PICK s \in 1 .. n : cut[n] = [start |-> s, expected |-> n - s + 1] /\ Unbroken(s, n)
    BY <1>7
  <2>2. Segments[n] = s
    BY <1>5, <2>1
  <2> QED
    BY <2>1, <2>2
<1> QED
  BY <1>4, <1>5, <1>6, <1>7 DEF InConversation

\* A row has a start exactly if it is in one unbroken conversation from there.
LEMMA StartsTell ==
  ASSUME rows \in Seq(Utterances), NEW n \in Nat \ {0}
  PROVE  /\ \A s \in 1 .. n : StartOf(Segments, n) = s <=> n \in 1 .. Len(rows) /\ Unbroken(s, n)
         /\ StartOf(Segments, n) # Unbound => StartOf(Segments, n) \in 1 .. n
<1>1. DOMAIN Segments = 1 .. Len(rows)
  BY DEF Segments
<1>2. Unbound \notin Nat
  BY SourceAssumption
<1>3. CASE n \in 1 .. Len(rows)
  <2>1. StartOf(Segments, n) = Segments[n]
    BY <1>1, <1>3 DEF StartOf
  <2>2. \/ Segments[n] = Unbound /\ \A s \in 1 .. n : ~Unbroken(s, n)
        \/ Segments[n] \in 1 .. n /\ Unbroken(Segments[n], n)
    BY <1>3, SegmentsTell
  <2>3. ASSUME NEW s \in 1 .. n PROVE Segments[n] = s <=> Unbroken(s, n)
    BY <1>2, <2>2, <2>3, OneConversation
  <2> QED
    BY <1>3, <2>1, <2>2, <2>3
<1>4. CASE n \notin 1 .. Len(rows)
  <2>1. StartOf(Segments, n) = Unbound
    BY <1>1, <1>4 DEF StartOf
  <2> QED
    BY <1>2, <1>4, <2>1
<1> QED
  BY <1>3, <1>4

-----------------------------------------------------------------------------
(* The preparation *)

\* A row that continues what was mapped is mapped with it.
LEMMA MappedLonger ==
  ASSUME NEW file, NEW n \in Nat, NEW s \in 1 .. n
  PROVE  Mapped(file, s, n + 1) <=> Mapped(file, s, n) /\ Fits(file[n + 1], n + 1 - s)
<1>1. s .. (n + 1) = (s .. n) \cup {n + 1}
  OBVIOUS
<1> QED
  BY <1>1 DEF Mapped

\* The first row of a conversation is mapped alone.
LEMMA MappedAlone ==
  ASSUME NEW file, NEW n \in Nat
  PROVE  Mapped(file, n, n) <=> Fits(file[n], 0)
<1>1. n .. n = {n} /\ n - n = 0
  OBVIOUS
<1> QED
  BY <1>1 DEF Mapped

\* Nothing is read at first.
LEMMA SourceStart == SourceInit => SourceInv
<1> SUFFICES ASSUME SourceInit PROVE SourceInv
  OBVIOUS
<1>1. rows \in Seq(Utterances) /\ Len(rows) = 0 /\ prepared = 0 /\ originals = {}
  BY DEF SourceInit
<1>2. /\ mapper = [start |-> mapper.start, expected |-> mapper.expected, bytes |-> mapper.bytes]
      /\ mapper.expected = Unbound
  BY DEF SourceInit, FreshMapper
<1> QED
  BY <1>1, <1>2 DEF SourceInv, MapperTells

\* A row that is read leaves the earlier ones as they are.
LEMMA ReadStands ==
  ASSUME rows \in Seq(Utterances), NEW row \in Utterances, rows' = Append(rows, row)
  PROVE  /\ rows' \in Seq(Utterances) /\ Len(rows') = Len(rows) + 1
         /\ rows'[Len(rows) + 1] = row
         /\ \A i \in 1 .. Len(rows) : rows'[i] = rows[i]
         /\ \A s \in Nat \ {0}, n \in 0 .. Len(rows) : Mapped(rows', s, n) <=> Mapped(rows, s, n)
         /\ \A s \in 1 .. Len(rows), n \in 0 .. Len(rows) :
              Volume(rows', s, n) = Volume(rows, s, n)
<1>1. /\ rows' \in Seq(Utterances) /\ Len(rows') = Len(rows) + 1
      /\ rows'[Len(rows) + 1] = row
      /\ \A i \in 1 .. Len(rows) : rows'[i] = rows[i]
  OBVIOUS
<1>2. ASSUME NEW s \in Nat \ {0}, NEW n \in 0 .. Len(rows) PROVE Mapped(rows', s, n) <=> Mapped(rows, s, n)
  <2>1. \A i \in s .. n : i \in 1 .. Len(rows)
    OBVIOUS
  <2>2. \A i \in s .. n : rows'[i] = rows[i]
    BY <1>1, <2>1
  <2> QED
    BY <2>2 DEF Mapped
<1>3. \A s \in 1 .. Len(rows), n \in 0 .. Len(rows) : Volume(rows', s, n) = Volume(rows, s, n)
  <2>1. PICK more : more = rows'
    OBVIOUS
  <2>2. \A s \in 1 .. Len(rows), n \in 0 .. Len(rows) : Volume(more, s, n) = Volume(rows, s, n)
    BY <2>1, VolumeGrows
  <2> QED
    BY <2>1, <2>2
<1> QED
  BY <1>1, <1>2, <1>3

\* What the mapper makes of a row: a conversation begun or continued, or none.
LEMMA MapRowTells ==
  ASSUME rows \in Seq(Utterances), prepared = Len(rows), MapperTells,
         mapper = [start |-> mapper.start, expected |-> mapper.expected, bytes |-> mapper.bytes],
         NEW row \in Utterances, rows' = Append(rows, row),
         NEW mapped, mapped = MapRow(mapper, Len(rows) + 1, row)
  PROVE  /\ mapped.ok \in BOOLEAN
         /\ mapped.mapper = [start |-> mapped.mapper.start, expected |-> mapped.mapper.expected,
                              bytes |-> mapped.mapper.bytes]
         /\ mapped.mapper.expected # Unbound => mapped.ok
         /\ mapped.ok =>
              /\ mapped.mapper.start \in 1 .. Len(rows) + 1
              /\ mapped.mapper.expected = Len(rows) + 2 - mapped.mapper.start
              /\ mapped.mapper.bytes = Volume(rows', mapped.mapper.start, Len(rows) + 1)
              /\ mapped.mapper.bytes <= MaxBytes
              /\ row.number = Len(rows) + 1 - mapped.mapper.start
              /\ Mapped(rows', mapped.mapper.start, Len(rows) + 1)
         /\ mapped.ok /\ row.number # 0 => mapped.mapper.start = mapper.start
         /\ \A s \in 1 .. Len(rows) :
              (/\ mapper = [start |-> s, expected |-> Len(rows) + 1 - s,
                             bytes |-> Volume(rows, s, Len(rows))]
               /\ Mapped(rows', s, Len(rows) + 1) /\ Volume(rows', s, Len(rows) + 1) <= MaxBytes)
                => mapped.ok /\ row.number # 0
<1>1. PICK l \in Nat : l = Len(rows)
  OBVIOUS
<1>2. /\ rows'[l + 1] = row
      /\ \A s \in Nat \ {0}, n \in 0 .. l : Mapped(rows', s, n) <=> Mapped(rows, s, n)
  BY <1>1, ReadStands
<1>2a. /\ \A s \in 1 .. l : Volume(rows', s, l + 1) = Volume(rows, s, l) + row.bytes
       /\ Volume(rows', l + 1, l + 1) = row.bytes
  <2>1. PICK more : more = rows'
    OBVIOUS
  <2>2. /\ \A s \in 1 .. l : Volume(more, s, l + 1) = Volume(rows, s, l) + row.bytes
        /\ Volume(more, l + 1, l + 1) = row.bytes
    BY <1>1, <2>1, VolumeGrows
  <2> QED
    BY <2>1, <2>2
<1>3. \A s \in 1 .. l : Mapped(rows', s, l + 1) <=> Mapped(rows, s, l) /\ Fits(row, l + 1 - s)
  <2>1. PICK file : file = rows'
    OBVIOUS
  <2>2. ASSUME NEW s \in 1 .. l
        PROVE  Mapped(file, s, l + 1) <=> Mapped(file, s, l) /\ Fits(file[l + 1], l + 1 - s)
    BY <2>2, MappedLonger
  <2>3. \A s \in 1 .. l : Mapped(rows', s, l) <=> Mapped(rows, s, l)
    BY <1>2
  <2> QED
    BY <1>2, <2>1, <2>2, <2>3
<1>4. Mapped(rows', l + 1, l + 1) <=> Fits(row, 0)
  <2>1. PICK n \in Nat : n = l + 1
    OBVIOUS
  <2>2. PICK file : file = rows'
    OBVIOUS
  <2>3. Mapped(file, n, n) <=> Fits(file[n], 0)
    BY MappedAlone
  <2> QED
    BY <1>2, <2>1, <2>2, <2>3
<1>5. row.bytes \in Nat /\ MaxBytes \in Nat /\ Unbound \notin Nat
  BY SourceAssumption
<1> DEFINE at == IF row.number = 0 THEN [expected |-> 0, start |-> l + 1, bytes |-> 0] ELSE mapper
           total == at.bytes + row.bytes
           fits == /\ at.expected # Unbound /\ row.number = at.expected
                   /\ row.turn = TurnAt(row.number) /\ row.role = RoleAt(row.number)
                   /\ row.bytes > 0 /\ total <= MaxBytes
<1>6. /\ mapped.ok = (IF Unreadable(row) THEN FALSE ELSE fits)
      /\ mapped.mapper = IF Unreadable(row) THEN FreshMapper
                         ELSE [start |-> at.start,
                               expected |-> IF fits THEN at.expected + 1 ELSE Unbound,
                               bytes |-> IF fits THEN total ELSE 0]
  BY <1>1 DEF MapRow
<1>7. /\ at = [start |-> at.start, expected |-> at.expected, bytes |-> at.bytes]
      /\ at.expected # Unbound =>
           /\ at.start \in 1 .. l + 1 /\ at.expected = l + 1 - at.start
           /\ total = Volume(rows', at.start, l + 1)
           /\ at.start \in 1 .. l => Mapped(rows, at.start, l)
  <2>1. CASE row.number = 0
    <3>1. at = [expected |-> 0, start |-> l + 1, bytes |-> 0] /\ l + 1 \in 1 .. l + 1
      BY <2>1
    <3>2. total = row.bytes
      BY <1>5, <3>1
    <3> QED
      BY <1>2a, <3>1, <3>2
  <2>2. CASE row.number # 0
    <3>1. at = mapper
      BY <2>2
    <3>2. mapper.expected # Unbound =>
            /\ mapper.start \in 1 .. l /\ mapper.expected = l + 1 - mapper.start
            /\ mapper.bytes = Volume(rows, mapper.start, l) /\ Mapped(rows, mapper.start, l)
      BY <1>1 DEF MapperTells
    <3>3. mapper.expected # Unbound => mapper.bytes + row.bytes = Volume(rows', mapper.start, l + 1)
      BY <1>2a, <3>2
    <3> QED
      BY <3>1, <3>2, <3>3
  <2> QED
    BY <2>1, <2>2
<1> HIDE DEF at
<1>8. CASE Unreadable(row)
  <2>1. mapped.ok = FALSE /\ mapped.mapper = FreshMapper
    BY <1>6, <1>8
  <2>2. \A s \in 1 .. l : ~Mapped(rows', s, l + 1)
    BY <1>3, <1>8 DEF Fits
  <2>3. /\ mapped.mapper = [start |-> mapped.mapper.start, expected |-> mapped.mapper.expected,
                             bytes |-> mapped.mapper.bytes]
        /\ mapped.mapper.expected = Unbound
    BY <2>1 DEF FreshMapper
  <2> QED
    BY <1>1, <2>1, <2>2, <2>3
<1>9. CASE ~Unreadable(row) /\ fits
  <2>1. /\ mapped.ok
        /\ mapped.mapper = [start |-> at.start, expected |-> at.expected + 1, bytes |-> total]
    BY <1>6, <1>9
  <2>2. at.start \in 1 .. l + 1 /\ row.number = l + 1 - at.start /\ at.expected \in Nat
    BY <1>7, <1>9
  <2>3. Fits(row, l + 1 - at.start)
    BY <1>9, <2>2 DEF Fits
  <2>4. Mapped(rows', at.start, l + 1)
    <3>1. CASE at.start = l + 1
      <4>1. l + 1 - at.start = 0
        BY <3>1
      <4> QED
        BY <1>4, <2>3, <3>1, <4>1
    <3>2. CASE at.start \in 1 .. l
      <4>1. Mapped(rows, at.start, l)
        BY <1>7, <1>9, <3>2
      <4> QED
        BY <1>3, <2>3, <3>2, <4>1
    <3> QED
      BY <2>2, <3>1, <3>2
  <2>5. row.number # 0 => at.start = mapper.start
    BY DEF at
  <2>6. mapped.ok \in BOOLEAN
    BY <1>5, <1>6
  <2>7. ASSUME NEW s \in 1 .. l, Mapped(rows', s, l + 1) PROVE row.number # 0
    BY <1>3, <2>7 DEF Fits
  <2>8. /\ mapped.mapper.start = at.start /\ mapped.mapper.expected = at.expected + 1
        /\ mapped.mapper.bytes = Volume(rows', at.start, l + 1) /\ mapped.mapper.bytes <= MaxBytes
    BY <1>7, <1>9, <2>1
  <2>9. mapped.mapper.expected = l + 2 - at.start
    BY <1>7, <1>9, <2>2, <2>8
  <2> QED
    BY <1>1, <2>1, <2>2, <2>4, <2>5, <2>6, <2>7, <2>8, <2>9
<1>10. CASE ~Unreadable(row) /\ ~fits
  <2>1. ~mapped.ok /\ mapped.ok \in BOOLEAN
    BY <1>5, <1>6, <1>10
  <2>2. mapped.mapper = [start |-> at.start, expected |-> Unbound, bytes |-> 0]
    BY <1>6, <1>10
  <2>3. ASSUME NEW s \in 1 .. l, Mapped(rows', s, l + 1), Volume(rows', s, l + 1) <= MaxBytes,
               mapper = [start |-> s, expected |-> l + 1 - s, bytes |-> Volume(rows, s, l)]
        PROVE  FALSE
    <3>1. /\ row.number = l + 1 - s /\ row.turn = TurnAt(l + 1 - s)
          /\ row.role = RoleAt(l + 1 - s) /\ row.bytes > 0
      BY <1>3, <2>3 DEF Fits
    <3>2. at = mapper
      BY <2>3, <3>1 DEF at
    <3>3. /\ at.expected = l + 1 - s /\ at.expected # Unbound
          /\ total = Volume(rows', s, l + 1)
      BY <1>5, <1>7, <2>3, <3>2
    <3> QED
      BY <1>10, <2>3, <3>1, <3>3
  <2>4. mapped.mapper.start = at.start /\ mapped.mapper.expected = Unbound
    BY <2>2
  <2> QED
    BY <1>1, <2>1, <2>2, <2>3, <2>4
<1> QED
  BY <1>8, <1>9, <1>10

\* A row is read.
LEMMA ScanTells == SourceInv /\ Scan => SourceInv'
<1> SUFFICES ASSUME SourceInv, Scan PROVE SourceInv'
  OBVIOUS
<1>1. PICK row, mapped :
        /\ row \in Utterances
        /\ mapped = MapRow(mapper, Len(rows) + 1, row)
        /\ rows' = Append(rows, row) /\ prepared' = Len(rows) + 1 /\ mapper' = mapped.mapper
        /\ originals' =
             {IF mapped.ok /\ row.role = "User" /\ row.number # 0 /\ o.row = Len(rows) + 1 - 1
                THEN [o EXCEPT !.feedback = Len(rows) + 1] ELSE o : o \in originals}
             \cup (IF mapped.ok /\ row.role = "Agent"
                     THEN {[row |-> Len(rows) + 1, start |-> mapped.mapper.start,
                            number |-> row.number, feedback |-> Unbound]}
                     ELSE {})
  BY DEF Scan
<1>2. PICK l \in Nat : l = Len(rows) /\ l = prepared
  BY DEF SourceInv, Scan
<1>3. /\ rows' \in Seq(Utterances) /\ Len(rows') = l + 1 /\ rows'[l + 1] = row
      /\ prepared' = l + 1
      /\ \A s \in 1 .. l, n \in 0 .. l : Volume(rows', s, n) = Volume(rows, s, n)
      /\ \A i \in 1 .. l : rows'[i] = rows[i]
      /\ \A s \in Nat \ {0}, n \in 0 .. l : Mapped(rows', s, n) <=> Mapped(rows, s, n)
  BY <1>1, <1>2, ReadStands DEF SourceInv
<1>4. /\ mapped.ok \in BOOLEAN
      /\ mapper' = [start |-> mapper'.start, expected |-> mapper'.expected, bytes |-> mapper'.bytes]
      /\ mapper'.expected # Unbound => mapped.ok
      /\ mapped.ok =>
           /\ mapper'.start \in 1 .. l + 1 /\ mapper'.expected = l + 2 - mapper'.start
           /\ mapper'.bytes = Volume(rows', mapper'.start, l + 1) /\ mapper'.bytes <= MaxBytes
           /\ row.number = l + 1 - mapper'.start /\ Mapped(rows', mapper'.start, l + 1)
      /\ mapped.ok /\ row.number # 0 => mapper'.start = mapper.start
      /\ \A s \in 1 .. l :
           (/\ mapper = [start |-> s, expected |-> l + 1 - s, bytes |-> Volume(rows, s, l)]
            /\ Mapped(rows', s, l + 1) /\ Volume(rows', s, l + 1) <= MaxBytes)
             => mapped.ok /\ row.number # 0
  BY <1>1, <1>2, MapRowTells DEF SourceInv
<1>5. MapperTells'
  <2>1. mapper'.expected # Unbound =>
          /\ mapper'.start \in 1 .. prepared' /\ mapper'.expected = prepared' + 1 - mapper'.start
          /\ mapper'.bytes = Volume(rows', mapper'.start, prepared')
          /\ Mapped(rows', mapper'.start, prepared')
    BY <1>3, <1>4
  <2> QED
    BY <2>1 DEF MapperTells
<1>6. ASSUME NEW o \in originals, o.row # l PROVE OriginalTells(o)'
  <2>1. /\ OriginalTells(o) /\ o.row \in 1 .. l /\ o.row + 1 \in 1 .. l
        /\ o.start \in 1 .. l /\ o.start \in Nat \ {0}
    BY <1>2, <1>6 DEF SourceInv, OriginalTells
  <2>2. /\ Mapped(rows', o.start, o.row) <=> Mapped(rows, o.start, o.row)
        /\ Mapped(rows', o.start, o.row + 1) <=> Mapped(rows, o.start, o.row + 1)
        /\ rows'[o.row] = rows[o.row]
        /\ Volume(rows', o.start, o.row + 1) = Volume(rows, o.start, o.row + 1)
    <3>1. PICK n, s : n = o.row /\ s = o.start
      OBVIOUS
    <3>2. n \in 1 .. l /\ n + 1 \in 1 .. l /\ s \in 1 .. l /\ s \in Nat \ {0}
      BY <2>1, <3>1
    <3>3. n \in 0 .. l /\ n + 1 \in 0 .. l
      BY <3>2
    <3> QED
      BY <1>3, <3>1, <3>2, <3>3
  <2> QED
    BY <1>2, <1>3, <2>1, <2>2 DEF OriginalTells
<1>7. ASSUME NEW o \in originals, o.row = l, NEW f,
             f = IF mapped.ok /\ row.role = "User" /\ row.number # 0 THEN l + 1 ELSE Unbound
      PROVE  OriginalTells([row |-> l, start |-> o.start, number |-> o.number, feedback |-> f])'
  <2>1. /\ l \in 1 .. l /\ o.start \in 1 .. l /\ o.number = l - o.start
        /\ Mapped(rows, o.start, l) /\ rows[l].role = "Agent"
        /\ mapper = [start |-> o.start, expected |-> l + 1 - o.start,
                      bytes |-> Volume(rows, o.start, l)]
    BY <1>2, <1>7 DEF SourceInv, OriginalTells
  <2>2. Mapped(rows', o.start, l) /\ rows'[l] = rows[l]
    BY <1>3, <2>1
  <2>3. mapped.ok /\ row.role = "User" /\ row.number # 0
          <=> Mapped(rows', o.start, l + 1) /\ Volume(rows', o.start, l + 1) <= MaxBytes
    <3>1. ASSUME Mapped(rows', o.start, l + 1) PROVE row.role = "User"
      <4>1. rows'[l + 1].role = RoleAt(l + 1 - o.start)
        BY <2>1, <3>1, l + 1 \in o.start .. l + 1 DEF Mapped, Fits
      <4>2. RoleAt(l - o.start) = "Agent"
        BY <2>1, l \in o.start .. l DEF Mapped, Fits
      <4>3. RoleAt(l + 1 - o.start) = "User"
        BY <2>1, <4>2 DEF RoleAt
      <4> QED
        BY <1>3, <4>1, <4>3
    <3> QED
      BY <1>4, <2>1, <3>1
  <2>4. f = IF Mapped(rows', o.start, l + 1) /\ Volume(rows', o.start, l + 1) <= MaxBytes
            THEN l + 1 ELSE Unbound
    BY <1>7, <2>3
  <2> QED
    BY <1>3, <2>1, <2>2, <2>4 DEF OriginalTells
<1>8. ASSUME mapped.ok, row.role = "Agent", NEW s, s = mapper'.start
      PROVE  OriginalTells([row |-> l + 1, start |-> s, number |-> row.number,
                            feedback |-> Unbound])'
  <2>1. /\ mapper'.start \in 1 .. l + 1 /\ row.number = l + 1 - mapper'.start
        /\ mapper' = [start |-> mapper'.start, expected |-> row.number + 1,
                       bytes |-> Volume(rows', mapper'.start, l + 1)]
        /\ Mapped(rows', mapper'.start, l + 1)
    BY <1>4, <1>8
  <2>2. /\ s \in 1 .. l + 1 /\ Mapped(rows', s, l + 1) /\ row.number = l + 1 - s
        /\ mapper' = [start |-> s, expected |-> row.number + 1, bytes |-> Volume(rows', s, l + 1)]
    BY <1>8, <2>1
  <2>3. l + 1 + 1 \notin 1 .. l + 1
    OBVIOUS
  <2> QED
    BY <1>3, <1>8, <2>2, <2>3 DEF OriginalTells
<1>9. \A o \in originals' : OriginalTells(o)'
  <2> SUFFICES ASSUME NEW o \in originals' PROVE OriginalTells(o)'
    OBVIOUS
  <2>1. CASE o = [row |-> l + 1, start |-> mapper'.start, number |-> row.number, feedback |-> Unbound]
             /\ mapped.ok /\ row.role = "Agent"
    <3>1. PICK s : s = mapper'.start
      OBVIOUS
    <3>2. OriginalTells([row |-> l + 1, start |-> s, number |-> row.number, feedback |-> Unbound])'
      BY <1>8, <2>1, <3>1
    <3>3. o = [row |-> l + 1, start |-> s, number |-> row.number, feedback |-> Unbound]
      BY <2>1, <3>1
    <3> QED
      BY <3>2, <3>3
  <2>2. CASE \E p \in originals :
               o = IF mapped.ok /\ row.role = "User" /\ row.number # 0 /\ p.row = l
                     THEN [p EXCEPT !.feedback = l + 1] ELSE p
    <3>1. PICK p \in originals :
            o = IF mapped.ok /\ row.role = "User" /\ row.number # 0 /\ p.row = l
                  THEN [p EXCEPT !.feedback = l + 1] ELSE p
      BY <2>2
    <3>2. CASE p.row # l
      BY <1>6, <3>1, <3>2
    <3>3. CASE p.row = l
      <4>1. /\ p = [row |-> l, start |-> p.start, number |-> p.number, feedback |-> p.feedback]
            /\ p.feedback = Unbound
        BY <1>2, <3>3 DEF SourceInv, OriginalTells
      <4>2. PICK f : f = IF mapped.ok /\ row.role = "User" /\ row.number # 0 THEN l + 1 ELSE Unbound
        OBVIOUS
      <4>3. o = [row |-> l, start |-> p.start, number |-> p.number, feedback |-> f]
        BY <3>1, <3>3, <4>1, <4>2
      <4> QED
        BY <1>7, <3>3, <4>2, <4>3
    <3> QED
      BY <3>2, <3>3
  <2> QED
    BY <1>1, <1>2, <2>1, <2>2
<1> QED
  BY <1>3, <1>4, <1>5, <1>9 DEF SourceInv

\* A row is read later only.
LEMMA UnreadTells == SourceInv /\ LeaveUnread => SourceInv'
<1> SUFFICES ASSUME SourceInv, LeaveUnread PROVE SourceInv'
  OBVIOUS
<1>1. PICK row \in Utterances : rows' = Append(rows, row)
  BY DEF LeaveUnread
<1>2. UNCHANGED <<limit, prepared, mapper, originals>> /\ ReadEnough'
  BY DEF LeaveUnread, ReadEnough
<1>3. PICK p, l \in Nat : p = prepared /\ l = Len(rows) /\ p \in 0 .. l
  BY DEF SourceInv
<1>4. /\ rows' \in Seq(Utterances) /\ Len(rows') = l + 1
      /\ \A i \in 1 .. l : rows'[i] = rows[i]
      /\ \A s \in Nat \ {0}, n \in 0 .. l : Mapped(rows', s, n) <=> Mapped(rows, s, n)
      /\ \A s \in 1 .. l, n \in 0 .. l : Volume(rows', s, n) = Volume(rows, s, n)
  BY <1>1, <1>3, ReadStands DEF SourceInv
<1>5. MapperTells'
  <2>1. mapper.expected # Unbound =>
          /\ mapper.start \in 1 .. p /\ mapper.expected = p + 1 - mapper.start
          /\ mapper.bytes = Volume(rows', mapper.start, p) /\ Mapped(rows', mapper.start, p)
    BY <1>3, <1>4 DEF SourceInv, MapperTells
  <2> QED
    BY <1>2, <1>3, <2>1 DEF MapperTells
<1>6. ASSUME NEW o \in originals PROVE OriginalTells(o)'
  <2>1. OriginalTells(o) /\ o.row \in 1 .. p /\ o.start \in 1 .. o.row
    BY <1>3, <1>6 DEF SourceInv, OriginalTells
  <2>2. /\ Mapped(rows', o.start, o.row) <=> Mapped(rows, o.start, o.row)
        /\ rows'[o.row] = rows[o.row]
        /\ Volume(rows', o.start, o.row) = Volume(rows, o.start, o.row)
    BY <1>3, <1>4, <2>1
  <2>3. o.row + 1 \in 1 .. p =>
          /\ Mapped(rows', o.start, o.row + 1) <=> Mapped(rows, o.start, o.row + 1)
          /\ Volume(rows', o.start, o.row + 1) = Volume(rows, o.start, o.row + 1)
    BY <1>3, <1>4, <2>1
  <2> QED
    BY <1>2, <1>3, <2>1, <2>2, <2>3 DEF OriginalTells
<1> QED
  BY <1>2, <1>3, <1>4, <1>5, <1>6 DEF SourceInv

\* The targets of the preparation stand in conversations that the mapper followed.
THEOREM SourceInvariance == SourceSpec => []SourceInv
<1>1. SourceInv /\ [SourceNext]_sourceVars => SourceInv'
  <2> SUFFICES ASSUME SourceInv, [SourceNext]_sourceVars PROVE SourceInv'
    OBVIOUS
  <2>1. CASE UNCHANGED sourceVars
    BY <2>1 DEF sourceVars, SourceInv, MapperTells, OriginalTells, Mapped, ReadEnough
  <2> QED
    BY <2>1, ScanTells, UnreadTells DEF SourceNext
<1> QED
  BY <1>1, SourceStart, PTL DEF SourceSpec

-----------------------------------------------------------------------------
(* Whose feedback a signal is *)

\* A mapped conversation is unbroken exactly if the other reader can select its rows.
LEMMA MappedIsUnbroken ==
  ASSUME rows \in Seq(Utterances), NEW s \in Nat \ {0}, NEW n \in 1 .. Len(rows),
         Mapped(rows, s, n)
  PROVE  Unbroken(s, n) <=> \A i \in s .. n : Selectable(rows[i])
<1>1. \A i \in s .. n : i \in DOMAIN rows /\ Fits(rows[i], i - s)
  BY DEF Mapped
<1> QED
  BY <1>1 DEF Unbroken, Fits

\* What a target's group is taken from.
LEMMA GroupTells ==
  ASSUME rows \in Seq(Utterances), prepared \in 0 .. Len(rows), NEW o, OriginalTells(o)
  PROVE  /\ Bound(o, Segments) <=> Unbroken(o.start, o.row)
         /\ GroupOf(o) # "unclear_signal" => Unbroken(o.start, o.row + 1)
         /\ Unbroken(o.start, o.row + 1) /\ rows[o.row + 1].related
              => GroupOf(o) = Signal(rows[o.row + 1].label)
<1>1. PICK n, s : n = o.row /\ s = o.start
  OBVIOUS
<1>2. /\ n \in 1 .. Len(rows) /\ n \in Nat \ {0} /\ s \in 1 .. n /\ o.number = n - s
      /\ Mapped(rows, s, n) /\ rows[n].role = "Agent"
  <2>1. Len(rows) \in Nat
    OBVIOUS
  <2> QED
    BY <1>1, <2>1 DEF OriginalTells
<1>3. PICK starts : starts = Segments
  OBVIOUS
<1>4. /\ \A t \in 1 .. n : StartOf(starts, n) = t <=> Unbroken(t, n)
      /\ StartOf(starts, n) # Unbound => StartOf(starts, n) \in 1 .. n
  BY <1>2, <1>3, StartsTell
<1>5. /\ \A t \in 1 .. n + 1 :
           StartOf(starts, n + 1) = t <=> n + 1 \in 1 .. Len(rows) /\ Unbroken(t, n + 1)
  <2>1. PICK m \in Nat \ {0} : m = n + 1
    BY <1>2
  <2>2. \A t \in 1 .. m : StartOf(starts, m) = t <=> m \in 1 .. Len(rows) /\ Unbroken(t, m)
    BY <1>3, StartsTell
  <2> QED
    BY <2>1, <2>2
<1>6. s # Unbound /\ s \in 1 .. n + 1 /\ n + 1 \in s .. n + 1
  BY <1>2, SourceAssumption
<1>7. rows[n].number = n - s
  BY <1>2, n \in s .. n DEF Mapped, Fits
<1>8. Bound(o, starts) <=> Unbroken(s, n)
  BY <1>1, <1>2, <1>4, <1>6, <1>7 DEF Bound
<1>9. Unbroken(s, n + 1) =>
        /\ Unbroken(s, n) /\ n + 1 \in DOMAIN rows
        /\ Selectable(rows[n + 1]) /\ Selectable(rows[n])
        /\ rows[n + 1].number = n + 1 - s
        /\ rows[n + 1].turn = TurnAt(n + 1 - s) /\ rows[n + 1].role = RoleAt(n + 1 - s)
        /\ rows[n].turn = TurnAt(n - s) /\ rows[n].role = RoleAt(n - s)
  <2>1. n \in s .. n + 1 /\ \A i \in s .. n : i \in s .. n + 1
    BY <1>2
  <2> QED
    BY <1>6, <2>1 DEF Unbroken
<1> DEFINE linked == {next \in Following(o) :
                        Bound(o, starts) /\ Continues(o, next, starts) /\ next.related}
<1>10. GroupOf(o) = IF linked = {} \/ ~Selectable(rows[n]) THEN "unclear_signal"
                    ELSE Signal((CHOOSE next \in linked : TRUE).label)
  BY <1>1, <1>3 DEF GroupOf
<1>11. linked \subseteq {rows[n + 1]}
  BY <1>1 DEF Following
<1>12. ASSUME linked # {} PROVE Unbroken(s, n + 1)
  <2>1. PICK next \in linked : TRUE
    BY <1>12
  <2>2. Bound(o, starts) /\ Continues(o, next, starts)
    BY <2>1
  <2>3. StartOf(starts, n) = s /\ StartOf(starts, n + 1) = StartOf(starts, n)
    BY <1>1, <2>2 DEF Bound, Continues
  <2> QED
    BY <1>5, <1>6, <2>3
<1>13. ASSUME Unbroken(s, n + 1), rows[n + 1].related PROVE rows[n + 1] \in linked
  <2>1. Following(o) = {rows[n + 1]}
    BY <1>1, <1>9, <1>13 DEF Following
  <2>2. Bound(o, starts)
    BY <1>8, <1>9, <1>13
  <2>3. StartOf(starts, n) = s /\ StartOf(starts, n + 1) = s
    BY <1>2, <1>4, <1>5, <1>6, <1>9, <1>13
  <2>4. /\ rows[n + 1].role = "User" /\ rows[n + 1].number = rows[n].number + 1
        /\ rows[n + 1].turn = rows[n].turn + 1
    <3>1. RoleAt(n - s) = "Agent"
      BY <1>2, <1>9, <1>13
    <3>2. PICK k \in Nat : k = n - s
      BY <1>2
    <3>3. k % 2 # 0 /\ n + 1 - s = k + 1
      BY <1>2, <3>1, <3>2 DEF RoleAt
    <3>4. (k + 1) % 2 = 0 /\ (k + 1) \div 2 = k \div 2 + 1
      BY <3>3
    <3> QED
      BY <1>7, <1>9, <1>13, <3>2, <3>3, <3>4 DEF RoleAt, TurnAt
  <2>5. Continues(o, rows[n + 1], starts)
    BY <1>1, <1>2, <2>3, <2>4 DEF Continues
  <2> QED
    BY <1>13, <2>1, <2>2, <2>5
<1>14. GroupOf(o) # "unclear_signal" => Unbroken(s, n + 1)
  BY <1>10, <1>12
<1>15. ASSUME Unbroken(s, n + 1), rows[n + 1].related
       PROVE  GroupOf(o) = Signal(rows[n + 1].label)
  <2>1. linked = {rows[n + 1]}
    BY <1>11, <1>13, <1>15
  <2> HIDE DEF linked
  <2>2. (CHOOSE next \in linked : TRUE) = rows[n + 1]
    BY <2>1
  <2> QED
    BY <1>9, <1>10, <1>15, <2>1, <2>2
<1> QED
  BY <1>1, <1>3, <1>8, <1>14, <1>15

\* The two readers cut alike, and a signal is of the turn after its target.
LEMMA FeedbackFollows == SourceInv => FeedbackIsOfNextTurn
<1> SUFFICES ASSUME SourceInv, NEW o \in originals
             PROVE  /\ Bound(o, Segments) <=> \A i \in o.start .. o.row : Selectable(rows[i])
                    /\ GroupOf(o) # "unclear_signal" =>
                         /\ Unbroken(o.start, o.row + 1)
                         /\ o.feedback = o.row + 1 <=> Kept(o.start, o.row + 1)
                    /\ o.feedback # Unbound /\ Unbroken(o.start, o.feedback)
                         /\ rows[o.feedback].related
                         => GroupOf(o) = Signal(rows[o.feedback].label)
  BY DEF FeedbackIsOfNextTurn
<1>1. rows \in Seq(Utterances) /\ prepared \in 0 .. Len(rows) /\ OriginalTells(o)
  BY DEF SourceInv
<1>2. /\ o.row \in 1 .. prepared /\ o.start \in 1 .. o.row /\ o.start \in Nat \ {0}
      /\ Mapped(rows, o.start, o.row)
      /\ o.feedback = IF /\ o.row + 1 \in 1 .. prepared /\ Mapped(rows, o.start, o.row + 1)
                         /\ Volume(rows, o.start, o.row + 1) <= MaxBytes
                      THEN o.row + 1 ELSE Unbound
  <2>1. Len(rows) \in Nat
    BY <1>1
  <2> QED
    BY <1>1, <2>1 DEF OriginalTells
<1>3. /\ Bound(o, Segments) <=> Unbroken(o.start, o.row)
      /\ GroupOf(o) # "unclear_signal" => Unbroken(o.start, o.row + 1)
      /\ Unbroken(o.start, o.row + 1) /\ rows[o.row + 1].related
           => GroupOf(o) = Signal(rows[o.row + 1].label)
  BY <1>1, GroupTells
<1>4. Unbroken(o.start, o.row) <=> \A i \in o.start .. o.row : Selectable(rows[i])
  BY <1>1, <1>2, MappedIsUnbroken
<1>5. ASSUME Unbroken(o.start, o.row + 1)
      PROVE  o.feedback = o.row + 1 <=> Kept(o.start, o.row + 1)
  <2>1. PICK n, s : n \in Nat /\ s \in 1 .. n /\ n = o.row /\ s = o.start
    BY <1>2
  <2>2. /\ n + 1 \in 1 .. Len(rows) /\ rows[n + 1].number = n + 1 - s
        /\ Selectable(rows[n + 1])
        /\ rows[n + 1].turn = TurnAt(n + 1 - s) /\ rows[n + 1].role = RoleAt(n + 1 - s)
    BY <1>1, <1>5, <2>1, n + 1 \in s .. n + 1 DEF Unbroken
  <2>3. Fits(rows[n + 1], n + 1 - s) <=> rows[n + 1].bytes > 0
    BY <2>2 DEF Fits, Selectable, Unreadable
  <2>4. Mapped(rows, s, n + 1) <=> rows[n + 1].bytes > 0
    <3>1. PICK file : file = rows
      OBVIOUS
    <3>2. Mapped(file, s, n + 1) <=> Mapped(file, s, n) /\ Fits(file[n + 1], n + 1 - s)
      BY <2>1, MappedLonger
    <3> QED
      BY <1>2, <2>1, <2>3, <3>1, <3>2
  <2>5. n + 1 # Unbound /\ (n + 1 \in 1 .. prepared <=> n + 1 <= prepared)
    BY <1>1, <2>1, SourceAssumption
  <2> QED
    BY <1>2, <2>1, <2>4, <2>5 DEF Kept
<1>6. o.feedback # Unbound => o.feedback = o.row + 1
  BY <1>2
<1> QED
  BY <1>3, <1>4, <1>5, <1>6

\* The two readers of a source file cut it alike wherever both can read it, and a signal is
\* of the turn that follows its target, for files of any length and any rows.
THEOREM SignalsFollowTargets == SourceSpec => []FeedbackIsOfNextTurn
BY SourceInvariance, FeedbackFollows, PTL

-----------------------------------------------------------------------------
(* The catalogue *)

N == Len(Catalog)
Upto(n) == {Catalog[i] : i \in 1..n}

\* The reasons are finitely many, and the catalogue names each of them once.
LEMMA CatalogFacts ==
  /\ N \in Nat /\ \A n \in 1..N : Catalog[n] \in Reasons /\ n - 1 \in 0..N
  /\ IsFiniteSet(Reasons) /\ Upto(N) = Reasons
  /\ \A n \in 1..N : Catalog[n] \notin Upto(n - 1) /\ Upto(n) = Upto(n - 1) \cup {Catalog[n]}
  /\ \A r \in Reasons : QuestionBytes[r] \in Nat /\ QuestionBytes[r] > 0
<1>1. N \in Nat /\ DOMAIN Catalog = 1..N /\ Reasons = Upto(N)
  BY CatalogAssumption DEF N, Upto, Reasons, ToSet
<1>2. IsFiniteSet(Reasons)
  <2>1. IsFiniteSet(1..N)
    BY <1>1, FS_Interval
  <2>2. Catalog \in Surjection(1..N, Reasons)
    BY <1>1, CatalogAssumption DEF Upto, Surjection
  <2> QED BY <2>1, <2>2, FS_Surjection
<1>3. \A n \in 1..N : Catalog[n] \in Reasons /\ n - 1 \in 0..N
  BY <1>1 DEF Upto
<1>4. ASSUME NEW n \in 1..N
      PROVE  Catalog[n] \notin Upto(n - 1) /\ Upto(n) = Upto(n - 1) \cup {Catalog[n]}
  <2>1. 1..n = (1..(n - 1)) \cup {n} /\ 1..n \subseteq 1..N /\ n \notin 1..(n - 1)
    BY <1>1
  <2>2. \A i, j \in 1..N : Catalog[i] = Catalog[j] => i = j
    BY <1>1, CatalogAssumption
  <2> QED BY <2>1, <2>2 DEF Upto
<1> QED BY <1>1, <1>2, <1>3, <1>4, CatalogAssumption

-----------------------------------------------------------------------------
(* The loops over the catalogue *)

NoPackets == [packets |-> << >>, current |-> {}, limited |-> FALSE]
Packets == [packets : Seq(SUBSET Reasons), current : SUBSET Reasons, limited : BOOLEAN]

\* What plan_reasons has after each reason.
LEMMA PackingIs ==
  ASSUME NEW state, NEW keys, NEW P, P = Packing(state, keys)
  PROVE  /\ P \in [0..N -> Packets] /\ P[0] = NoPackets
         /\ \A n \in 1..N : P[n] = IF Catalog[n] \in keys /\ ~P[n - 1].limited
                                     THEN Place(state, P[n - 1], Catalog[n]) ELSE P[n - 1]
<1> DEFINE Step(n, x) == IF Catalog[n] \in keys /\ ~x.limited THEN Place(state, x, Catalog[n]) ELSE x
           F == [n \in 1..N |-> [x \in Packets |-> Step(n, x)]]
           IsP(t) == t = [n \in 0..N |-> IF n = 0 THEN NoPackets ELSE Step(n, t[n - 1])]
<1>1. P = CHOOSE t : IsP(t)
  BY DEF Packing, NoPackets, N
<1>2. \A n \in 1..N, x \in Packets : Step(n, x) \in Packets
  <2> SUFFICES ASSUME NEW n \in 1..N, NEW x \in Packets
               PROVE  Place(state, x, Catalog[n]) \in Packets
    OBVIOUS
  <2>1. Catalog[n] \in Reasons
    BY CatalogFacts
  <2> QED BY <2>1 DEF Place, Packets
<1>3. \A n \in 1..N, x \in Packets : F[n][x] = Step(n, x)
  OBVIOUS
<1>4. NoPackets \in Packets /\ N \in Nat
  BY CatalogFacts DEF NoPackets, Packets
<1> HIDE DEF F
<1>5. PICK t : IsTable(t, N, Packets, NoPackets, F)
  <2>1. Within(F, N, Packets)
    BY <1>2, <1>3 DEF Within
  <2> HIDE DEF Step
  <2> QED BY <2>1, <1>4, TableExists
<1>6. IsP(t) /\ t \in [0..N -> Packets]
  <2>1. \A n \in 1..N : n - 1 \in 0..N /\ F[n][t[n - 1]] = Step(n, t[n - 1])
    <3> SUFFICES ASSUME NEW n \in 1..N
                 PROVE  n - 1 \in 0..N /\ F[n][t[n - 1]] = Step(n, t[n - 1])
      OBVIOUS
    <3>1. t[n - 1] \in Packets /\ n - 1 \in 0..N
      BY <1>4, <1>5 DEF IsTable
    <3> HIDE DEF Step
    <3> QED BY <3>1, <1>3
  <2>2. \A n \in 0..N : t[n] = IF n = 0 THEN NoPackets ELSE Step(n, t[n - 1])
    <3>1. \A n \in 0..N : t[n] = IF n = 0 THEN NoPackets ELSE F[n][t[n - 1]]
      BY <1>5 DEF IsTable
    <3>2. \A n \in 0..N : n # 0 => n \in 1..N
      BY <1>4
    <3> HIDE DEF Step
    <3> QED BY <2>1, <3>1, <3>2
  <2>3. t = [n \in 0..N |-> t[n]] /\ t \in [0..N -> Packets]
    BY <1>5 DEF IsTable
  <2> HIDE DEF Step
  <2> QED BY <2>2, <2>3
<1>7. IsP(P)
  <2> HIDE DEF IsP
  <2> QED BY <1>1, <1>6
<1>8. P[0] = NoPackets /\ \A n \in 1..N : P[n] = Step(n, P[n - 1]) /\ n - 1 \in 0..N
  <2> HIDE DEF Step
  <2> QED BY <1>4, <1>7
<1>9. P = t
  <2> DEFINE B == {n \in 0..N : P[n] # t[n]}
  <2>1. B = {}
    <3> SUFFICES ASSUME B # {} PROVE FALSE
      OBVIOUS
    <3>1. PICK n \in B : \A m \in B : n <= m
      <4>1. B \subseteq Nat
        BY <1>4
      <4> HIDE DEF B
      <4> QED BY <4>1, SmallestNat
    <3>2. n # 0 => n - 1 \in 0..N /\ n - 1 \notin B
      BY <1>4, <3>1
    <3> HIDE DEF Step
    <3> QED BY <1>6, <1>7, <3>1, <3>2
  <2> HIDE DEF Step
  <2> QED BY <2>1, <1>6, <1>7
<1> QED BY <1>6, <1>8, <1>9
NoWeight(base) == [packets |-> 0, bytes |-> base, count |-> 0, limited |-> FALSE]
Weights == [packets : Int, bytes : Int, count : Int, limited : BOOLEAN]

\* What plan_possible_routes has after each reason.
LEMMA WeighingIs ==
  ASSUME NEW base \in Int, NEW keys, NEW comma \in Int, NEW P, P = Weighing(base, keys, comma)
  PROVE  /\ P \in [0..N -> Weights] /\ P[0] = NoWeight(base)
         /\ \A n \in 1..N : P[n] = IF Catalog[n] \in keys /\ ~P[n - 1].limited
                                     THEN AddLength(base, P[n - 1], Catalog[n], comma) ELSE P[n - 1]
<1> DEFINE Step(n, x) == IF Catalog[n] \in keys /\ ~x.limited THEN AddLength(base, x, Catalog[n], comma) ELSE x
           F == [n \in 1..N |-> [x \in Weights |-> Step(n, x)]]
           IsP(t) == t = [n \in 0..N |-> IF n = 0 THEN NoWeight(base) ELSE Step(n, t[n - 1])]
<1>1. P = CHOOSE t : IsP(t)
  BY DEF Weighing, NoWeight, N
<1>2. \A n \in 1..N, x \in Weights : Step(n, x) \in Weights
  <2> SUFFICES ASSUME NEW n \in 1..N, NEW x \in Weights
               PROVE  AddLength(base, x, Catalog[n], comma) \in Weights
    OBVIOUS
  <2>1. QuestionBytes[Catalog[n]] \in Int /\ TARGET_BYTES \in Int /\ MAX_REASON_PACKETS \in Int
    BY CatalogFacts, CatalogAssumption
  <2>2. /\ x.bytes \in Int /\ x.packets \in Int /\ x.count \in Int /\ x.limited \in BOOLEAN
        /\ \A b, c \in Int : [x EXCEPT !.bytes = b, !.count = c] \in Weights
    BY DEF Weights
  <2> DEFINE longer == x.bytes + QuestionBytes[Catalog[n]] + (IF x.count = 0 THEN 0 ELSE comma)
             packets == IF x.count = 0 THEN x.packets ELSE x.packets + 1
  <2>3. longer \in Int /\ packets \in Int /\ x.count + 1 \in Int /\ base + QuestionBytes[Catalog[n]] \in Int
    <3> DEFINE q == QuestionBytes[Catalog[n]]
               b == x.bytes
               c == x.count
               m == x.packets
               e == IF x.count = 0 THEN 0 ELSE comma
    <3>1. q \in Int /\ b \in Int /\ c \in Int /\ m \in Int /\ e \in Int
      BY <2>1, <2>2
    <3> HIDE DEF q, b, c, m, e
    <3>2. b + q + e \in Int /\ m + 1 \in Int /\ c + 1 \in Int /\ base + q \in Int
      BY <3>1
    <3>3. longer = b + q + e /\ packets = IF x.count = 0 THEN m ELSE m + 1
      BY DEF q, b, c, m, e
    <3> QED BY <3>1, <3>2, <3>3 DEF q, c
  <2>4. AddLength(base, x, Catalog[n], comma) =
          IF longer <= TARGET_BYTES THEN [x EXCEPT !.bytes = longer, !.count = x.count + 1]
          ELSE [packets |-> packets, bytes |-> base + QuestionBytes[Catalog[n]], count |-> 1,
                limited |-> \/ base + QuestionBytes[Catalog[n]] > TARGET_BYTES
                            \/ packets >= MAX_REASON_PACKETS]
    BY DEF AddLength
  <2> HIDE DEF longer, packets
  <2>5. CASE longer <= TARGET_BYTES
    BY <2>2, <2>3, <2>4, <2>5
  <2>6. CASE ~(longer <= TARGET_BYTES)
    BY <2>3, <2>4, <2>6 DEF Weights
  <2> QED BY <2>5, <2>6
<1>3. \A n \in 1..N, x \in Weights : F[n][x] = Step(n, x)
  OBVIOUS
<1>4. NoWeight(base) \in Weights /\ N \in Nat
  BY CatalogFacts DEF NoWeight, Weights
<1> HIDE DEF F
<1>5. PICK t : IsTable(t, N, Weights, NoWeight(base), F)
  <2>1. Within(F, N, Weights)
    BY <1>2, <1>3 DEF Within
  <2> HIDE DEF Step
  <2> QED BY <2>1, <1>4, TableExists
<1>6. IsP(t) /\ t \in [0..N -> Weights]
  <2>1. \A n \in 1..N : n - 1 \in 0..N /\ F[n][t[n - 1]] = Step(n, t[n - 1])
    <3> SUFFICES ASSUME NEW n \in 1..N
                 PROVE  n - 1 \in 0..N /\ F[n][t[n - 1]] = Step(n, t[n - 1])
      OBVIOUS
    <3>1. t[n - 1] \in Weights /\ n - 1 \in 0..N
      BY <1>4, <1>5 DEF IsTable
    <3> HIDE DEF Step
    <3> QED BY <3>1, <1>3
  <2>2. \A n \in 0..N : t[n] = IF n = 0 THEN NoWeight(base) ELSE Step(n, t[n - 1])
    <3>1. \A n \in 0..N : t[n] = IF n = 0 THEN NoWeight(base) ELSE F[n][t[n - 1]]
      BY <1>5 DEF IsTable
    <3>2. \A n \in 0..N : n # 0 => n \in 1..N
      BY <1>4
    <3> HIDE DEF Step
    <3> QED BY <2>1, <3>1, <3>2
  <2>3. t = [n \in 0..N |-> t[n]] /\ t \in [0..N -> Weights]
    BY <1>5 DEF IsTable
  <2> HIDE DEF Step
  <2> QED BY <2>2, <2>3
<1>7. IsP(P)
  <2> HIDE DEF IsP
  <2> QED BY <1>1, <1>6
<1>8. P[0] = NoWeight(base) /\ \A n \in 1..N : P[n] = Step(n, P[n - 1]) /\ n - 1 \in 0..N
  <2> HIDE DEF Step
  <2> QED BY <1>4, <1>7
<1>9. P = t
  <2> DEFINE B == {n \in 0..N : P[n] # t[n]}
  <2>1. B = {}
    <3> SUFFICES ASSUME B # {} PROVE FALSE
      OBVIOUS
    <3>1. PICK n \in B : \A m \in B : n <= m
      <4>1. B \subseteq Nat
        BY <1>4
      <4> HIDE DEF B
      <4> QED BY <4>1, SmallestNat
    <3>2. n # 0 => n - 1 \in 0..N /\ n - 1 \notin B
      BY <1>4, <3>1
    <3> HIDE DEF Step
    <3> QED BY <1>6, <1>7, <3>1, <3>2
  <2> HIDE DEF Step
  <2> QED BY <2>1, <1>6, <1>7
<1> QED BY <1>6, <1>8, <1>9

-----------------------------------------------------------------------------
(* Lengths *)

Asked(questions) == SumFunctionOnSet(QuestionBytes, questions)

\* The questions of a set are counted and weighed.
LEMMA QuestionsWeigh ==
  ASSUME NEW q \in SUBSET Reasons
  PROVE  /\ IsFiniteSet(q) /\ Cardinality(q) \in Nat /\ (Cardinality(q) = 0 <=> q = {})
         /\ Asked(q) \in Nat /\ Asked({}) = 0
<1>1. IsFiniteSet(q)
  BY CatalogFacts, FS_Subset
<1>2. \A r \in q : QuestionBytes[r] \in Int /\ QuestionBytes[r] >= 0
  BY CatalogFacts
<1>3. Asked(q) \in Int /\ Asked(q) >= 0
  BY <1>1, <1>2, SumType DEF Asked
<1>4. Asked({}) = 0
  BY FS_EmptySet, SumStep DEF Asked
<1> QED BY <1>1, <1>3, <1>4, FS_CardinalityType, FS_EmptySet

\* One more question adds its length and a comma, unless it is the first.
LEMMA OneMore ==
  ASSUME NEW state \in Int, NEW q \in SUBSET Reasons, NEW r \in Reasons, r \notin q
  PROVE  /\ Asked(q \cup {r}) = Asked(q) + QuestionBytes[r]
         /\ Cardinality(q \cup {r}) = Cardinality(q) + 1
         /\ RequestBytes(state, q \cup {r}) = state + Asked(q) + QuestionBytes[r] + Cardinality(q)
<1>1. IsFiniteSet(q) /\ Cardinality(q) \in Nat /\ Asked(q) \in Nat
  BY QuestionsWeigh
<1>2. QuestionBytes[r] \in Nat /\ \A x \in q \cup {r} : QuestionBytes[x] \in Int
  BY CatalogFacts
<1>3. Asked(q \cup {r}) = QuestionBytes[r] + Asked(q)
  BY <1>1, <1>2, SumExtend DEF Asked
<1>4. Cardinality(q \cup {r}) = Cardinality(q) + 1
  BY <1>1, FS_AddElement
<1> QED BY <1>1, <1>2, <1>3, <1>4 DEF RequestBytes, Asked

\* Fewer questions over a shorter state are shorter.
LEMMA FewerAreShorter ==
  ASSUME NEW a \in Int, NEW b \in Int, a <= b,
         NEW p, NEW q \in SUBSET Reasons, p \subseteq q
  PROVE  /\ RequestBytes(a, p) \in Int /\ RequestBytes(b, q) \in Int
         /\ RequestBytes(a, p) <= RequestBytes(b, q)
<1>1. p \in SUBSET Reasons
  OBVIOUS
<1>2. /\ IsFiniteSet(q) /\ Cardinality(q) \in Nat /\ Cardinality(p) \in Nat
      /\ Asked(q) \in Nat /\ Asked(p) \in Nat
  BY <1>1, QuestionsWeigh
<1>3. Cardinality(p) <= Cardinality(q)
  BY <1>2, FS_Subset
<1>4. Asked(p) <= Asked(q)
  BY <1>2, CatalogFacts, SumMonotone DEF Asked
<1> QED BY <1>2, <1>3, <1>4 DEF RequestBytes, Asked

\* So is the state of fewer reasons.
LEMMA StateShrinks ==
  ASSUME NEW value, value.bytes \in Nat, NEW p, NEW q \in SUBSET Reasons, p \subseteq q
  PROVE  /\ StateBytes(value, p) \in Int /\ StateBytes(value, q) \in Int
         /\ StateBytes(value, p) <= StateBytes(value, q)
<1> DEFINE E == DOMAIN EvidenceBytes
           Total(x) == SumFunctionOnSet(EvidenceBytes, Requirements(x))
<1>1. Requirements(p) \subseteq Requirements(q) /\ Requirements(q) \subseteq E
  BY CatalogAssumption DEF Requirements
<1>2. IsFiniteSet(Requirements(q)) /\ IsFiniteSet(Requirements(p))
  BY <1>1, CatalogAssumption, FS_Subset
<1>3. \A k \in Requirements(q) : EvidenceBytes[k] \in Nat
  BY <1>1, CatalogAssumption
<1>4. Total(p) <= Total(q)
  BY <1>1, <1>2, <1>3, SumMonotone
<1>5. Total(p) \in Int /\ Total(q) \in Int
  BY <1>1, <1>2, <1>3, SumType
<1> HIDE DEF Total
<1>6. StateBytes(value, p) = value.bytes + Total(p) /\ StateBytes(value, q) = value.bytes + Total(q)
  BY DEF StateBytes, Total
<1> QED BY <1>4, <1>5, <1>6

-----------------------------------------------------------------------------
(* Packing *)

Content(packets) == UNION {packets[i] : i \in DOMAIN packets}

LEMMA ContentGrows ==
  ASSUME NEW V, NEW packets \in Seq(V), NEW p
  PROVE  Content(Append(packets, p)) = p \cup Content(packets)
<1> DEFINE k == Len(packets)
           more == Append(packets, p)
<1>1. /\ k \in Nat /\ DOMAIN more = 1..(k + 1) /\ DOMAIN packets = 1..k
      /\ more[k + 1] = p /\ \A i \in 1..k : more[i] = packets[i]
  OBVIOUS
<1>2. 1..(k + 1) = (1..k) \cup {k + 1}
  BY <1>1
<1> HIDE DEF more, k
<1>3. Content(more) = p \cup Content(packets)
  BY <1>1, <1>2 DEF Content
<1> QED BY <1>3 DEF more

\* What an unfinished plan has after n entries of the catalogue: their reasons, each packet
\* closed because of another one, and room for the packet that is open.
Packed(p, keys, n) ==
  ~p.limited =>
    /\ p.current \cup Content(p.packets) = keys \cap Upto(n)
    /\ p.current = {} => p.packets = << >>
    /\ Len(p.packets) < MAX_REASON_PACKETS

LEMMA PackedAlways ==
  ASSUME NEW state \in Int, NEW keys \in SUBSET Reasons, NEW P, P = Packing(state, keys)
  PROVE  \A n \in 0..N : Packed(P[n], keys, n)
<1>1. /\ P \in [0..N -> Packets] /\ P[0] = NoPackets
      /\ \A n \in 1..N : P[n] = IF Catalog[n] \in keys /\ ~P[n - 1].limited
                                  THEN Place(state, P[n - 1], Catalog[n]) ELSE P[n - 1]
  BY PackingIs
<1> DEFINE S == {n \in 0..N : Packed(P[n], keys, n)}
<1>2. 0 \in S
  <2>1. Upto(0) = {} /\ Content(<< >>) = {} /\ Len(<< >>) = 0 /\ 0 < MAX_REASON_PACKETS /\ 0 \in 0..N
    BY CatalogAssumption, CatalogFacts DEF Upto, Content
  <2> QED BY <1>1, <2>1 DEF NoPackets, Packed
<1>3. ASSUME NEW n \in 1..N, n - 1 \in S PROVE n \in S
  <2> DEFINE p == P[n - 1]
             r == Catalog[n]
             packets == IF p.current = {} THEN p.packets ELSE Append(p.packets, p.current)
  <2>1. /\ n \in 0..N /\ n - 1 \in 0..N /\ r \in Reasons
        /\ Upto(n) = Upto(n - 1) \cup {r} /\ r \notin Upto(n - 1)
    BY CatalogFacts
  <2>2. Packed(p, keys, n - 1) /\ p \in Packets
    BY <1>1, <1>3, <2>1
  <2>3. CASE ~(r \in keys /\ ~p.limited)
    <3>1. P[n] = p
      BY <1>1, <2>3
    <3>2. ~p.limited => keys \cap Upto(n) = keys \cap Upto(n - 1)
      BY <2>1, <2>3
    <3> HIDE DEF p, r
    <3> QED BY <2>1, <2>2, <3>1, <3>2 DEF Packed
  <2>4. CASE r \in keys /\ ~p.limited
    <3>1. P[n] = Place(state, p, r)
      BY <1>1, <2>4
    <3>2. keys \cap Upto(n) = (keys \cap Upto(n - 1)) \cup {r}
      BY <2>1, <2>4
    <3> HIDE DEF p, r
    <3>3. CASE RequestBytes(state, p.current \cup {r}) <= TARGET_BYTES
      <4>1. P[n] = [p EXCEPT !.current = @ \cup {r}]
        BY <3>1, <3>3 DEF Place
      <4>2. P[n].current = p.current \cup {r} /\ P[n].packets = p.packets /\ P[n].limited = p.limited
        BY <2>2, <4>1 DEF Packets
      <4> QED BY <2>1, <2>2, <2>4, <3>2, <4>2 DEF Packed
    <3>4. CASE ~(RequestBytes(state, p.current \cup {r}) <= TARGET_BYTES)
      <4>1. /\ P[n].packets = packets /\ P[n].current = {r}
            /\ ~P[n].limited => ~(Len(packets) >= MAX_REASON_PACKETS)
        BY <3>1, <3>4 DEF Place
      <4>2. Content(packets) = p.current \cup Content(p.packets)
        <5>1. p.packets \in Seq(SUBSET Reasons)
          BY <2>2 DEF Packets
        <5>2. Content(Append(p.packets, p.current)) = p.current \cup Content(p.packets)
          BY <5>1, ContentGrows
        <5> QED BY <5>2
      <4>3. Len(packets) \in Int
        <5>1. p.packets \in Seq(SUBSET Reasons) /\ p.current \in SUBSET Reasons
          BY <2>2 DEF Packets
        <5>2. packets \in Seq(SUBSET Reasons)
          BY <5>1
        <5> HIDE DEF packets
        <5> QED BY <5>2
      <4> HIDE DEF packets
      <4>4. MAX_REASON_PACKETS \in Int
        BY CatalogAssumption
      <4> QED BY <2>1, <2>2, <2>4, <3>2, <4>1, <4>2, <4>3, <4>4 DEF Packed
    <3> QED BY <3>3, <3>4
  <2> QED BY <2>3, <2>4
<1> HIDE DEF S
<1>4. \A n \in 0..N : n \in S
  BY <1>2, <1>3, CatalogFacts, LoopInduction
<1> QED BY <1>4 DEF S
-----------------------------------------------------------------------------
(* The plan before any answer *)

\* The estimate keeps count and length of the plan it stands for.
Weighed(w, p, base) ==
  /\ w.limited = p.limited
  /\ ~p.limited => /\ w.packets = Len(p.packets) /\ w.count = Cardinality(p.current)
                   /\ w.bytes = base + Asked(p.current)
                                  + (IF p.current = {} THEN 0 ELSE Cardinality(p.current) - 1)

LEMMA WeighedAlways ==
  ASSUME NEW base \in Int, NEW keys \in SUBSET Reasons,
         NEW P, P = Packing(base, keys), NEW W, W = Weighing(base, keys, 1)
  PROVE  \A n \in 0..N : Weighed(W[n], P[n], base)
<1>1. /\ P \in [0..N -> Packets] /\ P[0] = NoPackets
      /\ \A n \in 1..N : P[n] = IF Catalog[n] \in keys /\ ~P[n - 1].limited
                                  THEN Place(base, P[n - 1], Catalog[n]) ELSE P[n - 1]
      /\ \A n \in 0..N : Packed(P[n], keys, n)
  BY PackingIs, PackedAlways
<1>2. /\ W \in [0..N -> Weights] /\ W[0] = NoWeight(base)
      /\ \A n \in 1..N : W[n] = IF Catalog[n] \in keys /\ ~W[n - 1].limited
                                  THEN AddLength(base, W[n - 1], Catalog[n], 1) ELSE W[n - 1]
  BY WeighingIs
<1> DEFINE S == {n \in 0..N : Weighed(W[n], P[n], base)}
<1>3. 0 \in S
  <2>1. /\ W[0].limited = FALSE /\ W[0].packets = 0 /\ W[0].count = 0 /\ W[0].bytes = base
        /\ P[0].limited = FALSE /\ P[0].packets = << >> /\ P[0].current = {}
    BY <1>1, <1>2 DEF NoPackets, NoWeight
  <2>2. Asked({}) = 0 /\ Cardinality({}) = 0 /\ 0 \in 0..N
    BY QuestionsWeigh, CatalogFacts, FS_EmptySet
  <2>3. Len(<< >>) = 0 /\ base = base + 0 + 0
    OBVIOUS
  <2>4. Weighed(W[0], P[0], base)
    BY <2>1, <2>2, <2>3 DEF Weighed
  <2> QED BY <2>2, <2>4
<1>4. ASSUME NEW n \in 1..N, n - 1 \in S PROVE n \in S
  <2> DEFINE p == P[n - 1]
             w == W[n - 1]
             r == Catalog[n]
  <2>1. n \in 0..N /\ n - 1 \in 0..N /\ r \in Reasons /\ r \notin Upto(n - 1)
    BY CatalogFacts
  <2>2. /\ Packed(p, keys, n - 1) /\ p \in Packets /\ w \in Weights /\ Weighed(w, p, base)
        /\ P[n] = IF r \in keys /\ ~p.limited THEN Place(base, p, r) ELSE p
        /\ W[n] = IF r \in keys /\ ~w.limited THEN AddLength(base, w, r, 1) ELSE w
    BY <1>1, <1>2, <1>4, <2>1
  <2> HIDE DEF p, w, r
  <2>3. CASE ~(r \in keys /\ ~p.limited)
    BY <2>1, <2>2, <2>3 DEF Weighed
  <2>4. CASE r \in keys /\ ~p.limited
    <3> DEFINE c == p.current
               b == base + Asked(c) + (IF c = {} THEN 0 ELSE Cardinality(c) - 1)
               longer == b + QuestionBytes[r] + (IF Cardinality(c) = 0 THEN 0 ELSE 1)
    <3>1. c \in SUBSET Reasons /\ r \notin c /\ p.packets \in Seq(SUBSET Reasons)
      BY <2>1, <2>2, <2>4 DEF Packets, Packed
    <3>2. /\ Cardinality(c) \in Nat /\ (Cardinality(c) = 0 <=> c = {}) /\ Asked(c) \in Nat /\ Asked({}) = 0
          /\ QuestionBytes[r] \in Nat
      BY <2>1, <3>1, QuestionsWeigh, CatalogFacts
    <3>3. /\ Asked(c \cup {r}) = Asked(c) + QuestionBytes[r]
          /\ Cardinality(c \cup {r}) = Cardinality(c) + 1
          /\ RequestBytes(base, c \cup {r}) = base + Asked(c) + QuestionBytes[r] + Cardinality(c)
      BY <2>1, <3>1, OneMore
    <3>4. /\ Asked({r}) = QuestionBytes[r] /\ Cardinality({r}) = 1
          /\ RequestBytes(base, {r}) = base + QuestionBytes[r]
      <4>1. {r} = {} \cup {r} /\ Cardinality({}) = 0
        BY FS_EmptySet
      <4>2. /\ Asked({} \cup {r}) = Asked({}) + QuestionBytes[r]
            /\ Cardinality({} \cup {r}) = Cardinality({}) + 1
            /\ RequestBytes(base, {} \cup {r}) = base + Asked({}) + QuestionBytes[r] + Cardinality({})
        BY <2>1, OneMore
      <4> QED BY <3>2, <4>1, <4>2
    <3>5. /\ w.packets = Len(p.packets) /\ w.count = Cardinality(c) /\ w.bytes = b
          /\ w.limited = FALSE /\ p.limited = FALSE
      BY <2>2, <2>4 DEF Weighed, Weights, Packets
    <3>6. longer = RequestBytes(base, c \cup {r}) /\ longer \in Int
      BY <3>2, <3>3
    <3>7. P[n] = Place(base, p, r) /\ W[n] = AddLength(base, w, r, 1)
      BY <2>2, <2>4, <3>5
    <3>8. w.bytes + QuestionBytes[r] + (IF w.count = 0 THEN 0 ELSE 1) = longer
      BY <3>5
    <3>9. CASE RequestBytes(base, c \cup {r}) <= TARGET_BYTES
      <4>1. P[n] = [p EXCEPT !.current = c \cup {r}] /\ W[n] = [w EXCEPT !.bytes = longer, !.count = w.count + 1]
        BY <3>6, <3>7, <3>8, <3>9 DEF Place, AddLength
      <4>2. /\ P[n].current = c \cup {r} /\ P[n].packets = p.packets /\ P[n].limited = p.limited
            /\ W[n].bytes = longer /\ W[n].count = w.count + 1 /\ W[n].packets = w.packets
            /\ W[n].limited = w.limited
        BY <2>2, <4>1 DEF Packets, Weights
      <4>3. longer = base + Asked(c \cup {r}) + (Cardinality(c \cup {r}) - 1)
        <5> HIDE DEF longer, c
        <5> QED BY <3>2, <3>3, <3>6
      <4>4. c \cup {r} # {}
        OBVIOUS
      <4> HIDE DEF longer, c
      <4>5. Weighed(W[n], P[n], base)
        BY <2>4, <3>3, <3>5, <4>2, <4>3, <4>4 DEF Weighed
      <4> QED BY <2>1, <4>5
    <3>10. CASE ~(RequestBytes(base, c \cup {r}) <= TARGET_BYTES)
      <4> DEFINE packets == IF c = {} THEN p.packets ELSE Append(p.packets, c)
      <4>1. /\ P[n] = [packets |-> packets, current |-> {r},
                       limited |-> \/ RequestBytes(base, {r}) > TARGET_BYTES
                                   \/ Len(packets) >= MAX_REASON_PACKETS]
            /\ W[n] = [packets |-> IF w.count = 0 THEN w.packets ELSE w.packets + 1,
                       bytes |-> base + QuestionBytes[r], count |-> 1,
                       limited |-> \/ base + QuestionBytes[r] > TARGET_BYTES
                                   \/ (IF w.count = 0 THEN w.packets ELSE w.packets + 1)
                                        >= MAX_REASON_PACKETS]
        <5> HIDE DEF longer
        <5> QED BY <3>6, <3>7, <3>8, <3>10 DEF Place, AddLength
      <4>2. Len(packets) = IF w.count = 0 THEN w.packets ELSE w.packets + 1
        BY <3>1, <3>2, <3>5
      <4>3. base + Asked({r}) + (Cardinality({r}) - 1) = base + QuestionBytes[r] /\ {r} # {}
        BY <3>2, <3>4
      <4> HIDE DEF packets, c, longer
      <4>4. /\ P[n].limited = W[n].limited /\ P[n].packets = packets /\ P[n].current = {r}
            /\ W[n].packets = Len(packets) /\ W[n].count = 1 /\ W[n].bytes = base + QuestionBytes[r]
        <5>1. /\ P[n].packets = packets /\ P[n].current = {r}
              /\ W[n].packets = (IF w.count = 0 THEN w.packets ELSE w.packets + 1)
              /\ W[n].count = 1 /\ W[n].bytes = base + QuestionBytes[r]
          BY <4>1
        <5>2. P[n].limited = \/ RequestBytes(base, {r}) > TARGET_BYTES
                             \/ Len(packets) >= MAX_REASON_PACKETS
          BY <4>1
        <5>3. W[n].limited = \/ base + QuestionBytes[r] > TARGET_BYTES
                             \/ Len(packets) >= MAX_REASON_PACKETS
          <6> DEFINE more == IF w.count = 0 THEN w.packets ELSE w.packets + 1
                     full == \/ base + QuestionBytes[r] > TARGET_BYTES
                             \/ more >= MAX_REASON_PACKETS
          <6>1. W[n] = [packets |-> more, bytes |-> base + QuestionBytes[r], count |-> 1, limited |-> full]
            BY <4>1
          <6> HIDE DEF more, full
          <6>2. W[n].limited = full
            BY <6>1
          <6>3. full = (\/ base + QuestionBytes[r] > TARGET_BYTES \/ Len(packets) >= MAX_REASON_PACKETS)
            BY <4>2 DEF full, more
          <6> QED BY <6>2, <6>3
        <5>4. P[n].limited = W[n].limited
          BY <3>4, <5>2, <5>3
        <5> QED BY <4>2, <5>1, <5>4
      <4>5. Weighed(W[n], P[n], base)
        BY <3>4, <4>3, <4>4 DEF Weighed
      <4> QED BY <2>1, <4>5
    <3> HIDE DEF c
    <3> QED BY <3>9, <3>10
  <2> QED BY <2>3, <2>4
<1> HIDE DEF S
<1>5. \A n \in 0..N : n \in S
  BY <1>3, <1>4, CatalogFacts, LoopInduction
<1> QED BY <1>5 DEF S

\* The estimate made before any answer is the number of the packets that the answers call
\* for, whatever the selection and however long the state, and never past the budget.
THEOREM WeighIsExact ==
  ASSUME NEW base \in Int, NEW keys \in SUBSET Reasons
  PROVE  /\ Len(Pack(base, keys).packets) = Weigh(base, keys)
         /\ Weigh(base, keys) \in 0..MAX_REASON_PACKETS
<1> DEFINE P == Packing(base, keys)
           W == Weighing(base, keys, 1)
           p == P[N]
           w == W[N]
<1>1. P \in [0..N -> Packets] /\ \A n \in 0..N : Packed(P[n], keys, n)
  BY PackingIs, PackedAlways
<1>2. \A n \in 0..N : Weighed(W[n], P[n], base)
  BY WeighedAlways
<1>3. N \in 0..N /\ MAX_REASON_PACKETS \in Nat \ {0}
  BY CatalogFacts, CatalogAssumption
<1> HIDE DEF P, W
<1>4. Packed(p, keys, N) /\ p \in Packets /\ Weighed(w, p, base)
  BY <1>1, <1>2, <1>3
<1>5. /\ Pack(base, keys).packets = IF p.limited THEN << >>
                                    ELSE IF p.current = {} THEN p.packets
                                    ELSE Append(p.packets, p.current)
      /\ Weigh(base, keys) = IF w.limited THEN 0 ELSE w.packets + (IF w.count = 0 THEN 0 ELSE 1)
  BY DEF Pack, Weigh, PacketsOf, P, W, N
<1> HIDE DEF p, w
<1>6. p.packets \in Seq(SUBSET Reasons) /\ p.current \in SUBSET Reasons
  BY <1>4 DEF Packets
<1>7. Cardinality(p.current) = 0 <=> p.current = {}
  BY <1>6, QuestionsWeigh
<1>8. Len(Append(p.packets, p.current)) = Len(p.packets) + 1 /\ Len(p.packets) \in Nat /\ Len(<< >>) = 0
  BY <1>6
<1> QED BY <1>3, <1>4, <1>5, <1>7, <1>8 DEF Packed, Weighed

\* The plan promises enough of any value, for any pair of routes.
LEMMA MaximumCovers ==
  ASSUME NEW value, value.bytes \in Nat, NEW task \in Tasks, NEW domain \in Domains
  PROVE  1 + Len(PlannedPackets(value, [task |-> task, domain |-> domain]).packets)
           <= MaximumRequests(value)
<1> DEFINE Keys(t, d) == Eligible(value, [task |-> t, domain |-> d])
           Promised(t, d) == Weigh(StateBytes(value, Keys(t, d)), Keys(t, d))
           S == {Promised(t, d) : t \in Tasks, d \in Domains}
<1>1. \A t \in Tasks, d \in Domains : Keys(t, d) \in SUBSET Reasons
  BY DEF Eligible
<1>2. \A t \in Tasks, d \in Domains : StateBytes(value, Keys(t, d)) \in Int
  <2> HIDE DEF Keys
  <2> QED BY <1>1, StateShrinks
<1>3. \A t \in Tasks, d \in Domains :
        /\ Len(PlannedPackets(value, [task |-> t, domain |-> d]).packets) = Promised(t, d)
        /\ Promised(t, d) \in 0..MAX_REASON_PACKETS
  <2>1. \A t, d : PlannedPackets(value, [task |-> t, domain |-> d])
                    = Pack(StateBytes(value, Keys(t, d)), Keys(t, d))
    BY DEF PlannedPackets
  <2> HIDE DEF Keys
  <2> QED BY <1>1, <1>2, <2>1, WeighIsExact
<1>4. MaximumRequests(value) = 1 + Max(S)
  BY DEF MaximumRequests
<1> HIDE DEF Promised, Keys
<1>5. S \subseteq 0..MAX_REASON_PACKETS /\ S # {} /\ MAX_REASON_PACKETS \in Nat /\ Promised(task, domain) \in S
  <2>1. \A x \in S : \E t \in Tasks, d \in Domains : x = Promised(t, d)
    OBVIOUS
  <2>2. Promised(task, domain) \in S
    OBVIOUS
  <2> HIDE DEF S
  <2> QED BY <1>3, <2>1, <2>2, CatalogAssumption
<1> HIDE DEF S
<1>6. Max(S) \in S /\ Promised(task, domain) <= Max(S)
  BY <1>5, MaxIs
<1>7. Max(S) \in Int /\ Promised(task, domain) \in Int
  <2>1. 0..MAX_REASON_PACKETS \subseteq Int
    BY <1>5
  <2> QED BY <1>5, <1>6, <2>1
<1> QED BY <1>3, <1>4, <1>6, <1>7
-----------------------------------------------------------------------------
(* Fewer reasons *)

\* Of two plans in progress the second is not ahead of the first.
NotAhead(p, q) ==
  ~p.limited => /\ ~q.limited
                /\ \/ Len(q.packets) < Len(p.packets)
                   \/ Len(q.packets) = Len(p.packets) /\ q.current \subseteq p.current

\* A reason both plans put leaves the second behind or beside the first.
LEMMA PlaceKeepsOrder ==
  ASSUME NEW a \in Int, NEW b \in Int, a <= b, NEW r \in Reasons,
         NEW p \in Packets, NEW q \in Packets, ~p.limited, NotAhead(p, q),
         p.current = {} => p.packets = << >>, q.current = {} => q.packets = << >>,
         Len(p.packets) < MAX_REASON_PACKETS
  PROVE  NotAhead(Place(b, p, r), Place(a, q, r)) /\ NotAhead(Place(b, p, r), q)
<1> DEFINE fits(s, x) == RequestBytes(s, x.current \cup {r}) <= TARGET_BYTES
           alone(s) == RequestBytes(s, {r}) <= TARGET_BYTES
           closed(x) == IF x.current = {} THEN x.packets ELSE Append(x.packets, x.current)
           P == Place(b, p, r)
           Q == Place(a, q, r)
<1>1. /\ p.packets \in Seq(SUBSET Reasons) /\ p.current \in SUBSET Reasons /\ p.limited = FALSE
      /\ q.packets \in Seq(SUBSET Reasons) /\ q.current \in SUBSET Reasons /\ q.limited = FALSE
      /\ \/ Len(q.packets) < Len(p.packets)
         \/ Len(q.packets) = Len(p.packets) /\ q.current \subseteq p.current
  BY DEF Packets, NotAhead
<1>2. TARGET_BYTES \in Int /\ MAX_REASON_PACKETS \in Int
  BY CatalogAssumption
<1>3. /\ \A x \in {p, q} : fits(b, x) => alone(b) /\ alone(a)
      /\ alone(b) => alone(a)
      /\ q.current \subseteq p.current /\ fits(b, p) => fits(a, q)
  <2>1. ASSUME NEW u, NEW v \in SUBSET Reasons, u \subseteq v
        PROVE  RequestBytes(b, v) <= TARGET_BYTES => RequestBytes(a, u) <= TARGET_BYTES
    <3>1. /\ RequestBytes(a, u) \in Int /\ RequestBytes(b, v) \in Int
          /\ RequestBytes(a, u) <= RequestBytes(b, v)
      BY <2>1, FewerAreShorter
    <3> QED BY <1>2, <3>1
  <2>2. ASSUME NEW v \in SUBSET Reasons, {r} \subseteq v
        PROVE  RequestBytes(b, v) <= TARGET_BYTES => RequestBytes(b, {r}) <= TARGET_BYTES
    <3>1. /\ RequestBytes(b, {r}) \in Int /\ RequestBytes(b, v) \in Int
          /\ RequestBytes(b, {r}) <= RequestBytes(b, v)
      BY <2>2, FewerAreShorter
    <3> QED BY <1>2, <3>1
  <2>3. /\ p.current \cup {r} \in SUBSET Reasons /\ q.current \cup {r} \in SUBSET Reasons
        /\ {r} \subseteq p.current \cup {r} /\ {r} \subseteq q.current \cup {r} /\ {r} \in SUBSET Reasons
        /\ q.current \subseteq p.current => q.current \cup {r} \subseteq p.current \cup {r}
    BY <1>1
  <2> QED BY <2>1, <2>2, <2>3
<1>4. /\ Len(closed(p)) = IF p.current = {} THEN Len(p.packets) ELSE Len(p.packets) + 1
      /\ Len(closed(q)) = IF q.current = {} THEN Len(q.packets) ELSE Len(q.packets) + 1
      /\ Len(p.packets) \in Nat /\ Len(q.packets) \in Nat /\ Len(<< >>) = 0
      /\ p.current = {} => Len(p.packets) = 0
      /\ q.current = {} => Len(q.packets) = 0
  BY <1>1
<1>5. fits(b, p) => P.packets = p.packets /\ P.current = p.current \cup {r} /\ P.limited = FALSE
  BY <1>1 DEF Place, Packets
<1>6. fits(a, q) => Q.packets = q.packets /\ Q.current = q.current \cup {r} /\ Q.limited = FALSE
  BY <1>1 DEF Place, Packets
<1>7. ~fits(b, p) => /\ P.packets = closed(p) /\ P.current = {r}
                     /\ ~P.limited => alone(b) /\ ~(Len(closed(p)) >= MAX_REASON_PACKETS)
  <2>1. RequestBytes(b, {r}) \in Int
    BY FewerAreShorter
  <2> QED BY <1>2, <2>1 DEF Place
<1>8. ~fits(a, q) => /\ Q.packets = closed(q) /\ Q.current = {r}
                     /\ alone(a) /\ Len(closed(q)) < MAX_REASON_PACKETS => ~Q.limited
  <2>1. RequestBytes(a, {r}) \in Int /\ Len(closed(q)) \in Int
    BY <1>4, FewerAreShorter
  <2> QED BY <1>2, <2>1 DEF Place
<1>9. (q.current = {} /\ alone(a)) => fits(a, q)
  <2>1. q.current = {} => q.current \cup {r} = {r}
    OBVIOUS
  <2> QED BY <2>1
<1>10. (p.current = {} /\ alone(b)) => fits(b, p)
  <2>1. p.current = {} => p.current \cup {r} = {r}
    OBVIOUS
  <2> QED BY <2>1
<1> HIDE DEF P, Q, fits, alone, closed
<1>11. CASE fits(b, p) /\ fits(a, q)
  BY <1>1, <1>4, <1>5, <1>6, <1>11 DEF NotAhead, P, Q
<1>12. CASE fits(b, p) /\ ~fits(a, q)
  <2>1. ~(q.current \subseteq p.current) /\ alone(a) /\ q.current # {}
    BY <1>3, <1>9, <1>12
  <2>2. Len(q.packets) < Len(p.packets) /\ Len(closed(q)) = Len(q.packets) + 1
    BY <1>1, <1>4, <2>1
  <2> QED BY <1>1, <1>2, <1>4, <1>5, <1>8, <1>12, <2>1, <2>2 DEF NotAhead, P, Q
<1>13. CASE ~fits(b, p)
  <2> SUFFICES ASSUME ~P.limited PROVE NotAhead(P, Q) /\ NotAhead(P, q)
    BY DEF NotAhead, P, Q
  <2>1. alone(b) /\ alone(a) /\ p.current # {} /\ Len(closed(p)) = Len(p.packets) + 1
    BY <1>3, <1>4, <1>7, <1>10, <1>13
  <2>2. ~(Len(p.packets) + 1 >= MAX_REASON_PACKETS)
    BY <1>7, <1>13, <2>1
  <2>3. NotAhead(P, q)
    BY <1>1, <1>4, <1>7, <1>13, <2>1 DEF NotAhead
  <2>4. CASE fits(a, q)
    BY <1>1, <1>4, <1>6, <1>7, <1>13, <2>1, <2>3, <2>4 DEF NotAhead
  <2>5. CASE ~fits(a, q)
    <3>1. q.current # {} /\ Len(closed(q)) = Len(q.packets) + 1 /\ Len(q.packets) <= Len(p.packets)
      BY <1>1, <1>4, <1>9, <2>1, <2>5
    <3>2. Q.packets = closed(q) /\ Q.current = {r} /\ ~Q.limited
      BY <1>2, <1>4, <1>8, <2>1, <2>2, <2>5, <3>1
    <3> QED BY <1>4, <1>7, <1>13, <2>1, <2>3, <3>1, <3>2 DEF NotAhead
  <2> QED BY <2>3, <2>4, <2>5
<1> QED BY <1>11, <1>12, <1>13 DEF P, Q

\* A selection of which every reason was planned for before fits the budget as well: next fit,
\* with fewer questions over a shorter state, never opens more packets.
LEMMA FewerFit ==
  ASSUME NEW value, value.bytes \in Nat, NEW few, NEW many \in SUBSET Reasons, few \subseteq many,
         ~Pack(StateBytes(value, many), many).limited
  PROVE  ~Pack(StateBytes(value, few), few).limited
<1> DEFINE a == StateBytes(value, few)
           b == StateBytes(value, many)
           P == Packing(b, many)
           Q == Packing(a, few)
<1>1. a \in Int /\ b \in Int /\ a <= b /\ few \in SUBSET Reasons
  BY StateShrinks
<1> HIDE DEF a, b
<1>2. /\ P \in [0..N -> Packets] /\ P[0] = NoPackets
      /\ \A n \in 1..N : P[n] = IF Catalog[n] \in many /\ ~P[n - 1].limited
                                  THEN Place(b, P[n - 1], Catalog[n]) ELSE P[n - 1]
      /\ \A n \in 0..N : Packed(P[n], many, n)
  BY <1>1, PackingIs, PackedAlways
<1>3. /\ Q \in [0..N -> Packets] /\ Q[0] = NoPackets
      /\ \A n \in 1..N : Q[n] = IF Catalog[n] \in few /\ ~Q[n - 1].limited
                                  THEN Place(a, Q[n - 1], Catalog[n]) ELSE Q[n - 1]
      /\ \A n \in 0..N : Packed(Q[n], few, n)
  BY <1>1, PackingIs, PackedAlways
<1> HIDE DEF P, Q
<1> DEFINE S == {n \in 0..N : NotAhead(P[n], Q[n])}
<1>4. 0 \in S
  BY <1>2, <1>3, CatalogFacts DEF NotAhead, NoPackets
<1>5. ASSUME NEW n \in 1..N, n - 1 \in S PROVE n \in S
  <2> DEFINE p == P[n - 1]
             q == Q[n - 1]
             r == Catalog[n]
  <2>1. n \in 0..N /\ n - 1 \in 0..N /\ r \in Reasons
    BY CatalogFacts
  <2>2. /\ p \in Packets /\ q \in Packets /\ NotAhead(p, q)
        /\ Packed(p, many, n - 1) /\ Packed(q, few, n - 1)
        /\ P[n] = IF r \in many /\ ~p.limited THEN Place(b, p, r) ELSE p
        /\ Q[n] = IF r \in few /\ ~q.limited THEN Place(a, q, r) ELSE q
    BY <1>2, <1>3, <1>5, <2>1
  <2> HIDE DEF p, q, r
  <2>3. CASE p.limited
    BY <2>1, <2>2, <2>3 DEF NotAhead
  <2>4. CASE ~p.limited
    <3>1. /\ ~q.limited /\ Len(p.packets) < MAX_REASON_PACKETS
          /\ p.current = {} => p.packets = << >>
          /\ q.current = {} => q.packets = << >>
      BY <2>2, <2>4 DEF NotAhead, Packed
    <3>2. NotAhead(Place(b, p, r), Place(a, q, r)) /\ NotAhead(Place(b, p, r), q)
      BY <1>1, <2>1, <2>2, <2>4, <3>1, PlaceKeepsOrder
    <3>3. r \in few => r \in many
      OBVIOUS
    <3> QED BY <2>1, <2>2, <2>4, <3>1, <3>2, <3>3
  <2> QED BY <2>3, <2>4
<1> HIDE DEF S
<1>6. N \in S
  <2>1. N \in Nat /\ N \in 0..N
    BY CatalogFacts
  <2> QED BY <1>4, <1>5, <2>1, LoopInduction
<1>7. Pack(b, many).limited = P[N].limited /\ Pack(a, few).limited = Q[N].limited
  BY DEF Pack, P, Q, N
<1> QED BY <1>6, <1>7 DEF S, NotAhead, a, b

\* A plan within the budget asks for exactly what is eligible.
LEMMA PacketsHoldAll ==
  ASSUME NEW state \in Int, NEW keys \in SUBSET Reasons, ~Pack(state, keys).limited
  PROVE  Content(Pack(state, keys).packets) = keys
<1> DEFINE P == Packing(state, keys)
           p == P[N]
<1>1. P \in [0..N -> Packets] /\ (\A n \in 0..N : Packed(P[n], keys, n)) /\ N \in 0..N
  BY PackingIs, PackedAlways, CatalogFacts
<1> HIDE DEF P
<1>2. p \in Packets /\ Packed(p, keys, N)
  BY <1>1
<1>3. /\ Pack(state, keys).limited = p.limited
      /\ Pack(state, keys).packets = IF p.limited THEN << >>
                                     ELSE IF p.current = {} THEN p.packets
                                     ELSE Append(p.packets, p.current)
  BY DEF Pack, P, N
<1> HIDE DEF p
<1>4. p.current \cup Content(p.packets) = keys
  BY <1>2, <1>3, CatalogFacts DEF Packed
<1>5. p.packets \in Seq(SUBSET Reasons)
  BY <1>2 DEF Packets
<1>6. Content(Append(p.packets, p.current)) = p.current \cup Content(p.packets)
  BY <1>5, ContentGrows
<1> QED BY <1>3, <1>4, <1>6
-----------------------------------------------------------------------------
(* Labels *)

\* What reviewers know of a reason stays what it is when another opinion arrives.
LEMMA LabelStays ==
  ASSUME NEW labels \in Seq(Labels), NEW label \in Labels, NEW r \in Reasons,
         Known(LabelOf(labels).reasons[r])
  PROVE  LabelOf(Append(labels, label)).reasons[r] = LabelOf(labels).reasons[r]
<1> DEFINE more == Append(labels, label)
           n == Len(labels)
<1>1. /\ n \in Nat /\ Len(more) = n + 1
      /\ \A k \in 1..n : more[k] = labels[k]
  OBVIOUS
<1>2. ~Known(Unreviewed.reasons[r])
  BY DEF Unreviewed, Known
<1>3. Len(labels) >= (IF search.rule = "pair" THEN 2 ELSE 1)
  BY <1>1, <1>2 DEF LabelOf
<1> HIDE DEF more, n
<1>4. CASE search.rule = "pair"
  <2>1. more[1] = labels[1] /\ more[2] = labels[2] /\ ~(Len(more) < 2) /\ ~(Len(labels) < 2)
    BY <1>1, <1>3, <1>4 DEF n
  <2>2. LabelOf(more) = LabelOf(labels)
    BY <1>4, <2>1 DEF LabelOf
  <2> QED BY <2>2 DEF more
<1>5. CASE search.rule # "pair"
  <2>1. more[1] = labels[1] /\ ~(Len(more) < 1) /\ ~(Len(labels) < 1)
    BY <1>1, <1>3, <1>5 DEF n
  <2> DEFINE first == labels[1]
             Of(ls) == IF r \in Required(first)
                         THEN Reconciled(first.reasons[r], Nth(ls, 2).reasons[r], Nth(ls, 3).reasons[r])
                         ELSE first.reasons[r]
  <2>2. LabelOf(labels).reasons[r] = Of(labels) /\ LabelOf(more).reasons[r] = Of(more)
    BY <1>5, <2>1 DEF LabelOf, LabelOfHumans, Reviewed
  <2>3. \A k \in {2, 3} : Known(Nth(labels, k).reasons[r]) => Nth(more, k) = Nth(labels, k)
    BY <1>1, <1>2 DEF Nth, n
  <2> HIDE DEF first
  <2>4. Of(more) = Of(labels)
    BY <2>2, <2>3 DEF Reconciled, Known
  <2> QED BY <2>2, <2>4 DEF more
<1> QED BY <1>4, <1>5

-----------------------------------------------------------------------------
(* Evaluation *)

Routes(unit, policy) == Selected(unit.prediction.routes, policy.route)
Called(unit, policy) == Eligible(unit.value, Routes(unit, policy))
Judged(unit, policy, d) ==
  {r \in Called(unit, policy) \cap DOMAIN unit.prediction.answers :
     Decision(unit.prediction.answers[r], policy) = d}
Concrete(unit, policy) == {x \in {"task", "domain"} : Routes(unit, policy)[x] # "unknown"}

RouteEvent(unit, label, policy) ==
  Event({RouteOutcome(label.routes[axis], Routes(unit, policy)[axis]) : axis \in Concrete(unit, policy)})
ReasonEvent(unit, label, policy, d, supported) ==
  Event({Scored(label.reasons[r], supported) : r \in Judged(unit, policy, d)})

\* What evaluate_target returns of a target with a prediction.
LEMMA EvaluationIs ==
  ASSUME NEW unit, NEW label, NEW policy, unit.prediction # NoPrediction,
         NEW e, e = EvaluateTarget(unit, label, policy)
  PROVE  /\ e.events["route"] = RouteEvent(unit, label, policy)
         /\ e.events["yes"] = ReasonEvent(unit, label, policy, "yes", {"present"})
         /\ e.events["no"] = ReasonEvent(unit, label, policy, "no", {"absent", "out_of_scope"})
         /\ e.counterfactual = (Called(unit, policy) \ (Called(unit, policy) \cap DOMAIN unit.prediction.answers))
                                 \ Skipped(unit.prediction, Routes(unit, policy))
         /\ e.missing = FALSE
<1>1. ToSet(RISKS) = {"route", "yes", "no"}
  BY DEF ToSet, RISKS
<1> QED BY <1>1 DEF EvaluateTarget, RouteEvent, ReasonEvent, Judged, Called, Routes, Concrete

\* The same, risk by risk.
Events(unit, label, policy) ==
  [route |-> RouteEvent(unit, label, policy),
   yes |-> ReasonEvent(unit, label, policy, "yes", {"present"}),
   no |-> ReasonEvent(unit, label, policy, "no", {"absent", "out_of_scope"})]

\* The events of a target with a prediction are these.
LEMMA EventsAre ==
  ASSUME NEW unit, NEW label, NEW policy, unit.prediction # NoPrediction,
         NEW risk \in {"route", "yes", "no"}
  PROVE  EvaluateTarget(unit, label, policy).events[risk] = Events(unit, label, policy)[risk]
<1> DEFINE e == EvaluateTarget(unit, label, policy)
<1>1. e = EvaluateTarget(unit, label, policy)
  OBVIOUS
<1> HIDE DEF e
<1>2. /\ e.events["route"] = RouteEvent(unit, label, policy)
      /\ e.events["yes"] = ReasonEvent(unit, label, policy, "yes", {"present"})
      /\ e.events["no"] = ReasonEvent(unit, label, policy, "no", {"absent", "out_of_scope"})
  BY <1>1, EvaluationIs
<1>3. e.events[risk] = Events(unit, label, policy)[risk]
  BY <1>2 DEF Events
<1> QED BY <1>3 DEF e

\* The scores decide for one choice by the threshold of that choice alone.
LEMMA ThresholdsApart ==
  ASSUME NEW unit, NEW p, NEW q, p.route = q.route
  PROVE  /\ Routes(unit, p) = Routes(unit, q) /\ Called(unit, p) = Called(unit, q)
         /\ p.yes = q.yes => Judged(unit, p, "yes") = Judged(unit, q, "yes")
         /\ p["no"] = q["no"] => Judged(unit, p, "no") = Judged(unit, q, "no")
<1>1. Routes(unit, p) = Routes(unit, q) /\ Called(unit, p) = Called(unit, q)
  BY DEF Routes, Called
<1>2. \A answer : /\ Decision(answer, p) = "yes" <=> answer.choice = "yes" /\ Accepted(answer, p["yes"])
                  /\ Decision(answer, q) = "yes" <=> answer.choice = "yes" /\ Accepted(answer, q["yes"])
                  /\ Decision(answer, p) = "no" <=> answer.choice = "no" /\ Accepted(answer, p["no"])
                  /\ Decision(answer, q) = "no" <=> answer.choice = "no" /\ Accepted(answer, q["no"])
  BY DEF Decision
<1> QED BY <1>1, <1>2 DEF Judged

\* The target under a policy, collected anew without failures.
Recollected(unit, policy) ==
  [unit EXCEPT !.prediction = Outcome(unit.value, unit.answers, policy, {})]

\* What the two have in common.
LEMMA OutcomeIs ==
  ASSUME NEW value, NEW answers, NEW policy, NEW failed,
         NEW o, o = Outcome(value, answers, policy, failed),
         NEW routes, routes = Selected(answers.routes, policy.route),
         NEW keys, keys = Eligible(value, routes),
         NEW plan, plan = Pack(StateBytes(value, keys), keys)
  PROVE  /\ o # NoPrediction /\ o.routes = answers.routes /\ o.selected = routes
         /\ DOMAIN o.answers = UNION {plan.packets[i] : i \in DOMAIN plan.packets \ failed}
         /\ \A r \in DOMAIN o.answers : o.answers[r] = answers.reasons[r]
         /\ o.limited = IF plan.limited THEN keys ELSE {}
<1>1. o = [routes |-> answers.routes, selected |-> routes,
           answers |-> [r \in UNION {plan.packets[i] : i \in DOMAIN plan.packets \ failed} |->
                          answers.reasons[r]],
           limited |-> IF plan.limited THEN keys ELSE {}]
  BY DEF Outcome, PlannedPackets
<1>2. DOMAIN o = {"routes", "selected", "answers", "limited"} /\ DOMAIN NoPrediction = {"routes"}
  BY <1>1 DEF NoPrediction
<1> QED BY <1>1, <1>2

\* If a policy asks of a collected target nothing that was not asked, the collection anew asks
\* of what the policy calls for the same and gets the same answers.
LEMMA NothingNewIsTheSame ==
  ASSUME NEW w, w.value.bytes \in Nat, NEW failed, NEW policy, NEW label,
         NEW unit, unit = Collected(w, failed), NEW again, again = Recollected(unit, policy),
         NEW e, e = EvaluateTarget(unit, label, policy), e.counterfactual = {}, ~e.missing
  PROVE  /\ unit.prediction # NoPrediction /\ again.prediction # NoPrediction
         /\ Routes(again, policy) = Routes(unit, policy)
         /\ \A d : Judged(again, policy, d) = Judged(unit, policy, d)
<1> DEFINE routes == Selected(w.answers.routes, policy.route)
           keys == Eligible(w.value, routes)
           plan == Pack(StateBytes(w.value, keys), keys)
           then == Selected(w.answers.routes, Collection.route)
           asked == Eligible(w.value, then)
           done == Pack(StateBytes(w.value, asked), asked)
           u == unit.prediction
           a == again.prediction
<1>1. unit.prediction # NoPrediction
  BY DEF EvaluateTarget
<1>2. /\ unit.value = w.value /\ unit.answers = w.answers
      /\ u = Outcome(w.value, w.answers, Collection, failed)
      /\ again.value = w.value /\ a = Outcome(w.value, w.answers, policy, {})
  BY <1>1 DEF Collected, Recollected
<1>3. /\ u.routes = w.answers.routes /\ u.selected = then
      /\ DOMAIN u.answers = UNION {done.packets[i] : i \in DOMAIN done.packets \ failed}
      /\ \A r \in DOMAIN u.answers : u.answers[r] = w.answers.reasons[r]
      /\ u.limited = IF done.limited THEN asked ELSE {}
  BY <1>2, OutcomeIs
<1>4. /\ a # NoPrediction /\ a.routes = w.answers.routes
      /\ DOMAIN a.answers = Content(plan.packets)
      /\ \A r \in DOMAIN a.answers : a.answers[r] = w.answers.reasons[r]
  <2>1. /\ a # NoPrediction /\ a.routes = w.answers.routes
        /\ DOMAIN a.answers = UNION {plan.packets[i] : i \in DOMAIN plan.packets \ {}}
        /\ \A r \in DOMAIN a.answers : a.answers[r] = w.answers.reasons[r]
    BY <1>2, OutcomeIs
  <2>2. UNION {plan.packets[i] : i \in DOMAIN plan.packets \ {}} = Content(plan.packets)
    BY DEF Content
  <2> QED BY <2>1, <2>2
<1>5. /\ Routes(unit, policy) = routes /\ Routes(again, policy) = routes
      /\ Called(unit, policy) = keys /\ Called(again, policy) = keys
  BY <1>2, <1>3, <1>4 DEF Routes, Called
<1>6. (keys \ DOMAIN u.answers) \ (IF routes = then THEN u.limited ELSE {}) = {}
  <2>1. e.counterfactual = (keys \ (keys \cap DOMAIN u.answers)) \ Skipped(u, routes)
    <3>1. e.counterfactual = (Called(unit, policy) \ (Called(unit, policy) \cap DOMAIN unit.prediction.answers))
                               \ Skipped(unit.prediction, Routes(unit, policy))
      BY <1>1, EvaluationIs
    <3> QED BY <1>5, <3>1
  <2> QED BY <1>3, <2>1 DEF Skipped
<1>7. /\ keys \in SUBSET Reasons /\ asked \in SUBSET Reasons
      /\ StateBytes(w.value, keys) \in Int /\ StateBytes(w.value, asked) \in Int
  <2>1. keys \in SUBSET Reasons /\ asked \in SUBSET Reasons
    BY DEF Eligible
  <2> HIDE DEF keys, asked
  <2> QED BY <2>1, StateShrinks
<1>8. /\ ~done.limited => Content(done.packets) = asked
      /\ done.limited => done.packets = << >>
      /\ ~plan.limited => Content(plan.packets) = keys
      /\ plan.limited => plan.packets = << >>
  <2>1. \A s, k : Pack(s, k).limited => Pack(s, k).packets = << >>
    BY DEF Pack
  <2> HIDE DEF keys, asked
  <2> QED BY <1>7, <2>1, PacketsHoldAll
<1>9. Content(<< >>) = {} /\ DOMAIN u.answers \subseteq Content(done.packets)
  BY <1>3 DEF Content
<1>10. routes = then => plan = done /\ keys = asked
  OBVIOUS
<1>11. (keys \subseteq asked /\ ~done.limited) => ~plan.limited
  <2> HIDE DEF keys, asked
  <2> QED BY <1>7, FewerFit
<1> HIDE DEF keys, asked, routes, then, plan, done, u, a
<1>12. keys \cap DOMAIN a.answers = keys \cap DOMAIN u.answers
  <2>1. CASE done.limited
    <3>1. DOMAIN u.answers = {}
      BY <1>8, <1>9, <2>1
    <3>2. CASE routes = then
      BY <1>4, <1>8, <1>9, <1>10, <2>1, <3>1, <3>2
    <3>3. CASE routes # then
      <4>1. keys = {}
        BY <1>6, <3>1, <3>3
      <4> QED BY <4>1
    <3> QED BY <3>2, <3>3
  <2>2. CASE ~done.limited
    <3>1. keys \subseteq DOMAIN u.answers /\ keys \subseteq asked
      BY <1>3, <1>6, <1>8, <1>9, <2>2
    <3> QED BY <1>4, <1>8, <1>11, <2>2, <3>1
  <2> QED BY <2>1, <2>2
<1>13. \A r \in keys \cap DOMAIN u.answers : a.answers[r] = u.answers[r]
  BY <1>3, <1>4, <1>12
<1>14. \A d : Judged(again, policy, d) = Judged(unit, policy, d)
  BY <1>5, <1>12, <1>13 DEF Judged, u, a
<1> QED BY <1>1, <1>4, <1>5, <1>14 DEF a

\* Better labels make no event worse: only what was open may change.
Settled(o) == o \notin {"wrong", "missing"}

Outcomes(x, J) == {x[j] : j \in J}

LEMMA EventSettles ==
  ASSUME NEW J, NEW x, NEW y, \A j \in J : x[j] = "missing" \/ y[j] = x[j],
         \A j \in J : x[j] \in {"right", "wrong", "missing"}
  PROVE  /\ Event(Outcomes(x, J)) = "none" <=> J = {}
         /\ Event(Outcomes(y, J)) = "none" <=> J = {}
         /\ Settled(Event(Outcomes(x, J))) => Event(Outcomes(y, J)) = Event(Outcomes(x, J))
<1> DEFINE X == {x[j] : j \in J}
           Y == {y[j] : j \in J}
<1>1. \A O : Event(O) = "none" <=> O = {}
  BY DEF Event
<1>2. (X = {} <=> J = {}) /\ (Y = {} <=> J = {})
  OBVIOUS
<1>3. ASSUME Settled(Event(X)), J # {} PROVE Event(Y) = Event(X)
  <2>1. "wrong" \notin X /\ "missing" \notin X
    <3> HIDE DEF X
    <3> QED BY <1>2, <1>3 DEF Event, Settled
  <2>2. \A j \in J : x[j] = "right" /\ y[j] = "right"
    BY <2>1
  <2>3. X = {"right"} /\ Y = {"right"}
    BY <1>3, <2>2
  <2> QED BY <2>3
<1>4. J = {} => Event(Y) = Event(X)
  BY <1>2
<1> HIDE DEF X, Y
<1>5. /\ Event(X) = "none" <=> J = {}
      /\ Event(Y) = "none" <=> J = {}
      /\ Settled(Event(X)) => Event(Y) = Event(X)
  BY <1>1, <1>2, <1>3, <1>4
<1> QED BY <1>5 DEF X, Y, Outcomes

\* As many events and no more errors pass as well.
NoWorse(n, data, more, x, y, risk) ==
  /\ DOMAIN data = 1..n /\ DOMAIN more = 1..n
  /\ \A i \in 1..n :
       /\ more[i].source = data[i].source
       /\ y[i].events[risk] = "none" <=> x[i].events[risk] = "none"
       /\ Settled(x[i].events[risk]) => Settled(y[i].events[risk])

LEMMA PassesKept ==
  ASSUME NEW risk, NEW n \in 0..Len(Units), NEW data, NEW more, NEW x, NEW y,
         NoWorse(n, data, more, x, y, risk), Passes(data, x, risk)
  PROVE  Passes(more, y, risk)
<1> USE DEF NoWorse
<1> DEFINE sources == {data[i].source : i \in 1..n}
           these(s) == {i \in 1..n : data[i].source = s /\ x[i].events[risk] # "none"}
           worst(s) == {i \in these(s) : x[i].events[risk] \in {"wrong", "missing"}}
           worse(s) == {i \in these(s) : y[i].events[risk] \in {"wrong", "missing"}}
<1>1. sources = {more[i].source : i \in 1..n}
  OBVIOUS
<1>2. \A s : these(s) = {i \in 1..n : more[i].source = s /\ y[i].events[risk] # "none"}
  OBVIOUS
<1>3. \A s \in sources : /\ these(s) # {}
                         /\ Cardinality(worst(s)) <= Passing[Cardinality(sources)][Cardinality(these(s))]
  BY DEF Passes
<1>4. Passes(more, y, risk)
        = \A s \in sources : /\ these(s) # {}
                             /\ Cardinality(worse(s)) <= Passing[Cardinality(sources)][Cardinality(these(s))]
  <2> DEFINE theseOf(s) == {i \in 1..n : more[i].source = s /\ y[i].events[risk] # "none"}
             worstOf(s) == {i \in theseOf(s) : y[i].events[risk] \in {"wrong", "missing"}}
  <2>1. Passes(more, y, risk)
          = \A s \in {more[i].source : i \in 1..n} :
              /\ theseOf(s) # {}
              /\ Cardinality(worstOf(s))
                   <= Passing[Cardinality({more[i].source : i \in 1..n})][Cardinality(theseOf(s))]
    BY DEF Passes
  <2>2. \A s : theseOf(s) = these(s) /\ worstOf(s) = worse(s)
    BY <1>2
  <2> HIDE DEF sources, these, worse, theseOf, worstOf
  <2> QED BY <1>1, <2>1, <2>2
<1>5. n \in Nat /\ Len(Units) \in Nat /\ n <= Len(Units) /\ IsFiniteSet(1..n) /\ Cardinality(1..n) = n
  BY SearchAssumption, FS_Interval
<1>6. \A s : worse(s) \subseteq worst(s) /\ worst(s) \subseteq these(s) /\ these(s) \subseteq 1..n
  BY DEF Settled
<1>7. ASSUME NEW s \in sources PROVE Cardinality(sources) \in 1..Len(Units)
  <2> DEFINE f == [i \in 1..n |-> data[i].source]
  <2>1. f \in Surjection(1..n, sources)
    BY DEF Surjection
  <2>2. IsFiniteSet(sources) /\ Cardinality(sources) <= n
    <3> HIDE DEF f, sources
    <3> QED BY <1>5, <2>1, FS_Surjection
  <2>3. Cardinality(sources) \in Nat /\ Cardinality(sources) # 0
    <3> HIDE DEF sources
    <3> QED BY <1>7, <2>2, FS_CardinalityType, FS_EmptySet
  <2> HIDE DEF sources
  <2> QED BY <1>5, <2>2, <2>3
<1> HIDE DEF sources, these, worst, worse
<1>8. ASSUME NEW s \in sources
      PROVE  Cardinality(worse(s)) <= Passing[Cardinality(sources)][Cardinality(these(s))]
  <2>1. /\ IsFiniteSet(these(s)) /\ Cardinality(these(s)) \in Nat /\ Cardinality(these(s)) <= n
        /\ Cardinality(these(s)) # 0
    BY <1>3, <1>5, <1>6, FS_Subset, FS_CardinalityType, FS_EmptySet
  <2>2. IsFiniteSet(worst(s)) /\ Cardinality(worst(s)) \in Nat
    BY <1>6, <2>1, FS_Subset, FS_CardinalityType
  <2>3. Cardinality(worse(s)) \in Nat /\ Cardinality(worse(s)) <= Cardinality(worst(s))
    BY <1>6, <2>2, FS_Subset, FS_CardinalityType
  <2>4. Cardinality(these(s)) \in 1..Len(Units) /\ Cardinality(sources) \in 1..Len(Units)
    BY <1>5, <1>7, <2>1
  <2>5. Passing[Cardinality(sources)][Cardinality(these(s))] \in Int
    BY <2>4, SearchAssumption
  <2>6. Cardinality(worst(s)) <= Passing[Cardinality(sources)][Cardinality(these(s))]
    BY <1>3
  <2> DEFINE bound == Passing[Cardinality(sources)][Cardinality(these(s))]
  <2> HIDE DEF bound
  <2>7. bound \in Int /\ Cardinality(worst(s)) <= bound
    BY <2>5, <2>6 DEF bound
  <2>8. Cardinality(worse(s)) <= bound
    BY <2>2, <2>3, <2>7
  <2> QED BY <2>8 DEF bound
<1> QED BY <1>3, <1>4, <1>8

-----------------------------------------------------------------------------
(* The study *)

Gathered == {Collected(u, failed) : u \in UNION {Units[i] : i \in DOMAIN Units},
                                    failed \in SUBSET (0 .. MAX_REASON_PACKETS)}

\* Targets and their reviews are in step.
Filed ==
  /\ units \in Seq(Gathered) /\ reviews \in Seq(Seq(Labels))
  /\ Len(units) = Len(reviews) /\ Len(units) <= Len(Units)

\* The search is where its status says, over everything that was collected.
Staged ==
  /\ search.status \in {"none", "running", "selected", "blocked"}
  /\ search = [rule |-> search.rule, axis |-> search.axis, status |-> search.status,
               policy |-> search.policy, read |-> search.read]
  /\ search.policy = [route |-> search.policy.route, yes |-> search.policy.yes,
                      no |-> search.policy.no]
  /\ search.status = "running" => search.axis \in 1..3
  /\ search.status = "selected" => search.axis = 4
  /\ search.status # "none" => Len(units) = Len(Units) /\ DOMAIN search.read = DOMAIN units

\* What the search knew of a reason is still true of it.
StillKnown ==
  search.status # "none" =>
    \A i \in DOMAIN units, r \in Reasons :
      Known(search.read[i].reasons[r]) => LabelOf(reviews[i]).reasons[r] = search.read[i].reasons[r]

\* Each axis that was searched passes under the thresholds chosen so far, and these ask for
\* nothing that was not collected.
PassedSoFar ==
  search.status \in {"running", "selected"} =>
    LET results == Evaluate(units, search.read, search.policy) IN
    /\ \A k \in 1..3 : k < search.axis => Passes(units, results, RISKS[k])
    /\ search.axis > 1 => AsksNothingNew(results)

SearchInv == Filed /\ Staged /\ StillKnown /\ PassedSoFar

LEMMA SearchStart == SearchInit => SearchInv
<1> SUFFICES ASSUME SearchInit PROVE SearchInv
  OBVIOUS
<1>1. /\ units = << >> /\ reviews = << >> /\ search.status = "none" /\ search.axis = 0
      /\ search.policy = Baseline
      /\ search = [rule |-> search.rule, axis |-> 0, status |-> "none", policy |-> Baseline, read |-> << >>]
  BY DEF SearchInit, Idle
<1>2. Filed
  BY <1>1, SearchAssumption DEF Filed
<1>3. Staged
  BY <1>1 DEF Staged, Baseline
<1> QED BY <1>1, <1>2, <1>3 DEF SearchInv, StillKnown, PassedSoFar

\* Collecting another target happens before the search.
LEMMA CollectKeeps == SearchInv /\ Collect => SearchInv'
<1> SUFFICES ASSUME SearchInv, Collect PROVE SearchInv'
  OBVIOUS
<1>1. PICK u \in Units[Len(units) + 1], failed \in SUBSET (0 .. MAX_REASON_PACKETS) :
        units' = Append(units, Collected(u, failed))
  BY DEF Collect
<1>2. /\ Len(units) < Len(Units) /\ reviews' = Append(reviews, << >>) /\ search' = search
      /\ units \in Seq(Gathered) /\ reviews \in Seq(Seq(Labels)) /\ Len(units) = Len(reviews)
  BY DEF Collect, SearchInv, Filed
<1>3. search.status = "none"
  <2>1. Len(units) \in Nat /\ Len(Units) \in Nat
    BY <1>2, SearchAssumption
  <2> QED BY <1>2, <2>1 DEF SearchInv, Staged
<1>4. Collected(u, failed) \in Gathered
  <2>1. Len(units) + 1 \in DOMAIN Units
    BY <1>2, SearchAssumption
  <2> QED BY <2>1 DEF Gathered
<1>5. Filed'
  <2>1. /\ units' \in Seq(Gathered) /\ Len(units') = Len(units) + 1
        /\ reviews' \in Seq(Seq(Labels)) /\ Len(reviews') = Len(reviews) + 1
    BY <1>1, <1>2, <1>4
  <2>2. Len(units) + 1 <= Len(Units)
    BY <1>2, SearchAssumption
  <2> QED BY <1>2, <2>1, <2>2 DEF Filed
<1>6. Staged'
  BY <1>2, <1>3 DEF SearchInv, Staged
<1> QED BY <1>2, <1>3, <1>5, <1>6 DEF SearchInv, StillKnown, PassedSoFar

\* An opinion adds to what is known.
LEMMA OpineKeeps == SearchInv /\ Opine => SearchInv'
<1> SUFFICES ASSUME SearchInv, Opine PROVE SearchInv'
  OBVIOUS
<1>1. PICK j \in DOMAIN units, label \in Labels :
        reviews' = [reviews EXCEPT ![j] = Append(@, label)]
  BY DEF Opine
<1>2. /\ units' = units /\ search' = search
      /\ reviews \in Seq(Seq(Labels)) /\ Len(units) = Len(reviews) /\ units \in Seq(Gathered)
      /\ Len(units) <= Len(Units)
  BY DEF Opine, SearchInv, Filed
<1>3. /\ DOMAIN units = DOMAIN reviews /\ j \in DOMAIN reviews
      /\ \A i \in DOMAIN reviews : reviews[i] \in Seq(Labels)
      /\ reviews' \in Seq(Seq(Labels)) /\ Len(reviews') = Len(reviews)
      /\ \A i \in DOMAIN reviews : reviews'[i] = IF i = j THEN Append(reviews[i], label) ELSE reviews[i]
  <2>1. DOMAIN units = DOMAIN reviews /\ \A i \in DOMAIN reviews : reviews[i] \in Seq(Labels)
    BY <1>2
  <2>2. Append(reviews[j], label) \in Seq(Labels)
    BY <2>1
  <2> QED BY <1>1, <1>2, <2>1, <2>2
<1>4. Filed' /\ Staged'
  BY <1>2, <1>3 DEF SearchInv, Filed, Staged
<1>5. \A ls : LabelOf(ls)' = LabelOf(ls)
  BY <1>2 DEF LabelOf
<1>6. StillKnown'
  <2> SUFFICES ASSUME search.status # "none", NEW i \in DOMAIN units, NEW r \in Reasons,
                      Known(search.read[i].reasons[r])
               PROVE  LabelOf(reviews'[i]).reasons[r] = search.read[i].reasons[r]
    BY <1>2, <1>5 DEF StillKnown
  <2>1. LabelOf(reviews[i]).reasons[r] = search.read[i].reasons[r]
    BY DEF SearchInv, StillKnown
  <2>2. LabelOf(Append(reviews[i], label)).reasons[r] = LabelOf(reviews[i]).reasons[r]
    BY <1>3, <2>1, LabelStays
  <2> QED BY <1>3, <2>1, <2>2
<1>7. PassedSoFar'
  BY <1>2 DEF SearchInv, PassedSoFar
<1> QED BY <1>4, <1>6, <1>7 DEF SearchInv

\* The search starts from what is known by then.
LEMMA BeginSearchKeeps == SearchInv /\ BeginSearch => SearchInv'
<1> SUFFICES ASSUME SearchInv, BeginSearch PROVE SearchInv'
  OBVIOUS
<1>1. /\ units' = units /\ reviews' = reviews /\ Len(units) = Len(Units)
      /\ search' = [search EXCEPT !.axis = 1, !.status = "running",
                                  !.read = [i \in DOMAIN reviews |-> LabelOf(reviews[i])]]
      /\ Filed /\ Staged
  BY DEF BeginSearch, SearchInv
<1>2. /\ search'.rule = search.rule /\ search'.axis = 1 /\ search'.status = "running"
      /\ search'.policy = search.policy
      /\ search'.read = [i \in DOMAIN reviews |-> LabelOf(reviews[i])]
      /\ search' = [rule |-> search'.rule, axis |-> search'.axis, status |-> search'.status,
                    policy |-> search'.policy, read |-> search'.read]
  BY <1>1 DEF Staged
<1>3. DOMAIN units = DOMAIN reviews
  BY <1>1 DEF Filed
<1>4. Filed'
  BY <1>1 DEF Filed
<1>5. Staged'
  BY <1>1, <1>2, <1>3 DEF Staged
<1>6. \A ls : LabelOf(ls)' = LabelOf(ls)
  BY <1>2 DEF LabelOf
<1>7. StillKnown'
  BY <1>1, <1>2, <1>3, <1>6 DEF StillKnown
<1>8. PassedSoFar'
  BY <1>2 DEF PassedSoFar
<1> QED BY <1>4, <1>5, <1>7, <1>8 DEF SearchInv

\* Raising or lowering a threshold not yet searched changes no event of the axes before it.
LEMMA EarlierAxesStand ==
  ASSUME NEW data, NEW labels, NEW p, NEW q, NEW k \in 1..2,
         p.route = q.route, k = 2 => p.yes = q.yes,
         \A i \in DOMAIN data : ~Evaluate(data, labels, p)[i].missing,
         Passes(data, Evaluate(data, labels, q), RISKS[k])
  PROVE  Passes(data, Evaluate(data, labels, p), RISKS[k])
<1>1. RISKS[1] = "route" /\ RISKS[2] = "yes"
  BY DEF RISKS
<1>2. ASSUME NEW i \in DOMAIN data
      PROVE  Evaluate(data, labels, p)[i].events[RISKS[k]] = Evaluate(data, labels, q)[i].events[RISKS[k]]
  <2>1. /\ Evaluate(data, labels, p)[i] = EvaluateTarget(data[i], labels[i], p)
        /\ Evaluate(data, labels, q)[i] = EvaluateTarget(data[i], labels[i], q)
    BY DEF Evaluate
  <2>2. data[i].prediction # NoPrediction
    BY <2>1 DEF EvaluateTarget
  <2>3. /\ Routes(data[i], p) = Routes(data[i], q)
        /\ p.yes = q.yes => Judged(data[i], p, "yes") = Judged(data[i], q, "yes")
    BY ThresholdsApart
  <2>4. /\ EvaluateTarget(data[i], labels[i], p).events[RISKS[k]] = Events(data[i], labels[i], p)[RISKS[k]]
        /\ EvaluateTarget(data[i], labels[i], q).events[RISKS[k]] = Events(data[i], labels[i], q)[RISKS[k]]
    <3>1. RISKS[k] \in {"route", "yes", "no"}
      BY <1>1
    <3> QED BY <2>2, <3>1, EventsAre
  <2>5. RouteEvent(data[i], labels[i], p) = RouteEvent(data[i], labels[i], q)
    BY <2>3 DEF RouteEvent, Concrete
  <2>6. p.yes = q.yes => ReasonEvent(data[i], labels[i], p, "yes", {"present"})
                           = ReasonEvent(data[i], labels[i], q, "yes", {"present"})
    BY <2>3 DEF ReasonEvent
  <2> QED BY <1>1, <2>1, <2>4, <2>5, <2>6 DEF Events
<1> QED BY <1>2 DEF Passes

\* A chosen threshold passes its own axis and leaves the earlier ones as they were.
LEMMA AxisKeeps == SearchInv /\ SearchAxis => SearchInv'
<1> SUFFICES ASSUME SearchInv, SearchAxis PROVE SearchInv'
  OBVIOUS
<1> DEFINE axis == RISKS[search.axis]
           Try(level) == [search.policy EXCEPT ![axis] = level]
           Result(level) == Evaluate(units, search.read, Try(level))
           passing == {c \in Candidates(axis) : /\ Passes(units, Result(c), axis)
                                                /\ AsksNothingNew(Result(c))}
<1>1. /\ search.status = "running" /\ units' = units /\ reviews' = reviews
      /\ Filed /\ Staged /\ StillKnown /\ PassedSoFar /\ search.axis \in 1..3
  BY DEF SearchAxis, SearchInv, Staged
<1>2. Filed'
  BY <1>1 DEF Filed
<1>3. \/ search' = [search EXCEPT !.status = "blocked"]
      \/ \E c \in passing :
           search' = [search EXCEPT !.policy = Try(c), !.axis = @ + 1,
                                    !.status = IF axis = "no" THEN "selected" ELSE @]
  BY DEF SearchAxis
<1>4. search = [rule |-> search.rule, axis |-> search.axis, status |-> search.status,
                policy |-> search.policy, read |-> search.read]
  BY <1>1 DEF Staged
<1>5. ASSUME search'.rule = search.rule, search'.read = search.read, search'.status # "none"
      PROVE  StillKnown'
  <2>1. \A ls : LabelOf(ls)' = LabelOf(ls)
    BY <1>5 DEF LabelOf
  <2> QED BY <1>1, <1>5, <2>1 DEF StillKnown
<1>6. CASE search' = [search EXCEPT !.status = "blocked"]
  <2>1. /\ search' = [rule |-> search.rule, axis |-> search.axis, status |-> "blocked",
                      policy |-> search.policy, read |-> search.read]
    BY <1>4, <1>6
  <2>2. /\ search'.rule = search.rule /\ search'.read = search.read /\ search'.status = "blocked"
        /\ search'.policy = search.policy /\ search'.axis = search.axis
    BY <2>1
  <2>3. search' = [rule |-> search'.rule, axis |-> search'.axis, status |-> search'.status,
                   policy |-> search'.policy, read |-> search'.read]
    BY <2>1, <2>2
  <2>4. Staged'
    BY <1>1, <2>2, <2>3 DEF Staged
  <2>5. PassedSoFar'
    BY <2>2 DEF PassedSoFar
  <2> QED BY <1>2, <1>5, <2>2, <2>4, <2>5 DEF SearchInv
<1>7. ASSUME NEW c \in passing,
             search' = [search EXCEPT !.policy = Try(c), !.axis = @ + 1,
                                      !.status = IF axis = "no" THEN "selected" ELSE @]
      PROVE  SearchInv'
  <2> DEFINE results == Evaluate(units, search.read, Try(c))
  <2>1. Passes(units, results, axis) /\ AsksNothingNew(results)
    OBVIOUS
  <2>2. search' = [rule |-> search.rule, axis |-> search.axis + 1,
                   status |-> IF axis = "no" THEN "selected" ELSE search.status,
                   policy |-> Try(c), read |-> search.read]
    <3> HIDE DEF Try, axis
    <3> QED BY <1>4, <1>7
  <2>3. axis = "no" <=> search.axis = 3
    BY <1>1 DEF RISKS
  <2>4. Try(c) = [route |-> Try(c).route, yes |-> Try(c).yes, no |-> Try(c).no]
    <3>1. search.policy = [route |-> search.policy.route, yes |-> search.policy.yes,
                           no |-> search.policy.no]
      BY <1>1 DEF Staged
    <3>2. axis \in {"route", "yes", "no"}
      BY <1>1 DEF RISKS
    <3> HIDE DEF axis
    <3>3. CASE axis = "route"
      BY <3>1, <3>3
    <3>4. CASE axis = "yes"
      BY <3>1, <3>4
    <3>5. CASE axis = "no"
      BY <3>1, <3>5
    <3> QED BY <3>2, <3>3, <3>4, <3>5
  <2>5. /\ search.axis > 1 => Try(c).route = search.policy.route
        /\ search.axis > 2 => Try(c).yes = search.policy.yes
    <3>1. search.policy = [route |-> search.policy.route, yes |-> search.policy.yes,
                           no |-> search.policy.no]
      BY <1>1 DEF Staged
    <3>2. /\ search.axis > 1 => axis # "route"
          /\ search.axis > 2 => axis # "yes" /\ axis # "route"
      BY <1>1 DEF RISKS
    <3> HIDE DEF axis
    <3> QED BY <3>1, <3>2
  <2> HIDE DEF Try
  <2>6. /\ search'.rule = search.rule /\ search'.read = search.read
        /\ search'.policy = Try(c) /\ search'.axis = search.axis + 1
        /\ search'.status = IF axis = "no" THEN "selected" ELSE "running"
    <3> HIDE DEF axis
    <3> QED BY <1>1, <2>2
  <2>7. search' = [rule |-> search'.rule, axis |-> search'.axis, status |-> search'.status,
                   policy |-> search'.policy, read |-> search'.read]
    BY <2>2
  <2>8. Staged'
    <3> HIDE DEF axis
    <3>1. search'.policy = [route |-> search'.policy.route, yes |-> search'.policy.yes,
                            no |-> search'.policy.no]
      BY <2>4, <2>6
    <3>2. /\ search'.status \in {"selected", "running"}
          /\ search'.status = "running" => search'.axis \in 1..3
          /\ search'.status = "selected" => search'.axis = 4
      BY <1>1, <2>3, <2>6
    <3>3. Len(units) = Len(Units) /\ DOMAIN search.read = DOMAIN units
      BY <1>1 DEF Staged
    <3> QED BY <1>1, <2>6, <2>7, <3>1, <3>2, <3>3 DEF Staged
  <2>9. StillKnown'
    <3> HIDE DEF axis
    <3> QED BY <1>5, <2>6
  <2>10. PassedSoFar'
    <3>1. ASSUME NEW k \in 1..3, k < search.axis
          PROVE  Passes(units, results, RISKS[k])
      <4>1. Passes(units, Evaluate(units, search.read, search.policy), RISKS[k])
        BY <1>1, <3>1 DEF PassedSoFar
      <4>2. \A i \in DOMAIN units : ~Evaluate(units, search.read, Try(c))[i].missing
        <5>1. DOMAIN results = DOMAIN units
          BY DEF Evaluate
        <5> HIDE DEF results
        <5>2. \A i \in DOMAIN units : ~results[i].missing
          BY <2>1, <5>1 DEF AsksNothingNew
        <5> QED BY <5>2 DEF results
      <4>3. k \in 1..2 /\ Try(c).route = search.policy.route
            /\ (k = 2 => Try(c).yes = search.policy.yes)
        BY <1>1, <2>5, <3>1
      <4> QED BY <4>1, <4>2, <4>3, EarlierAxesStand
    <3>2. ASSUME NEW k \in 1..3, k < search.axis + 1 PROVE Passes(units, results, RISKS[k])
      <4>1. k < search.axis \/ k = search.axis
        BY <1>1, <3>2
      <4> HIDE DEF results
      <4> QED BY <2>1, <3>1, <4>1
    <3>3. Evaluate(units', search'.read, search'.policy) = results
      BY <1>1, <2>6
    <3> HIDE DEF results
    <3> QED BY <1>1, <2>1, <2>6, <3>2, <3>3 DEF PassedSoFar
  <2> QED BY <1>2, <2>8, <2>9, <2>10 DEF SearchInv
<1> QED BY <1>3, <1>6, <1>7

\* Type and order of the study, and what the axes searched so far have promised.
THEOREM SearchInvariance == SearchSpec => []SearchInv
<1>1. SearchInit => SearchInv
  BY SearchStart
<1>2. SearchInv /\ [SearchNext]_searchVars => SearchInv'
  <2> SUFFICES ASSUME SearchInv, [SearchNext]_searchVars PROVE SearchInv'
    OBVIOUS
  <2>1. CASE UNCHANGED searchVars
    <3>1. units' = units /\ reviews' = reviews /\ search' = search
      BY <2>1 DEF searchVars
    <3>2. \A ls : LabelOf(ls)' = LabelOf(ls)
      BY <3>1 DEF LabelOf
    <3> QED BY <3>1, <3>2 DEF SearchInv, Filed, Staged, StillKnown, PassedSoFar
  <2> QED BY <2>1, CollectKeeps, OpineKeeps, BeginSearchKeeps, AxisKeeps DEF SearchNext
<1> QED BY <1>1, <1>2, PTL DEF SearchSpec

\* The number of requests promised for a target before its first answer (maximum_requests) is
\* enough for whatever packets its routes come to, for any catalogue, lengths and budgets.
THEOREM ReservationsSuffice == SearchSpec => []ReservationSuffices
<1>1. SearchInv => ReservationSuffices
  <2> SUFFICES ASSUME Filed, NEW i \in DOMAIN units, NEW task \in Tasks, NEW domain \in Domains
               PROVE  1 + Len(PlannedPackets(units[i].value, [task |-> task, domain |-> domain]).packets)
                        <= MaximumRequests(units[i].value)
    BY DEF SearchInv, ReservationSuffices
  <2>1. units[i] \in Gathered
    BY DEF Filed
  <2>2. PICK u \in UNION {Units[j] : j \in DOMAIN Units}, failed \in SUBSET (0 .. MAX_REASON_PACKETS) :
          units[i] = Collected(u, failed)
    BY <2>1 DEF Gathered
  <2>3. units[i].value.bytes \in Nat
    BY <2>2, SearchAssumption DEF Collected
  <2> QED BY <2>3, MaximumCovers
<1> QED BY <1>1, SearchInvariance, PTL

\* The targets of a finished search pass again, collected and labelled anew.
LEMMA SelectedHolds == SearchInv => SelectedPolicyHolds
<1> SUFFICES ASSUME SearchInv, search.status = "selected", Upheld,
                    NEW risk \in ToSet(RISKS)
             PROVE  LET again == [i \in DOMAIN units |-> Recollected(units[i], search.policy)]
                        labels == [i \in DOMAIN units |-> LabelOf(reviews[i])]
                    IN  Passes(again, Evaluate(again, labels, search.policy), risk)
  BY DEF SelectedPolicyHolds, Recollected
<1> DEFINE policy == search.policy
           again == [i \in DOMAIN units |-> Recollected(units[i], policy)]
           labels == [i \in DOMAIN units |-> LabelOf(reviews[i])]
           x == Evaluate(units, search.read, policy)
           y == Evaluate(again, labels, policy)
<1>1. risk \in {"route", "yes", "no"}
  BY DEF ToSet, RISKS
<1>2. Passes(units, x, risk) /\ AsksNothingNew(x)
  <2>1. search.axis = 4
    BY DEF SearchInv, Staged
  <2>2. \A k \in 1..3 : Passes(units, x, RISKS[k])
    BY <2>1 DEF SearchInv, PassedSoFar
  <2>3. AsksNothingNew(x)
    BY <2>1 DEF SearchInv, PassedSoFar
  <2>4. RISKS[1] = "route" /\ RISKS[2] = "yes" /\ RISKS[3] = "no"
    BY DEF RISKS
  <2> QED BY <1>1, <2>2, <2>3, <2>4
<1>3. /\ DOMAIN units = 1..Len(units) /\ Len(units) \in 0..Len(Units)
      /\ DOMAIN search.read = DOMAIN units /\ DOMAIN reviews = DOMAIN units
  BY SearchAssumption DEF SearchInv, Filed, Staged
<1>4. ASSUME NEW i \in DOMAIN units
      PROVE  /\ again[i].source = units[i].source
             /\ y[i].events[risk] = "none" <=> x[i].events[risk] = "none"
             /\ Settled(x[i].events[risk]) => Settled(y[i].events[risk])
  <2> DEFINE unit == units[i]
             anew == Recollected(unit, policy)
             old == search.read[i]
             label == LabelOf(reviews[i])
             e == EvaluateTarget(unit, old, policy)
             f == EvaluateTarget(anew, label, policy)
  <2>1. x[i] = e /\ y[i] = f /\ again[i] = anew
    BY DEF Evaluate
  <2>2. anew.source = unit.source
    <3>1. units[i] \in Gathered
      BY DEF SearchInv, Filed
    <3> QED BY <3>1 DEF Recollected, Gathered, Collected
  <2>3. PICK w \in UNION {Units[j] : j \in DOMAIN Units}, failed \in SUBSET (0 .. MAX_REASON_PACKETS) :
          unit = Collected(w, failed)
    <3>1. unit \in Gathered
      BY DEF SearchInv, Filed
    <3> HIDE DEF unit
    <3> QED BY <3>1 DEF Gathered
  <2>4. w.value.bytes \in Nat
    BY <2>3, SearchAssumption
  <2>5. e.counterfactual = {} /\ ~e.missing
    <3>1. DOMAIN x = DOMAIN units
      BY DEF Evaluate
    <3> HIDE DEF x, e
    <3> QED BY <1>2, <2>1, <3>1 DEF AsksNothingNew
  <2>6. /\ unit.prediction # NoPrediction /\ anew.prediction # NoPrediction
        /\ Routes(anew, policy) = Routes(unit, policy)
        /\ \A d : Judged(anew, policy, d) = Judged(unit, policy, d)
    <3> HIDE DEF unit
    <3> QED BY <2>3, <2>4, <2>5, NothingNewIsTheSame
  <2>7. \A r \in Reasons : Known(old.reasons[r]) => label.reasons[r] = old.reasons[r]
    BY DEF SearchInv, StillKnown
  <2>8. \A axis \in {"task", "domain"} : old.routes[axis] \in {{"not_reviewed"}, label.routes[axis]}
    BY <1>3 DEF Upheld
  <2>14. e = EvaluateTarget(unit, old, policy) /\ f = EvaluateTarget(anew, label, policy)
    OBVIOUS
  <2> HIDE DEF unit, anew, old, label, e, f, x, y, again, policy
  <2>9. /\ e.events[risk] = Events(unit, old, policy)[risk]
        /\ f.events[risk] = Events(anew, label, policy)[risk]
    BY <1>1, <2>6, <2>14, EventsAre
  <2>11. ASSUME NEW d, NEW supported
         PROVE  LET X == ReasonEvent(unit, old, policy, d, supported)
                    Y == ReasonEvent(anew, label, policy, d, supported)
                IN  (Y = "none" <=> X = "none") /\ (Settled(X) => Settled(Y))
    <3> DEFINE J == Judged(unit, policy, d)
               was == [r \in J |-> Scored(old.reasons[r], supported)]
               is == [r \in J |-> Scored(label.reasons[r], supported)]
    <3>1. J \subseteq Reasons
      BY DEF Judged, Called, Eligible
    <3>2. \A r \in J : was[r] = "missing" \/ is[r] = was[r]
      BY <2>7, <3>1 DEF Scored
    <3>3. \A r \in J : was[r] \in {"right", "wrong", "missing"}
      BY DEF Scored
    <3>4. /\ ReasonEvent(unit, old, policy, d, supported) = Event(Outcomes(was, J))
          /\ ReasonEvent(anew, label, policy, d, supported) = Event(Outcomes(is, J))
      <4>1. Judged(anew, policy, d) = J
        BY <2>6
      <4>2. /\ {Scored(old.reasons[r], supported) : r \in J} = Outcomes(was, J)
            /\ {Scored(label.reasons[r], supported) : r \in J} = Outcomes(is, J)
        <5> HIDE DEF J
        <5> QED BY DEF Outcomes
      <4> QED BY <4>1, <4>2 DEF ReasonEvent
    <3> HIDE DEF J, was, is
    <3>5. /\ Event(Outcomes(was, J)) = "none" <=> J = {}
          /\ Event(Outcomes(is, J)) = "none" <=> J = {}
          /\ Settled(Event(Outcomes(was, J))) => Event(Outcomes(is, J)) = Event(Outcomes(was, J))
      BY <3>2, <3>3, EventSettles
    <3> QED BY <3>4, <3>5
  <2>12. LET X == RouteEvent(unit, old, policy)
             Y == RouteEvent(anew, label, policy)
         IN  (Y = "none" <=> X = "none") /\ (Settled(X) => Settled(Y))
    <3> DEFINE J == Concrete(unit, policy)
               was == [axis \in J |-> RouteOutcome(old.routes[axis], Routes(unit, policy)[axis])]
               is == [axis \in J |-> RouteOutcome(label.routes[axis], Routes(unit, policy)[axis])]
    <3>1. J \subseteq {"task", "domain"} /\ Concrete(anew, policy) = J
      BY <2>6 DEF Concrete
    <3>2. \A axis \in J : was[axis] = "missing" \/ is[axis] = was[axis]
      BY <2>8, <3>1 DEF RouteOutcome
    <3>3. \A axis \in J : was[axis] \in {"right", "wrong", "missing"}
      BY DEF RouteOutcome
    <3>4. /\ RouteEvent(unit, old, policy) = Event(Outcomes(was, J))
          /\ RouteEvent(anew, label, policy) = Event(Outcomes(is, J))
      <4>1. /\ {RouteOutcome(old.routes[axis], Routes(unit, policy)[axis]) : axis \in J} = Outcomes(was, J)
            /\ {RouteOutcome(label.routes[axis], Routes(unit, policy)[axis]) : axis \in J} = Outcomes(is, J)
        <5> HIDE DEF J
        <5> QED BY DEF Outcomes
      <4> QED BY <2>6, <3>1, <4>1 DEF RouteEvent
    <3> HIDE DEF J, was, is
    <3>5. /\ Event(Outcomes(was, J)) = "none" <=> J = {}
          /\ Event(Outcomes(is, J)) = "none" <=> J = {}
          /\ Settled(Event(Outcomes(was, J))) => Event(Outcomes(is, J)) = Event(Outcomes(was, J))
      BY <3>2, <3>3, EventSettles
    <3> QED BY <3>4, <3>5
  <2>13. (f.events[risk] = "none" <=> e.events[risk] = "none")
         /\ (Settled(e.events[risk]) => Settled(f.events[risk]))
    <3>1. CASE risk = "route"
      BY <2>9, <2>12, <3>1 DEF Events
    <3>2. CASE risk = "yes"
      BY <2>9, <2>11, <3>2 DEF Events
    <3>3. CASE risk = "no"
      BY <2>9, <2>11, <3>3 DEF Events
    <3> QED BY <1>1, <3>1, <3>2, <3>3
  <2> QED BY <2>1, <2>2, <2>13 DEF unit
<1>5. DOMAIN again = 1..Len(units)
  BY <1>3
<1> HIDE DEF again, labels, x, y, policy
<1>6. Passes(again, y, risk)
  <2> DEFINE n == Len(units)
  <2>1. n \in 0..Len(Units) /\ NoWorse(n, units, again, x, y, risk)
    BY <1>3, <1>4, <1>5 DEF NoWorse
  <2> HIDE DEF n
  <2> QED BY <1>2, <2>1, PassesKept
<1> QED BY <1>6 DEF again, labels, y, policy

\* A selected policy passes all three risks on a collection made anew under it, although it was
\* tuned on answers collected under another, some of them failed, and on labels still incomplete.
THEOREM SelectedThresholdsHold == SearchSpec => []SelectedPolicyHolds
BY SearchInvariance, SelectedHolds, PTL

=============================================================================
