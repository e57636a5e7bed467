----------------------------- MODULE TwoStageProofs -----------------------------
(***************************************************************************)
(* The two-stage batch, for any number of targets, any budget and any cost *)
(* of a request: nothing is sent twice or off the record, outcomes stand,  *)
(* they say truthfully what was sent, and one request at most passes the   *)
(* limit.  To the shared invariants this adds what the process knows of    *)
(* the two requests of its target.  The second part follows the records    *)
(* that such a batch leaves to the analysis that reads them again.         *)
(***************************************************************************)
EXTENDS TwoStageBatch, SavedAnswers, BatchProofs, SequenceTheorems

\* What is known of the target in hand, phase by phase.
TargetInHand ==
  LET route == Row(run.target, "route").status
      reasons == Row(run.target, "reasons").status
  IN /\ run.phase \in Holding \ {"finish"} /\ run.stage = "route" => reasons = "reserved"
     /\ run.phase \in Holding \ {"finish"} /\ run.stage = "reasons" =>
          route = "completed" /\ run.left = << >>
     /\ run.phase = "planned" => Row(run.target, run.stage).status = "completed"
     /\ run.phase = "finish" /\ run.status = "success" =>
          route = "completed" /\ reasons \in {"reserved", "completed"}
     /\ run.phase = "finish" => run.status \in {"success", "error", "pending"}

TwoStageInv == /\ BatchInv
               /\ TargetInHand
               /\ OutcomeTellsRequests

-----------------------------------------------------------------------------

\* The shared part of the invariant is kept by every step, and outcomes stand.
LEMMA StepKeepsBatch ==
  ASSUME TwoStageInv, [Next]_vars
  PROVE  BatchInv' /\ Stands
<1> USE BothAssumption DEF TwoStageInv
<1>1. CASE Begin
  BY <1>1, BeginKeeps
<1>2. CASE RecoverNext
  BY <1>2, RecoverKeeps
<1>3. CASE Proceed
  BY <1>3, ReadPendingKeeps DEF Proceed, ledgerVars
<1>4. CASE ClaimNext
  <2>1. PICK t \in run.todo : ClaimTarget(t, Both)
    BY <1>4 DEF ClaimNext
  <2>2. t \in Targets
    BY DEF BatchInv, Shape, Processes
  <2> QED
    BY <2>1, <2>2, ClaimKeeps DEF Both
<1>5. CASE End
  BY <1>5, ExitKeeps DEF End
<1>6. CASE FinishTarget
  BY <1>6, FinishKeeps
<1>7. CASE Stopped
  BY <1>7, ExitKeeps DEF Stopped
<1>8. CASE Prepare
  BY <1>8, PrepareKeeps
<1>9. CASE MarkStarted
  BY <1>9, StartKeeps
<1>10. CASE Send
  BY <1>10, SendKeeps
<1>11. CASE Complete
  BY <1>11, CompleteKeeps
<1>12. CASE RequestFails
  <2>1. /\ run' \in Processes /\ run'.phase = "finish" /\ run'.status = "error"
        /\ run'.target = run.target /\ run'.stage = run.stage /\ run'.left = run.left
    BY <1>12 DEF RequestFails, Ending, BatchInv, Shape, Processes, Statuses
  <2> QED
    BY <1>12, <2>1, FailKeeps DEF RequestFails, Statuses
<1>13. CASE PlanReasons
  <2>1. PICK requests \in {<< >>, <<"reasons">>} : Planned(requests)
    BY <1>13 DEF PlanReasons
  <2>2. requests \in Seq(StageNames)
    <3>1. "reasons" \in StageNames
      BY DEF Both
    <3>2. << >> \in Seq(StageNames) /\ <<"reasons">> \in Seq(StageNames)
      BY <3>1
    <3> QED
      BY <3>2
  <2>3. Row(run.target, "reasons").status = "reserved" /\ run.stage = "route"
    BY <2>1 DEF TargetInHand, Planned, Holding
  <2>4. \A i \in 1..Len(requests) :
          /\ Row(run.target, requests[i]).status = "reserved"
          /\ requests[i] # run.stage
          /\ \A j \in 1..Len(requests) : requests[i] = requests[j] => i = j
    BY <2>3
  <2> QED
    BY <2>1, <2>2, <2>4, PlannedKeeps
<1>14. CASE ReasonsAnswered
  BY <1>14, ReasonsKeep
<1>15. CASE NextRequest
  BY <1>15, NextRequestKeeps
<1>16. CASE Succeed
  BY <1>16, EndingKeeps DEF Succeed, ledgerVars, Holding, Statuses
<1>17. CASE Denied
  <2>1. PICK status \in {"error", "pending"} :
          Ending(status, TRUE) /\ (status = "pending" => ~WasSent(run.target))
    BY <1>17 DEF Denied
  <2> QED
    BY <1>17, <2>1, EndingKeeps DEF Denied, Checked, ledgerVars, Holding, Statuses
<1>18. CASE InputFails
  <2>1. ~WasSent(run.target)
    BY <1>18 DEF InputFails, BatchInv, RequestOnRecord
  <2> QED
    BY <1>18, <2>1, EndingKeeps DEF InputFails, ledgerVars, Holding, Statuses
<1>19. CASE TooLarge
  BY <1>19, EndingKeeps DEF TooLarge, ledgerVars, Holding, Statuses
<1>20. CASE Crash
  BY <1>20, ExitKeeps DEF Crash
<1>21. CASE GateMoves
  BY <1>21, GateKeeps DEF GateMoves, ledgerVars
<1>22. CASE UNCHANGED vars
  BY <1>22, GateKeeps DEF vars, ledgerVars, batchVars
<1> QED
  BY <1>1, <1>2, <1>3, <1>4, <1>5, <1>6, <1>7, <1>8, <1>9, <1>10, <1>11, <1>12, <1>13,
     <1>14, <1>15, <1>16, <1>17, <1>18, <1>19, <1>20, <1>21, <1>22 DEF Next, Work

\* A list without repetitions of one thing has one element.
LEMMA OnlyOne ==
  ASSUME NEW S, NEW list \in Seq(S), NEW x, list # << >>,
         \A i \in 1..Len(list) : /\ list[i] = x
                                 /\ \A j \in 1..Len(list) : list[i] = list[j] => i = j
  PROVE  Head(list) = x /\ Tail(list) = << >>
<1> DEFINE n == Len(list)
<1>1. n \in Nat /\ n # 0
  BY EmptySeq
<1>2. n < 2
  <2> SUFFICES ASSUME n >= 2 PROVE FALSE
    BY <1>1
  <2>1. 1 \in 1..n /\ 2 \in 1..n
    BY <1>1
  <2>2. list[1] = x /\ list[2] = x
    BY <2>1
  <2>3. list[1] = list[2] => 1 = 2
    BY <2>1
  <2> QED
    BY <2>2, <2>3
<1> HIDE DEF n
<1>3. n = 1
  BY <1>1, <1>2
<1> USE DEF n
<1>4. Head(list) = list[1] /\ Tail(list) \in Seq(S) /\ Len(Tail(list)) = 0
  BY <1>3, HeadTailProperties
<1>5. Tail(list) = << >>
  BY <1>4, EmptySeq
<1> QED
  BY <1>3, <1>4, <1>5

\* What is known of the target in hand is kept by every step.
LEMMA StepKeepsTarget ==
  ASSUME TwoStageInv, BatchInv', [Next]_vars
  PROVE  TargetInHand'
<1> USE BothAssumption DEF TwoStageInv
<1>1. CASE run'.phase \notin Holding
  BY <1>1 DEF TargetInHand, Holding
<1>2. CASE ClaimNext
  <2>1. PICK t \in run.todo : ClaimTarget(t, Both)
    BY <1>2 DEF ClaimNext
  <2>2. t \in Targets
    BY DEF BatchInv, Shape, Processes
  <2>3. \A s \in Both : stages'[<<t, s>>].status = "reserved"
    BY <2>1, <2>2, ClaimEffect DEF ClaimTarget, BatchInv, Shape
  <2>4. run'.phase = "admit" /\ run'.target = t /\ run'.stage = "route"
    BY <2>1 DEF ClaimTarget, Off
  <2> QED
    BY <2>3, <2>4 DEF TargetInHand, Row, Both
<1>3. CASE Prepare \/ MarkStarted \/ Send \/ Complete
  BY <1>3, RequestStep DEF TargetInHand, Row, Both
<1>4. CASE RequestFails \/ Denied \/ InputFails \/ TooLarge
  <2>1. run'.phase = "finish" /\ run'.status \in {"error", "pending"}
    BY <1>4 DEF RequestFails, Denied, InputFails, TooLarge, Ending, BatchInv, Shape, Processes
  <2> QED
    BY <2>1 DEF TargetInHand
<1>5. CASE PlanReasons
  <2>1. /\ run.phase = "answered" /\ run.stage = "route" /\ run'.phase = "planned"
        /\ run'.target = run.target /\ run'.stage = run.stage /\ stages' = stages
    BY <1>5 DEF PlanReasons, Planned, ledgerVars, BatchInv, Shape, Processes
  <2> QED
    BY <2>1 DEF TargetInHand, Row, BatchInv, RequestOnRecord, Holding
<1>6. CASE ReasonsAnswered
  <2>1. /\ run.phase = "answered" /\ run.stage = "reasons" /\ run'.phase = "planned"
        /\ run'.target = run.target /\ run'.stage = run.stage /\ run'.left = run.left
        /\ stages' = stages
    BY <1>6 DEF ReasonsAnswered, Go, ledgerVars, BatchInv, Shape, Processes, Both
  <2> QED
    BY <2>1 DEF TargetInHand, Row, BatchInv, RequestOnRecord, Holding
<1>7. CASE NextRequest
  <2>1. /\ run.phase = "planned" /\ run.stage = "route"
        /\ run.left \in Seq(StageNames) /\ run.left # << >>
    BY <1>7 DEF NextRequest, TargetInHand, Holding, BatchInv, Shape, Processes, Both
  <2>2. \A i \in 1..Len(run.left) :
          /\ run.left[i] = "reasons"
          /\ \A j \in 1..Len(run.left) : run.left[i] = run.left[j] => i = j
    BY <2>1 DEF BatchInv, LeftReserved, Holding, Both
  <2>4. Head(run.left) = "reasons" /\ Tail(run.left) = << >>
    BY <2>1, <2>2, OnlyOne
  <2>5. /\ run'.phase = "admit" /\ run'.stage = Head(run.left) /\ run'.left = Tail(run.left)
        /\ run'.target = run.target /\ stages' = stages
    BY <1>7 DEF NextRequest, ledgerVars, BatchInv, Shape, Processes
  <2> QED
    BY <2>1, <2>4, <2>5 DEF TargetInHand, Row
<1>8. CASE Succeed
  <2>1. /\ run.phase = "planned" /\ run'.phase = "finish" /\ run'.status = "success"
        /\ run'.target = run.target /\ stages' = stages
    BY <1>8 DEF Succeed, Ending, ledgerVars, BatchInv, Shape, Processes
  <2>2. run.stage \in Both
    BY DEF BatchInv, Shape, Processes
  <2> QED
    BY <2>1, <2>2 DEF TargetInHand, Row, Both, Holding
<1>9. CASE GateMoves \/ UNCHANGED vars
  <2>1. run' = run /\ stages' = stages
    BY <1>9 DEF GateMoves, vars, ledgerVars, batchVars
  <2> QED
    BY <2>1 DEF TargetInHand, Row
<1>10. CASE Begin \/ RecoverNext \/ Proceed \/ End \/ FinishTarget \/ Stopped \/ Crash
  <2>1. CASE Begin \/ Proceed
    BY <1>1, <2>1 DEF Begin, Go, Proceed, ReadPending, Holding, BatchInv, Shape, Processes
  <2>2. CASE RecoverNext
    BY <1>1, <2>2 DEF RecoverNext, batchVars, Holding
  <2>3. CASE End \/ Stopped \/ Crash
    BY <1>1, <2>3 DEF End, Stopped, Crash, Exit, Off, Holding
  <2>4. CASE FinishTarget
    BY <1>1, <2>4, OffIsProcess DEF FinishTarget, Off, Holding
  <2> QED
    BY <1>10, <2>1, <2>2, <2>3, <2>4
<1> QED
  BY <1>2, <1>3, <1>4, <1>5, <1>6, <1>7, <1>8, <1>9, <1>10 DEF Next, Work

\* Only a recovery or the end of a target gives it an outcome.
LEMMA OnlyFinishSettles ==
  ASSUME TwoStageInv, [Next]_vars, ~RecoverNext, ~FinishTarget,
         NEW t \in Targets, targets[t] \in {"pending", "running"}
  PROVE  targets'[t] \in {"pending", "running"}
<1>1. CASE ClaimNext
  <2>1. PICK u \in run.todo : Claim(u, Both)
    BY <1>1 DEF ClaimNext, ClaimTarget
  <2>2. targets' = [targets EXCEPT ![u] = "running"]
    BY <2>1 DEF Claim
  <2> QED
    BY <2>2 DEF TwoStageInv, BatchInv, Shape, TablesOK
<1>2. CASE Prepare \/ MarkStarted \/ Send \/ Complete
  BY <1>2, RequestStep DEF TwoStageInv
<1>3. CASE RequestFails
  BY <1>3 DEF RequestFails, FailStage, Stage
<1>4. CASE \/ Begin \/ Proceed \/ End \/ Stopped \/ PlanReasons \/ ReasonsAnswered
           \/ NextRequest \/ Succeed \/ Denied \/ InputFails \/ TooLarge \/ Crash
           \/ GateMoves \/ UNCHANGED vars
  <2>1. targets' = targets
    BY <1>4 DEF Begin, Proceed, End, Stopped, PlanReasons, Planned, ReasonsAnswered, NextRequest,
       Succeed, Denied, InputFails, TooLarge, Crash, GateMoves, vars, ledgerVars
  <2> QED
    BY <2>1
<1> QED
  BY <1>1, <1>2, <1>3, <1>4 DEF Next, Work

\* What outcomes say of the requests behind them is kept by every step.
LEMMA StepKeepsOutcomes ==
  ASSUME TwoStageInv, BatchInv', Stands, [Next]_vars
  PROVE  OutcomeTellsRequests'
<1> USE BothAssumption DEF TwoStageInv
<1> SUFFICES ASSUME NEW t \in Targets
             PROVE  /\ targets'[t] = "pending" => ~WasSent(t)'
                    /\ targets'[t] = "reconcile" => WasSent(t)'
                    /\ targets'[t] = "success" =>
                         /\ stages'[<<t, "route">>].status = "completed"
                         /\ stages'[<<t, "reasons">>].status \in {"completed", "not_sent"}
  BY DEF OutcomeTellsRequests
<1>1. targets'[t] = "pending" => ~WasSent(t)'
  BY DEF BatchInv, PendingUnsent
<1>2. CASE targets[t] \notin {"pending", "running"}
  <2>1. /\ targets'[t] = targets[t]
        /\ \A s \in StageNames : stages'[<<t, s>>].status = stages[<<t, s>>].status
    BY <1>2 DEF Stands
  <2>2. WasSent(t)' <=> WasSent(t)
    BY <2>1 DEF WasSent
  <2> QED
    BY <1>1, <2>1, <2>2 DEF OutcomeTellsRequests, Both
<1>3. CASE targets[t] \in {"pending", "running"} /\ RecoverNext
  <2>1. PICK u \in Targets : Recover(u)
    BY <1>3 DEF RecoverNext
  <2> DEFINE status == IF WasSent(u) THEN "reconcile" ELSE "pending"
  <2>2. status \in Statuses /\ Finish(u, status)
    BY <2>1 DEF Recover, Statuses
  <2>3. /\ targets' = [targets EXCEPT ![u] = status]
        /\ \A v \in Targets : (WasSent(v)' <=> WasSent(v))
    BY <2>2, FinishEffect DEF BatchInv, Shape
  <2>4. targets'[t] = "reconcile" => WasSent(t)
    BY <1>3, <2>3 DEF BatchInv, Shape, TablesOK
  <2>5. targets'[t] # "success"
    BY <1>3, <2>3 DEF BatchInv, Shape, TablesOK
  <2> QED
    BY <1>1, <2>3, <2>4, <2>5
<1>4. CASE targets[t] \in {"pending", "running"} /\ FinishTarget
  <2>1. /\ run.phase = "finish" /\ run.target \in Targets
        /\ run.status \in {"success", "error", "pending"} /\ run.status \in Statuses
        /\ Finish(run.target, run.status)
    BY <1>4 DEF FinishTarget, TargetInHand, BatchInv, HoldsRunning, Holding
  <2>2. /\ targets' = [targets EXCEPT ![run.target] = run.status]
        /\ \A k \in StageKeys :
             stages'[k].status = IF k[1] = run.target /\ stages[k].status = "reserved"
                                   THEN "not_sent" ELSE stages[k].status
    BY <2>1, FinishEffect DEF BatchInv, Shape
  <2>3. targets'[t] # "reconcile"
    BY <1>4, <2>1, <2>2 DEF BatchInv, Shape, TablesOK
  <2>4. ASSUME targets'[t] = "success"
        PROVE  /\ stages'[<<t, "route">>].status = "completed"
               /\ stages'[<<t, "reasons">>].status \in {"completed", "not_sent"}
    <3>1. t = run.target /\ run.status = "success"
      BY <1>4, <2>2, <2>4 DEF BatchInv, Shape, TablesOK
    <3>2. /\ stages[<<t, "route">>].status = "completed"
          /\ stages[<<t, "reasons">>].status \in {"reserved", "completed"}
      BY <2>1, <3>1 DEF TargetInHand, Row
    <3>3. <<t, "route">> \in StageKeys /\ <<t, "reasons">> \in StageKeys
      BY DEF StageKeys, Both
    <3> QED
      BY <2>2, <3>1, <3>2, <3>3
  <2> QED
    BY <1>1, <2>3, <2>4
<1>5. CASE targets[t] \in {"pending", "running"} /\ ~RecoverNext /\ ~FinishTarget
  BY <1>1, <1>5, OnlyFinishSettles
<1> QED
  BY <1>2, <1>3, <1>4, <1>5

\* What is held and spent stays within the bound, whatever the step.
LEMMA StepKeepsMoney ==
  ASSUME TwoStageInv, MoneyInv, [Next]_vars
  PROVE  MoneyInv'
<1> USE DEF TwoStageInv
<1>1. CASE Begin
  BY <1>1, BeginMoney
<1>2. CASE RecoverNext
  BY <1>2, RecoverMoney
<1>3. CASE ClaimNext
  <2>1. PICK t \in run.todo : ClaimTarget(t, Both)
    BY <1>3 DEF ClaimNext
  <2>2. t \in Targets
    BY DEF BatchInv, Shape, Processes
  <2> QED
    BY <2>1, <2>2, ClaimMoney, BothAssumption
<1>4. CASE End \/ Stopped \/ Crash
  BY <1>4, ExitMoney DEF End, Stopped, Crash
<1>5. CASE FinishTarget
  BY <1>5, FinishTargetMoney
<1>6. CASE Prepare \/ MarkStarted \/ Send \/ Complete
  BY <1>6, RequestMoney
<1>7. CASE RequestFails
  <2>1. /\ run'.phase = "finish" /\ run'.target = run.target /\ run'.stage = run.stage
        /\ FailStage
    BY <1>7 DEF RequestFails, Ending, BatchInv, Shape, Processes
  <2> QED
    BY <2>1, FailMoney
<1>8. CASE \/ Proceed \/ PlanReasons \/ ReasonsAnswered \/ NextRequest \/ Succeed
           \/ Denied \/ InputFails \/ TooLarge
  <2>1. /\ UNCHANGED ledgerVars /\ run.phase # "off"
        /\ run'.phase \notin {"prepared", "waiting"}
    <3>1. CASE Proceed
      BY <3>1 DEF Proceed, Recovered, ReadPending, BatchInv, Shape, Processes
    <3>2. CASE PlanReasons \/ ReasonsAnswered \/ NextRequest
      BY <3>2 DEF PlanReasons, Planned, ReasonsAnswered, NextRequest, Go, BatchInv, Shape, Processes
    <3>3. CASE Succeed \/ Denied \/ InputFails \/ TooLarge
      BY <3>3 DEF Succeed, Denied, Checked, InputFails, TooLarge, Ending, BatchInv, Shape, Processes
    <3> QED
      BY <1>8, <3>1, <3>2, <3>3
  <2> QED
    BY <2>1, ProcessMoney
<1>9. CASE GateMoves \/ UNCHANGED vars
  BY <1>9, OutsideMoney DEF GateMoves, vars, batchVars
<1> QED
  BY <1>1, <1>2, <1>3, <1>4, <1>5, <1>6, <1>7, <1>8, <1>9 DEF Next, Work

-----------------------------------------------------------------------------

\* The invariant holds of a new ledger.
LEMMA TwoStageInitial == Init => TwoStageInv
<1> SUFFICES ASSUME Init PROVE TwoStageInv
  OBVIOUS
<1>1. TargetInHand
  BY DEF TargetInHand, Init, Off, Holding
<1>2. OutcomeTellsRequests
  BY DEF OutcomeTellsRequests, Init, LedgerInit, StageKeys, NoRow, WasSent, SentStatuses
<1> QED
  BY <1>1, <1>2, BatchInitial DEF TwoStageInv

\* The invariant is inductive: the phase of the process and the row of its request
\* agree in every state of every run (two_stage_batch.py:807-863).
THEOREM TwoStageInvariance == Spec => []TwoStageInv
<1>1. TwoStageInv /\ [Next]_vars => TwoStageInv'
  BY StepKeepsBatch, StepKeepsTarget, StepKeepsOutcomes DEF TwoStageInv
<1> QED
  BY <1>1, TwoStageInitial, PTL DEF Spec

\* No request is sent twice, and none leaves that the ledger does not have on record,
\* over any number of crashes and restarts (two_stage_batch.py:687-694, 823-830).
THEOREM RequestsSentOnce == Spec => []SentOnceOnRecord
<1>1. TwoStageInv => SentOnceOnRecord
  BY DEF TwoStageInv, BatchInv
<1> QED
  BY <1>1, TwoStageInvariance, PTL

\* A pending target sent nothing, a successful one has its answers, and one to be
\* reconciled has a request that may have left (two_stage_batch.py:843-862).
THEOREM OutcomesAreTrue == Spec => []OutcomeTellsRequests
<1>1. TwoStageInv => OutcomeTellsRequests
  BY DEF TwoStageInv
<1> QED
  BY <1>1, TwoStageInvariance, PTL

\* A target that has an outcome keeps it, in this process and in every later one
\* (two_stage_batch.py:687-694, 708-711).
THEOREM OutcomesAreFinal == Spec => OutcomesStand
<1>1. TwoStageInv /\ [Next]_vars =>
        [\A t \in Targets :
           targets[t] \notin {"pending", "running"} => targets'[t] = targets[t]]_vars
  BY StepKeepsBatch DEF Stands
<1> QED
  BY <1>1, TwoStageInvariance, PTL DEF Spec, OutcomesStand

\* What the tables say is held and spent exceeds the limit by no more than the cost of one
\* request beyond its reserve, whatever the costs and however often the process died
\* (two_stage_batch.py:310, 699-764).
THEOREM OvershootIsBounded == Spec => []OvershootIsOneRequest
<1>1. Init => TwoStageInv /\ MoneyInv
  BY TwoStageInitial, MoneyInitial
<1>2. TwoStageInv /\ MoneyInv /\ [Next]_vars => MoneyInv'
  BY StepKeepsMoney
<1>3. MoneyInv => OvershootIsOneRequest
  BY DEF MoneyInv
<1> QED
  BY <1>1, <1>2, <1>3, TwoStageInvariance, PTL DEF Spec

-----------------------------------------------------------------------------
(* The records of the batch, read again (SavedAnswers) *)

\* The answers a ledger may hold for the routes.
RouteStages == [AXES -> RouteAnswers["task"] \cup RouteAnswers["domain"]]

\* What a status says of the answers beside it, in the ledger and in the results file.
Told(row) ==
  LET routes == SelectRoutes(row.route, BaselinePolicy)
      prepared == PrepareReasons(routes, Projection)
  IN  /\ row.route \in RouteStages \cup {Absent}
      /\ row.status = "running" => row.route \in RouteStages
      /\ row.status # "success" => row.result = Absent
      /\ row.status = "success" =>
           /\ row.route \in RouteStages
           /\ row.answers \in [Questions(prepared) -> ReasonAnswers]
           /\ row.result = ResultOf(routes, prepared, row.answers, BaselinePolicy)

\* The ledger and the record tell their answers, and the record was made of the ledger.
SavedInv ==
  /\ text \in Texts
  /\ ledger = [status |-> ledger.status, route |-> ledger.route,
               answers |-> ledger.answers, result |-> ledger.result]
  /\ Told(ledger)
  /\ record # Absent =>
       /\ Told(record)
       /\ record.materials = Metadata
       /\ record.routes = IF record.route = Absent THEN Absent
                          ELSE SelectRoutes(record.route, BaselinePolicy)

-----------------------------------------------------------------------------
(* The decisions *)

\* The metadata beside a record says what the model was shown.
LEMMA EvidenceFromMetadata ==
  text \in Texts => HistoricalEvidence(Metadata) = Projection
<1> SUFFICES ASSUME text \in Texts
             PROVE  HistoricalEvidence(Metadata) = Projection
  OBVIOUS
<1>1. ASSUME NEW f \in DOMAIN text
      PROVE  MaterialStatus(text[f]) = "extracted" <=> text[f] = "one"
  <2>1. text[f] \in {"none", "blank", "one", "many", "broken"}
    BY <1>1, AnswersAssumption
  <2> QED
    BY <2>1 DEF MaterialStatus
<1>2. DOMAIN Metadata = DOMAIN text /\ \A f \in DOMAIN text : Metadata[f] = MaterialStatus(text[f])
  BY DEF Metadata
<1> QED
  BY <1>1, <1>2 DEF HistoricalEvidence, Projection

\* An answer decided under a policy is asked, and keeps what was answered.
LEMMA DecidedRows ==
  ASSUME NEW answer \in ReasonAnswers, NEW policy
  PROVE  /\ RowUnder(answer, policy).raw = answer
         /\ RowUnder(answer, policy).decision \in {"yes", "no", "unknown"}
         /\ RowUnder(answer, policy).decision
              = IF Accepts(answer, policy.reason_probability, policy.reason_confidence)
                THEN answer.choice ELSE "unknown"
         /\ RowUnder(answer, policy).status \in {"below_threshold_or_tied", "model_unknown", "evaluated"}
<1>1. answer.choice \in {"yes", "no", "unknown"}
  BY AnswersAssumption DEF AnswersOf
<1> QED
  BY <1>1 DEF RowUnder

\* The rows of a result: what was asked is decided, the others have the status they had.
RowsOf(prepared, answers, policy) ==
  [reason \in DOMAIN prepared |->
     IF prepared[reason] = "pending" THEN RowUnder(answers[reason], policy)
     ELSE Unasked(prepared[reason])]

\* Which rows of a result are asked, and what each says.
LEMMA ResultRows ==
  ASSUME NEW prepared, NEW policy, NEW answers \in [Questions(prepared) -> ReasonAnswers],
         NEW rows, rows = RowsOf(prepared, answers, policy)
  PROVE  /\ DOMAIN rows = DOMAIN prepared
         /\ Questions(prepared) \subseteq DOMAIN prepared
         /\ Asked(rows) = Questions(prepared)
         /\ \A reason \in Questions(prepared) :
              /\ answers[reason] \in ReasonAnswers
              /\ rows[reason] = RowUnder(answers[reason], policy)
              /\ rows[reason].raw = answers[reason]
              /\ rows[reason].decision \in {"yes", "no", "unknown"}
         /\ \A reason \in DOMAIN prepared \ Questions(prepared) :
              /\ rows[reason].decision = "not_asked"
              /\ rows[reason].status = prepared[reason]
<1>1. DOMAIN rows = DOMAIN prepared /\ Questions(prepared) \subseteq DOMAIN prepared
  BY DEF RowsOf, Questions
<1>2. ASSUME NEW reason \in Questions(prepared)
      PROVE  /\ answers[reason] \in ReasonAnswers
             /\ rows[reason] = RowUnder(answers[reason], policy)
             /\ rows[reason].raw = answers[reason]
             /\ rows[reason].decision \in {"yes", "no", "unknown"}
  <2>1. reason \in DOMAIN prepared /\ prepared[reason] = "pending"
    BY <1>2 DEF Questions
  <2>2. answers[reason] \in ReasonAnswers
    BY <1>2
  <2>3. rows[reason] = RowUnder(answers[reason], policy)
    BY <2>1 DEF RowsOf
  <2> QED
    BY <2>2, <2>3, DecidedRows
<1>3. ASSUME NEW reason \in DOMAIN prepared \ Questions(prepared)
      PROVE  rows[reason].decision = "not_asked" /\ rows[reason].status = prepared[reason]
  <2>1. prepared[reason] # "pending"
    BY <1>3 DEF Questions
  <2>2. rows[reason] = Unasked(prepared[reason])
    BY <1>3, <2>1 DEF RowsOf
  <2> QED
    BY <2>2 DEF Unasked
<1>4. Asked(rows) = Questions(prepared)
  <2>1. ASSUME NEW reason \in DOMAIN rows
        PROVE  rows[reason].decision # "not_asked" <=> reason \in Questions(prepared)
    BY <1>1, <1>2, <1>3
  <2> QED
    BY <1>1, <2>1 DEF Asked
<1> QED
  BY <1>1, <1>2, <1>3, <1>4

\* The rows of a result are these, and its routes the ones it was made with.
LEMMA ResultFields ==
  ASSUME NEW routes, NEW prepared, NEW answers, NEW policy
  PROVE  /\ ResultOf(routes, prepared, answers, policy).rows = RowsOf(prepared, answers, policy)
         /\ ResultOf(routes, prepared, answers, policy).routes = routes
BY DEF ResultOf, RowsOf

\* Saved answers decided anew are what a run under the other policy would have decided.
LEMMA DecidedAgain ==
  ASSUME NEW prepared, NEW old, NEW policy,
         NEW answers \in [Questions(prepared) -> ReasonAnswers]
  PROVE  ReasonRows(RowsOf(prepared, answers, old), policy) = RowsOf(prepared, answers, policy)
<1>1. PICK rows : rows = RowsOf(prepared, answers, old)
  OBVIOUS
<1>2. PICK again : again = RowsOf(prepared, answers, policy)
  OBVIOUS
<1>3. /\ DOMAIN rows = DOMAIN prepared
      /\ \A reason \in Questions(prepared) :
           rows[reason].raw = answers[reason] /\ rows[reason].decision # "not_asked"
      /\ \A reason \in DOMAIN prepared \ Questions(prepared) : rows[reason].decision = "not_asked"
  BY <1>1, ResultRows
<1>4. ASSUME NEW reason \in DOMAIN prepared
      PROVE  again[reason] = IF rows[reason].decision = "not_asked" THEN rows[reason]
                             ELSE RowUnder(rows[reason].raw, policy)
  BY <1>1, <1>2, <1>3 DEF RowsOf, Questions
<1>5. again = [reason \in DOMAIN rows |->
                 IF rows[reason].decision = "not_asked" THEN rows[reason]
                 ELSE RowUnder(rows[reason].raw, policy)]
  <2>1. again = [reason \in DOMAIN prepared |-> again[reason]]
    BY <1>2 DEF RowsOf
  <2> QED
    BY <1>3, <1>4, <2>1
<1> QED
  BY <1>1, <1>2, <1>5 DEF ReasonRows

-----------------------------------------------------------------------------
(* The view of a result *)

\* A reason for which no answer counts has a cause.
LEMMA AbstentionsHaveCauses ==
  ASSUME NEW answer \in ReasonAnswers,
         RowUnder(answer, BaselinePolicy).decision = "unknown"
  PROVE  AbstentionCauses(RowUnder(answer, BaselinePolicy), BaselinePolicy) # {}
<1>1. /\ answer.probability \in Nat /\ answer.confidence \in Nat /\ answer.tied \in BOOLEAN
  BY AnswersAssumption DEF AnswersOf
<1>2. RowUnder(answer, BaselinePolicy).raw = answer
  BY DecidedRows
<1> DEFINE causes == RejectionCauses(answer, BaselinePolicy.reason_probability,
                                     BaselinePolicy.reason_confidence)
<1>3. CASE Accepts(answer, BaselinePolicy.reason_probability, BaselinePolicy.reason_confidence)
  <2>1. answer.choice = "unknown"
    BY <1>3, DecidedRows
  <2>2. "raw_unknown" \in AbstentionCauses(RowUnder(answer, BaselinePolicy), BaselinePolicy)
    BY <1>2, <2>1 DEF AbstentionCauses
  <2> QED
    BY <2>2
<1>4. CASE ~Accepts(answer, BaselinePolicy.reason_probability, BaselinePolicy.reason_confidence)
  <2>1. PICK p, c : p = BaselinePolicy.reason_probability /\ c = BaselinePolicy.reason_confidence
    OBVIOUS
  <2>2. p \in Nat /\ c \in Nat
    BY <2>1 DEF BaselinePolicy
  <2>3. answer.probability < p \/ answer.confidence < c \/ answer.tied
    BY <1>1, <1>4, <2>1, <2>2 DEF Accepts
  <2>4. RejectionCauses(answer, p, c) # {}
    <3>1. CASE answer.probability < p
      <4>1. "probability" \in RejectionCauses(answer, p, c)
        BY <3>1 DEF RejectionCauses
      <4> QED
        BY <4>1
    <3>2. CASE answer.confidence < c
      <4>1. "confidence" \in RejectionCauses(answer, p, c)
        BY <3>2 DEF RejectionCauses
      <4> QED
        BY <4>1
    <3>3. CASE answer.tied
      <4>1. "tie" \in RejectionCauses(answer, p, c)
        BY <3>3 DEF RejectionCauses
      <4> QED
        BY <4>1
    <3> QED
      BY <2>3, <3>1, <3>2, <3>3
  <2> QED
    BY <1>2, <2>1, <2>4 DEF AbstentionCauses
<1> QED
  BY <1>3, <1>4

\* The outcome of a result, in the terms of its rows.
LEMMA OutcomeOfRows ==
  ASSUME NEW routes, NEW prepared, NEW answers, NEW policy, NEW rows,
         rows = RowsOf(prepared, answers, policy)
  PROVE  ResultOf(routes, prepared, answers, policy).outcome
           = IF "yes" \in Decisions(rows) THEN "suggested"
             ELSE IF \/ \E axis \in AXES : ~routes[axis].resolved
                     \/ "unknown" \in Decisions(rows)
                     \/ Having(rows, "missing_evidence") # {} THEN "unknown"
             ELSE "no_match"
BY DEF ResultOf, RowsOf

\* The assessment of a result whose run asked something never contradicts its outcome.
LEMMA ViewTellsOutcome ==
  ASSUME NEW routes, NEW prepared, NEW answers \in [Questions(prepared) -> ReasonAnswers],
         Questions(prepared) # {},
         NEW rows, rows = RowsOf(prepared, answers, BaselinePolicy),
         NEW outcome, outcome = ResultOf(routes, prepared, answers, BaselinePolicy).outcome,
         NEW view, view = Summary(routes, rows, BaselinePolicy)
  PROVE  /\ view.assessment = "candidate_found" <=> outcome = "suggested"
         /\ outcome = "no_match" =>
              /\ view.assessment = "no_issue_detected_in_evaluated_scope"
              /\ view.complete /\ view.missing = {}
         /\ view.assessment = "abstained" => outcome = "unknown"
         /\ \A reason \in DOMAIN view.abstentions : view.abstentions[reason] # {}
<1>1. /\ Asked(rows) = Questions(prepared) /\ Questions(prepared) \subseteq DOMAIN rows
      /\ \A reason \in Questions(prepared) :
           answers[reason] \in ReasonAnswers /\ rows[reason] = RowUnder(answers[reason], BaselinePolicy)
  BY ResultRows
<1>2. outcome = IF "yes" \in Decisions(rows) THEN "suggested"
                ELSE IF \/ \E axis \in AXES : ~routes[axis].resolved
                        \/ "unknown" \in Decisions(rows)
                        \/ Having(rows, "missing_evidence") # {} THEN "unknown"
                ELSE "no_match"
  BY OutcomeOfRows
<1>3. PICK abstaining : abstaining = {reason \in Asked(rows) : rows[reason].decision = "unknown"}
  OBVIOUS
<1>4. /\ view.assessment = IF "yes" \in Decisions(rows) THEN "candidate_found"
                           ELSE IF Asked(rows) = {} THEN "not_evaluated"
                           ELSE IF abstaining # {} THEN "abstained"
                           ELSE "no_issue_detected_in_evaluated_scope"
      /\ view.complete = (\A axis \in AXES : routes[axis].resolved)
      /\ view.missing = Having(rows, "missing_evidence")
      /\ view.abstentions = [reason \in abstaining |-> AbstentionCauses(rows[reason], BaselinePolicy)]
  BY <1>3 DEF Summary
<1>5. abstaining # {} => "unknown" \in Decisions(rows)
  BY <1>1, <1>3 DEF Decisions
<1>6. view.assessment = "candidate_found" <=> outcome = "suggested"
  BY <1>2, <1>4
<1>7. ASSUME outcome = "no_match"
      PROVE  /\ view.assessment = "no_issue_detected_in_evaluated_scope"
             /\ view.complete /\ view.missing = {}
  <2>1. /\ "yes" \notin Decisions(rows) /\ "unknown" \notin Decisions(rows)
        /\ \A axis \in AXES : routes[axis].resolved
        /\ Having(rows, "missing_evidence") = {}
    BY <1>2, <1>7
  <2> QED
    BY <1>1, <1>4, <1>5, <2>1
<1>8. view.assessment = "abstained" => outcome = "unknown"
  BY <1>2, <1>4, <1>5
<1>9. ASSUME NEW reason \in DOMAIN view.abstentions PROVE view.abstentions[reason] # {}
  <2>1. /\ reason \in Questions(prepared) /\ rows[reason].decision = "unknown"
        /\ view.abstentions[reason] = AbstentionCauses(rows[reason], BaselinePolicy)
    BY <1>1, <1>3, <1>4, <1>9
  <2> QED
    BY <1>1, <2>1, AbstentionsHaveCauses
<1> QED
  BY <1>6, <1>7, <1>8, <1>9

\* The two policies of the alternatives: other thresholds for the reasons, or for a route.
ReasonPolicy(p, c) == [BaselinePolicy EXCEPT !.reason_probability = p, !.reason_confidence = c]
RoutePolicy(p, c) == [BaselinePolicy EXCEPT !.route_probability = p, !.route_confidence = c]

\* Stricter thresholds find no candidate that the baseline does not.
LEMMA StricterFindsNoMore ==
  ASSUME NEW prepared, NEW answers \in [Questions(prepared) -> ReasonAnswers],
         NEW p \in 2 .. 3, NEW c \in 2 .. 3,
         NEW rows, rows = RowsOf(prepared, answers, BaselinePolicy),
         NEW again, again = RowsOf(prepared, answers, ReasonPolicy(p, c)),
         "yes" \in Decisions(again)
  PROVE  "yes" \in Decisions(rows)
<1>1. PICK reason \in DOMAIN again : again[reason].decision = "yes"
  BY DEF Decisions
<1>2. /\ DOMAIN again = DOMAIN prepared
      /\ \A x \in Questions(prepared) :
           answers[x] \in ReasonAnswers /\ again[x] = RowUnder(answers[x], ReasonPolicy(p, c))
      /\ \A x \in DOMAIN prepared \ Questions(prepared) : again[x].decision = "not_asked"
  BY ResultRows
<1>3. /\ DOMAIN rows = DOMAIN prepared
      /\ \A x \in Questions(prepared) : rows[x] = RowUnder(answers[x], BaselinePolicy)
  BY ResultRows
<1>4. reason \in Questions(prepared)
  BY <1>1, <1>2
<1>5. PICK answer \in ReasonAnswers : answer = answers[reason]
  BY <1>2, <1>4
<1>6. /\ answer.probability \in Nat /\ answer.confidence \in Nat
  BY AnswersAssumption DEF AnswersOf
<1>7. ReasonPolicy(p, c).reason_probability = p /\ ReasonPolicy(p, c).reason_confidence = c
  BY DEF ReasonPolicy, BaselinePolicy
<1>8. Accepts(answer, p, c) /\ answer.choice = "yes"
  BY <1>1, <1>2, <1>4, <1>5, <1>7, DecidedRows
<1>9. Accepts(answer, 2, 2)
  BY <1>6, <1>8 DEF Accepts
<1>10. RowUnder(answer, BaselinePolicy).decision = "yes"
  BY <1>8, <1>9, DecidedRows DEF BaselinePolicy
<1> QED
  BY <1>3, <1>4, <1>5, <1>10, <1>1, <1>2 DEF Decisions

\* Stricter thresholds for one route select what they did, or nothing.
LEMMA StricterSelectsNoMore ==
  ASSUME NEW answer \in AnswersOf(STRING), NEW p \in 2 .. 3, NEW c \in 2 .. 3
  PROVE  SelectRoute(answer, RoutePolicy(p, c)).selected
           \in {SelectRoute(answer, BaselinePolicy).selected, "unknown"}
<1>1. answer.probability \in Nat /\ answer.confidence \in Nat
  BY DEF AnswersOf
<1>2. /\ RoutePolicy(p, c).route_probability = p /\ RoutePolicy(p, c).route_confidence = c
      /\ BaselinePolicy.route_probability = 2 /\ BaselinePolicy.route_confidence = 2
  BY DEF RoutePolicy, BaselinePolicy
<1>3. Accepts(answer, p, c) => Accepts(answer, 2, 2)
  BY <1>1 DEF Accepts
<1>4. /\ SelectRoute(answer, RoutePolicy(p, c)).selected
           = IF Accepts(answer, p, c) THEN answer.choice ELSE "unknown"
      /\ SelectRoute(answer, BaselinePolicy).selected
           = IF Accepts(answer, 2, 2) THEN answer.choice ELSE "unknown"
  BY <1>2 DEF SelectRoute
<1> QED
  BY <1>3, <1>4

\* They call no reason that the baseline does not, and so ask nothing anew.
LEMMA StricterAsksNoMore ==
  ASSUME NEW stage \in RouteStages, NEW evidence, NEW axis \in AXES,
         NEW p \in 2 .. 3, NEW c \in 2 .. 3,
         NEW routes, routes = SelectRoutes(stage, BaselinePolicy),
         NEW others,
         others = [routes EXCEPT ![axis] = SelectRoute(@.answer, RoutePolicy(p, c))],
         NEW old, old = PrepareReasons(routes, evidence),
         NEW new, new = PrepareReasons(others, evidence)
  PROVE  /\ Questions(new) \ Questions(old) = {}
         /\ {reason \in DOMAIN new : /\ new[reason] = "missing_evidence"
                                     /\ old[reason] = "route_not_selected"} = {}
<1>1. /\ DOMAIN routes = AXES
      /\ \A a \in AXES : routes[a] = SelectRoute(stage[a], BaselinePolicy)
  BY DEF SelectRoutes
<1>2. \A a \in AXES : stage[a] \in AnswersOf(STRING)
  BY AnswersAssumption DEF RouteStages
<1>3. routes[axis].answer = stage[axis]
  BY <1>1 DEF SelectRoute
<1>4. ASSUME NEW a \in AXES
      PROVE  others[a].selected \in {routes[a].selected, "unknown"}
  <2>1. CASE a = axis
    <3>1. others[a] = SelectRoute(stage[axis], RoutePolicy(p, c))
      BY <1>1, <1>3, <2>1
    <3> QED
      BY <1>1, <1>2, <2>1, <3>1, StricterSelectsNoMore
  <2>2. CASE a # axis
    BY <1>1, <2>2
  <2> QED
    BY <2>1, <2>2
<1>5. ASSUME NEW reason \in DOMAIN Catalogue, Called(reason, others)
      PROVE  Called(reason, routes)
  <2>1. /\ "unknown" \notin Catalogue[reason].tasks
        /\ "unknown" \notin Catalogue[reason].domains
    BY AnswersAssumption
  <2>2. "task" \in AXES /\ "domain" \in AXES
    BY DEF AXES
  <2>3. /\ others["task"].selected \in {routes["task"].selected, "unknown"}
        /\ others["domain"].selected \in {routes["domain"].selected, "unknown"}
    BY <1>4, <2>2
  <2> QED
    BY <1>5, <2>1, <2>3 DEF Called
<1>6. /\ DOMAIN new = DOMAIN Catalogue /\ DOMAIN old = DOMAIN Catalogue
      /\ \A reason \in DOMAIN Catalogue :
           /\ new[reason] = IF ~Called(reason, others) THEN "route_not_selected"
                            ELSE IF Catalogue[reason].requires \subseteq evidence
                            THEN "pending" ELSE "missing_evidence"
           /\ old[reason] = IF ~Called(reason, routes) THEN "route_not_selected"
                            ELSE IF Catalogue[reason].requires \subseteq evidence
                            THEN "pending" ELSE "missing_evidence"
  BY DEF PrepareReasons
<1>7. ASSUME NEW reason \in DOMAIN Catalogue
      PROVE  /\ new[reason] = "pending" => old[reason] = "pending"
             /\ ~(new[reason] = "missing_evidence" /\ old[reason] = "route_not_selected")
  BY <1>5, <1>6
<1> QED
  BY <1>6, <1>7 DEF Questions

\* Some reason is asked of every target, whatever its routes and its materials.
LEMMA SomethingIsAsked ==
  ASSUME NEW routes, NEW evidence, {"request", "answer"} \subseteq evidence
  PROVE  Questions(PrepareReasons(routes, evidence)) # {}
<1>1. PICK reason \in DOMAIN Catalogue :
        /\ Catalogue[reason].tasks = {} /\ Catalogue[reason].domains = {}
        /\ Catalogue[reason].requires \subseteq {"request", "answer"}
  BY AnswersAssumption
<1>2. Called(reason, routes) /\ Catalogue[reason].requires \subseteq evidence
  BY <1>1 DEF Called
<1>3. reason \in Questions(PrepareReasons(routes, evidence))
  BY <1>2 DEF Questions, PrepareReasons
<1> QED
  BY <1>3

-----------------------------------------------------------------------------
(* The invariant *)

\* Nothing was answered and nothing exported at first.
LEMMA SavedStart == SavedInit => SavedInv
<1> SUFFICES ASSUME SavedInit PROVE SavedInv
  OBVIOUS
<1>1. Told(ledger)
  BY DEF SavedInit, Told
<1> QED
  BY <1>1 DEF SavedInit, SavedInv

\* The texts stand, and with them what the model was shown.
LEMMA TextStands ==
  UNCHANGED text => Projection' = Projection /\ Metadata' = Metadata
BY DEF Projection, Metadata

\* The route's request.
LEMMA RouteTold == SavedInv /\ RouteStage => SavedInv'
<1> SUFFICES ASSUME SavedInv, RouteStage PROVE SavedInv'
  OBVIOUS
<1>1. /\ UNCHANGED <<text, record>> /\ Projection' = Projection /\ Metadata' = Metadata
  BY TextStands DEF RouteStage
<1>2. ledger.result = Absent /\ ledger.route \in RouteStages \cup {Absent}
  BY DEF SavedInv, Told, RouteStage
<1>3. /\ ledger' = [status |-> ledger'.status, route |-> ledger'.route,
                    answers |-> ledger'.answers, result |-> ledger'.result]
      /\ ledger'.result = Absent
      /\ \/ ledger'.status = "running" /\ ledger'.route \in RouteStages
         \/ ledger'.status = "error" /\ ledger'.route = ledger.route
  <2>1. PICK s, r, a, x : ledger = [status |-> s, route |-> r, answers |-> a, result |-> x]
    BY DEF SavedInv
  <2>2. CASE \E task \in RouteAnswers["task"], domain \in RouteAnswers["domain"] :
               ledger' = [ledger EXCEPT !.status = "running",
                            !.route = [ax \in AXES |-> IF ax = "task" THEN task ELSE domain]]
    <3>1. PICK task \in RouteAnswers["task"], domain \in RouteAnswers["domain"] :
            ledger' = [ledger EXCEPT !.status = "running",
                         !.route = [ax \in AXES |-> IF ax = "task" THEN task ELSE domain]]
      BY <2>2
    <3>2. [ax \in AXES |-> IF ax = "task" THEN task ELSE domain] \in RouteStages
      BY DEF RouteStages
    <3>3. ledger' = [status |-> "running", answers |-> a, result |-> x,
                     route |-> [ax \in AXES |-> IF ax = "task" THEN task ELSE domain]]
      BY <2>1, <3>1
    <3> QED
      BY <1>2, <2>1, <3>2, <3>3
  <2>3. CASE ledger' = [ledger EXCEPT !.status = "error"]
    BY <1>2, <2>1, <2>3
  <2> QED
    BY <2>2, <2>3 DEF RouteStage
<1>4. Told(ledger)'
  BY <1>1, <1>2, <1>3 DEF Told
<1>5. (record # Absent =>
         /\ Told(record)
         /\ record.materials = Metadata
         /\ record.routes = IF record.route = Absent THEN Absent
                            ELSE SelectRoutes(record.route, BaselinePolicy))'
  BY <1>1 DEF SavedInv, Told
<1> QED
  BY <1>1, <1>3, <1>4, <1>5 DEF SavedInv

\* The reasons' request.
LEMMA ReasonTold == SavedInv /\ ReasonStage => SavedInv'
<1> SUFFICES ASSUME SavedInv, ReasonStage PROVE SavedInv'
  OBVIOUS
<1>1. /\ UNCHANGED <<text, record>> /\ Projection' = Projection /\ Metadata' = Metadata
  BY TextStands DEF ReasonStage
<1>2. ledger.result = Absent /\ ledger.route \in RouteStages
  BY DEF SavedInv, Told, ReasonStage
<1>3. PICK s, r, a, x : ledger = [status |-> s, route |-> r, answers |-> a, result |-> x]
  BY DEF SavedInv
<1> DEFINE routes == SelectRoutes(ledger.route, BaselinePolicy)
           prepared == PrepareReasons(routes, Projection)
<1>4. CASE \E answers \in [Questions(prepared) -> ReasonAnswers] :
             ledger' = [ledger EXCEPT !.status = "success", !.answers = answers,
                          !.result = ResultOf(routes, prepared, answers, BaselinePolicy)]
  <2>1. PICK answers \in [Questions(prepared) -> ReasonAnswers] :
          ledger' = [ledger EXCEPT !.status = "success", !.answers = answers,
                       !.result = ResultOf(routes, prepared, answers, BaselinePolicy)]
    BY <1>4
  <2> DEFINE result == ResultOf(routes, prepared, answers, BaselinePolicy)
  <2> HIDE DEF routes, prepared, result
  <2>2. ledger' = [status |-> "success", route |-> r, answers |-> answers, result |-> result]
    BY <1>3, <2>1 DEF result
  <2>3. /\ ledger'.status = "success" /\ ledger'.route = ledger.route
        /\ ledger'.answers = answers /\ ledger'.result = result
        /\ ledger' = [status |-> ledger'.status, route |-> ledger'.route,
                      answers |-> ledger'.answers, result |-> ledger'.result]
    BY <1>3, <2>2
  <2>4. Told(ledger)'
    BY <1>1, <1>2, <2>3 DEF Told, routes, prepared, result
  <2>5. (record # Absent =>
           /\ Told(record)
           /\ record.materials = Metadata
           /\ record.routes = IF record.route = Absent THEN Absent
                              ELSE SelectRoutes(record.route, BaselinePolicy))'
    BY <1>1 DEF SavedInv, Told
  <2> QED
    BY <1>1, <2>3, <2>4, <2>5 DEF SavedInv
<1>5. CASE \E status \in {"error", "reconcile"} : ledger' = [ledger EXCEPT !.status = status]
  <2>1. PICK status \in {"error", "reconcile"} : ledger' = [ledger EXCEPT !.status = status]
    BY <1>5
  <2>2. /\ ledger'.status \in {"error", "reconcile"} /\ ledger'.route = ledger.route
        /\ ledger'.result = Absent
        /\ ledger' = [status |-> ledger'.status, route |-> ledger'.route,
                      answers |-> ledger'.answers, result |-> ledger'.result]
    BY <1>2, <1>3, <2>1
  <2>3. Told(ledger)'
    BY <1>1, <1>2, <2>2 DEF Told
  <2>4. (record # Absent =>
           /\ Told(record)
           /\ record.materials = Metadata
           /\ record.routes = IF record.route = Absent THEN Absent
                              ELSE SelectRoutes(record.route, BaselinePolicy))'
    BY <1>1 DEF SavedInv, Told
  <2> QED
    BY <1>1, <2>2, <2>3, <2>4 DEF SavedInv
<1> QED
  BY <1>4, <1>5 DEF ReasonStage

\* The export.
LEMMA ExportTold == SavedInv /\ Export => SavedInv'
<1> SUFFICES ASSUME SavedInv, Export PROVE SavedInv'
  OBVIOUS
<1>1. /\ UNCHANGED <<text, ledger>> /\ Projection' = Projection /\ Metadata' = Metadata
  BY TextStands DEF Export
<1>2. /\ record'.status = IF ledger.status = "running" THEN "reconcile" ELSE ledger.status
      /\ record'.route = ledger.route /\ record'.answers = ledger.answers
      /\ record'.result = ledger.result /\ record'.materials = Metadata
      /\ record'.routes = IF ledger.route = Absent THEN Absent
                          ELSE SelectRoutes(ledger.route, BaselinePolicy)
  BY DEF Export
<1>3. Told(ledger)
  BY DEF SavedInv
<1>4. Told(record)'
  <2>1. record'.status # "running"
    BY <1>2
  <2>2. record'.status = "success" <=> ledger.status = "success"
    BY <1>2
  <2> QED
    BY <1>1, <1>2, <1>3, <2>1, <2>2 DEF Told
<1>5. Told(ledger)'
  BY <1>1, <1>3 DEF Told
<1> QED
  BY <1>1, <1>2, <1>4, <1>5 DEF SavedInv

\* What the ledger and the results file say was answered is what the decisions were made of.
THEOREM SavedInvariance == SavedSpec => []SavedInv
<1>1. SavedInv /\ [SavedNext]_savedVars => SavedInv'
  <2> SUFFICES ASSUME SavedInv, [SavedNext]_savedVars PROVE SavedInv'
    OBVIOUS
  <2>1. CASE UNCHANGED savedVars
    <3>1. UNCHANGED text /\ UNCHANGED ledger /\ UNCHANGED record
      BY <2>1 DEF savedVars
    <3>2. Projection' = Projection /\ Metadata' = Metadata
      BY <3>1, TextStands
    <3> QED
      BY <3>1, <3>2 DEF SavedInv, Told
  <2> QED
    BY <2>1, RouteTold, ReasonTold, ExportTold DEF SavedNext
<1> QED
  BY <1>1, SavedStart, PTL DEF SavedSpec

-----------------------------------------------------------------------------
(* What the analysis makes of the record *)

\* A record of a success holds the result its answers make, and the analysis derives the
\* same routes and the same questions from the record alone.
LEMMA SuccessOnRecord ==
  ASSUME SavedInv, record # Absent, record.status = "success"
  PROVE  /\ record.route \in RouteStages /\ record.route # Absent
         /\ record.routes = SelectRoutes(record.route, BaselinePolicy)
         /\ HistoricalEvidence(record.materials) = Projection
         /\ record.answers \in [Questions(PrepareReasons(record.routes, Projection)) -> ReasonAnswers]
         /\ record.result = ResultOf(record.routes, PrepareReasons(record.routes, Projection),
                                     record.answers, BaselinePolicy)
<1>1. /\ record.route \in RouteStages
      /\ record.answers \in [Questions(PrepareReasons(
                                 SelectRoutes(record.route, BaselinePolicy), Projection)) -> ReasonAnswers]
      /\ record.result = ResultOf(SelectRoutes(record.route, BaselinePolicy),
                            PrepareReasons(SelectRoutes(record.route, BaselinePolicy), Projection),
                            record.answers, BaselinePolicy)
  BY DEF SavedInv, Told
<1>2. record.route # Absent
  BY <1>1, AnswersAssumption DEF RouteStages
<1>3. record.routes = SelectRoutes(record.route, BaselinePolicy)
  BY <1>2 DEF SavedInv
<1>4. HistoricalEvidence(record.materials) = Projection
  BY EvidenceFromMetadata DEF SavedInv
<1> QED
  BY <1>1, <1>2, <1>3, <1>4

\* A view under other thresholds for the reasons is the summary of the rows that a run
\* under these thresholds would have made of the answers.
LEMMA ViewsOfRecord ==
  ASSUME SavedInv, record # Absent, record.status = "success", NEW policy
  PROVE  View(policy) = Summary(record.routes,
           RowsOf(PrepareReasons(record.routes, Projection), record.answers, policy), policy)
<1>1. PICK prepared, answers :
        prepared = PrepareReasons(record.routes, Projection) /\ answers = record.answers
  OBVIOUS
<1>2. /\ answers \in [Questions(prepared) -> ReasonAnswers]
      /\ record.result = ResultOf(record.routes, prepared, answers, BaselinePolicy)
  BY <1>1, SuccessOnRecord
<1>3. /\ record.result.rows = RowsOf(prepared, answers, BaselinePolicy)
      /\ record.result.routes = record.routes
  BY <1>2, ResultFields
<1>4. ReasonRows(record.result.rows, policy) = RowsOf(prepared, answers, policy)
  BY <1>2, <1>3, DecidedAgain
<1> QED
  BY <1>1, <1>3, <1>4 DEF View

\* The analysis reproduces the record, and what a run under other thresholds would say.
LEMMA RecordReproduces == SavedInv => HistoryReproduces
<1> SUFFICES ASSUME SavedInv, record # Absent
             PROVE  /\ ValidHistory
                    /\ record.status = "success" =>
                         \A p, c \in 1 .. 3 :
                           View(ReasonPolicy(p, c))
                             = Summary(ResultOf(record.routes, PrepareReasons(record.routes, Projection),
                                                record.answers, ReasonPolicy(p, c)).routes,
                                       ResultOf(record.routes, PrepareReasons(record.routes, Projection),
                                                record.answers, ReasonPolicy(p, c)).rows,
                                       ReasonPolicy(p, c))
  BY DEF HistoryReproduces, ReasonPolicy
<1>1. ValidHistory
  <2>1. record.routes = IF record.route = Absent THEN Absent
                        ELSE SelectRoutes(record.route, BaselinePolicy)
    BY DEF SavedInv
  <2>2. record.status # "success" => record.result = Absent
    BY DEF SavedInv, Told
  <2>3. ASSUME record.status = "success"
        PROVE  /\ DOMAIN record.answers
                    = Questions(PrepareReasons(record.routes, HistoricalEvidence(record.materials)))
               /\ record.result = ResultOf(record.routes,
                    PrepareReasons(record.routes, HistoricalEvidence(record.materials)),
                    record.answers, BaselinePolicy)
    BY <2>3, SuccessOnRecord
  <2> QED
    BY <2>1, <2>2, <2>3 DEF ValidHistory
<1>2. ASSUME record.status = "success", NEW policy
      PROVE  View(policy)
               = Summary(ResultOf(record.routes, PrepareReasons(record.routes, Projection),
                                  record.answers, policy).routes,
                         ResultOf(record.routes, PrepareReasons(record.routes, Projection),
                                  record.answers, policy).rows, policy)
  BY <1>2, ViewsOfRecord, ResultFields
<1> QED
  BY <1>1, <1>2

\* The assessment and the outcome agree, and stricter thresholds find and ask no more.
LEMMA RecordTells == SavedInv => AssessmentTellsOutcome
<1> SUFFICES ASSUME SavedInv, record # Absent PROVE AssessmentTellsOutcome
  BY DEF AssessmentTellsOutcome
<1>1. ASSUME record.status = "success"
      PROVE  /\ View(BaselinePolicy).assessment = "candidate_found"
                  <=> record.result.outcome = "suggested"
             /\ record.result.outcome = "no_match" =>
                  /\ View(BaselinePolicy).assessment = "no_issue_detected_in_evaluated_scope"
                  /\ View(BaselinePolicy).complete /\ View(BaselinePolicy).missing = {}
             /\ View(BaselinePolicy).assessment = "abstained" => record.result.outcome = "unknown"
             /\ \A reason \in DOMAIN View(BaselinePolicy).abstentions :
                  View(BaselinePolicy).abstentions[reason] # {}
             /\ \A p, c \in 2 .. 3 :
                  View(ReasonPolicy(p, c)).assessment = "candidate_found"
                    => record.result.outcome = "suggested"
  <2>1. PICK routes, prepared, answers, outcome :
          /\ routes = record.routes /\ answers = record.answers
          /\ prepared = PrepareReasons(record.routes, Projection)
          /\ outcome = record.result.outcome
    OBVIOUS
  <2>2. /\ answers \in [Questions(prepared) -> ReasonAnswers]
        /\ record.result = ResultOf(routes, prepared, answers, BaselinePolicy)
    BY <1>1, <2>1, SuccessOnRecord
  <2>3. outcome = ResultOf(routes, prepared, answers, BaselinePolicy).outcome
    BY <2>1, <2>2
  <2>4. Questions(prepared) # {}
    BY <2>1, SomethingIsAsked DEF Projection
  <2>5. PICK rows : rows = RowsOf(prepared, answers, BaselinePolicy)
    OBVIOUS
  <2>6. PICK view : view = Summary(routes, rows, BaselinePolicy)
    OBVIOUS
  <2>7. View(BaselinePolicy) = view
    BY <1>1, <2>1, <2>5, <2>6, ViewsOfRecord
  <2>8. /\ view.assessment = "candidate_found" <=> outcome = "suggested"
        /\ outcome = "no_match" =>
             /\ view.assessment = "no_issue_detected_in_evaluated_scope"
             /\ view.complete /\ view.missing = {}
        /\ view.assessment = "abstained" => outcome = "unknown"
        /\ \A reason \in DOMAIN view.abstentions : view.abstentions[reason] # {}
    BY <2>2, <2>3, <2>4, <2>5, <2>6, ViewTellsOutcome
  <2>9. ASSUME NEW p \in 2 .. 3, NEW c \in 2 .. 3,
               View(ReasonPolicy(p, c)).assessment = "candidate_found"
        PROVE  outcome = "suggested"
    <3>1. PICK again : again = RowsOf(prepared, answers, ReasonPolicy(p, c))
      OBVIOUS
    <3>2. View(ReasonPolicy(p, c)) = Summary(routes, again, ReasonPolicy(p, c))
      BY <1>1, <2>1, <3>1, ViewsOfRecord
    <3>3. "yes" \in Decisions(again)
      BY <2>9, <3>2 DEF Summary
    <3>4. "yes" \in Decisions(rows)
      BY <2>2, <2>5, <3>1, <3>3, StricterFindsNoMore
    <3> QED
      BY <2>3, <2>5, <3>4, OutcomeOfRows
  <2> QED
    BY <2>1, <2>7, <2>8, <2>9
<1>2. ASSUME record.routes # Absent, NEW axis \in AXES, NEW p \in 2 .. 3, NEW c \in 2 .. 3
      PROVE  /\ RouteScenario(axis, RoutePolicy(p, c)).extra = {}
             /\ RouteScenario(axis, RoutePolicy(p, c)).missing = {}
  <2>1. record.route \in RouteStages /\ record.routes = SelectRoutes(record.route, BaselinePolicy)
    BY <1>2 DEF SavedInv, Told
  <2>2. PICK routes, evidence, others, old, new :
          /\ routes = record.routes /\ evidence = HistoricalEvidence(record.materials)
          /\ others = [routes EXCEPT ![axis] = SelectRoute(@.answer, RoutePolicy(p, c))]
          /\ old = PrepareReasons(routes, evidence)
          /\ new = PrepareReasons(others, evidence)
    OBVIOUS
  <2>3. /\ Questions(new) \ Questions(old) = {}
        /\ {reason \in DOMAIN new : /\ new[reason] = "missing_evidence"
                                    /\ old[reason] = "route_not_selected"} = {}
    BY <2>1, <2>2, StricterAsksNoMore
  <2>4. /\ RouteScenario(axis, RoutePolicy(p, c)).extra = Questions(new) \ Questions(old)
        /\ RouteScenario(axis, RoutePolicy(p, c)).missing
             = {reason \in DOMAIN new : /\ new[reason] = "missing_evidence"
                                        /\ old[reason] = "route_not_selected"}
    BY <2>2 DEF RouteScenario
  <2> QED
    BY <2>3, <2>4
<1>3. \A p, c \in 1 .. 3 : p >= 2 /\ c >= 2 => p \in 2 .. 3 /\ c \in 2 .. 3
  OBVIOUS
<1>4. record.routes # Absent =>
        \A axis \in AXES, p, c \in 1 .. 3 : p >= 2 /\ c >= 2 =>
          /\ RouteScenario(axis, RoutePolicy(p, c)).extra = {}
          /\ RouteScenario(axis, RoutePolicy(p, c)).missing = {}
  BY <1>2, <1>3
<1> QED
  BY <1>1, <1>4 DEF AssessmentTellsOutcome, ReasonPolicy, RoutePolicy

\* The analysis accepts every record a run can leave, for any catalogue, any answers and any
\* end of the run, and decides the saved answers as a run under other thresholds would have.
THEOREM HistoriesReproduce == SavedSpec => []HistoryReproduces
BY SavedInvariance, RecordReproduces, PTL

\* The assessment that was added beside the outcome never contradicts it, and stricter
\* thresholds neither find a candidate nor ask a question that the baseline did not.
THEOREM AssessmentsTellOutcomes == SavedSpec => []AssessmentTellsOutcome
BY SavedInvariance, RecordTells, PTL

=============================================================================
