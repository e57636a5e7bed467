------------------------------ MODULE BatchProofs ------------------------------
(***************************************************************************)
(* What the two batches share of two proofs.  That no request is sent twice *)
(* or off the record: an invariant that ties the phase of the process to   *)
(* the row of the request it works on.  That the limit is passed by one    *)
(* request at most: an invariant that ties the totals of the process to    *)
(* the sums of the tables.  One lemma per shared action for each.          *)
(***************************************************************************)
EXTENDS BatchProcess, FoldProofs

Row(t, s) == stages[<<t, s>>]

\* The phases in which the process holds a target.
Holding == {"admit", "prepared", "started", "waiting", "answered", "planned", "finish"}

Shape == /\ TablesOK
         /\ run \in Processes
         /\ sent \in [StageKeys -> Nat]

\* What is pending, and what will be pending again, sent nothing.
PendingUnsent ==
  /\ \A t \in Targets : targets[t] = "pending" => ~WasSent(t)
  /\ run.phase = "finish" /\ run.status = "pending" => ~WasSent(run.target)

HoldsRunning ==
  run.phase \in Holding => run.target \in Targets /\ targets[run.target] = "running"

\* The row of the request says how far the process is with it.
RequestOnRecord ==
  LET row == Row(run.target, run.stage) IN
  /\ run.phase = "admit"    => row.status = "reserved"
  /\ run.phase = "prepared" => row.status = "not_sent"
  /\ run.phase = "started"  => row.status = "started" /\ sent[<<run.target, run.stage>>] = 0
  /\ run.phase = "waiting"  => row.status = "started"
  /\ run.phase = "answered" => row.status = "completed"
  /\ run.phase \in {"admit", "prepared"} /\ run.stage = "route" => ~WasSent(run.target)

\* The requests still to be sent are reserved, and none of them twice.
LeftReserved ==
  run.phase \in Holding \ {"finish"} =>
    \A i \in 1..Len(run.left) :
      /\ Row(run.target, run.left[i]).status = "reserved"
      /\ run.left[i] \notin {run.stage, "route"}
      /\ \A j \in 1..Len(run.left) : run.left[i] = run.left[j] => i = j

BatchInv == /\ Shape
            /\ SentOnceOnRecord
            /\ PendingUnsent
            /\ HoldsRunning
            /\ RequestOnRecord
            /\ LeftReserved
            /\ run.phase = "finish" => run.status \in Statuses

\* A step leaves a target that has an outcome alone, and what is known of its requests.
Stands ==
  \A t \in Targets : targets[t] \notin {"pending", "running"} =>
    /\ targets'[t] = targets[t]
    /\ \A s \in StageNames : stages'[<<t, s>>].status = stages[<<t, s>>].status

-----------------------------------------------------------------------------
(* The operations of the ledger *)

\* The initial tables satisfy the invariant.
LEMMA BatchInitial == Init => BatchInv
<1> SUFFICES ASSUME Init PROVE BatchInv
  OBVIOUS
<1> USE BatchAssumption DEF Init, LedgerInit, Off, NoRow, StageKeys
<1>1. TablesOK
  BY DEF TablesOK, Statuses, Rows, SentStatuses
<1>2. run \in Processes
  <2>1. << >> \in Seq(StageNames)
    OBVIOUS
  <2> QED
    BY <2>1 DEF Processes
<1>3. \A t \in Targets : ~WasSent(t)
  BY DEF WasSent, SentStatuses
<1> QED
  BY <1>1, <1>2, <1>3 DEF BatchInv, Shape, SentOnceOnRecord, PendingUnsent, HoldsRunning,
     RequestOnRecord, LeftReserved, Holding

\* finish releases the rows that were never sent, and no other.
LEMMA FinishEffect ==
  ASSUME TablesOK, NEW t \in Targets, NEW status \in Statuses, Finish(t, status)
  PROVE  /\ TablesOK'
         /\ targets' = [targets EXCEPT ![t] = status]
         /\ \A k \in StageKeys :
              stages'[k].status = IF k[1] = t /\ stages[k].status = "reserved"
                                    THEN "not_sent" ELSE stages[k].status
         /\ \A u \in Targets : WasSent(u)' <=> WasSent(u)
<1>1. targets' = [targets EXCEPT ![t] = status]
  BY DEF Finish
<1>2. \A k \in StageKeys :
        stages'[k] = IF k \in Unsent(t) THEN [stages[k] EXCEPT !.status = "not_sent", !.held = 0]
                     ELSE stages[k]
  BY DEF Finish
<1>3. \A k \in StageKeys : stages[k] \in Rows
  BY DEF TablesOK
<1>4. \A k \in StageKeys : k \in Unsent(t) <=> k[1] = t /\ stages[k].status \in {"reserved", "not_sent"}
  BY DEF Unsent, StageKeys
<1>5. \A k \in StageKeys :
        stages'[k].status = IF k[1] = t /\ stages[k].status = "reserved"
                              THEN "not_sent" ELSE stages[k].status
  BY <1>2, <1>3, <1>4 DEF Rows
<1>6. TablesOK'
  <2>1. \A k \in StageKeys : stages'[k] \in Rows
    BY <1>2, <1>3 DEF Rows
  <2>2. stages' \in [StageKeys -> Rows]
    BY <2>1 DEF Finish
  <2> QED
    BY <1>1, <2>2 DEF TablesOK
<1>7. \A u \in Targets : WasSent(u)' <=> WasSent(u)
  BY <1>5 DEF WasSent, SentStatuses, StageKeys
<1> QED
  BY <1>1, <1>5, <1>6, <1>7

\* stage writes one row.
LEMMA StageEffect ==
  ASSUME TablesOK, NEW t \in Targets, NEW s \in StageNames,
         NEW status \in {"not_sent"} \cup SentStatuses, NEW cost \in Costs \cup {0},
         Stage(t, s, status, cost)
  PROVE  /\ TablesOK'
         /\ targets' = targets
         /\ stages'[<<t, s>>].status = status
         /\ \A k \in StageKeys \ {<<t, s>>} : stages'[k] = stages[k]
<1> DEFINE row == [status |-> status, held |-> IF status = "completed" THEN 0 ELSE Reserve,
                   estimate |-> IF status = "completed" THEN cost ELSE 0]
<1>1. stages' = [stages EXCEPT ![<<t, s>>] = row] /\ targets' = targets
  BY DEF Stage
<1>2. <<t, s>> \in StageKeys
  BY DEF StageKeys
<1>3. row \in Rows
  BY DEF Rows
<1> QED
  BY <1>1, <1>2, <1>3 DEF TablesOK

\* claim writes the rows of its target only, and sends nothing.
LEMMA ClaimEffect ==
  ASSUME TablesOK, NEW t \in Targets, NEW names \in SUBSET StageNames, Claim(t, names)
  PROVE  /\ TablesOK'
         /\ targets[t] = "pending"
         /\ targets' = [targets EXCEPT ![t] = "running"]
         /\ \A s \in names : stages'[<<t, s>>].status = "reserved"
         /\ \A k \in StageKeys : k \notin {t} \X names => stages'[k] = stages[k]
<1> DEFINE row == [status |-> "reserved", held |-> Reserve, estimate |-> 0]
<1>1. /\ targets[t] = "pending"
      /\ targets' = [targets EXCEPT ![t] = "running"]
      /\ stages' = [k \in StageKeys |-> IF k \in {t} \X names THEN row ELSE stages[k]]
  BY DEF Claim
<1>2. row \in Rows
  BY DEF Rows
<1>3. {t} \X names \subseteq StageKeys
  BY DEF StageKeys
<1>4. TablesOK'
  BY <1>1, <1>2 DEF TablesOK, Statuses
<1>5. \A s \in names : stages'[<<t, s>>].status = "reserved"
  BY <1>1, <1>3
<1> QED
  BY <1>1, <1>4, <1>5

-----------------------------------------------------------------------------
(* Steps of the process that leave the tables alone *)

\* What was sent, and what is on record of it, does not change with the process.
LEMMA TablesRest ==
  ASSUME BatchInv, UNCHANGED <<targets, stages, sent>>
  PROVE  /\ TablesOK' /\ SentOnceOnRecord' /\ Stands
         /\ sent' \in [StageKeys -> Nat]
         /\ \A t \in Targets : (WasSent(t)' <=> WasSent(t))
         /\ \A t \in Targets : (targets[t] = "pending")' => ~WasSent(t)'
  BY DEF BatchInv, Shape, TablesOK, SentOnceOnRecord, Stands, WasSent, PendingUnsent

\* Outside the phases that hold a target there is nothing more to keep.
LEMMA IdleStep ==
  ASSUME BatchInv, UNCHANGED <<targets, stages, sent>>,
         run' \in Processes, run'.phase \in {"off", "recover", "next", "stopped"}
  PROVE  BatchInv' /\ Stands
  BY TablesRest DEF BatchInv, Shape, PendingUnsent, HoldsRunning, RequestOnRecord,
     LeftReserved, Holding

\* A new or a dead process holds nothing.
LEMMA OffIsProcess == Off \in Processes
<1>1. << >> \in Seq(StageNames)
  OBVIOUS
<1> QED
  BY <1>1, BatchAssumption DEF Off, Processes

\* A process dies, ends or stops.
LEMMA ExitKeeps ==
  ASSUME BatchInv, Exit, UNCHANGED <<targets, stages, sent>>
  PROVE  BatchInv' /\ Stands
  BY OffIsProcess, IdleStep DEF Exit, Off

\* A process opens the ledger.
LEMMA BeginKeeps ==
  ASSUME BatchInv, Begin
  PROVE  BatchInv' /\ Stands
<1>1. run' \in Processes /\ run'.phase = "recover"
  BY DEF Begin, Go, BatchInv, Shape, Processes
<1> QED
  BY <1>1, IdleStep DEF Begin

\* A process reads what is pending.
LEMMA ReadPendingKeeps ==
  ASSUME BatchInv, ReadPending, UNCHANGED <<targets, stages, sent>>
  PROVE  BatchInv' /\ Stands
<1>1. Pending \in SUBSET Targets
  BY DEF Pending
<1>2. run' \in Processes /\ run'.phase = "next"
  BY <1>1 DEF ReadPending, BatchInv, Shape, Processes
<1> QED
  BY <1>2, IdleStep

\* The gate outside the process opens or closes.
LEMMA GateKeeps ==
  ASSUME BatchInv, UNCHANGED <<targets, stages, run, sent>>
  PROVE  BatchInv' /\ Stands
  BY TablesRest DEF BatchInv, Shape, PendingUnsent, HoldsRunning, RequestOnRecord,
     LeftReserved, Row, WasSent

\* A target that is to end as pending must have sent nothing; any other outcome may
\* be decided on at any time.
LEMMA EndingKeeps ==
  ASSUME BatchInv, run.phase \in Holding, UNCHANGED <<targets, stages, sent>>,
         NEW status \in Statuses, NEW stop \in BOOLEAN, Ending(status, stop),
         status = "pending" => ~WasSent(run.target)
  PROVE  BatchInv' /\ Stands
<1>1. /\ run' \in Processes /\ run'.phase = "finish"
      /\ run'.status = status /\ run'.target = run.target
  BY DEF Ending, BatchInv, Shape, Processes
<1>2. run.target \in Targets /\ targets[run.target] = "running"
  BY DEF BatchInv, HoldsRunning
<1>3. PendingUnsent'
  BY <1>1, <1>2, TablesRest DEF PendingUnsent
<1>4. HoldsRunning' /\ RequestOnRecord' /\ LeftReserved'
  BY <1>1, <1>2 DEF HoldsRunning, RequestOnRecord, LeftReserved, Holding
<1> QED
  BY <1>1, <1>3, <1>4, TablesRest DEF BatchInv, Shape

\* The route is answered, and the reserved requests that follow are chosen.
LEMMA PlannedKeeps ==
  ASSUME BatchInv, NEW requests \in Seq(StageNames), Planned(requests),
         \A i \in 1..Len(requests) :
           /\ Row(run.target, requests[i]).status = "reserved"
           /\ requests[i] # run.stage
           /\ \A j \in 1..Len(requests) : requests[i] = requests[j] => i = j
  PROVE  BatchInv' /\ Stands
<1>1. /\ run' \in Processes /\ run'.phase = "planned" /\ run'.left = requests
      /\ run'.target = run.target /\ run'.stage = run.stage
  BY DEF Planned, BatchInv, Shape, Processes
<1>2. UNCHANGED <<targets, stages, sent>>
  BY DEF Planned, ledgerVars
<1>3. run.target \in Targets /\ targets[run.target] = "running"
  BY DEF Planned, BatchInv, HoldsRunning, Holding
<1>4. LeftReserved'
  BY <1>1, <1>2 DEF LeftReserved, Row, Planned
<1>5. PendingUnsent' /\ HoldsRunning' /\ RequestOnRecord'
  BY <1>1, <1>2, <1>3, TablesRest DEF PendingUnsent, HoldsRunning, RequestOnRecord
<1> QED
  BY <1>1, <1>2, <1>4, <1>5, TablesRest DEF BatchInv, Shape

\* The answer to a request for reasons lets the process go on.
LEMMA ReasonsKeep ==
  ASSUME BatchInv, ReasonsAnswered
  PROVE  BatchInv' /\ Stands
<1>1. /\ run' \in Processes /\ run'.phase = "planned" /\ run'.left = run.left
      /\ run'.target = run.target /\ run'.stage = run.stage
  BY DEF ReasonsAnswered, Go, BatchInv, Shape, Processes
<1>2. UNCHANGED <<targets, stages, sent>>
  BY DEF ReasonsAnswered, ledgerVars
<1>3. run.target \in Targets /\ targets[run.target] = "running"
  BY DEF ReasonsAnswered, BatchInv, HoldsRunning, Holding
<1>4. LeftReserved'
  BY <1>1, <1>2 DEF BatchInv, LeftReserved, Row, Holding, ReasonsAnswered
<1>5. PendingUnsent' /\ HoldsRunning' /\ RequestOnRecord'
  BY <1>1, <1>2, <1>3, TablesRest DEF PendingUnsent, HoldsRunning, RequestOnRecord
<1> QED
  BY <1>1, <1>2, <1>4, <1>5, TablesRest DEF BatchInv, Shape

\* The next request is one of those reserved.
LEMMA NextRequestKeeps ==
  ASSUME BatchInv, NextRequest
  PROVE  BatchInv' /\ Stands
<1> DEFINE left == run.left
<1>1. left \in Seq(StageNames) /\ left # << >>
  BY DEF NextRequest, BatchInv, Shape, Processes
<1>2. /\ Head(left) \in StageNames /\ Head(left) = left[1] /\ 1 \in 1..Len(left)
      /\ Tail(left) \in Seq(StageNames) /\ Len(Tail(left)) = Len(left) - 1
      /\ \A i \in 1..Len(Tail(left)) : Tail(left)[i] = left[i + 1] /\ i + 1 \in 1..Len(left)
  BY <1>1
<1>3. /\ run' \in Processes /\ run'.phase = "admit" /\ run'.left = Tail(left)
      /\ run'.target = run.target /\ run'.stage = Head(left)
  BY <1>2 DEF NextRequest, BatchInv, Shape, Processes
<1>4. UNCHANGED <<targets, stages, sent>>
  BY DEF NextRequest, ledgerVars
<1>5. run.target \in Targets /\ targets[run.target] = "running"
  BY DEF NextRequest, BatchInv, HoldsRunning, Holding
<1>6. \A i \in 1..Len(left) :
        /\ Row(run.target, left[i]).status = "reserved"
        /\ left[i] # "route"
        /\ \A j \in 1..Len(left) : left[i] = left[j] => i = j
  BY DEF BatchInv, LeftReserved, Holding, NextRequest
<1>7. LeftReserved'
  <2>1. \A i \in 1..Len(Tail(left)) :
          /\ Row(run.target, Tail(left)[i]).status = "reserved"
          /\ Tail(left)[i] \notin {Head(left), "route"}
          /\ \A j \in 1..Len(Tail(left)) : Tail(left)[i] = Tail(left)[j] => i = j
    BY <1>2, <1>6
  <2> QED
    BY <2>1, <1>3, <1>4 DEF LeftReserved, Row
<1>8. RequestOnRecord'
  BY <1>2, <1>3, <1>4, <1>6 DEF RequestOnRecord, Row
<1>9. PendingUnsent' /\ HoldsRunning'
  BY <1>3, <1>4, <1>5, TablesRest DEF PendingUnsent, HoldsRunning
<1> QED
  BY <1>3, <1>4, <1>7, <1>8, <1>9, TablesRest DEF BatchInv, Shape

-----------------------------------------------------------------------------
(* Steps that write the ledger *)

\* A running target is recovered: reconciled if anything of it may have been sent.
LEMMA RecoverKeeps ==
  ASSUME BatchInv, RecoverNext
  PROVE  BatchInv' /\ Stands
<1>1. PICK t \in Targets : Recover(t)
  BY DEF RecoverNext
<1> DEFINE status == IF WasSent(t) THEN "reconcile" ELSE "pending"
<1>2. status \in Statuses /\ targets[t] = "running" /\ Finish(t, status)
  BY <1>1 DEF Recover, Statuses
<1>3. /\ TablesOK' /\ targets' = [targets EXCEPT ![t] = status]
      /\ \A k \in StageKeys :
           stages'[k].status = IF k[1] = t /\ stages[k].status = "reserved"
                                 THEN "not_sent" ELSE stages[k].status
      /\ \A u \in Targets : (WasSent(u)' <=> WasSent(u))
  BY <1>2, FinishEffect DEF BatchInv, Shape
<1>4. run' = run /\ sent' = sent /\ run.phase = "recover"
  BY DEF RecoverNext, batchVars
<1>5. SentOnceOnRecord'
  BY <1>3, <1>4 DEF BatchInv, SentOnceOnRecord, SentStatuses
<1>6. PendingUnsent'
  BY <1>2, <1>3, <1>4 DEF BatchInv, Shape, TablesOK, PendingUnsent
<1>7. HoldsRunning' /\ RequestOnRecord' /\ LeftReserved'
  BY <1>4 DEF HoldsRunning, RequestOnRecord, LeftReserved, Holding
<1>8. Stands
  BY <1>2, <1>3 DEF Stands, BatchInv, Shape, TablesOK, StageKeys
<1> QED
  BY <1>3, <1>4, <1>5, <1>6, <1>7, <1>8 DEF BatchInv, Shape

\* A target is claimed with its route among the requests reserved.
LEMMA ClaimKeeps ==
  ASSUME BatchInv, NEW t \in Targets, NEW names \in SUBSET StageNames, "route" \in names,
         ClaimTarget(t, names)
  PROVE  BatchInv' /\ Stands
<1>1. Claim(t, names) /\ sent' = sent
  BY DEF ClaimTarget
<1>2. /\ TablesOK' /\ targets[t] = "pending"
      /\ targets' = [targets EXCEPT ![t] = "running"]
      /\ \A s \in names : stages'[<<t, s>>].status = "reserved"
      /\ \A k \in StageKeys : k \notin {t} \X names => stages'[k] = stages[k]
  BY <1>1, ClaimEffect DEF BatchInv, Shape
<1>3. /\ run' \in Processes /\ run'.phase = "admit" /\ run'.target = t
      /\ run'.stage = "route" /\ run'.left = << >>
  <2>1. run.todo \ {t} \in SUBSET Targets
    BY DEF BatchInv, Shape, Processes
  <2> QED
    BY <2>1, OffIsProcess DEF ClaimTarget, Off, Processes
<1>4. \A s \in StageNames : stages[<<t, s>>].status \notin SentStatuses /\ sent[<<t, s>>] = 0
  <2> SUFFICES ASSUME NEW s \in StageNames
               PROVE  stages[<<t, s>>].status \notin SentStatuses /\ sent[<<t, s>>] = 0
    OBVIOUS
  <2>1. stages[<<t, s>>].status \notin SentStatuses
    BY <1>2 DEF BatchInv, PendingUnsent, WasSent
  <2>2. <<t, s>> \in StageKeys
    BY DEF StageKeys
  <2>3. sent[<<t, s>>] \in Nat /\ sent[<<t, s>>] <= 1 /\ sent[<<t, s>>] # 1
    BY <2>1, <2>2 DEF BatchInv, Shape, SentOnceOnRecord
  <2> QED
    BY <2>1, <2>3
<1>5. \A s \in StageNames : stages'[<<t, s>>].status \notin SentStatuses
  <2> SUFFICES ASSUME NEW s \in StageNames PROVE stages'[<<t, s>>].status \notin SentStatuses
    OBVIOUS
  <2>1. CASE s \in names
    BY <1>2, <2>1 DEF SentStatuses
  <2>2. CASE s \notin names
    <3>1. <<t, s>> \in StageKeys /\ <<t, s>> \notin {t} \X names
      BY <2>2 DEF StageKeys
    <3> QED
      BY <1>2, <1>4, <3>1
  <2> QED
    BY <2>1, <2>2
<1>6. \A u \in Targets, s \in StageNames : u # t => stages'[<<u, s>>] = stages[<<u, s>>]
  BY <1>2 DEF StageKeys
<1>7. SentOnceOnRecord'
  <2> SUFFICES ASSUME NEW u \in Targets, NEW s \in StageNames
               PROVE  /\ sent[<<u, s>>] <= 1
                      /\ sent[<<u, s>>] = 1 => stages'[<<u, s>>].status \in SentStatuses
    BY <1>1 DEF SentOnceOnRecord, StageKeys
  <2>1. <<u, s>> \in StageKeys
    BY DEF StageKeys
  <2>2. CASE u = t
    BY <1>4, <2>2
  <2>3. CASE u # t
    BY <1>6, <2>1, <2>3 DEF BatchInv, SentOnceOnRecord
  <2> QED
    BY <2>2, <2>3
<1>8. PendingUnsent'
  <2>1. \A u \in Targets : u # t => (WasSent(u)' <=> WasSent(u))
    BY <1>6 DEF WasSent
  <2> QED
    BY <1>2, <1>3, <2>1 DEF BatchInv, Shape, TablesOK, PendingUnsent
<1>9. HoldsRunning' /\ LeftReserved'
  BY <1>2, <1>3 DEF HoldsRunning, LeftReserved, BatchInv, Shape, TablesOK
<1>10. RequestOnRecord'
  <2>1. ~WasSent(t)'
    BY <1>5 DEF WasSent
  <2> QED
    BY <1>2, <1>3, <2>1 DEF RequestOnRecord, Row
<1>11. Stands
  BY <1>2, <1>6 DEF Stands, BatchInv, Shape, TablesOK
<1> QED
  BY <1>1, <1>2, <1>3, <1>7, <1>8, <1>9, <1>10, <1>11 DEF BatchInv, Shape

\* The outcome of a target is written.
LEMMA FinishKeeps ==
  ASSUME BatchInv, FinishTarget
  PROVE  BatchInv' /\ Stands
<1> DEFINE t == run.target
<1>1. /\ t \in Targets /\ targets[t] = "running" /\ run.status \in Statuses
      /\ Finish(t, run.status) /\ sent' = sent /\ run.phase = "finish"
  BY DEF FinishTarget, BatchInv, HoldsRunning, Holding
<1>2. /\ TablesOK' /\ targets' = [targets EXCEPT ![t] = run.status]
      /\ \A k \in StageKeys :
           stages'[k].status = IF k[1] = t /\ stages[k].status = "reserved"
                                 THEN "not_sent" ELSE stages[k].status
      /\ \A u \in Targets : (WasSent(u)' <=> WasSent(u))
  BY <1>1, FinishEffect DEF BatchInv, Shape
<1>3. run' \in Processes /\ run'.phase \in {"next", "stopped"}
  <2>1. run.todo \in SUBSET Targets
    BY DEF BatchInv, Shape, Processes
  <2> QED
    BY <2>1, OffIsProcess DEF FinishTarget, Off, Processes
<1>4. SentOnceOnRecord'
  BY <1>1, <1>2 DEF BatchInv, SentOnceOnRecord, SentStatuses
<1>5. PendingUnsent'
  BY <1>1, <1>2, <1>3 DEF BatchInv, Shape, TablesOK, PendingUnsent
<1>6. HoldsRunning' /\ RequestOnRecord' /\ LeftReserved'
  BY <1>3 DEF HoldsRunning, RequestOnRecord, LeftReserved, Holding
<1>7. Stands
  BY <1>1, <1>2 DEF Stands, BatchInv, Shape, TablesOK, StageKeys
<1> QED
  BY <1>1, <1>2, <1>3, <1>4, <1>5, <1>6, <1>7 DEF BatchInv, Shape

\* The record of a request is written; unless nothing of it left, it is one of those
\* that say it may have.
LEMMA RecordWritten ==
  ASSUME BatchInv, run.phase \in Holding, UNCHANGED sent,
         NEW status \in {"not_sent"} \cup SentStatuses, NEW cost \in Costs \cup {0},
         Stage(run.target, run.stage, status, cost),
         status \in SentStatuses \/ sent[<<run.target, run.stage>>] = 0
  PROVE  /\ TablesOK' /\ SentOnceOnRecord' /\ Stands /\ targets' = targets
         /\ run.target \in Targets /\ targets[run.target] = "running"
         /\ stages'[<<run.target, run.stage>>].status = status
         /\ \A s \in StageNames :
              s # run.stage => stages'[<<run.target, s>>] = stages[<<run.target, s>>]
         /\ \A u \in Targets : targets[u] = "pending" => ~WasSent(u)'
<1> DEFINE t == run.target
           s == run.stage
<1>1. t \in Targets /\ targets[t] = "running" /\ s \in StageNames
  BY DEF BatchInv, HoldsRunning, Shape, Processes
<1>2. /\ TablesOK' /\ targets' = targets /\ stages'[<<t, s>>].status = status
      /\ \A k \in StageKeys \ {<<t, s>>} : stages'[k] = stages[k]
  BY <1>1, StageEffect DEF BatchInv, Shape
<1>3. SentOnceOnRecord'
  <2> SUFFICES ASSUME NEW k \in StageKeys
               PROVE  /\ sent[k] <= 1
                      /\ sent[k] = 1 => stages'[k].status \in SentStatuses
    BY DEF SentOnceOnRecord, StageKeys
  <2>1. CASE k = <<t, s>>
    BY <1>2, <2>1 DEF BatchInv, SentOnceOnRecord
  <2>2. CASE k # <<t, s>>
    BY <1>2, <2>2 DEF BatchInv, SentOnceOnRecord
  <2> QED
    BY <2>1, <2>2
<1>4. \A r \in StageNames : r # s => stages'[<<t, r>>] = stages[<<t, r>>]
  <2> SUFFICES ASSUME NEW r \in StageNames, r # s PROVE stages'[<<t, r>>] = stages[<<t, r>>]
    OBVIOUS
  <2>1. <<t, r>> \in StageKeys /\ <<t, r>> # <<t, s>>
    BY <1>1 DEF StageKeys
  <2> QED
    BY <1>2, <2>1
<1>5. \A u \in Targets : targets[u] = "pending" => ~WasSent(u)'
  <2> SUFFICES ASSUME NEW u \in Targets, targets[u] = "pending" PROVE ~WasSent(u)'
    OBVIOUS
  <2>1. u # t /\ ~WasSent(u)
    BY <1>1 DEF BatchInv, PendingUnsent
  <2>2. \A r \in StageNames : <<u, r>> \in StageKeys /\ <<u, r>> # <<t, s>>
    BY <2>1 DEF StageKeys
  <2> QED
    BY <1>2, <2>1, <2>2 DEF WasSent
<1>6. Stands
  BY <1>1, <1>2 DEF Stands, StageKeys
<1> QED
  BY <1>1, <1>2, <1>3, <1>4, <1>5, <1>6

\* Requests still to be sent stay reserved while another row is written.
LEMMA LeftRests ==
  ASSUME BatchInv, run.phase \in Holding \ {"finish"},
         run'.target = run.target, run'.stage = run.stage, run'.left = run.left,
         \A s \in StageNames :
           s # run.stage => stages'[<<run.target, s>>] = stages[<<run.target, s>>]
  PROVE  LeftReserved'
<1>1. \A i \in 1..Len(run.left) :
        /\ Row(run.target, run.left[i]).status = "reserved"
        /\ run.left[i] \notin {run.stage, "route"}
        /\ \A j \in 1..Len(run.left) : run.left[i] = run.left[j] => i = j
  BY DEF BatchInv, LeftReserved
<1>2. \A i \in 1..Len(run.left) : run.left[i] \in StageNames
  BY DEF BatchInv, Shape, Processes
<1> QED
  BY <1>1, <1>2 DEF LeftReserved, Row

\* A request is recorded as built; its reservation says that nothing of it left.
LEMMA PrepareKeeps ==
  ASSUME BatchInv, Prepare
  PROVE  BatchInv' /\ Stands
<1> DEFINE k == <<run.target, run.stage>>
<1>1. run.phase = "admit" /\ stages[k].status = "reserved"
  BY DEF Prepare, BatchInv, RequestOnRecord, Row
<1>2. sent[k] = 0
  <2>1. k \in StageKeys
    BY <1>1 DEF BatchInv, HoldsRunning, Holding, Shape, Processes, StageKeys
  <2>2. sent[k] \in Nat /\ sent[k] <= 1 /\ sent[k] # 1
    BY <1>1, <2>1 DEF BatchInv, Shape, SentOnceOnRecord, SentStatuses
  <2> QED
    BY <2>2
<1>3. /\ run' \in Processes /\ run'.phase = "prepared" /\ run'.target = run.target
      /\ run'.stage = run.stage /\ run'.left = run.left
  BY DEF Prepare, Go, BatchInv, Shape, Processes
<1>4. /\ TablesOK' /\ SentOnceOnRecord' /\ Stands /\ targets' = targets
      /\ run.target \in Targets /\ targets[run.target] = "running"
      /\ stages'[k].status = "not_sent"
      /\ \A s \in StageNames :
           s # run.stage => stages'[<<run.target, s>>] = stages[<<run.target, s>>]
      /\ \A u \in Targets : targets[u] = "pending" => ~WasSent(u)'
  BY <1>1, <1>2, RecordWritten DEF Prepare, Holding
<1>5. LeftReserved'
  BY <1>1, <1>3, <1>4, LeftRests DEF Prepare, Holding
<1>6. RequestOnRecord'
  <2>1. run.stage = "route" =>
          \A s \in StageNames : stages'[<<run.target, s>>].status \notin SentStatuses
    BY <1>1, <1>4 DEF BatchInv, RequestOnRecord, WasSent, SentStatuses
  <2>2. run.stage = "route" => ~WasSent(run.target)'
    BY <1>3, <2>1 DEF WasSent
  <2> QED
    BY <1>3, <1>4, <2>2 DEF RequestOnRecord, Row
<1>7. PendingUnsent' /\ HoldsRunning'
  BY <1>3, <1>4 DEF PendingUnsent, HoldsRunning
<1> QED
  BY <1>3, <1>4, <1>5, <1>6, <1>7 DEF BatchInv, Shape, Prepare

\* The start of a request is recorded before it leaves.
LEMMA StartKeeps ==
  ASSUME BatchInv, MarkStarted
  PROVE  BatchInv' /\ Stands
<1> DEFINE k == <<run.target, run.stage>>
<1>1. run.phase = "prepared" /\ stages[k].status = "not_sent"
  BY DEF MarkStarted, BatchInv, RequestOnRecord, Row
<1>2. sent[k] = 0
  <2>1. k \in StageKeys
    BY <1>1 DEF BatchInv, HoldsRunning, Holding, Shape, Processes, StageKeys
  <2>2. sent[k] \in Nat /\ sent[k] <= 1 /\ sent[k] # 1
    BY <1>1, <2>1 DEF BatchInv, Shape, SentOnceOnRecord, SentStatuses
  <2> QED
    BY <2>2
<1>3. /\ run' \in Processes /\ run'.phase = "started" /\ run'.target = run.target
      /\ run'.stage = run.stage /\ run'.left = run.left
  BY DEF MarkStarted, Go, BatchInv, Shape, Processes
<1>4. /\ TablesOK' /\ SentOnceOnRecord' /\ Stands /\ targets' = targets
      /\ run.target \in Targets /\ targets[run.target] = "running"
      /\ stages'[k].status = "started"
      /\ \A s \in StageNames :
           s # run.stage => stages'[<<run.target, s>>] = stages[<<run.target, s>>]
      /\ \A u \in Targets : targets[u] = "pending" => ~WasSent(u)'
  BY <1>1, RecordWritten DEF MarkStarted, Holding, SentStatuses
<1>5. LeftReserved'
  BY <1>1, <1>3, <1>4, LeftRests DEF MarkStarted, Holding
<1>6. RequestOnRecord'
  BY <1>2, <1>3, <1>4 DEF RequestOnRecord, Row, MarkStarted
<1>7. PendingUnsent' /\ HoldsRunning'
  BY <1>3, <1>4 DEF PendingUnsent, HoldsRunning
<1> QED
  BY <1>3, <1>4, <1>5, <1>6, <1>7 DEF BatchInv, Shape, MarkStarted

\* The request leaves for the first time, and its start is on record.
LEMMA SendKeeps ==
  ASSUME BatchInv, Send
  PROVE  BatchInv' /\ Stands
<1> DEFINE k == <<run.target, run.stage>>
<1>1. /\ run.phase = "started" /\ stages[k].status = "started" /\ sent[k] = 0
      /\ k \in StageKeys /\ run.target \in Targets /\ targets[run.target] = "running"
  BY DEF Send, BatchInv, RequestOnRecord, Row, HoldsRunning, Holding, Shape, Processes, StageKeys
<1>2. targets' = targets /\ stages' = stages /\ sent' = [sent EXCEPT ![k] = sent[k] + 1]
  BY DEF Send, ledgerVars
<1>3. /\ run' \in Processes /\ run'.phase = "waiting" /\ run'.target = run.target
      /\ run'.stage = run.stage /\ run'.left = run.left
  BY DEF Send, Go, BatchInv, Shape, Processes
<1>4. SentOnceOnRecord' /\ sent' \in [StageKeys -> Nat]
  BY <1>1, <1>2 DEF BatchInv, Shape, SentOnceOnRecord, SentStatuses, StageKeys
<1>5. \A u \in Targets : (WasSent(u)' <=> WasSent(u))
  BY <1>2 DEF WasSent
<1>6. LeftReserved'
  BY <1>1, <1>2, <1>3 DEF BatchInv, LeftReserved, Row, Holding
<1>7. PendingUnsent' /\ HoldsRunning' /\ RequestOnRecord'
  BY <1>1, <1>2, <1>3, <1>5 DEF BatchInv, PendingUnsent, HoldsRunning, RequestOnRecord, Row
<1>8. TablesOK' /\ Stands
  BY <1>2 DEF BatchInv, Shape, TablesOK, Stands
<1> QED
  BY <1>3, <1>4, <1>6, <1>7, <1>8 DEF BatchInv, Shape

\* The answer is recorded with its cost.
LEMMA CompleteKeeps ==
  ASSUME BatchInv, Complete
  PROVE  BatchInv' /\ Stands
<1>1. PICK cost \in Costs : Stage(run.target, run.stage, "completed", cost)
  BY DEF Complete
<1>2. /\ run.phase = "waiting" /\ sent' = sent
      /\ run' \in Processes /\ run'.phase = "answered" /\ run'.target = run.target
      /\ run'.stage = run.stage /\ run'.left = run.left
  BY DEF Complete, Go, BatchInv, Shape, Processes
<1>3. /\ TablesOK' /\ SentOnceOnRecord' /\ Stands /\ targets' = targets
      /\ run.target \in Targets /\ targets[run.target] = "running"
      /\ stages'[<<run.target, run.stage>>].status = "completed"
      /\ \A s \in StageNames :
           s # run.stage => stages'[<<run.target, s>>] = stages[<<run.target, s>>]
      /\ \A u \in Targets : targets[u] = "pending" => ~WasSent(u)'
  BY <1>1, <1>2, RecordWritten DEF Holding, SentStatuses
<1>4. LeftReserved'
  BY <1>2, <1>3, LeftRests DEF Holding
<1>5. RequestOnRecord' /\ PendingUnsent' /\ HoldsRunning'
  BY <1>2, <1>3 DEF RequestOnRecord, Row, PendingUnsent, HoldsRunning
<1> QED
  BY <1>2, <1>3, <1>4, <1>5 DEF BatchInv, Shape

\* A request failed: its record says that it may have left, and its target ends, or
\* the process goes on with the requests left.
LEMMA FailKeeps ==
  ASSUME BatchInv, FailStage, UNCHANGED sent, run' \in Processes,
         run'.target = run.target, run'.stage = run.stage, run'.left = run.left,
         \/ run'.phase = "planned"
         \/ run'.phase = "finish" /\ run'.status \in Statuses \ {"pending"}
  PROVE  BatchInv' /\ Stands
<1>1. run.phase = "waiting" /\ Stage(run.target, run.stage, "failed_or_unknown", 0)
  BY DEF FailStage
<1>2. /\ TablesOK' /\ SentOnceOnRecord' /\ Stands /\ targets' = targets
      /\ run.target \in Targets /\ targets[run.target] = "running"
      /\ stages'[<<run.target, run.stage>>].status = "failed_or_unknown"
      /\ \A s \in StageNames :
           s # run.stage => stages'[<<run.target, s>>] = stages[<<run.target, s>>]
      /\ \A u \in Targets : targets[u] = "pending" => ~WasSent(u)'
  BY <1>1, RecordWritten DEF Holding, SentStatuses
<1>3. LeftReserved'
  BY <1>1, <1>2, LeftRests DEF Holding
<1>4. RequestOnRecord' /\ PendingUnsent' /\ HoldsRunning'
  BY <1>2 DEF RequestOnRecord, PendingUnsent, HoldsRunning
<1> QED
  BY <1>2, <1>3, <1>4 DEF BatchInv, Shape

\* Steps of one request write its row only, and the process keeps its place.
LEMMA RequestStep ==
  ASSUME BatchInv, Prepare \/ MarkStarted \/ Send \/ Complete
  PROVE  /\ run.phase \in Holding \ {"finish", "planned"}
         /\ run'.phase \in Holding \ {"finish", "planned"}
         /\ run'.target = run.target /\ run'.stage = run.stage /\ run'.left = run.left
         /\ targets' = targets
         /\ \A s \in StageNames :
              s # run.stage => stages'[<<run.target, s>>] = stages[<<run.target, s>>]
<1>1. /\ run.phase \in Holding \ {"finish", "planned"}
      /\ run'.phase \in Holding \ {"finish", "planned"}
      /\ run'.target = run.target /\ run'.stage = run.stage /\ run'.left = run.left
  BY DEF Prepare, MarkStarted, Send, Complete, Go, Holding, BatchInv, Shape, Processes
<1>2. run.target \in Targets /\ run.stage \in StageNames /\ TablesOK
  BY <1>1 DEF BatchInv, HoldsRunning, Shape, Processes
<1>3. CASE Send
  BY <1>1, <1>3 DEF Send, ledgerVars
<1>4. CASE Prepare \/ MarkStarted \/ Complete
  <2>1. PICK status \in {"not_sent"} \cup SentStatuses, cost \in Costs \cup {0} :
          Stage(run.target, run.stage, status, cost)
    BY <1>4 DEF Prepare, MarkStarted, Complete, SentStatuses
  <2>2. /\ targets' = targets
        /\ \A k \in StageKeys \ {<<run.target, run.stage>>} : stages'[k] = stages[k]
    BY <1>2, <2>1, StageEffect
  <2> QED
    BY <1>1, <1>2, <2>2 DEF StageKeys
<1> QED
  BY <1>3, <1>4

-----------------------------------------------------------------------------
(* What is held and spent *)

\* What a row says of the request's money: it is held until the request is answered or
\* certainly stays here, and counted once its cost is known.
RowsHold ==
  \A k \in StageKeys :
    /\ stages[k].status \in {"none", "completed"} => stages[k].held = 0
    /\ stages[k].status \in {"reserved", "started", "failed_or_unknown"} =>
         stages[k].held = Reserve
    /\ stages[k].status # "completed" => stages[k].estimate = 0

PendingHoldsNothing ==
  \A k \in StageKeys :
    targets[k[1]] = "pending" => stages[k].held = 0 /\ stages[k].estimate = 0

PreparedHolds == run.phase = "prepared" => Row(run.target, run.stage).held = Reserve

\* The totals of a process are those of the tables, and it waits for an answer only
\* when they were within the limit.
TotalsAgree ==
  /\ totals \in [held : Int, estimate : Int]
  /\ run.phase # "off" =>
       totals.held = HeldBy(StageKeys) /\ totals.estimate = EstimateOf(StageKeys)
  /\ run.phase = "waiting" => Committed <= Limit

MoneyInv == /\ RowsHold
            /\ PendingHoldsNothing
            /\ PreparedHolds
            /\ TotalsAgree
            /\ OvershootIsOneRequest

\* There are finitely many requests, and their amounts are integers.
LEMMA Amounts ==
  ASSUME TablesOK
  PROVE  /\ IsFiniteSet(StageKeys)
         /\ \A k \in StageKeys : /\ stages[k].held \in Int /\ stages[k].held >= 0
                                 /\ stages[k].estimate \in Int
         /\ HeldBy(StageKeys) \in Int /\ EstimateOf(StageKeys) \in Int
<1>1. IsFiniteSet(StageKeys)
  BY FS_Product, LedgerAssumption DEF StageKeys
<1>2. \A k \in StageKeys : /\ stages[k].held \in Int /\ stages[k].held >= 0
                           /\ stages[k].estimate \in Int
  <2>1. \A k \in StageKeys : stages[k] \in Rows
    BY DEF TablesOK
  <2>2. \A row \in Rows : row.held \in {0, Reserve} /\ row.estimate \in Costs \cup {0}
    BY DEF Rows
  <2>3. \A n \in {0, Reserve} \cup Costs : n \in Int /\ n >= 0
    BY LedgerAssumption
  <2> QED
    BY <2>1, <2>2, <2>3
<1>3. HeldBy(StageKeys) \in Int
  <2> DEFINE f == [k \in StageKeys |-> stages[k].held]
  <2>1. \A k \in StageKeys : f[k] \in Int
    BY <1>2
  <2> HIDE DEF f
  <2>2. SumFunctionOnSet(f, StageKeys) \in Int
    BY <1>1, <2>1, SumType
  <2> QED
    BY <2>2 DEF f, HeldBy
<1>4. EstimateOf(StageKeys) \in Int
  <2> DEFINE f == [k \in StageKeys |-> stages[k].estimate]
  <2>1. \A k \in StageKeys : f[k] \in Int
    BY <1>2
  <2> HIDE DEF f
  <2>2. SumFunctionOnSet(f, StageKeys) \in Int
    BY <1>1, <2>1, SumType
  <2> QED
    BY <2>2 DEF f, EstimateOf
<1> QED
  BY <1>1, <1>2, <1>3, <1>4

\* Where no estimate changes, neither does their sum.
LEMMA EstimateRests ==
  ASSUME TablesOK, \A k \in StageKeys : stages'[k].estimate = stages[k].estimate
  PROVE  EstimateOf(StageKeys)' = EstimateOf(StageKeys)
<1> DEFINE f == [k \in StageKeys |-> stages[k].estimate]
           g == [k \in StageKeys |-> stages'[k].estimate]
<1>1. f = g
  OBVIOUS
<1> HIDE DEF f, g
<1>2. EstimateOf(StageKeys) = SumFunctionOnSet(f, StageKeys)
  BY DEF EstimateOf, f
<1>3. EstimateOf(StageKeys)' = SumFunctionOnSet(g, StageKeys)
  BY DEF EstimateOf, g, StageKeys
<1> QED
  BY <1>1, <1>2, <1>3

\* A claim holds a reserve for each request.
LEMMA ClaimAmounts ==
  ASSUME TablesOK, PendingHoldsNothing,
         NEW t \in Targets, NEW names \in SUBSET StageNames, Claim(t, names)
  PROVE  /\ Cardinality(names) * Reserve \in Int
         /\ HeldBy(StageKeys)' = HeldBy(StageKeys) + Cardinality(names) * Reserve
         /\ EstimateOf(StageKeys)' = EstimateOf(StageKeys)
<1> DEFINE D == {t} \X names
           f == [k \in StageKeys |-> stages[k].held]
           g == [k \in StageKeys |-> IF k \in D THEN Reserve ELSE 0]
           h == [k \in StageKeys |-> stages'[k].held]
           c == [k \in StageKeys |-> Reserve]
<1>1. /\ D \in SUBSET StageKeys
      /\ \A k \in D : stages[k].held = 0 /\ stages[k].estimate = 0
      /\ \A k \in D : stages'[k].held = Reserve /\ stages'[k].estimate = 0
      /\ \A k \in StageKeys \ D : stages'[k] = stages[k]
  BY DEF Claim, StageKeys, PendingHoldsNothing
<1>2. Reserve \in Int /\ IsFiniteSet(names)
  BY LedgerAssumption, FS_Subset
<1>3. IsFiniteSet(D) /\ Cardinality(D) = Cardinality(names) /\ Cardinality(names) \in Nat
  <2>1. IsFiniteSet({t}) /\ Cardinality({t}) = 1
    BY FS_Singleton
  <2>2. Cardinality(D) = 1 * Cardinality(names) /\ IsFiniteSet(D) /\ Cardinality(names) \in Nat
    BY <1>2, <2>1, FS_Product, FS_CardinalityType
  <2> QED
    BY <2>2
<1>4. \A k \in StageKeys : f[k] \in Int /\ g[k] \in Int /\ h[k] = f[k] + g[k]
  BY <1>1, <1>2, Amounts
<1>5. \A k \in D : g[k] \in Int /\ g[k] = c[k]
  BY <1>1, <1>2
<1>6. \A k \in StageKeys \ D : g[k] = 0
  OBVIOUS
<1>7. \A k \in D : c[k] = Reserve
  BY <1>1
<1>8. /\ HeldBy(StageKeys) = SumFunctionOnSet(f, StageKeys)
      /\ HeldBy(StageKeys)' = SumFunctionOnSet(h, StageKeys)
  BY DEF HeldBy, StageKeys
<1>9. \A k \in StageKeys : stages'[k].estimate = stages[k].estimate
  BY <1>1
<1> HIDE DEF D, f, g, h, c
<1>10. SumFunctionOnSet(h, StageKeys) = SumFunctionOnSet(f, StageKeys) + SumFunctionOnSet(g, StageKeys)
  BY <1>4, SumAdd, Amounts
<1>11. SumFunctionOnSet(g, StageKeys) = SumFunctionOnSet(c, D)
  BY <1>1, <1>5, <1>6, SumSupport, Amounts
<1>12. SumFunctionOnSet(c, D) = Cardinality(D) * Reserve
  BY <1>2, <1>3, <1>7, SumConstant
<1>13. Cardinality(names) * Reserve \in Int
  BY <1>2, <1>3
<1> QED
  BY <1>3, <1>8, <1>9, <1>10, <1>11, <1>12, <1>13, EstimateRests

\* The record of a request changes the sums by what it says anew.
LEMMA StageAmounts ==
  ASSUME TablesOK, NEW t \in Targets, NEW s \in StageNames,
         NEW status \in {"not_sent"} \cup SentStatuses, NEW cost \in Costs \cup {0},
         Stage(t, s, status, cost)
  PROVE  LET k == <<t, s>>
         IN /\ k \in StageKeys
            /\ stages'[k].held = IF status = "completed" THEN 0 ELSE Reserve
            /\ stages'[k].estimate = IF status = "completed" THEN cost ELSE 0
            /\ HeldBy(StageKeys)' = HeldBy(StageKeys) - stages[k].held + stages'[k].held
            /\ EstimateOf(StageKeys)' = EstimateOf(StageKeys) - stages[k].estimate + stages'[k].estimate
            /\ totals' = [held |-> totals.held + stages'[k].held - stages[k].held,
                          estimate |-> totals.estimate + stages'[k].estimate - stages[k].estimate]
<1> DEFINE k == <<t, s>>
           row == [status |-> status, held |-> IF status = "completed" THEN 0 ELSE Reserve,
                   estimate |-> IF status = "completed" THEN cost ELSE 0]
           f == [j \in StageKeys |-> stages[j].held]
           g == [j \in StageKeys |-> stages'[j].held]
           e == [j \in StageKeys |-> stages[j].estimate]
           d == [j \in StageKeys |-> stages'[j].estimate]
<1>1. k \in StageKeys
  BY DEF StageKeys
<1>2. /\ stages' = [stages EXCEPT ![k] = row]
      /\ totals' = [held |-> totals.held + row.held - stages[k].held,
                    estimate |-> totals.estimate + row.estimate - stages[k].estimate]
  BY DEF Stage
<1>3. stages'[k] = row /\ \A j \in StageKeys \ {k} : stages'[j] = stages[j]
  BY <1>1, <1>2 DEF TablesOK
<1>4. row.held \in Int /\ row.estimate \in Int
  BY LedgerAssumption
<1>5. /\ \A j \in StageKeys : f[j] \in Int /\ g[j] \in Int
      /\ \A j \in StageKeys \ {k} : f[j] = g[j]
  BY <1>1, <1>3, <1>4, Amounts
<1>6. /\ \A j \in StageKeys : e[j] \in Int /\ d[j] \in Int
      /\ \A j \in StageKeys \ {k} : e[j] = d[j]
  BY <1>1, <1>3, <1>4, Amounts
<1>7. /\ HeldBy(StageKeys) = SumFunctionOnSet(f, StageKeys)
      /\ HeldBy(StageKeys)' = SumFunctionOnSet(g, StageKeys)
      /\ EstimateOf(StageKeys) = SumFunctionOnSet(e, StageKeys)
      /\ EstimateOf(StageKeys)' = SumFunctionOnSet(d, StageKeys)
  BY DEF HeldBy, EstimateOf, StageKeys
<1>8. /\ f[k] = stages[k].held /\ g[k] = stages'[k].held
      /\ e[k] = stages[k].estimate /\ d[k] = stages'[k].estimate
  BY <1>1
<1> HIDE DEF f, g, e, d, k
<1>9. SumFunctionOnSet(g, StageKeys) = SumFunctionOnSet(f, StageKeys) - f[k] + g[k]
  BY <1>1, <1>5, SumChange, Amounts
<1>10. SumFunctionOnSet(d, StageKeys) = SumFunctionOnSet(e, StageKeys) - e[k] + d[k]
  BY <1>1, <1>6, SumChange, Amounts
<1>11. /\ stages'[k].held = IF status = "completed" THEN 0 ELSE Reserve
       /\ stages'[k].estimate = IF status = "completed" THEN cost ELSE 0
       /\ totals' = [held |-> totals.held + stages'[k].held - stages[k].held,
                     estimate |-> totals.estimate + stages'[k].estimate - stages[k].estimate]
  BY <1>2, <1>3
<1>12. /\ HeldBy(StageKeys)' = HeldBy(StageKeys) - stages[k].held + stages'[k].held
       /\ EstimateOf(StageKeys)' = EstimateOf(StageKeys) - stages[k].estimate + stages'[k].estimate
  BY <1>7, <1>8, <1>9, <1>10
<1> QED
  BY <1>1, <1>11, <1>12 DEF k

\* The end of a target takes what was held for its unsent requests from the sum.
LEMMA FinishAmounts ==
  ASSUME TablesOK, NEW t \in Targets, NEW status \in Statuses, Finish(t, status)
  PROVE  /\ HeldBy(Unsent(t)) \in Int /\ HeldBy(Unsent(t)) >= 0
         /\ HeldBy(StageKeys)' = HeldBy(StageKeys) - HeldBy(Unsent(t))
         /\ EstimateOf(StageKeys)' = EstimateOf(StageKeys)
         /\ \A k \in StageKeys : /\ stages'[k].held = IF k \in Unsent(t) THEN 0 ELSE stages[k].held
                                 /\ stages'[k].estimate = stages[k].estimate
<1> DEFINE D == Unsent(t)
           f == [k \in StageKeys |-> stages[k].held]
           g == [k \in StageKeys |-> IF k \in D THEN stages[k].held ELSE 0]
           h == [k \in StageKeys |-> stages'[k].held]
<1>1. D \in SUBSET StageKeys
  BY DEF Unsent, StageKeys
<1>2. \A k \in StageKeys :
        stages'[k] = IF k \in D THEN [stages[k] EXCEPT !.status = "not_sent", !.held = 0]
                     ELSE stages[k]
  BY DEF Finish
<1>3. \A k \in StageKeys : /\ stages'[k].held = IF k \in D THEN 0 ELSE stages[k].held
                           /\ stages'[k].estimate = stages[k].estimate
  <2> SUFFICES ASSUME NEW k \in StageKeys
               PROVE  /\ stages'[k].held = IF k \in D THEN 0 ELSE stages[k].held
                      /\ stages'[k].estimate = stages[k].estimate
    OBVIOUS
  <2>1. \A row \in Rows : LET new == [row EXCEPT !.status = "not_sent", !.held = 0]
                         IN  new.held = 0 /\ new.estimate = row.estimate
    BY DEF Rows
  <2>2. stages[k] \in Rows
    BY DEF TablesOK
  <2> HIDE DEF D
  <2>3. CASE k \in D
    BY <1>2, <2>1, <2>2, <2>3
  <2>4. CASE k \notin D
    BY <1>2, <2>4
  <2> QED
    BY <2>3, <2>4
<1>4. /\ \A k \in StageKeys : h[k] \in Int /\ g[k] \in Int /\ f[k] = h[k] + g[k]
      /\ \A k \in D : g[k] \in Int /\ g[k] = f[k]
      /\ \A k \in StageKeys \ D : g[k] = 0
      /\ \A k \in D : f[k] \in Int /\ f[k] >= 0
  BY <1>1, <1>3, Amounts
<1>5. /\ HeldBy(StageKeys) = SumFunctionOnSet(f, StageKeys)
      /\ HeldBy(D) = SumFunctionOnSet(f, D)
      /\ HeldBy(StageKeys)' = SumFunctionOnSet(h, StageKeys)
  BY DEF HeldBy, StageKeys
<1>6. IsFiniteSet(StageKeys) /\ IsFiniteSet(D)
  BY <1>1, Amounts, FS_Subset
<1> HIDE DEF D, f, g, h
<1>7. SumFunctionOnSet(f, StageKeys) = SumFunctionOnSet(h, StageKeys) + SumFunctionOnSet(g, StageKeys)
  BY <1>4, <1>6, SumAdd
<1>8. SumFunctionOnSet(g, StageKeys) = SumFunctionOnSet(f, D)
  BY <1>1, <1>4, <1>6, SumSupport
<1>9. SumFunctionOnSet(f, D) \in Int /\ SumFunctionOnSet(f, D) >= 0
  BY <1>4, <1>6, SumType
<1>10. SumFunctionOnSet(h, StageKeys) \in Int
  BY <1>4, <1>6, SumType
<1>11. EstimateOf(StageKeys)' = EstimateOf(StageKeys)
  BY <1>3, EstimateRests
<1>12. HeldBy(D) \in Int /\ HeldBy(D) >= 0 /\ HeldBy(StageKeys)' = HeldBy(StageKeys) - HeldBy(D)
  BY <1>5, <1>7, <1>8, <1>9, <1>10
<1> QED
  BY <1>3, <1>11, <1>12 DEF D

-----------------------------------------------------------------------------
(* Steps and the money *)

\* A step that leaves the tables alone needs to keep the totals only.
LEMMA MoneyRests ==
  ASSUME MoneyInv, UNCHANGED <<targets, stages>>, TotalsAgree',
         run'.phase = "prepared" =>
           run.phase = "prepared" /\ run'.target = run.target /\ run'.stage = run.stage
  PROVE  MoneyInv'
  BY DEF MoneyInv, RowsHold, PendingHoldsNothing, PreparedHolds, Row, OvershootIsOneRequest,
     HeldBy, EstimateOf, StageKeys

\* The sums of the tables are those of the same tables.
LEMMA SumsRest ==
  ASSUME UNCHANGED stages
  PROVE  HeldBy(StageKeys)' = HeldBy(StageKeys) /\ EstimateOf(StageKeys)' = EstimateOf(StageKeys)
  BY DEF HeldBy, EstimateOf, StageKeys

\* The totals stay with the tables while the process goes on.
LEMMA ProcessMoney ==
  ASSUME MoneyInv, UNCHANGED ledgerVars, run.phase # "off",
         run'.phase \notin {"prepared", "waiting"}
  PROVE  MoneyInv'
<1>1. TotalsAgree'
  BY SumsRest DEF MoneyInv, TotalsAgree, ledgerVars
<1> QED
  BY <1>1, MoneyRests DEF ledgerVars

\* What is outside the process does not touch the money.
LEMMA OutsideMoney ==
  ASSUME MoneyInv, UNCHANGED <<ledgerVars, run>>
  PROVE  MoneyInv'
<1>1. TotalsAgree'
  BY SumsRest DEF MoneyInv, TotalsAgree, Committed, ledgerVars
<1> QED
  BY <1>1, MoneyRests DEF ledgerVars

\* A process that ends leaves no totals.
LEMMA ExitMoney ==
  ASSUME MoneyInv, Exit, UNCHANGED <<targets, stages>>
  PROVE  MoneyInv'
<1>1. run'.phase = "off" /\ totals' \in [held : Int, estimate : Int]
  BY DEF Exit, Off, NoTotals
<1> QED
  BY <1>1, MoneyRests DEF TotalsAgree

\* A process reads the totals from the tables.
LEMMA BeginMoney ==
  ASSUME BatchInv, MoneyInv, Begin
  PROVE  MoneyInv'
<1>1. run'.phase = "recover"
  BY DEF Begin, Go, BatchInv, Shape, Processes
<1>2. /\ totals' = [held |-> HeldBy(StageKeys), estimate |-> EstimateOf(StageKeys)]
      /\ UNCHANGED <<targets, stages>>
  BY DEF Begin, RefreshBudget
<1>3. TotalsAgree'
  BY <1>1, <1>2, SumsRest, Amounts DEF TotalsAgree, BatchInv, Shape
<1> QED
  BY <1>1, <1>2, <1>3, MoneyRests

\* A request leaves only while the totals are within the limit.
LEMMA SendMoney ==
  ASSUME BatchInv, MoneyInv, Send
  PROVE  MoneyInv'
<1>1. run.phase = "started" /\ run'.phase = "waiting" /\ UNCHANGED ledgerVars /\ Committed <= Limit
  BY DEF Send, Allowed, Go, BatchInv, Shape, Processes
<1>2. TotalsAgree'
  BY <1>1, SumsRest DEF MoneyInv, TotalsAgree, Committed, ledgerVars
<1> QED
  BY <1>1, <1>2, MoneyRests DEF ledgerVars

\* What the process holds and has spent is what the tables say, and a smaller sum is
\* within the same bound.
LEMMA Spending ==
  ASSUME TablesOK, MoneyInv, run.phase # "off"
  PROVE  /\ totals.held = HeldBy(StageKeys) /\ totals.estimate = EstimateOf(StageKeys)
         /\ totals \in [held : Int, estimate : Int] /\ Committed \in Int
         /\ \A n \in Int : n <= Committed \/ n <= Limit =>
              \E cost \in Costs \cup {Reserve} : n <= Limit + cost - Reserve
<1>1. /\ totals.held = HeldBy(StageKeys) /\ totals.estimate = EstimateOf(StageKeys)
      /\ totals \in [held : Int, estimate : Int]
  BY DEF MoneyInv, TotalsAgree
<1>2. Committed \in Int
  BY <1>1 DEF Committed
<1>3. PICK cost \in Costs \cup {Reserve} : Committed <= Limit + cost - Reserve
  BY <1>1 DEF MoneyInv, OvershootIsOneRequest, Committed
<1>4. /\ Limit \in Int /\ Reserve \in Int /\ \A c \in Costs \cup {Reserve} : c \in Int
      /\ Limit = Limit + Reserve - Reserve
  BY LedgerAssumption
<1>5. ASSUME NEW n \in Int, n <= Committed \/ n <= Limit
      PROVE  \E c \in Costs \cup {Reserve} : n <= Limit + c - Reserve
  <2>1. CASE n <= Committed
    <3>1. n <= Limit + cost - Reserve
      BY <1>2, <1>3, <1>4, <2>1
    <3> QED
      BY <3>1
  <2>2. CASE n <= Limit
    BY <1>4, <2>2
  <2> QED
    BY <1>5, <2>1, <2>2
<1> QED
  BY <1>1, <1>2, <1>5

\* The end of a target, in hand or recovered: if it is pending again nothing is held
\* for it, and nothing was spent on it.
LEMMA FinishMoney ==
  ASSUME TablesOK, MoneyInv, run.phase # "off",
         NEW t \in Targets, NEW status \in Statuses, Finish(t, status),
         status = "pending" => ~WasSent(t),
         run'.phase \notin {"prepared", "waiting"}
  PROVE  MoneyInv'
<1> DEFINE freed == HeldBy(Unsent(t))
<1>1. /\ freed \in Int /\ freed >= 0
      /\ HeldBy(StageKeys)' = HeldBy(StageKeys) - freed
      /\ EstimateOf(StageKeys)' = EstimateOf(StageKeys)
      /\ \A k \in StageKeys : /\ stages'[k].held = IF k \in Unsent(t) THEN 0 ELSE stages[k].held
                              /\ stages'[k].estimate = stages[k].estimate
  BY FinishAmounts
<1>2. /\ targets' = [targets EXCEPT ![t] = status]
      /\ \A k \in StageKeys :
           stages'[k].status = IF k[1] = t /\ stages[k].status = "reserved"
                                 THEN "not_sent" ELSE stages[k].status
  BY FinishEffect
<1>3. totals' = [totals EXCEPT !.held = totals.held - freed]
  BY DEF Finish
<1>4. \A k \in StageKeys :
        /\ stages[k] \in Rows
        /\ k \in Unsent(t) <=> k[1] = t /\ stages[k].status \in {"reserved", "not_sent"}
  BY DEF Unsent, StageKeys, TablesOK
<1>5. RowsHold'
  <2> SUFFICES ASSUME NEW k \in StageKeys
               PROVE  /\ stages'[k].status \in {"none", "completed"} => stages'[k].held = 0
                      /\ stages'[k].status \in {"reserved", "started", "failed_or_unknown"} =>
                           stages'[k].held = Reserve
                      /\ stages'[k].status # "completed" => stages'[k].estimate = 0
    BY DEF RowsHold, StageKeys
  <2>1. CASE k \in Unsent(t)
    BY <1>1, <1>2, <1>4, <2>1 DEF MoneyInv, RowsHold
  <2>2. CASE k \notin Unsent(t)
    <3>1. stages'[k].status = stages[k].status
      BY <1>2, <1>4, <2>2
    <3> QED
      BY <1>1, <2>2, <3>1 DEF MoneyInv, RowsHold
  <2> QED
    BY <2>1, <2>2
<1>6. PendingHoldsNothing'
  <2> SUFFICES ASSUME NEW k \in StageKeys, targets'[k[1]] = "pending"
               PROVE  stages'[k].held = 0 /\ stages'[k].estimate = 0
    BY DEF PendingHoldsNothing, StageKeys
  <2>1. CASE k[1] = t
    <3>1. ~WasSent(t)
      BY <1>2, <2>1 DEF TablesOK
    <3>2. stages[k].status \notin SentStatuses
      <4>1. PICK s \in StageNames : k = <<t, s>>
        BY <2>1 DEF StageKeys
      <4> QED
        BY <3>1, <4>1 DEF WasSent
    <3>3. stages[k].status \in {"none", "reserved", "not_sent"}
      BY <1>4, <3>2 DEF Rows
    <3>4. stages[k].estimate = 0 /\ (stages[k].status = "none" => stages[k].held = 0)
      BY <3>3 DEF MoneyInv, RowsHold
    <3> QED
      BY <1>1, <1>4, <2>1, <3>3, <3>4
  <2>2. CASE k[1] # t
    <3>1. k[1] \in Targets
      BY DEF StageKeys
    <3>2. targets[k[1]] = "pending"
      BY <1>2, <2>2, <3>1 DEF TablesOK
    <3> QED
      BY <1>1, <1>4, <2>2, <3>2 DEF MoneyInv, PendingHoldsNothing
  <2> QED
    BY <2>1, <2>2
<1> HIDE DEF freed
<1>7. /\ totals.held = HeldBy(StageKeys) /\ totals.estimate = EstimateOf(StageKeys)
      /\ totals \in [held : Int, estimate : Int]
      /\ \A n \in Int : n <= Committed \/ n <= Limit =>
           \E cost \in Costs \cup {Reserve} : n <= Limit + cost - Reserve
  BY Spending
<1>8. /\ totals'.held = totals.held - freed /\ totals'.estimate = totals.estimate
      /\ totals' \in [held : Int, estimate : Int]
  BY <1>1, <1>3, <1>7
<1>9. TotalsAgree'
  BY <1>1, <1>7, <1>8 DEF TotalsAgree
<1>10. OvershootIsOneRequest'
  <2>1. /\ HeldBy(StageKeys)' + EstimateOf(StageKeys)' \in Int
        /\ HeldBy(StageKeys)' + EstimateOf(StageKeys)' <= Committed
    BY <1>1, <1>7 DEF Committed
  <2> QED
    BY <1>7, <2>1 DEF OvershootIsOneRequest
<1>11. PreparedHolds'
  BY DEF PreparedHolds
<1> QED
  BY <1>5, <1>6, <1>9, <1>10, <1>11 DEF MoneyInv

\* A claim is made only if the limit covers what it holds.
LEMMA ClaimMoney ==
  ASSUME BatchInv, MoneyInv, NEW t \in Targets, NEW names \in SUBSET StageNames,
         ClaimTarget(t, names)
  PROVE  MoneyInv'
<1> DEFINE more == Cardinality(names) * Reserve
<1>1. Claim(t, names) /\ TablesOK /\ run.phase # "off" /\ PendingHoldsNothing
  BY DEF ClaimTarget, BatchInv, Shape, MoneyInv
<1>2. run'.phase = "admit"
  BY DEF ClaimTarget, Off
<1>3. /\ more \in Int
      /\ HeldBy(StageKeys)' = HeldBy(StageKeys) + more
      /\ EstimateOf(StageKeys)' = EstimateOf(StageKeys)
  BY <1>1, ClaimAmounts
<1>4. /\ targets' = [targets EXCEPT ![t] = "running"]
      /\ totals' = [totals EXCEPT !.held = totals.held + more]
      /\ Committed + more <= Limit
      /\ \A k \in {t} \X names : k \in StageKeys =>
           stages'[k] = [status |-> "reserved", held |-> Reserve, estimate |-> 0]
      /\ \A k \in StageKeys : k \notin {t} \X names => stages'[k] = stages[k]
  BY <1>1 DEF Claim, CanReserve
<1> HIDE DEF more
<1>5. /\ totals.held = HeldBy(StageKeys) /\ totals.estimate = EstimateOf(StageKeys)
      /\ totals \in [held : Int, estimate : Int]
      /\ \A n \in Int : n <= Committed \/ n <= Limit =>
           \E cost \in Costs \cup {Reserve} : n <= Limit + cost - Reserve
  BY <1>1, Spending
<1>6. RowsHold'
  <2> SUFFICES ASSUME NEW k \in StageKeys
               PROVE  /\ stages'[k].status \in {"none", "completed"} => stages'[k].held = 0
                      /\ stages'[k].status \in {"reserved", "started", "failed_or_unknown"} =>
                           stages'[k].held = Reserve
                      /\ stages'[k].status # "completed" => stages'[k].estimate = 0
    BY DEF RowsHold, StageKeys
  <2>1. CASE k \in {t} \X names
    BY <1>4, <2>1
  <2>2. CASE k \notin {t} \X names
    BY <1>4, <2>2 DEF MoneyInv, RowsHold
  <2> QED
    BY <2>1, <2>2
<1>7. PendingHoldsNothing'
  <2> SUFFICES ASSUME NEW k \in StageKeys, targets'[k[1]] = "pending"
               PROVE  stages'[k].held = 0 /\ stages'[k].estimate = 0
    BY DEF PendingHoldsNothing, StageKeys
  <2>1. k[1] # t /\ targets[k[1]] = "pending" /\ k \notin {t} \X names
    BY <1>1, <1>4 DEF TablesOK, StageKeys
  <2> QED
    BY <1>1, <1>4, <2>1 DEF PendingHoldsNothing
<1>8. /\ totals'.held = totals.held + more /\ totals'.estimate = totals.estimate
      /\ totals' \in [held : Int, estimate : Int]
  BY <1>3, <1>4, <1>5
<1>9. TotalsAgree' /\ PreparedHolds'
  BY <1>2, <1>3, <1>5, <1>8 DEF TotalsAgree, PreparedHolds
<1>10. OvershootIsOneRequest'
  <2>1. /\ HeldBy(StageKeys)' + EstimateOf(StageKeys)' \in Int
        /\ HeldBy(StageKeys)' + EstimateOf(StageKeys)' <= Limit
    BY <1>3, <1>4, <1>5, LedgerAssumption DEF Committed
  <2> QED
    BY <1>5, <2>1 DEF OvershootIsOneRequest
<1> QED
  BY <1>6, <1>7, <1>9, <1>10 DEF MoneyInv

\* The record of a request replaces what was held for it: the same, or its cost once it
\* is answered, which is when the sum can pass the limit.
LEMMA StageMoney ==
  ASSUME BatchInv, MoneyInv, run.phase \in Holding,
         Row(run.target, run.stage).held = Reserve,
         NEW status \in {"not_sent"} \cup SentStatuses, NEW cost \in Costs \cup {0},
         Stage(run.target, run.stage, status, cost),
         status = "completed" =>
           run.phase = "waiting" /\ run'.phase # "prepared" /\ cost \in Costs,
         run'.phase \notin {"off", "waiting"},
         run'.target = run.target /\ run'.stage = run.stage
  PROVE  MoneyInv'
<1> DEFINE k == <<run.target, run.stage>>
<1>1. /\ TablesOK /\ run.target \in Targets /\ run.stage \in StageNames
      /\ targets[run.target] = "running" /\ run.phase # "off"
  BY DEF BatchInv, Shape, Processes, HoldsRunning, Holding
<1>2. /\ k \in StageKeys
      /\ stages'[k].held = IF status = "completed" THEN 0 ELSE Reserve
      /\ stages'[k].estimate = IF status = "completed" THEN cost ELSE 0
      /\ HeldBy(StageKeys)' = HeldBy(StageKeys) - stages[k].held + stages'[k].held
      /\ EstimateOf(StageKeys)' = EstimateOf(StageKeys) - stages[k].estimate + stages'[k].estimate
      /\ totals' = [held |-> totals.held + stages'[k].held - stages[k].held,
                    estimate |-> totals.estimate + stages'[k].estimate - stages[k].estimate]
  BY <1>1, StageAmounts
<1>3. /\ targets' = targets /\ stages'[k].status = status
      /\ \A j \in StageKeys \ {k} : stages'[j] = stages[j]
  BY <1>1, StageEffect
<1> HIDE DEF k
<1>4. stages[k].held = Reserve /\ Reserve \in Int /\ Reserve > 0
  BY LedgerAssumption DEF Row, k
<1>5. stages[k].estimate = 0
  <2>1. stages[k].status # "completed"
    BY <1>2, <1>4 DEF MoneyInv, RowsHold
  <2> QED
    BY <1>2, <2>1 DEF MoneyInv, RowsHold
<1>6. RowsHold'
  <2> SUFFICES ASSUME NEW j \in StageKeys
               PROVE  /\ stages'[j].status \in {"none", "completed"} => stages'[j].held = 0
                      /\ stages'[j].status \in {"reserved", "started", "failed_or_unknown"} =>
                           stages'[j].held = Reserve
                      /\ stages'[j].status # "completed" => stages'[j].estimate = 0
    BY DEF RowsHold, StageKeys
  <2>1. CASE j = k
    BY <1>2, <1>3, <2>1 DEF SentStatuses
  <2>2. CASE j # k
    BY <1>3, <2>2 DEF MoneyInv, RowsHold
  <2> QED
    BY <2>1, <2>2
<1>7. PendingHoldsNothing'
  <2> SUFFICES ASSUME NEW j \in StageKeys, targets[j[1]] = "pending"
               PROVE  stages'[j].held = 0 /\ stages'[j].estimate = 0
    BY <1>3 DEF PendingHoldsNothing, StageKeys
  <2>1. j # k
    BY <1>1 DEF k
  <2> QED
    BY <1>3, <2>1 DEF MoneyInv, PendingHoldsNothing
<1>8. PreparedHolds'
  BY <1>2 DEF PreparedHolds, Row, k
<1>9. /\ totals.held = HeldBy(StageKeys) /\ totals.estimate = EstimateOf(StageKeys)
      /\ totals \in [held : Int, estimate : Int]
      /\ \A n \in Int : n <= Committed \/ n <= Limit =>
           \E c \in Costs \cup {Reserve} : n <= Limit + c - Reserve
  BY <1>1, Spending
<1>10. stages'[k].held \in Int /\ stages'[k].estimate \in Int
  <2>1. cost \in Int
    BY LedgerAssumption
  <2>2. CASE status = "completed"
    BY <1>2, <2>1, <2>2
  <2>3. CASE status # "completed"
    BY <1>2, <1>4, <2>3
  <2> QED
    BY <2>2, <2>3
<1>11. TotalsAgree'
  BY <1>2, <1>4, <1>5, <1>9, <1>10 DEF TotalsAgree
<1>12. OvershootIsOneRequest'
  <2> DEFINE sum == HeldBy(StageKeys)' + EstimateOf(StageKeys)'
  <2>1. sum = Committed - Reserve + stages'[k].held + stages'[k].estimate /\ sum \in Int
    BY <1>2, <1>4, <1>5, <1>9, <1>10 DEF Committed
  <2>2. CASE status = "completed"
    <3>1. Committed <= Limit
      BY <2>2 DEF MoneyInv, TotalsAgree
    <3>2. sum <= Limit + cost - Reserve /\ cost \in Costs
      BY <1>2, <1>4, <1>9, <2>1, <2>2, <3>1, LedgerAssumption DEF Committed
    <3> QED
      BY <3>2 DEF OvershootIsOneRequest
  <2>3. CASE status # "completed"
    <3>1. sum = Committed
      BY <1>2, <1>4, <1>9, <2>1, <2>3 DEF Committed
    <3>2. \E c \in Costs \cup {Reserve} : sum <= Limit + c - Reserve
      BY <1>9, <2>1, <3>1
    <3> QED
      BY <3>2 DEF OvershootIsOneRequest
  <2> QED
    BY <2>2, <2>3
<1> QED
  BY <1>6, <1>7, <1>8, <1>11, <1>12 DEF MoneyInv

\* One request: prepared and started under its reserve, and answered.
LEMMA RequestMoney ==
  ASSUME BatchInv, MoneyInv, Prepare \/ MarkStarted \/ Send \/ Complete
  PROVE  MoneyInv'
<1>1. /\ run.phase \in Holding /\ run'.phase \in Holding
      /\ run'.target = run.target /\ run'.stage = run.stage
      /\ <<run.target, run.stage>> \in StageKeys
  <2>1. run.phase \in Holding /\ run'.phase \in Holding
    BY RequestStep
  <2> QED
    BY <2>1, RequestStep DEF BatchInv, HoldsRunning, Shape, Processes, StageKeys
<1>2. /\ run.phase \in {"admit", "started", "waiting"} => Row(run.target, run.stage).held = Reserve
      /\ run.phase = "prepared" => Row(run.target, run.stage).held = Reserve
  BY <1>1 DEF BatchInv, RequestOnRecord, MoneyInv, RowsHold, PreparedHolds, Row
<1>3. CASE Prepare
  <2>1. run.phase = "admit" /\ run'.phase = "prepared" /\ Stage(run.target, run.stage, "not_sent", 0)
    BY <1>3 DEF Prepare, Go, BatchInv, Shape, Processes
  <2> QED
    BY <1>1, <1>2, <2>1, StageMoney
<1>4. CASE MarkStarted
  <2>1. /\ run.phase = "prepared" /\ run'.phase = "started"
        /\ Stage(run.target, run.stage, "started", 0)
    BY <1>4 DEF MarkStarted, Go, BatchInv, Shape, Processes
  <2> QED
    BY <1>1, <1>2, <2>1, StageMoney DEF SentStatuses
<1>5. CASE Send
  BY <1>5, SendMoney
<1>6. CASE Complete
  <2>1. PICK cost \in Costs : Stage(run.target, run.stage, "completed", cost)
    BY <1>6 DEF Complete
  <2>2. run.phase = "waiting" /\ run'.phase = "answered"
    BY <1>6 DEF Complete, Go, BatchInv, Shape, Processes
  <2> QED
    BY <1>1, <1>2, <2>1, <2>2, StageMoney DEF SentStatuses
<1> QED
  BY <1>3, <1>4, <1>5, <1>6

\* A request that failed stays held: it may have been answered and charged.
LEMMA FailMoney ==
  ASSUME BatchInv, MoneyInv, FailStage, run'.target = run.target, run'.stage = run.stage,
         run'.phase \in {"finish", "planned"}
  PROVE  MoneyInv'
<1>1. run.phase = "waiting" /\ Stage(run.target, run.stage, "failed_or_unknown", 0)
  BY DEF FailStage
<1>2. Row(run.target, run.stage).held = Reserve
  <2>1. <<run.target, run.stage>> \in StageKeys
    BY <1>1 DEF BatchInv, HoldsRunning, Holding, Shape, Processes, StageKeys
  <2> QED
    BY <1>1, <2>1 DEF BatchInv, RequestOnRecord, MoneyInv, RowsHold, Row
<1> QED
  BY <1>1, <1>2, StageMoney DEF SentStatuses, Holding

\* A running target is recovered.
LEMMA RecoverMoney ==
  ASSUME BatchInv, MoneyInv, RecoverNext
  PROVE  MoneyInv'
<1>1. PICK t \in Targets : Recover(t)
  BY DEF RecoverNext
<1> DEFINE status == IF WasSent(t) THEN "reconcile" ELSE "pending"
<1>2. status \in Statuses /\ Finish(t, status) /\ (status = "pending" => ~WasSent(t))
  BY <1>1 DEF Recover, Statuses
<1>3. run.phase = "recover" /\ run' = run
  BY DEF RecoverNext, batchVars
<1> QED
  BY <1>2, <1>3, FinishMoney DEF BatchInv, Shape

\* The outcome of the target in hand is written.
LEMMA FinishTargetMoney ==
  ASSUME BatchInv, MoneyInv, FinishTarget
  PROVE  MoneyInv'
<1>1. /\ run.phase = "finish" /\ run.target \in Targets /\ run.status \in Statuses
      /\ Finish(run.target, run.status)
  BY DEF FinishTarget, BatchInv, HoldsRunning, Holding
<1>2. run'.phase \in {"next", "stopped"}
  BY DEF FinishTarget, Off
<1>3. TablesOK /\ (run.status = "pending" => ~WasSent(run.target))
  BY <1>1 DEF BatchInv, Shape, PendingUnsent
<1> QED
  BY <1>1, <1>2, <1>3, FinishMoney

\* A new ledger holds nothing.
LEMMA MoneyInitial == Init => MoneyInv
<1> SUFFICES ASSUME Init PROVE MoneyInv
  OBVIOUS
<1>1. \A k \in StageKeys : stages[k] = NoRow
  BY DEF Init, LedgerInit
<1>2. run.phase = "off" /\ totals = NoTotals
  BY DEF Init, LedgerInit, Off
<1>3. RowsHold /\ PendingHoldsNothing
  BY <1>1 DEF RowsHold, PendingHoldsNothing, NoRow
<1>4. PreparedHolds /\ TotalsAgree
  BY <1>2 DEF PreparedHolds, TotalsAgree, NoTotals
<1>5. OvershootIsOneRequest
  <2> DEFINE f == [k \in StageKeys |-> stages[k].held]
             e == [k \in StageKeys |-> stages[k].estimate]
  <2>1. \A k \in StageKeys : f[k] = 0 /\ e[k] = 0
    BY <1>1 DEF NoRow
  <2>2. IsFiniteSet(StageKeys)
    BY FS_Product, LedgerAssumption DEF StageKeys
  <2>3. HeldBy(StageKeys) = SumFunctionOnSet(f, StageKeys)
    BY DEF HeldBy
  <2>4. EstimateOf(StageKeys) = SumFunctionOnSet(e, StageKeys)
    BY DEF EstimateOf
  <2> HIDE DEF f, e
  <2>5. /\ SumFunctionOnSet(f, StageKeys) = Cardinality(StageKeys) * 0
        /\ SumFunctionOnSet(e, StageKeys) = Cardinality(StageKeys) * 0
    BY <2>1, <2>2, SumConstant
  <2>6. Cardinality(StageKeys) \in Nat
    BY <2>2, FS_CardinalityType
  <2>7. HeldBy(StageKeys) + EstimateOf(StageKeys) = 0
    BY <2>3, <2>4, <2>5, <2>6
  <2>8. 0 <= Limit + Reserve - Reserve
    BY LedgerAssumption
  <2> QED
    BY <2>7, <2>8 DEF OvershootIsOneRequest
<1> QED
  BY <1>3, <1>4, <1>5 DEF MoneyInv

=============================================================================
