------------------------------ MODULE StageLedger ------------------------------
(***************************************************************************)
(* Ledger of src/whynote/two_stage_batch.py: the SQLite file of one batch, *)
(* one row per target and one per stage of a target, and the totals the    *)
(* process keeps beside it.  Each operation is one durable transaction     *)
(* (synchronous=FULL); a crash loses the totals and nothing else.  Amounts *)
(* are natural numbers of one unit: the code's decimals are exact too.     *)
(***************************************************************************)
EXTENDS Integers, FiniteSets, Functions

CONSTANTS Targets,    \* runnable targets of the frozen plan
          StageNames, \* the requests a target may need
          Reserve,    \* held for a request whose cost is not known
          Limit,      \* of the batch's dedicated pool
          Costs       \* what a completed request can turn out to cost

ASSUME LedgerAssumption ==
  /\ IsFiniteSet(Targets) /\ IsFiniteSet(StageNames)
  /\ Reserve \in Nat \ {0} /\ Limit \in Nat
  /\ Costs \subseteq Nat

VARIABLES targets, \* target -> its status
          stages,  \* <<target, stage>> -> its row
          totals   \* Ledger.held and Ledger.estimate of the running process

ledgerVars == <<targets, stages, totals>>

StageKeys == Targets \X StageNames
NoRow == [status |-> "none", held |-> 0, estimate |-> 0]
NoTotals == [held |-> 0, estimate |-> 0]

LedgerInit ==
  /\ targets = [t \in Targets |-> "pending"]
  /\ stages = [k \in StageKeys |-> NoRow]
  /\ totals = NoTotals

HeldBy(keys)     == SumFunctionOnSet([k \in StageKeys |-> stages[k].held], keys)
EstimateOf(keys) == SumFunctionOnSet([k \in StageKeys |-> stages[k].estimate], keys)

\* The totals the tables say, read once when a process opens the ledger.
RefreshBudget == totals' = [held |-> HeldBy(StageKeys), estimate |-> EstimateOf(StageKeys)]

Committed == totals.held + totals.estimate

Pending == {t \in Targets : targets[t] = "pending"}

\* A request may have left once its start is on record.
SentStatuses == {"started", "completed", "failed_or_unknown"}
WasSent(t) == \E s \in StageNames : stages[<<t, s>>].status \in SentStatuses

CanReserve(n) == Committed + n * Reserve <= Limit

\* claim: the target and its reservations in one transaction; rows of an earlier
\* claim that sent nothing are written over.
Claim(t, names) ==
  /\ targets[t] = "pending" /\ CanReserve(Cardinality(names))
  /\ targets' = [targets EXCEPT ![t] = "running"]
  /\ stages' = [k \in StageKeys |->
       IF k \in {t} \X names THEN [status |-> "reserved", held |-> Reserve, estimate |-> 0]
       ELSE stages[k]]
  /\ totals' = [totals EXCEPT !.held = @ + Cardinality(names) * Reserve]

\* stage: what is known of a request replaces what was held for it.
Stage(t, s, status, cost) ==
  LET k == <<t, s>>
      done == status = "completed"
      row == [status |-> status, held |-> IF done THEN 0 ELSE Reserve,
              estimate |-> IF done THEN cost ELSE 0]
  IN /\ stages[k] # NoRow
     /\ stages' = [stages EXCEPT ![k] = row]
     /\ totals' = [held |-> totals.held + row.held - stages[k].held,
                   estimate |-> totals.estimate + row.estimate - stages[k].estimate]
     /\ UNCHANGED targets

Unsent(t) == {k \in {t} \X StageNames : stages[k].status \in {"reserved", "not_sent"}}

\* finish: only what certainly never left is released.
Finish(t, status) ==
  /\ targets' = [targets EXCEPT ![t] = status]
  /\ stages' = [k \in StageKeys |->
       IF k \in Unsent(t) THEN [stages[k] EXCEPT !.status = "not_sent", !.held = 0]
       ELSE stages[k]]
  /\ totals' = [totals EXCEPT !.held = @ - HeldBy(Unsent(t))]

\* Mutant: failed targets are reconciled too.
RecoverErrors(t) ==
  /\ targets[t] \in {"running", "error"}
  /\ Finish(t, IF WasSent(t) THEN "reconcile" ELSE "pending")

\* Mutant: only what was sent is recovered.
RecoverSentOnly(t) ==
  /\ targets[t] = "running" /\ WasSent(t)
  /\ Finish(t, "reconcile")

\* recover: a target the last process left running is taken up again only when
\* nothing of it can have left.
Recover(t) ==
  /\ targets[t] = "running"
  /\ Finish(t, IF WasSent(t) THEN "reconcile" ELSE "pending")

-----------------------------------------------------------------------------
(* Properties of the tables *)

Statuses == {"pending", "running", "success", "error", "reconcile",
             "partial_error", "input_budget_limited"}
Rows == [status : {"none", "reserved", "not_sent"} \cup SentStatuses,
         held : {0, Reserve}, estimate : Costs \cup {0}]

\* The shape of the tables, and of the ledger with its totals.
TablesOK == /\ targets \in [Targets -> Statuses]
            /\ stages \in [StageKeys -> Rows]

=============================================================================
