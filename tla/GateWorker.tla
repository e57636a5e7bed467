------------------------------ MODULE GateWorker ------------------------------
(***************************************************************************)
(* process_one_gate of src/whynote/store.py run by several workers: the    *)
(* message is read in one transaction, the policy is evaluated outside any *)
(* transaction, and the decision is written in a second one.  Users create,*)
(* retract and toggle actions meanwhile; workers die or raise.             *)
(***************************************************************************)
EXTENDS FeedbackStore

CONSTANT Workers

VARIABLE worker   \* worker -> the message it holds and what it read of it

vars == <<storeVars, worker>>

Idle == [phase |-> "idle", message |-> 0, signals |-> {}]

WorkerInit == Init /\ worker = [w \in Workers |-> Idle]

Drop(w) == worker' = [worker EXCEPT ![w] = Idle]

\* next_gate_message, and the choice whether to evaluate: signals stay None for an
\* action that is already retracted.
Take(w) ==
  /\ worker[w].phase = "idle"
  /\ \E i \in DOMAIN outbox :
       /\ IsNextGate(i)
       /\ worker' = [worker EXCEPT ![w] =
            [Idle EXCEPT !.message = i,
                         !.phase = IF Retracted(outbox[i].event) THEN "ready" ELSE "evaluating"]]
  /\ UNCHANGED storeVars

\* The policy services answer.
Evaluate(w, s) ==
  /\ worker[w].phase = "evaluating"
  /\ worker' = [worker EXCEPT ![w].phase = "ready", ![w].signals = {s}]
  /\ UNCHANGED storeVars

\* finish_gate_message returns: it decided, only marked the message, or found it
\* processed by another worker.
Complete(w) ==
  /\ worker[w].phase = "ready"
  /\ Drop(w)
  /\ \/ FinishGateMessage(worker[w].message, worker[w].signals)
     \/ /\ outbox[worker[w].message].processed
        /\ UNCHANGED storeVars

\* finish_gate_message raises ValueError and rolls back: no signals for an active
\* undecided action, or signals decide_gate rejects.
Refused(w) ==
  LET i == worker[w].message
  IN /\ worker[w].phase = "ready"
     /\ PendingGate(i) /\ Undecided(outbox[i].event)
     /\ \A s \in worker[w].signals : SignalsRejected(s)
     /\ Drop(w)
     /\ UNCHANGED storeVars

\* evaluate raises, or the process dies; the message stays.
Fail(w) ==
  /\ worker[w].phase # "idle"
  /\ Drop(w)
  /\ UNCHANGED storeVars

User == (Create \/ Retract \/ Toggle) /\ UNCHANGED worker

WorkerNext ==
  \/ \E w \in Workers : \/ Take(w) \/ Complete(w) \/ Refused(w) \/ Fail(w)
                        \/ \E s \in Signals : Evaluate(w, s)
  \/ User

EvaluateWell(w) == \E s \in Signals : ~SignalsRejected(s) /\ Evaluate(w, s)

\* A worker loop keeps polling, and a worker that keeps retrying is not failed by
\* the policy services, or by the database, every single time.
Fairness == \A w \in Workers : /\ WF_vars(Take(w))
                               /\ SF_vars(EvaluateWell(w))
                               /\ SF_vars(Complete(w))
                               /\ WF_vars(Refused(w))

WorkerSpec == WorkerInit /\ [][WorkerNext]_vars /\ Fairness

-----------------------------------------------------------------------------
(* Properties *)

\* Every recorded action is decided or retracted, and its message is cleared.
EveryActionSettles ==
  \A e \in EventIds :
    (actions[e] # None) ~>
      (/\ view[e].gate # None \/ view[e].action = "retracted"
       /\ \A i \in DOMAIN outbox : ~(PendingGate(i) /\ outbox[i].event = e))

=============================================================================
