---------------------------- MODULE TrialContract ----------------------------
(***************************************************************************)
(* What the trial promises, without chats, messages, texts or the research *)
(* ledger: one slot and a purse.  A generation takes the free slot and its *)
(* reservation, gives back what it did not cost, once, and leaves the slot *)
(* when its answer is saved or is not coming.  An answer is in force from  *)
(* its save until it is withdrawn, and what is over never comes into force.*)
(***************************************************************************)
EXTENDS Integers

CONSTANTS Attempts, Reservation, Budget, Costs

VARIABLES begun,    \* the generations there were
          slot,     \* the one in flight, if any
          running,  \* the one whose cost is not known yet, if any
          purse,    \* what is left to reserve from
          inForce,  \* those whose answer may be judged and built on
          over      \* those whose answer never may again

contractVars == <<begun, slot, running, purse, inForce, over>>

Init ==
  /\ begun = {} /\ slot = {} /\ running = {}
  /\ purse = Budget
  /\ inForce = {} /\ over = {}

\* A new generation replaces earlier ones.
Begin(a, replaced) ==
  /\ slot = {} /\ a \notin begun /\ purse >= Reservation
  /\ begun' = begun \cup {a} /\ slot' = {a} /\ running' = {a}
  /\ purse' = purse - Reservation
  /\ inForce' = inForce \ replaced /\ over' = over \cup replaced

\* What its use is not known of costs the whole reservation.
Charges == Costs \cup {Reservation}

Settle(a, charge) ==
  /\ running = {a} /\ running' = {}
  /\ purse' = purse + Reservation - charge

Answered(a, charge) ==
  /\ Settle(a, charge)
  /\ UNCHANGED <<begun, slot, inForce, over>>

Failed(a, charge) ==
  /\ Settle(a, charge)
  /\ slot' = {} /\ over' = over \cup {a}
  /\ UNCHANGED <<begun, inForce>>

Saved(a) ==
  /\ slot = {a} /\ running = {} /\ a \notin over
  /\ slot' = {} /\ inForce' = inForce \cup {a}
  /\ UNCHANGED <<begun, running, purse, over>>

\* What is withdrawn may still be in flight: it holds the slot until it ends.
Withdraw(as) ==
  /\ inForce' = inForce \ as /\ over' = over \cup as
  /\ UNCHANGED <<begun, slot, running, purse>>

Next ==
  \/ \E a \in Attempts :
       \/ \E replaced \in SUBSET begun : Begin(a, replaced)
       \/ \E charge \in Charges : Answered(a, charge) \/ Failed(a, charge)
       \/ Saved(a)
  \/ \E as \in SUBSET begun : Withdraw(as)

Spec == Init /\ [][Next]_contractVars

=============================================================================
