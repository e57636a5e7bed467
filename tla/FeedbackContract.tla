--------------------------- MODULE FeedbackContract ---------------------------
(***************************************************************************)
(* What the store promises its callers, without keys, tickets, messages or *)
(* projections: one log of facts for each action, in the order they were   *)
(* committed.  The log begins when the action is opened for an answer      *)
(* version and ends when its user withdraws it; in between the gate        *)
(* decides once, a menu is shown once, and only the menu shown last can be *)
(* answered, once.  No step touches two actions.                           *)
(***************************************************************************)
EXTENDS Naturals, Sequences

CONSTANTS EventIds, Targets, Displays, None

VARIABLES home, \* action -> the answer version it is about
          log   \* action -> what was said of it, in order

contractVars == <<home, log>>

Opened      == [what |-> "opened", display |-> None]
Withdrawn   == [what |-> "withdrawn", display |-> None]
Decided     == [what |-> "decided", display |-> None]
Abstained   == [what |-> "abstained", display |-> None]
Shown(d)    == [what |-> "shown", display |-> d]
Answered(d) == [what |-> "answered", display |-> d]

Said(e, fact) == \E i \in DOMAIN log[e] : log[e][i] = fact
Live(e)       == Said(e, Opened) /\ ~Said(e, Withdrawn)
Newest(e, d)  == \E i \in DOMAIN log[e] :
                   /\ log[e][i] = Shown(d)
                   /\ \A j \in DOMAIN log[e] : j > i => log[e][j].what # "shown"

Init ==
  /\ home = [e \in EventIds |-> None]
  /\ log = [e \in EventIds |-> << >>]

Tell(e, fact) == /\ log' = [log EXCEPT ![e] = Append(@, fact)]
                 /\ UNCHANGED home

Open(e, t) ==
  /\ log[e] = << >>
  /\ log' = [log EXCEPT ![e] = <<Opened>>]
  /\ home' = [home EXCEPT ![e] = t]

Withdraw(e) == Live(e) /\ Tell(e, Withdrawn)

\* A decision that permits inference is followed at once by an abstention.
Decide(e) ==
  /\ Live(e) /\ ~Said(e, Decided)
  /\ \/ Tell(e, Decided)
     \/ /\ log' = [log EXCEPT ![e] = Append(Append(@, Decided), Abstained)]
        /\ UNCHANGED home

Show(e, d) == Live(e) /\ ~Said(e, Shown(d)) /\ Tell(e, Shown(d))

Answer(e, d) == Live(e) /\ Newest(e, d) /\ ~Said(e, Answered(d)) /\ Tell(e, Answered(d))

Next == \E e \in EventIds :
          \/ \E t \in Targets : Open(e, t)
          \/ Withdraw(e)
          \/ Decide(e)
          \/ \E d \in Displays : Show(e, d) \/ Answer(e, d)

Spec == Init /\ [][Next]_contractVars

=============================================================================
