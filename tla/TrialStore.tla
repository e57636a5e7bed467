------------------------------ MODULE TrialStore ------------------------------
(***************************************************************************)
(* TrialStore of src/whynote/s1.py with the append-only research ledger of *)
(* src/whynote/research.py: one generation at a time, paid from a purse,   *)
(* whose answer may be judged only once the host has saved it and for as   *)
(* long as nobody regenerates, edits or deletes it.  Each operator is one  *)
(* transaction.                                                            *)
(***************************************************************************)
EXTENDS Integers, FiniteSets, SequencesExt

CONSTANTS Attempts,       \* generations that can be reserved
          Chats,
          Messages,       \* answers a chat asks for
          ChatOf,         \* message -> its chat
          Prompts, Texts, \* what can be asked and what can be answered
          None,
          Reservation,    \* RESERVATION_MICRO_CNY
          Budget,         \* BUDGET_MICRO_CNY
          Costs           \* what the provider can report as used

ASSUME TrialAssumption ==
  /\ ChatOf \in [Messages -> Chats]
  /\ None \notin Attempts \cup Texts \cup Prompts \cup Nat
  /\ Reservation \in Nat \ {0} /\ Budget \in Nat
  /\ Costs \subseteq 0..Reservation

VARIABLES chats,        \* s1_chats
          generations,  \* s1_generations
          current,      \* s1_current: message -> its newest attempt
          states,       \* s1_research_states: attempt -> its kinds, in order
          answers       \* s1_research_answers

trialVars == <<chats, generations, current, states, answers>>

Kinds == {"pending", "awaiting_save", "incomplete", "eligible",
          "superseded", "invalidated", "revoked"}

Unused == [status |-> "none"]

TrialInit ==
  /\ chats = [c \in Chats |-> "unknown"]
  /\ generations = [a \in Attempts |-> Unused]
  /\ current = [m \in Messages |-> None]
  /\ states = [a \in Attempts |-> << >>]
  /\ answers = {}

-----------------------------------------------------------------------------
(* Reading *)

Reserved == {a \in Attempts : generations[a].status # "none"}
Pending(a) == generations[a].status = "pending"
InFlight(a) == generations[a].status \in {"pending", "awaiting_save"}

Admitted(m) == chats[ChatOf[m]] = "active"

Charge(a) == IF generations[a].settled # None THEN generations[a].settled ELSE Reservation

Spent == SumFunction([a \in Reserved |-> Charge(a)])

\* Mutant: a generation may begin as long as anything is left.
AvailableUntilSpent ==
  /\ ~\E a \in Attempts : InFlight(a)
  /\ Spent < Budget

Available ==
  /\ ~\E a \in Attempts : InFlight(a)
  /\ Spent + Reservation <= Budget

\* Nobody regenerated its answer, edited or deleted in its chat, or revoked the chat.
Stands(a) == current[generations[a].message] = a /\ Admitted(generations[a].message)

\* receipt: the newest attempt for its message, completed, in an admitted chat.
HasReceipt(a) ==
  generations[a].status = "completed" /\ Stands(a)

\* What a saved message shows is what this attempt was asked and answered.
Matches(a, shown) ==
  /\ shown # None
  /\ shown.prompt = generations[a].prompt
  /\ shown.text = generations[a].answer

\* qualify
Qualifies(a, m, shown) == HasReceipt(a) /\ generations[a].message = m /\ Matches(a, shown)

-----------------------------------------------------------------------------
(* The research ledger *)

\* record_state: only for attempts it tracks, once for each kind.
Note(as, kind) ==
  [a \in Attempts |->
     IF a \in as /\ states[a] # << >> /\ kind \notin Range(states[a])
       THEN Append(states[a], kind) ELSE states[a]]

-----------------------------------------------------------------------------
(* Transactions *)

Enroll(c) ==
  /\ chats[c] # "revoked"
  /\ chats' = [chats EXCEPT ![c] = "active"]
  /\ UNCHANGED <<generations, current, states, answers>>

\* Mutant: what was checked in the transaction before is not checked again.
ReserveUnchecked(a, m, prompt, tracked) ==
  /\ a \notin Reserved /\ Admitted(m)
  /\ generations' = [generations EXCEPT ![a] =
       [status |-> "pending", message |-> m, prompt |-> prompt, answer |-> None, settled |-> None]]
  /\ current' = [current EXCEPT ![m] = a]
  /\ states' = [Note({current[m]}, "superseded") EXCEPT
                  ![a] = IF tracked THEN <<"pending">> ELSE << >>]
  /\ UNCHANGED <<chats, answers>>

\* reserve with capture_attempt: the attempt before it for this message is superseded.
Reserve(a, m, prompt, tracked) ==
  /\ a \notin Reserved /\ Admitted(m) /\ Available
  /\ generations' = [generations EXCEPT ![a] =
       [status |-> "pending", message |-> m, prompt |-> prompt, answer |-> None, settled |-> None]]
  /\ current' = [current EXCEPT ![m] = a]
  /\ states' = [Note({current[m]}, "superseded") EXCEPT
                  ![a] = IF tracked THEN <<"pending">> ELSE << >>]
  /\ UNCHANGED <<chats, answers>>

\* finish: an answer or None, a valid usage or None; nothing once it is not pending.
Finish(a, answer, settled) ==
  LET status == IF answer = None THEN "incomplete" ELSE "awaiting_save" IN
  IF ~Pending(a) THEN UNCHANGED trialVars
  ELSE /\ generations' = [generations EXCEPT ![a].status = status, ![a].answer = answer,
                                             ![a].settled = settled]
       /\ states' = Note({a}, status)
       /\ UNCHANGED <<chats, current, answers>>

\* Mutant: the newest attempt for the answer is looked up without its table.
ConfirmSavedAnyAttempt(m, shown) ==
  LET confirmed == {a \in Reserved : /\ generations[a].message = m /\ Admitted(m)
                                     /\ generations[a].status = "awaiting_save"
                                     /\ Matches(a, shown)}
  IN /\ generations' = [a \in Attempts |->
          IF a \in confirmed THEN [generations[a] EXCEPT !.status = "completed"] ELSE generations[a]]
     /\ states' = Note(confirmed, "eligible")
     /\ answers' = answers \cup {a \in confirmed : states[a] # << >>}
     /\ UNCHANGED <<chats, current>>

\* confirm_saved with record_answer: only the newest attempt, and only if what the host
\* saved is what it was asked and answered.
ConfirmSaved(m, shown) ==
  LET confirmed == {a \in Reserved : /\ current[m] = a /\ Admitted(m)
                                     /\ generations[a].status = "awaiting_save"
                                     /\ Matches(a, shown)}
  IN /\ generations' = [a \in Attempts |->
          IF a \in confirmed THEN [generations[a] EXCEPT !.status = "completed"] ELSE generations[a]]
     /\ states' = Note(confirmed, "eligible")
     /\ answers' = answers \cup {a \in confirmed : states[a] # << >>}
     /\ UNCHANGED <<chats, current>>

\* invalidate: no attempt of the chat is current any more.  A chat that was never
\* enrolled has no row to revoke.
Invalidate(c, revoke) ==
  /\ states' = Note({a \in Reserved : ChatOf[generations[a].message] = c},
                    IF revoke THEN "revoked" ELSE "invalidated")
  /\ current' = [m \in Messages |-> IF ChatOf[m] = c THEN None ELSE current[m]]
  /\ chats' = IF revoke /\ chats[c] = "active" THEN [chats EXCEPT ![c] = "revoked"] ELSE chats
  /\ UNCHANGED <<generations, answers>>

-----------------------------------------------------------------------------
(* Properties *)

Generations ==
  [status : {"pending", "awaiting_save", "incomplete", "completed"}, message : Messages,
   prompt : Prompts, answer : Texts \cup {None}, settled : Costs \cup {None}]

TablesOK ==
  /\ chats \in [Chats -> {"unknown", "active", "revoked"}]
  /\ generations \in [Attempts -> Generations \cup {Unused}]
  /\ current \in [Messages -> Attempts \cup {None}]
  /\ states \in [Attempts -> Seq(Kinds)]
  /\ answers \subseteq Attempts

Withdrawn(a) == Range(states[a]) \cap {"superseded", "invalidated", "revoked"} # {}

\* One generation at a time, counting those that wait to be saved: what a user sees
\* and what is paid for never overlap (s1.py:222-223).
OneInFlight == \A a, b \in Attempts : InFlight(a) /\ InFlight(b) => a = b

\* The research ledger and the receipts tell the same story: an attempt on record is
\* eligible exactly when its save was confirmed, never after it was withdrawn, and a
\* withdrawn attempt has no receipt, even if its text is restored (s1_host.py:36-37).
LedgerTellsReceipts ==
  \A a \in Attempts : states[a] # << >> =>
    /\ "eligible" \in Range(states[a]) <=> generations[a].status = "completed"
    /\ "eligible" \in Range(states[a]) <=> a \in answers
    /\ \A i, j \in DOMAIN states[a] :
         states[a][i] = "eligible" /\ j < i => states[a][j] \in {"pending", "awaiting_save"}
    /\ Withdrawn(a) => ~HasReceipt(a)

\* What a contract without chats and messages sees of the tables.
Slot == {a \in Attempts : InFlight(a)}
Running == {a \in Attempts : Pending(a)}
Receipts == {a \in Attempts : HasReceipt(a)}
Over == {a \in Reserved : generations[a].status = "incomplete" \/ ~Stands(a)}

Contract == INSTANCE TrialContract WITH
              begun <- Reserved, slot <- Slot, running <- Running,
              purse <- Budget - Spent, inForce <- Receipts, over <- Over

\* Whatever requests race, the purse pays for one generation at a time and is given back
\* once what that did not cost, and no receipt that is gone comes back (s1.py:222-228,
\* :248-252, :350-357).
ImplementsTrialContract == Contract!Spec

=============================================================================
