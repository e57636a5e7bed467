------------------------------ MODULE TrialProofs ------------------------------
(***************************************************************************)
(* Proofs about the S1 trial: the tables of TrialStore.tla under the        *)
(* callbacks of TrialHost.tla, for any number of requests, attempts, chats  *)
(* and messages.                                                            *)
(***************************************************************************)
EXTENDS TrialHost, FoldProofs

-----------------------------------------------------------------------------
(* The invariant of the tables *)

\* Nothing is on record of an attempt that was never reserved.
FreshIsBlank == \A a \in Attempts \ Reserved : states[a] = << >> /\ a \notin answers

\* The newest attempt for a message is an attempt for that message.
CurrentIsIts == \A m \in Messages : current[m] # None =>
                   current[m] \in Reserved /\ generations[current[m]].message = m

\* "eligible" follows only the two kinds of a generation nobody touched.
UntouchedBefore(kinds) ==
  \A i, j \in DOMAIN kinds :
    kinds[i] = "eligible" /\ j < i => kinds[j] \in {"pending", "awaiting_save"}

\* What the ledger holds of a tracked attempt, and where that attempt stands.
LedgerOK == \A a \in Attempts : states[a] # << >> =>
  /\ "eligible" \in Range(states[a]) <=> generations[a].status = "completed"
  /\ "eligible" \in Range(states[a]) <=> a \in answers
  /\ UntouchedBefore(states[a])
  /\ "incomplete" \in Range(states[a]) => generations[a].status = "incomplete"
  /\ Withdrawn(a) => current[generations[a].message] # a

TablesInvariant ==
  /\ TablesOK
  /\ OneInFlight
  /\ FreshIsBlank
  /\ CurrentIsIts
  /\ LedgerOK

-----------------------------------------------------------------------------
(* The invariant of the callbacks *)

Phases == {"idle", "checked", "read", "admitted", "reserved", "saving", "saved"}

RunRecords ==
  [phase : Phases, message : Messages \cup {None}, attempt : Attempts \cup {None},
   shown : Contents \cup Texts \cup {None}, prior : Contents \cup {None}]

SavedOK ==
  /\ saved \in [Messages -> Contents \cup {None}]
  /\ \A m \in Messages \cap DOMAIN edit : edit[m] \in Contents \cup {None}

RunOK(run) ==
  /\ run \in RunRecords
  /\ run.phase # "idle" => run.message \in Messages
  /\ run.phase \in {"read", "admitted"} => run.shown \in Contents
  /\ run.phase \in {"reserved", "saving", "saved"} => run.attempt \in Attempts
  /\ run.phase \in {"reserved", "saving"} => run.shown \in Texts \cup {None}

RunsOK ==
  /\ runs \in [Pipes -> RunRecords]
  /\ \A p \in Pipes : RunOK(runs[p])

\* An attempt whose answer is what is shown, and was saved as such.
Genuine(a, shown) ==
  /\ a \in Reserved
  /\ generations[a].status = "completed"
  /\ Matches(a, shown)

\* What a request has been admitted with is an earlier answer with its receipt; it
\* stays genuine although the receipt may be gone when the request is reserved.
RestsOnAnswer(run) ==
  run.phase = "admitted" /\ Prior[run.message] # None =>
    \E b \in Reserved : generations[b].message = Prior[run.message] /\ Genuine(b, run.prior)

AdmittedWithAnswer == \A p \in Pipes : RestsOnAnswer(runs[p])

TargetsGenuine == \A h \in held \cup feedback : Genuine(h.attempt, h.shown)

AskedGenuine == \A a \in Reserved : Prior[generations[a].message] # None =>
  \E b \in Reserved : /\ generations[b].message = Prior[generations[a].message]
                      /\ generations[b].status = "completed"
                      /\ generations[b].answer = asked[a]

HostInvariant ==
  /\ SavedOK
  /\ RunsOK
  /\ asked \in [Attempts -> Texts \cup {None}]
  /\ AdmittedWithAnswer
  /\ TargetsGenuine
  /\ AskedGenuine

TrialInvariant == TablesInvariant /\ HostInvariant

-----------------------------------------------------------------------------
(* The ledger *)

\* Noting a kind keeps what was on record, in its order, and adds at most that kind;
\* it starts no record (research.py: record_state).
LEMMA NoteAppends ==
  ASSUME NEW as, NEW kind \in Kinds, NEW a \in Attempts, TablesOK
  PROVE  /\ Note(as, kind) \in [Attempts -> Seq(Kinds)]
         /\ Note(as, kind)[a] = << >> <=> states[a] = << >>
         /\ Range(Note(as, kind)[a]) =
              IF a \in as /\ states[a] # << >> THEN Range(states[a]) \cup {kind}
                                               ELSE Range(states[a])
         /\ kind # "eligible" /\ UntouchedBefore(states[a]) =>
              UntouchedBefore(Note(as, kind)[a])
         /\ Range(states[a]) \subseteq {"pending", "awaiting_save"} =>
              UntouchedBefore(Note(as, kind)[a])
<1> DEFINE old == states[a]
           new == Note(as, kind)[a]
<1>1. \A b \in Attempts : states[b] \in Seq(Kinds)
  BY DEF TablesOK
<1>2. Note(as, kind) \in [Attempts -> Seq(Kinds)]
  <2>1. \A b \in Attempts : Append(states[b], kind) \in Seq(Kinds)
    BY <1>1
  <2> QED BY <1>1, <2>1 DEF Note
<1>3. new = IF a \in as /\ old # << >> /\ kind \notin Range(old) THEN Append(old, kind) ELSE old
  BY DEF Note
<1>4. /\ old \in Seq(Kinds)
      /\ Append(old, kind) # << >>
      /\ DOMAIN Append(old, kind) = 1 .. Len(old) + 1
      /\ DOMAIN old = 1 .. Len(old)
      /\ Len(old) \in Nat
      /\ \A i \in 1 .. Len(old) : Append(old, kind)[i] = old[i]
      /\ Append(old, kind)[Len(old) + 1] = kind
  BY <1>1
<1>5. Range(Append(old, kind)) = Range(old) \cup {kind}
  <2>1. Range(old) \cup {kind} \subseteq Range(Append(old, kind))
    BY <1>4 DEF Range
  <2>2. Range(Append(old, kind)) \subseteq Range(old) \cup {kind}
    BY <1>4 DEF Range
  <2> QED BY <2>1, <2>2
<1>6. kind # "eligible" /\ UntouchedBefore(old) => UntouchedBefore(Append(old, kind))
  BY <1>4 DEF UntouchedBefore
<1>7. Range(old) \subseteq {"pending", "awaiting_save"} =>
        UntouchedBefore(old) /\ UntouchedBefore(Append(old, kind))
  <2> SUFFICES ASSUME Range(old) \subseteq {"pending", "awaiting_save"}
               PROVE  UntouchedBefore(old) /\ UntouchedBefore(Append(old, kind))
    OBVIOUS
  <2>1. \A i \in 1 .. Len(old) : old[i] \in {"pending", "awaiting_save"}
    BY <1>4 DEF Range
  <2>2. UntouchedBefore(old)
    BY <1>4, <2>1 DEF UntouchedBefore
  <2>3. \A i, j \in 1 .. Len(old) + 1 : j < i => j \in 1 .. Len(old)
    BY <1>4
  <2>4. UntouchedBefore(Append(old, kind))
    BY <1>4, <2>1, <2>3 DEF UntouchedBefore
  <2> QED BY <2>2, <2>4
<1>8. kind \in Range(old) => Range(old) \cup {kind} = Range(old)
  OBVIOUS
<1> HIDE DEF new
<1> QED BY <1>2, <1>3, <1>4, <1>5, <1>6, <1>7, <1>8 DEF new

\* The same for the kinds that are not the admission to research, for all attempts.
LEMMA NoteOther ==
  ASSUME NEW as, NEW kind \in Kinds \ {"eligible"}, TablesOK
  PROVE  /\ Note(as, kind) \in [Attempts -> Seq(Kinds)]
         /\ \A a \in Attempts :
              /\ Note(as, kind)[a] = << >> <=> states[a] = << >>
              /\ Range(Note(as, kind)[a]) =
                   IF a \in as /\ states[a] # << >> THEN Range(states[a]) \cup {kind}
                                                    ELSE Range(states[a])
              /\ UntouchedBefore(states[a]) => UntouchedBefore(Note(as, kind)[a])
<1> DEFINE noted == Note(as, kind)
<1>0. kind \in Kinds /\ kind # "eligible"
  OBVIOUS
<1>1. noted \in [Attempts -> Seq(Kinds)]
  <2>1. \A a \in Attempts : states[a] \in Seq(Kinds) /\ Append(states[a], kind) \in Seq(Kinds)
    BY DEF TablesOK
  <2> QED BY <2>1 DEF Note
<1>2. ASSUME NEW a \in Attempts
      PROVE  /\ noted[a] = << >> <=> states[a] = << >>
             /\ Range(noted[a]) = IF a \in as /\ states[a] # << >>
                                    THEN Range(states[a]) \cup {kind}
                                    ELSE Range(states[a])
             /\ UntouchedBefore(states[a]) => UntouchedBefore(noted[a])
  <2>1. /\ noted \in [Attempts -> Seq(Kinds)]
        /\ noted[a] = << >> <=> states[a] = << >>
        /\ Range(noted[a]) = IF a \in as /\ states[a] # << >>
                               THEN Range(states[a]) \cup {kind}
                               ELSE Range(states[a])
        /\ kind # "eligible" /\ UntouchedBefore(states[a]) => UntouchedBefore(noted[a])
        /\ Range(states[a]) \subseteq {"pending", "awaiting_save"} => UntouchedBefore(noted[a])
    BY <1>0, NoteAppends
  <2> HIDE DEF noted
  <2> QED BY <2>1
<1> HIDE DEF noted
<1> QED BY <1>0, <1>1, <1>2 DEF noted

-----------------------------------------------------------------------------
(* The transactions *)

\* What no transaction takes back: an attempt stays reserved for its message, and once
\* it is completed its row never changes.
AttemptsKept == \A a \in Reserved :
  /\ a \in Reserved'
  /\ generations'[a].message = generations[a].message
  /\ generations[a].status = "completed" => generations'[a] = generations[a]

\* A step that leaves the tables alone.
LEMMA TablesStutter ==
  ASSUME TablesInvariant, UNCHANGED trialVars
  PROVE  TablesInvariant' /\ AttemptsKept
         /\ Reserved' = Reserved
         /\ \A a \in Reserved : generations'[a].message = generations[a].message
<1>1. /\ generations' = generations /\ states' = states /\ answers' = answers
      /\ current' = current /\ chats' = chats
  BY DEF trialVars
<1>2. TablesOK'
  BY <1>1 DEF TablesInvariant, TablesOK
<1>3. OneInFlight'
  BY <1>1 DEF TablesInvariant, OneInFlight, InFlight
<1>4. FreshIsBlank' /\ CurrentIsIts' /\ Reserved' = Reserved
  BY <1>1 DEF TablesInvariant, FreshIsBlank, CurrentIsIts, Reserved
<1>5. LedgerOK'
  BY <1>1 DEF TablesInvariant, LedgerOK, Withdrawn
<1>6. AttemptsKept
  BY <1>1, <1>4 DEF AttemptsKept
<1> QED BY <1>1, <1>2, <1>3, <1>4, <1>5, <1>6 DEF TablesInvariant

\* A reservation opens the only generation in flight and supersedes the attempt before
\* it, which is no longer the newest (s1.py: reserve).
LEMMA ReserveKeeps ==
  ASSUME TrialAssumption, TablesInvariant, NEW a \in Attempts, NEW m \in Messages,
         NEW prompt \in Prompts, NEW tracked \in BOOLEAN, Reserve(a, m, prompt, tracked)
  PROVE  /\ TablesInvariant'
         /\ AttemptsKept
         /\ Reserved' = Reserved \cup {a}
         /\ generations'[a].message = m
         /\ \A b \in Attempts \ {a} : generations'[b] = generations[b]
<1> DEFINE noted == Note({current[m]}, "superseded")
           row == [status |-> "pending", message |-> m, prompt |-> prompt,
                   answer |-> None, settled |-> None]
<1>1. /\ a \notin Reserved
      /\ \A b \in Attempts : ~InFlight(b)
      /\ generations' = [generations EXCEPT ![a] = row]
      /\ current' = [current EXCEPT ![m] = a]
      /\ states' = [noted EXCEPT ![a] = IF tracked THEN <<"pending">> ELSE << >>]
      /\ chats' = chats
      /\ answers' = answers
  BY DEF Reserve, Available
<1>2. /\ TablesOK
      /\ generations \in [Attempts -> Generations \cup {Unused}]
      /\ current \in [Messages -> Attempts \cup {None}]
      /\ states \in [Attempts -> Seq(Kinds)]
      /\ None \notin Attempts
  BY DEF TablesInvariant, TablesOK, TrialAssumption
<1>3. "superseded" \in Kinds /\ "superseded" # "eligible"
  BY DEF Kinds
<1>4. /\ noted \in [Attempts -> Seq(Kinds)]
      /\ \A b \in Attempts :
           /\ noted[b] = << >> <=> states[b] = << >>
           /\ Range(noted[b]) = IF b \in {current[m]} /\ states[b] # << >>
                                  THEN Range(states[b]) \cup {"superseded"}
                                  ELSE Range(states[b])
           /\ UntouchedBefore(states[b]) => UntouchedBefore(noted[b])
  BY <1>2, <1>3, NoteOther
<1>5. row \in Generations /\ row.status = "pending" /\ row.message = m
  BY DEF Generations
<1>6. /\ generations'[a] = row
      /\ \A b \in Attempts \ {a} : generations'[b] = generations[b]
  BY <1>1, <1>2
<1>7. Reserved' = Reserved \cup {a}
  BY <1>5, <1>6 DEF Reserved
<1>8. /\ states'[a] \in {<< >>, <<"pending">>}
      /\ \A b \in Attempts \ {a} : states'[b] = noted[b]
  <2> HIDE DEF noted
  <2> QED BY <1>1, <1>4
<1>9. /\ current'[m] = a
      /\ \A n \in Messages \ {m} : current'[n] = current[n]
  BY <1>1, <1>2
<1>10. TablesOK'
  <2>1. <<"pending">> \in Seq(Kinds) /\ << >> \in Seq(Kinds)
    BY DEF Kinds
  <2>2. states' \in [Attempts -> Seq(Kinds)]
    <3> HIDE DEF noted
    <3> QED BY <1>1, <1>4, <2>1
  <2>3. generations' \in [Attempts -> Generations \cup {Unused}]
    <3> HIDE DEF row
    <3> QED BY <1>1, <1>2, <1>5
  <2>4. current' \in [Messages -> Attempts \cup {None}]
    BY <1>1, <1>2
  <2> QED BY <1>1, <1>2, <2>2, <2>3, <2>4 DEF TablesOK
<1>11. OneInFlight'
  <2>1. \A b \in Attempts : InFlight(b)' => b = a
    BY <1>1, <1>6 DEF InFlight
  <2> QED BY <2>1 DEF OneInFlight
<1>12. FreshIsBlank'
  BY <1>1, <1>4, <1>7, <1>8 DEF TablesInvariant, FreshIsBlank
<1>13. CurrentIsIts'
  BY <1>1, <1>5, <1>6, <1>7, <1>9 DEF TablesInvariant, CurrentIsIts, Reserved
<1>14. LedgerOK'
  <2> SUFFICES ASSUME NEW b \in Attempts, states'[b] # << >>
               PROVE  /\ "eligible" \in Range(states'[b]) <=> generations'[b].status = "completed"
                      /\ "eligible" \in Range(states'[b]) <=> b \in answers'
                      /\ UntouchedBefore(states'[b])
                      /\ "incomplete" \in Range(states'[b]) =>
                           generations'[b].status = "incomplete"
                      /\ Withdrawn(b)' => current'[generations'[b].message] # b
    BY DEF LedgerOK
  <2>1. CASE b = a
    <3>1. states'[a] = <<"pending">> /\ Range(states'[a]) = {"pending"}
      BY <1>8, <2>1 DEF Range
    <3>2. UntouchedBefore(states'[a])
      BY <3>1 DEF UntouchedBefore
    <3>3. ~Withdrawn(a)'
      BY <3>1 DEF Withdrawn
    <3>4. a \notin answers'
      BY <1>1 DEF TablesInvariant, FreshIsBlank
    <3> QED BY <1>5, <1>6, <2>1, <3>1, <3>2, <3>3, <3>4
  <2>2. CASE b # a
    <3>1. /\ states[b] # << >> /\ b \in Reserved
          /\ generations'[b] = generations[b] /\ states'[b] = noted[b]
      <4> HIDE DEF noted
      <4> QED BY <1>4, <1>6, <1>8, <2>2 DEF TablesInvariant, FreshIsBlank
    <3>2. /\ "eligible" \in Range(states[b]) <=> generations[b].status = "completed"
          /\ "eligible" \in Range(states[b]) <=> b \in answers
          /\ UntouchedBefore(states[b])
          /\ "incomplete" \in Range(states[b]) => generations[b].status = "incomplete"
          /\ Withdrawn(b) => current[generations[b].message] # b
      BY <3>1 DEF TablesInvariant, LedgerOK
    <3>3. Withdrawn(b)' => current'[generations[b].message] # b
      <4>1. CASE b = current[m]
        <5>1. generations[b].message = m
          BY <4>1, <1>2 DEF TablesInvariant, CurrentIsIts
        <5> QED BY <5>1, <1>9, <2>2
      <4>2. CASE b # current[m]
        <5>1. Withdrawn(b)' => Withdrawn(b)
          BY <4>2, <3>1, <1>4 DEF Withdrawn
        <5>2. generations[b].message \in Messages
          BY <3>1, <1>2 DEF Reserved, Generations, Unused
        <5> QED BY <5>1, <5>2, <3>2, <1>9, <2>2
      <4> QED BY <4>1, <4>2
    <3>4. /\ "eligible" \in Range(noted[b]) <=> "eligible" \in Range(states[b])
          /\ "incomplete" \in Range(noted[b]) <=> "incomplete" \in Range(states[b])
          /\ UntouchedBefore(noted[b])
      <4> HIDE DEF noted
      <4> QED BY <1>4, <3>2
    <3> HIDE DEF noted
    <3> QED BY <1>1, <3>1, <3>2, <3>3, <3>4
  <2> QED BY <2>1, <2>2
<1>15. AttemptsKept
  BY <1>1, <1>6, <1>7 DEF AttemptsKept, Reserved
<1> QED BY <1>5, <1>6, <1>7, <1>10, <1>11, <1>12, <1>13, <1>14, <1>15 DEF TablesInvariant

\* The end of a generation is told once; the ledger hears whether it has an answer
\* (s1.py: finish).
LEMMA FinishKeeps ==
  ASSUME TrialAssumption, TablesInvariant, NEW a \in Attempts,
         NEW answer \in Texts \cup {None}, NEW settled \in Costs \cup {None},
         Finish(a, answer, settled)
  PROVE  TablesInvariant' /\ AttemptsKept
         /\ Reserved' = Reserved
         /\ \A b \in Reserved : generations'[b].message = generations[b].message
<1>1. CASE UNCHANGED trialVars
  BY <1>1, TablesStutter
<1>2. CASE Pending(a)
  <2> DEFINE status == IF answer = None THEN "incomplete" ELSE "awaiting_save"
             noted == Note({a}, status)
  <2>1. /\ generations' = [generations EXCEPT ![a].status = status, ![a].answer = answer,
                                              ![a].settled = settled]
        /\ states' = noted
        /\ answers' = answers /\ current' = current /\ chats' = chats
    BY <1>2 DEF Finish
  <2>2. /\ TablesOK /\ OneInFlight /\ FreshIsBlank /\ CurrentIsIts /\ LedgerOK
        /\ generations \in [Attempts -> Generations \cup {Unused}]
        /\ generations[a] \in Generations /\ generations[a].status = "pending"
    BY <1>2 DEF TablesInvariant, TablesOK, Pending, Unused
  <2>3. /\ status \in Kinds \ {"eligible"}
        /\ status \in {"awaiting_save", "incomplete"}
    BY DEF Kinds
  <2>4. /\ noted \in [Attempts -> Seq(Kinds)]
        /\ \A b \in Attempts :
             /\ noted[b] = << >> <=> states[b] = << >>
             /\ Range(noted[b]) = IF b \in {a} /\ states[b] # << >>
                                    THEN Range(states[b]) \cup {status}
                                    ELSE Range(states[b])
             /\ UntouchedBefore(states[b]) => UntouchedBefore(noted[b])
    <3> HIDE DEF status
    <3> QED BY <2>2, <2>3, NoteOther
  <2> HIDE DEF noted, status
  <2>5. /\ generations'[a] = [generations[a] EXCEPT !.status = status, !.answer = answer,
                                                    !.settled = settled]
        /\ generations'[a] \in Generations
        /\ generations'[a].status = status
        /\ generations'[a].message = generations[a].message
        /\ \A b \in Attempts \ {a} : generations'[b] = generations[b]
    BY <2>1, <2>2, <2>3 DEF Generations
  <2>6. Reserved' = Reserved /\ a \in Reserved
    <3>1. status # "none"
      BY <2>3
    <3>2. \A b \in Attempts : generations'[b].status = "none" <=> generations[b].status = "none"
      BY <2>2, <2>5, <3>1
    <3> QED BY <2>2, <3>2 DEF Reserved
  <2>7. TablesOK'
    BY <2>1, <2>2, <2>4, <2>5 DEF TablesOK
  <2>8. OneInFlight'
    <3>1. \A b \in Attempts : InFlight(b)' => InFlight(b)
      BY <2>2, <2>5 DEF InFlight
    <3> QED BY <2>2, <3>1 DEF OneInFlight
  <2>9. FreshIsBlank'
    BY <2>1, <2>2, <2>4, <2>6 DEF FreshIsBlank
  <2>10. \A b \in Reserved : generations'[b].message = generations[b].message
    BY <2>5 DEF Reserved
  <2>11. CurrentIsIts'
    BY <2>1, <2>2, <2>6, <2>10 DEF CurrentIsIts
  <2>12. LedgerOK'
    <3> SUFFICES ASSUME NEW b \in Attempts, states'[b] # << >>
                 PROVE  /\ "eligible" \in Range(states'[b]) <=>
                             generations'[b].status = "completed"
                        /\ "eligible" \in Range(states'[b]) <=> b \in answers'
                        /\ UntouchedBefore(states'[b])
                        /\ "incomplete" \in Range(states'[b]) =>
                             generations'[b].status = "incomplete"
                        /\ Withdrawn(b)' => current'[generations'[b].message] # b
      BY DEF LedgerOK
    <3>1. states[b] # << >> /\ b \in Reserved
      BY <2>1, <2>2, <2>4 DEF FreshIsBlank
    <3>2. /\ "eligible" \in Range(states[b]) <=> generations[b].status = "completed"
          /\ "eligible" \in Range(states[b]) <=> b \in answers
          /\ UntouchedBefore(states[b])
          /\ "incomplete" \in Range(states[b]) => generations[b].status = "incomplete"
          /\ Withdrawn(b) => current[generations[b].message] # b
      BY <2>2, <3>1 DEF LedgerOK
    <3>3. Withdrawn(b)' => Withdrawn(b)
      BY <2>1, <2>3, <2>4 DEF Withdrawn
    <3>4. UntouchedBefore(states'[b])
      BY <2>1, <2>4, <3>2
    <3>5. CASE b = a
      <4>1. Range(states'[b]) = Range(states[b]) \cup {status}
        BY <2>1, <2>4, <3>1, <3>5
      <4> QED BY <2>1, <2>2, <2>3, <2>5, <3>2, <3>3, <3>4, <3>5, <4>1
    <3>6. CASE b # a
      <4>1. Range(states'[b]) = Range(states[b])
        BY <2>1, <2>4, <3>6
      <4> QED BY <2>1, <2>5, <3>2, <3>3, <3>4, <3>6, <4>1
    <3> QED BY <3>5, <3>6
  <2>13. AttemptsKept
    BY <2>2, <2>5, <2>6, <2>10 DEF AttemptsKept, Reserved
  <2> QED BY <2>6, <2>7, <2>8, <2>9, <2>10, <2>11, <2>12, <2>13 DEF TablesInvariant
<1> QED BY <1>1, <1>2 DEF Finish

\* Whatever the host says it saved, only the newest attempt for the message becomes
\* eligible, only if nobody touched it (s1.py: confirm_saved).
LEMMA ConfirmKeeps ==
  ASSUME TrialAssumption, TablesInvariant, NEW m \in Messages, NEW shown,
         ConfirmSaved(m, shown)
  PROVE  TablesInvariant' /\ AttemptsKept
         /\ Reserved' = Reserved
         /\ \A a \in Reserved : generations'[a].message = generations[a].message
<1> DEFINE confirmed == {a \in Reserved : /\ current[m] = a /\ Admitted(m)
                                          /\ generations[a].status = "awaiting_save"
                                          /\ Matches(a, shown)}
           noted == Note(confirmed, "eligible")
<1>1. /\ generations' = [a \in Attempts |->
           IF a \in confirmed THEN [generations[a] EXCEPT !.status = "completed"]
                              ELSE generations[a]]
      /\ states' = noted
      /\ answers' = answers \cup {a \in confirmed : states[a] # << >>}
      /\ chats' = chats /\ current' = current
  BY DEF ConfirmSaved
<1>2. /\ TablesOK /\ OneInFlight /\ FreshIsBlank /\ CurrentIsIts /\ LedgerOK
      /\ generations \in [Attempts -> Generations \cup {Unused}]
      /\ states \in [Attempts -> Seq(Kinds)]
      /\ answers \subseteq Attempts
      /\ None \notin Attempts
  BY DEF TablesInvariant, TablesOK, TrialAssumption
<1>3. \A a \in confirmed : /\ a \in Reserved /\ a \in Attempts
                           /\ current[m] = a
                           /\ generations[a].status = "awaiting_save"
                           /\ generations[a].message = m
                           /\ generations[a] \in Generations
  BY <1>2 DEF CurrentIsIts, Reserved, Unused
<1>4. \A a \in confirmed : states[a] # << >> =>
        Range(states[a]) \subseteq {"pending", "awaiting_save"}
  <2> SUFFICES ASSUME NEW a \in confirmed, states[a] # << >>
               PROVE  Range(states[a]) \subseteq {"pending", "awaiting_save"}
    OBVIOUS
  <2> HIDE DEF confirmed
  <2>1. Range(states[a]) \subseteq Kinds
    BY <1>2, <1>3 DEF Range
  <2>2. ~Withdrawn(a) /\ "eligible" \notin Range(states[a]) /\ "incomplete" \notin Range(states[a])
    BY <1>2, <1>3 DEF LedgerOK
  <2> QED BY <2>1, <2>2 DEF Kinds, Withdrawn
<1>5. /\ noted \in [Attempts -> Seq(Kinds)]
      /\ \A a \in Attempts :
           /\ noted[a] = << >> <=> states[a] = << >>
           /\ Range(noted[a]) = IF a \in confirmed /\ states[a] # << >>
                                  THEN Range(states[a]) \cup {"eligible"}
                                  ELSE Range(states[a])
           /\ UntouchedBefore(states[a]) => UntouchedBefore(noted[a])
  <2> HIDE DEF confirmed
  <2>1. "eligible" \in Kinds
    BY DEF Kinds
  <2>2. noted \in [Attempts -> Seq(Kinds)]
    <3>1. \A a \in Attempts :
            states[a] \in Seq(Kinds) /\ Append(states[a], "eligible") \in Seq(Kinds)
      BY <1>2, <2>1
    <3> QED BY <3>1 DEF Note
  <2>3. ASSUME NEW a \in Attempts
        PROVE  /\ noted[a] = << >> <=> states[a] = << >>
               /\ Range(noted[a]) = IF a \in confirmed /\ states[a] # << >>
                                      THEN Range(states[a]) \cup {"eligible"}
                                      ELSE Range(states[a])
               /\ UntouchedBefore(states[a]) => UntouchedBefore(noted[a])
    <3>1. /\ noted \in [Attempts -> Seq(Kinds)]
          /\ noted[a] = << >> <=> states[a] = << >>
          /\ Range(noted[a]) = IF a \in confirmed /\ states[a] # << >>
                                 THEN Range(states[a]) \cup {"eligible"}
                                 ELSE Range(states[a])
          /\ "eligible" # "eligible" /\ UntouchedBefore(states[a]) => UntouchedBefore(noted[a])
          /\ Range(states[a]) \subseteq {"pending", "awaiting_save"} => UntouchedBefore(noted[a])
      BY <1>2, <2>1, NoteAppends
    <3>2. (a \in confirmed /\ states[a] # << >>) \/ noted[a] = states[a]
      BY DEF Note
    <3> HIDE DEF noted
    <3> QED BY <1>4, <3>1, <3>2
  <2> HIDE DEF noted
  <2> QED BY <2>2, <2>3
<1> HIDE DEF noted, confirmed
<1>6. /\ \A a \in confirmed : generations'[a] = [generations[a] EXCEPT !.status = "completed"]
      /\ \A a \in Attempts \ confirmed : generations'[a] = generations[a]
  BY <1>1, <1>3
<1>7. \A a \in confirmed : /\ generations'[a] \in Generations
                           /\ generations'[a].status = "completed"
                           /\ generations'[a].message = m
  <2> SUFFICES ASSUME NEW a \in confirmed
               PROVE  /\ generations'[a] \in Generations
                      /\ generations'[a].status = "completed"
                      /\ generations'[a].message = m
    OBVIOUS
  <2>1. generations[a] \in Generations /\ generations[a].message = m
    BY <1>3
  <2>2. generations'[a] = [generations[a] EXCEPT !.status = "completed"]
    BY <1>6
  <2> QED BY <2>1, <2>2 DEF Generations
<1>8. Reserved' = Reserved
  <2>1. \A a \in Attempts : generations'[a].status = "none" <=> generations[a].status = "none"
    BY <1>3, <1>6, <1>7
  <2> QED BY <2>1 DEF Reserved
<1>9. \A a \in Attempts : generations'[a].message = generations[a].message
  BY <1>3, <1>6, <1>7
<1>10. TablesOK'
  <2>1. generations' \in [Attempts -> Generations \cup {Unused}]
    <3>1. \A a \in Attempts : generations'[a] \in Generations \cup {Unused}
      BY <1>2, <1>6, <1>7
    <3> QED BY <1>1, <3>1
  <2>2. answers' \subseteq Attempts
    BY <1>1, <1>2, <1>3
  <2> QED BY <1>1, <1>2, <1>5, <2>1, <2>2 DEF TablesOK
<1>11. OneInFlight'
  <2>1. \A a \in Attempts : InFlight(a)' => InFlight(a)
    BY <1>6, <1>7 DEF InFlight
  <2> QED BY <1>2, <2>1 DEF OneInFlight
<1>12. FreshIsBlank'
  BY <1>1, <1>2, <1>3, <1>5, <1>8 DEF FreshIsBlank
<1>13. CurrentIsIts'
  BY <1>1, <1>2, <1>8, <1>9 DEF CurrentIsIts, Reserved
<1>14. LedgerOK'
  <2> SUFFICES ASSUME NEW a \in Attempts, states'[a] # << >>
               PROVE  /\ "eligible" \in Range(states'[a]) <=>
                           generations'[a].status = "completed"
                      /\ "eligible" \in Range(states'[a]) <=> a \in answers'
                      /\ UntouchedBefore(states'[a])
                      /\ "incomplete" \in Range(states'[a]) =>
                           generations'[a].status = "incomplete"
                      /\ Withdrawn(a)' => current'[generations'[a].message] # a
    BY DEF LedgerOK
  <2>1. states[a] # << >>
    BY <1>1, <1>5
  <2>2. /\ "eligible" \in Range(states[a]) <=> generations[a].status = "completed"
        /\ "eligible" \in Range(states[a]) <=> a \in answers
        /\ UntouchedBefore(states[a])
        /\ "incomplete" \in Range(states[a]) => generations[a].status = "incomplete"
        /\ Withdrawn(a) => current[generations[a].message] # a
    BY <1>2, <2>1 DEF LedgerOK
  <2>3. Withdrawn(a)' => Withdrawn(a)
    BY <1>1, <1>5 DEF Withdrawn
  <2>4. UntouchedBefore(states'[a])
    BY <1>1, <1>5, <2>2
  <2>5. CASE a \in confirmed
    <3>1. Range(states'[a]) = Range(states[a]) \cup {"eligible"}
      BY <1>1, <1>5, <2>1, <2>5
    <3>2. a \in answers'
      BY <1>1, <2>1, <2>5
    <3>3. "incomplete" \notin Range(states'[a])
      BY <1>4, <2>1, <2>5, <3>1
    <3> QED BY <1>1, <1>7, <1>9, <2>2, <2>3, <2>4, <2>5, <3>1, <3>2, <3>3
  <2>6. CASE a \notin confirmed
    <3>1. Range(states'[a]) = Range(states[a])
      BY <1>1, <1>5, <2>6
    <3> QED BY <1>1, <1>6, <2>2, <2>3, <2>4, <2>6, <3>1
  <2> QED BY <2>5, <2>6
<1>15. AttemptsKept
  <2>1. \A a \in Reserved : generations[a].status = "completed" => a \notin confirmed
    BY <1>3
  <2> QED BY <1>6, <1>8, <1>9, <2>1 DEF AttemptsKept, Reserved
<1> QED BY <1>8, <1>9, <1>10, <1>11, <1>12, <1>13, <1>14, <1>15 DEF TablesInvariant, Reserved

\* An edit, a deletion or a revocation takes the receipts of a whole chat back, and the
\* ledger of every attempt in it hears of it (s1.py: invalidate).
LEMMA InvalidateKeeps ==
  ASSUME TrialAssumption, TablesInvariant, NEW c \in Chats, NEW revoke \in BOOLEAN,
         Invalidate(c, revoke)
  PROVE  TablesInvariant' /\ AttemptsKept
         /\ Reserved' = Reserved
         /\ \A a \in Reserved : generations'[a].message = generations[a].message
<1> DEFINE theirs == {a \in Reserved : ChatOf[generations[a].message] = c}
           kind == IF revoke THEN "revoked" ELSE "invalidated"
           noted == Note(theirs, kind)
<1>1. /\ states' = noted
      /\ current' = [m \in Messages |-> IF ChatOf[m] = c THEN None ELSE current[m]]
      /\ chats' = IF revoke /\ chats[c] = "active" THEN [chats EXCEPT ![c] = "revoked"]
                                                   ELSE chats
      /\ generations' = generations /\ answers' = answers
  BY DEF Invalidate
<1>2. /\ TablesOK /\ OneInFlight /\ FreshIsBlank /\ CurrentIsIts /\ LedgerOK
      /\ None \notin Attempts
  BY DEF TablesInvariant, TrialAssumption
<1>3. kind \in Kinds \ {"eligible"} /\ kind \in {"revoked", "invalidated"}
  BY DEF Kinds
<1>4. /\ noted \in [Attempts -> Seq(Kinds)]
      /\ \A a \in Attempts :
           /\ noted[a] = << >> <=> states[a] = << >>
           /\ Range(noted[a]) = IF a \in theirs /\ states[a] # << >>
                                  THEN Range(states[a]) \cup {kind}
                                  ELSE Range(states[a])
           /\ UntouchedBefore(states[a]) => UntouchedBefore(noted[a])
  <2> HIDE DEF kind, theirs
  <2> QED BY <1>2, <1>3, NoteOther
<1> HIDE DEF noted, kind
<1>5. Reserved' = Reserved
  BY <1>1 DEF Reserved
<1>6. TablesOK'
  <2>1. chats' \in [Chats -> {"unknown", "active", "revoked"}]
    BY <1>1, <1>2 DEF TablesOK
  <2>2. current' \in [Messages -> Attempts \cup {None}]
    BY <1>1, <1>2 DEF TablesOK
  <2> QED BY <1>1, <1>2, <1>4, <2>1, <2>2 DEF TablesOK
<1>7. OneInFlight'
  BY <1>1, <1>2 DEF OneInFlight, InFlight
<1>8. FreshIsBlank'
  BY <1>1, <1>2, <1>4, <1>5 DEF FreshIsBlank
<1>9. CurrentIsIts'
  BY <1>1, <1>2, <1>5 DEF CurrentIsIts
<1>10. LedgerOK'
  <2> SUFFICES ASSUME NEW a \in Attempts, states'[a] # << >>
               PROVE  /\ "eligible" \in Range(states'[a]) <=>
                           generations[a].status = "completed"
                      /\ "eligible" \in Range(states'[a]) <=> a \in answers
                      /\ UntouchedBefore(states'[a])
                      /\ "incomplete" \in Range(states'[a]) =>
                           generations[a].status = "incomplete"
                      /\ Withdrawn(a)' => current'[generations[a].message] # a
    BY <1>1 DEF LedgerOK
  <2>1. states[a] # << >> /\ a \in Reserved
    BY <1>1, <1>2, <1>4 DEF FreshIsBlank
  <2>2. /\ "eligible" \in Range(states[a]) <=> generations[a].status = "completed"
        /\ "eligible" \in Range(states[a]) <=> a \in answers
        /\ UntouchedBefore(states[a])
        /\ "incomplete" \in Range(states[a]) => generations[a].status = "incomplete"
        /\ Withdrawn(a) => current[generations[a].message] # a
    BY <1>2, <2>1 DEF LedgerOK
  <2>3. UntouchedBefore(states'[a])
    BY <1>1, <1>4, <2>2
  <2>4. /\ "eligible" \in Range(states'[a]) <=> "eligible" \in Range(states[a])
        /\ "incomplete" \in Range(states'[a]) <=> "incomplete" \in Range(states[a])
    BY <1>1, <1>3, <1>4
  <2>5. generations[a].message \in Messages
    BY <1>2, <2>1 DEF TablesOK, Reserved, Generations, Unused
  <2>6. Withdrawn(a)' => current'[generations[a].message] # a
    <3>1. CASE a \in theirs
      BY <1>1, <1>2, <2>5, <3>1
    <3>2. CASE a \notin theirs
      <4>1. Withdrawn(a)' => Withdrawn(a)
        <5> HIDE DEF theirs
        <5> QED BY <1>1, <1>4, <3>2 DEF Withdrawn
      <4> QED BY <1>1, <1>2, <2>2, <2>5, <4>1
    <3> QED BY <3>1, <3>2
  <2> QED BY <2>2, <2>3, <2>4, <2>6
<1>11. AttemptsKept
  BY <1>1, <1>5 DEF AttemptsKept
<1> QED BY <1>1, <1>5, <1>6, <1>7, <1>8, <1>9, <1>10, <1>11 DEF TablesInvariant

\* Admitting a chat touches no attempt (s1.py: enroll).
LEMMA EnrollKeeps ==
  ASSUME TablesInvariant, NEW c \in Chats, Enroll(c)
  PROVE  TablesInvariant' /\ AttemptsKept
         /\ Reserved' = Reserved
         /\ \A a \in Reserved : generations'[a].message = generations[a].message
<1>1. /\ chats' = [chats EXCEPT ![c] = "active"]
      /\ generations' = generations /\ current' = current /\ states' = states
      /\ answers' = answers
  BY DEF Enroll
<1>2. TablesOK'
  BY <1>1 DEF TablesInvariant, TablesOK
<1>3. OneInFlight'
  BY <1>1 DEF TablesInvariant, OneInFlight, InFlight
<1>4. FreshIsBlank' /\ CurrentIsIts' /\ Reserved' = Reserved
  BY <1>1 DEF TablesInvariant, FreshIsBlank, CurrentIsIts, Reserved
<1>5. LedgerOK'
  BY <1>1 DEF TablesInvariant, LedgerOK, Withdrawn
<1> QED BY <1>1, <1>2, <1>3, <1>4, <1>5 DEF TablesInvariant, AttemptsKept

-----------------------------------------------------------------------------
(* The callbacks *)

\* What every step of the host that reserves nothing does to the tables.
TablesStep ==
  /\ TablesInvariant'
  /\ AttemptsKept
  /\ Reserved' = Reserved
  /\ \A a \in Reserved : generations'[a].message = generations[a].message

\* No transaction makes a genuine answer less so: feedback and requests that rest on it
\* go on resting on it.
LEMMA GenuineKept ==
  ASSUME AttemptsKept, NEW a \in Reserved, NEW shown, Genuine(a, shown)
  PROVE  /\ a \in Reserved'
         /\ generations'[a] = generations[a]
         /\ Genuine(a, shown)'
BY DEF AttemptsKept, Genuine, Matches

LEMMA RestKept ==
  ASSUME AttemptsKept, NEW run, RestsOnAnswer(run)
  PROVE  RestsOnAnswer(run)'
BY DEF AttemptsKept, RestsOnAnswer, Genuine, Matches

\* Feedback's targets, and what was asked, rest on answers that stay genuine.
LEMMA TargetsKept ==
  ASSUME TargetsGenuine, AttemptsKept, held' \cup feedback' \subseteq held \cup feedback
  PROVE  TargetsGenuine'
<1> SUFFICES ASSUME NEW h \in held' \cup feedback'
             PROVE  Genuine(h.attempt, h.shown)'
  BY DEF TargetsGenuine
<1>1. Genuine(h.attempt, h.shown)
  BY DEF TargetsGenuine
<1> QED BY <1>1 DEF AttemptsKept, Genuine, Matches

LEMMA AskedKept ==
  ASSUME AskedGenuine, TablesStep, asked' = asked
  PROVE  AskedGenuine'
BY DEF AskedGenuine, TablesStep, AttemptsKept

\* Steps that change no request, no target and nothing that was asked.
LEMMA HostFrame ==
  ASSUME HostInvariant, TablesStep, SavedOK',
         runs' = runs, held' = held, feedback' = feedback, asked' = asked
  PROVE  HostInvariant'
<1>1. RunsOK' /\ asked' \in [Attempts -> Texts \cup {None}]
  BY DEF HostInvariant, RunsOK
<1>2. AdmittedWithAnswer'
  BY RestKept DEF HostInvariant, TablesStep, AdmittedWithAnswer
<1>3. TargetsGenuine' /\ AskedGenuine'
  BY TargetsKept, AskedKept DEF HostInvariant, TablesStep
<1> QED BY <1>1, <1>2, <1>3 DEF HostInvariant

\* A step of one request that reserves nothing.
LEMMA RunFrame ==
  ASSUME HostInvariant, TablesStep, NEW p \in Pipes,
         runs' \in [Pipes -> RunRecords],
         \A o \in Pipes \ {p} : runs'[o] = runs[o],
         RunOK(runs'[p]), RestsOnAnswer(runs'[p]),
         saved' \in [Messages -> Contents \cup {None}],
         edit' = edit, held' = held, feedback' = feedback, asked' = asked
  PROVE  HostInvariant'
<1>1. SavedOK'
  BY DEF HostInvariant, SavedOK
<1>2. RunsOK'
  BY DEF HostInvariant, RunsOK
<1>3. AdmittedWithAnswer'
  <2> SUFFICES ASSUME NEW o \in Pipes
               PROVE  RestsOnAnswer(runs[o])'
    BY DEF AdmittedWithAnswer
  <2>1. PICK run : run = runs'[o]
    OBVIOUS
  <2>2. RestsOnAnswer(run)
    BY <2>1 DEF HostInvariant, AdmittedWithAnswer
  <2> QED BY <2>1, <2>2, RestKept DEF TablesStep, RestsOnAnswer, Genuine, Matches
<1>4. TargetsGenuine' /\ AskedGenuine' /\ asked' \in [Attempts -> Texts \cup {None}]
  BY TargetsKept, AskedKept DEF HostInvariant, TablesStep
<1> QED BY <1>1, <1>2, <1>3, <1>4 DEF HostInvariant

\* A request that is over.
LEMMA IdleFrame ==
  ASSUME HostInvariant, TablesStep, NEW p \in Pipes, runs' = [runs EXCEPT ![p] = Idle],
         UNCHANGED <<saved, edit, held, feedback, asked>>
  PROVE  HostInvariant'
<1>1. Idle \in RunRecords /\ Idle.phase = "idle"
  BY DEF Idle, RunRecords, Phases
<1>2. runs \in [Pipes -> RunRecords] /\ saved \in [Messages -> Contents \cup {None}]
  BY DEF HostInvariant, RunsOK, SavedOK
<1>3. /\ runs' \in [Pipes -> RunRecords]
      /\ runs'[p] = Idle
      /\ \A o \in Pipes \ {p} : runs'[o] = runs[o]
  BY <1>1, <1>2
<1>4. RunOK(runs'[p]) /\ RestsOnAnswer(runs'[p])
  BY <1>1, <1>3 DEF RunOK, RestsOnAnswer
<1> QED BY <1>2, <1>3, <1>4, RunFrame

\* Every step of a request but its reservation keeps the invariant.
LEMMA RequestKeeps ==
  ASSUME TrialAssumption, HostAssumption, TrialInvariant, NEW p \in Pipes,
         \/ \E m \in Messages : Check(p, m)
         \/ Read(p) \/ Admit(p) \/ Refused(p) \/ NotStarted(p) \/ Answered(p) \/ Failed(p)
         \/ Save(p) \/ NotSaved(p) \/ Confirm(p)
  PROVE  TrialInvariant'
<1> DEFINE run == runs[p]
<1>0. /\ TablesInvariant /\ HostInvariant
      /\ runs \in [Pipes -> RunRecords]
      /\ saved \in [Messages -> Contents \cup {None}]
      /\ RunOK(run) /\ run \in RunRecords
      /\ RestsOnAnswer(run)
  BY DEF TrialInvariant, HostInvariant, RunsOK, SavedOK, AdmittedWithAnswer
<1>0a. SUFFICES TablesStep /\ HostInvariant'
  BY DEF TrialInvariant, TablesStep
<1>1. ASSUME NEW m \in Messages, Check(p, m)
      PROVE  TablesStep /\ HostInvariant'
  <2> DEFINE new == [Idle EXCEPT !.phase = "checked", !.message = m]
  <2>1. /\ runs' = [runs EXCEPT ![p] = new]
        /\ UNCHANGED <<trialVars, saved, edit, held, feedback, asked>>
    BY <1>1 DEF Check
  <2>2. new \in RunRecords /\ new.phase = "checked" /\ new.message = m
    BY DEF Idle, RunRecords, Phases
  <2> HIDE DEF new
  <2>3. RunOK(new) /\ RestsOnAnswer(new)
    BY <2>2 DEF RunOK, RestsOnAnswer
  <2>4. /\ runs' \in [Pipes -> RunRecords] /\ runs'[p] = new
        /\ \A o \in Pipes \ {p} : runs'[o] = runs[o]
    BY <1>0, <2>1, <2>2
  <2>5. TablesStep
    BY <1>0, <2>1, TablesStutter DEF TablesStep
  <2> QED BY <1>0, <2>1, <2>3, <2>4, <2>5, RunFrame
<1>2. CASE Read(p)
  <2>1. /\ run.phase = "checked"
        /\ run.message \in Messages /\ saved[run.message] # None
        /\ UNCHANGED <<trialVars, saved, edit, held, feedback, asked>>
        /\ runs' = [runs EXCEPT
             ![p].phase = "read", ![p].shown = saved[run.message],
             ![p].prior = IF Prior[run.message] = None THEN None ELSE saved[Prior[run.message]]]
    BY <1>0, <1>2 DEF Read, RunOK
  <2>2. saved[run.message] \in Contents
    BY <1>0, <2>1
  <2>3. Prior[run.message] = None \/ saved[Prior[run.message]] \in Contents \cup {None}
    BY <1>0, <2>1 DEF HostAssumption
  <2>4. /\ runs'[p] \in RunRecords
        /\ runs'[p].phase = "read" /\ runs'[p].message = run.message
        /\ runs'[p].shown = saved[run.message]
        /\ \A o \in Pipes \ {p} : runs'[o] = runs[o]
    BY <1>0, <2>1, <2>2, <2>3 DEF RunRecords, Phases
  <2>5. runs' \in [Pipes -> RunRecords]
    BY <1>0, <2>1, <2>4
  <2>6. RunOK(runs'[p]) /\ RestsOnAnswer(runs'[p])
    BY <2>1, <2>2, <2>4 DEF RunOK, RestsOnAnswer
  <2>7. TablesStep
    BY <1>0, <2>1, TablesStutter DEF TablesStep
  <2> QED BY <1>0, <2>1, <2>4, <2>5, <2>6, <2>7, RunFrame
<1>3. CASE Admit(p)
  <2>1. /\ run.phase = "read" /\ run.message \in Messages /\ run.shown \in Contents
        /\ ChatOf[run.message] \in Chats
        /\ Enroll(ChatOf[run.message])
        /\ runs' = [runs EXCEPT ![p].phase = "admitted"]
        /\ UNCHANGED <<saved, edit, held, feedback, asked>>
    BY <1>0, <1>3 DEF Admit, RunOK, TrialAssumption
  <2>2. Prior[run.message] # None =>
          \E b \in Reserved : /\ generations[b].message = Prior[run.message]
                              /\ Genuine(b, run.prior)
    BY <1>3 DEF Admit, Qualifies, HasReceipt, Genuine
  <2>3. /\ runs'[p] = [run EXCEPT !.phase = "admitted"]
        /\ \A o \in Pipes \ {p} : runs'[o] = runs[o]
    BY <1>0, <2>1
  <2>4. /\ runs'[p] \in RunRecords
        /\ runs'[p].phase = "admitted" /\ runs'[p].message = run.message
        /\ runs'[p].shown = run.shown /\ runs'[p].prior = run.prior
    BY <1>0, <2>3 DEF RunRecords, Phases
  <2>5. runs' \in [Pipes -> RunRecords]
    BY <1>0, <2>1, <2>4
  <2>6. RunOK(runs'[p]) /\ RestsOnAnswer(runs'[p])
    BY <2>1, <2>2, <2>4 DEF RunOK, RestsOnAnswer
  <2>7. TablesStep
    BY <1>0, <2>1, EnrollKeeps DEF TablesStep
  <2> QED BY <1>0, <2>1, <2>3, <2>5, <2>6, <2>7, RunFrame
<1>4. CASE Refused(p) \/ NotStarted(p) \/ NotSaved(p)
  <2>1. /\ runs' = [runs EXCEPT ![p] = Idle]
        /\ UNCHANGED <<trialVars, saved, edit, held, feedback, asked>>
    BY <1>4 DEF Refused, NotStarted, NotSaved
  <2>2. TablesStep
    BY <1>0, <2>1, TablesStutter DEF TablesStep
  <2> QED BY <1>0, <2>1, <2>2, IdleFrame
<1>5. CASE Answered(p)
  <2>1. PICK text \in Texts, usage \in Costs \cup {None} :
          /\ Finish(run.attempt, text, usage)
          /\ runs' = [runs EXCEPT ![p].phase = "saving", ![p].shown = text]
    BY <1>5 DEF Answered
  <2>2. /\ run.phase = "reserved" /\ run.attempt \in Attempts /\ run.message \in Messages
        /\ UNCHANGED <<saved, edit, held, feedback, asked>>
    BY <1>0, <1>5 DEF Answered, RunOK
  <2>3. /\ runs'[p] = [run EXCEPT !.phase = "saving", !.shown = text]
        /\ \A o \in Pipes \ {p} : runs'[o] = runs[o]
    BY <1>0, <2>1
  <2>4. /\ runs'[p] \in RunRecords
        /\ runs'[p].phase = "saving" /\ runs'[p].message = run.message
        /\ runs'[p].shown = text /\ runs'[p].attempt = run.attempt
    BY <1>0, <2>3 DEF RunRecords, Phases
  <2>5. runs' \in [Pipes -> RunRecords]
    BY <1>0, <2>1, <2>4
  <2>6. RunOK(runs'[p]) /\ RestsOnAnswer(runs'[p])
    BY <2>2, <2>4 DEF RunOK, RestsOnAnswer
  <2>7. TablesStep
    BY <1>0, <2>1, <2>2, FinishKeeps DEF TablesStep
  <2> QED BY <1>0, <2>2, <2>3, <2>5, <2>6, <2>7, RunFrame
<1>6. CASE Failed(p)
  <2>1. PICK usage \in Costs \cup {None} : Finish(run.attempt, None, usage)
    BY <1>6 DEF Failed
  <2>2. /\ run.phase = "reserved" /\ run.attempt \in Attempts /\ run.message \in Messages
        /\ run.shown \in Texts \cup {None}
        /\ runs' = [runs EXCEPT ![p].phase = "saving"]
        /\ UNCHANGED <<saved, edit, held, feedback, asked>>
    BY <1>0, <1>6 DEF Failed, RunOK
  <2>3. /\ runs'[p] = [run EXCEPT !.phase = "saving"]
        /\ \A o \in Pipes \ {p} : runs'[o] = runs[o]
    BY <1>0, <2>2
  <2>4. /\ runs'[p] \in RunRecords
        /\ runs'[p].phase = "saving" /\ runs'[p].message = run.message
        /\ runs'[p].shown = run.shown /\ runs'[p].attempt = run.attempt
    BY <1>0, <2>3 DEF RunRecords, Phases
  <2>5. runs' \in [Pipes -> RunRecords]
    BY <1>0, <2>2, <2>4
  <2>6. RunOK(runs'[p]) /\ RestsOnAnswer(runs'[p])
    BY <2>2, <2>4 DEF RunOK, RestsOnAnswer
  <2>7. TablesStep
    BY <1>0, <2>1, <2>2, FinishKeeps DEF TablesStep
  <2> QED BY <1>0, <2>2, <2>3, <2>5, <2>6, <2>7, RunFrame
<1>7. CASE Save(p)
  <2> DEFINE m == run.message
             text == run.shown
  <2>1. /\ run.phase = "saving" /\ m \in Messages /\ saved[m] # None
        /\ run.attempt \in Attempts /\ text \in Texts \cup {None}
        /\ saved' = [saved EXCEPT ![m].text = text]
        /\ runs' = [runs EXCEPT ![p].phase = "saved", ![p].shown = saved'[m]]
        /\ UNCHANGED <<trialVars, edit, held, feedback, asked>>
    BY <1>0, <1>7 DEF Save, RunOK
  <2>2. saved'[m] \in Contents
    <3>1. saved'[m] = [saved[m] EXCEPT !.text = text] /\ saved[m] \in Contents
      BY <1>0, <2>1
    <3> QED BY <2>1, <3>1 DEF Contents
  <2>3. saved' \in [Messages -> Contents \cup {None}]
    <3> HIDE DEF m
    <3> QED BY <1>0, <2>1, <2>2
  <2>4. /\ runs'[p] = [run EXCEPT !.phase = "saved", !.shown = saved'[m]]
        /\ \A o \in Pipes \ {p} : runs'[o] = runs[o]
    BY <1>0, <2>1
  <2>5. /\ runs'[p] \in RunRecords
        /\ runs'[p].phase = "saved" /\ runs'[p].message = m /\ runs'[p].attempt = run.attempt
    BY <1>0, <2>2, <2>4 DEF RunRecords, Phases
  <2>6. runs' \in [Pipes -> RunRecords]
    BY <1>0, <2>1, <2>4, <2>5
  <2>7. RunOK(runs'[p]) /\ RestsOnAnswer(runs'[p])
    BY <2>1, <2>5 DEF RunOK, RestsOnAnswer
  <2>8. TablesStep
    BY <1>0, <2>1, TablesStutter DEF TablesStep
  <2> QED BY <1>0, <2>1, <2>3, <2>4, <2>6, <2>7, <2>8, RunFrame
<1>8. CASE Confirm(p)
  <2>1. /\ run.message \in Messages
        /\ runs' = [runs EXCEPT ![p] = Idle]
        /\ UNCHANGED <<saved, edit, held, feedback, asked>>
    BY <1>0, <1>8 DEF Confirm, RunOK
  <2>2. ConfirmSaved(run.message, run.shown) \/ UNCHANGED trialVars
    BY <1>8 DEF Confirm
  <2>3. TablesStep
    BY <1>0, <2>1, <2>2, ConfirmKeeps, TablesStutter DEF TablesStep
  <2> QED BY <1>0, <2>1, <2>3, IdleFrame
<1> QED BY <1>1, <1>2, <1>3, <1>4, <1>5, <1>6, <1>7, <1>8

\* A request that is reserved asks with the answer it was admitted with, whose receipt
\* may be gone by now (s1_pipe.py: the reservation after the await).
LEMMA BeginKeeps ==
  ASSUME TrialAssumption, HostAssumption, TrialInvariant, NEW p \in Pipes, Begin(p)
  PROVE  TrialInvariant'
<1> DEFINE run == runs[p]
           earlier == IF run.prior = None THEN None ELSE run.prior.text
<1>0. /\ TablesInvariant /\ HostInvariant
      /\ runs \in [Pipes -> RunRecords]
      /\ asked \in [Attempts -> Texts \cup {None}]
      /\ RunOK(run) /\ run \in RunRecords
      /\ RestsOnAnswer(run)
  BY DEF TrialInvariant, HostInvariant, RunsOK, AdmittedWithAnswer
<1>1. /\ run.phase = "admitted" /\ run.message \in Messages /\ run.shown.prompt \in Prompts
      /\ run.prior \in Contents \cup {None}
      /\ UNCHANGED <<saved, edit, held, feedback>>
  BY <1>0 DEF Begin, RunOK, RunRecords, Contents
<1>2. PICK a \in Attempts, tracked \in Tracking :
        /\ Reserve(a, run.message, run.shown.prompt, tracked)
        /\ asked' = [asked EXCEPT ![a] = earlier]
        /\ runs' = [runs EXCEPT ![p] = [Idle EXCEPT !.phase = "reserved", !.attempt = a,
                                                    !.message = run.message]]
  BY DEF Begin
<1>3. /\ TablesInvariant' /\ AttemptsKept
      /\ Reserved' = Reserved \cup {a}
      /\ generations'[a].message = run.message
      /\ \A b \in Attempts \ {a} : generations'[b] = generations[b]
      /\ a \notin Reserved
  <2>1. tracked \in BOOLEAN
    BY DEF HostAssumption
  <2>2. Reserve(a, run.message, run.shown.prompt, tracked)
    BY <1>2
  <2>3. a \notin Reserved
    BY <2>2 DEF Reserve
  <2> QED BY <1>0, <1>1, <2>1, <2>2, <2>3, ReserveKeeps
<1>4. SavedOK'
  BY <1>0, <1>1 DEF HostInvariant, SavedOK
<1>5. RunsOK' /\ AdmittedWithAnswer'
  <2> DEFINE new == [Idle EXCEPT !.phase = "reserved", !.attempt = a, !.message = run.message]
  <2>1. /\ new \in RunRecords /\ new.phase = "reserved" /\ new.attempt = a
        /\ new.message = run.message /\ new.shown = None
    BY <1>1 DEF Idle, RunRecords, Phases
  <2>2. RunOK(new)
    <3> HIDE DEF new
    <3> QED BY <1>1, <2>1 DEF RunOK
  <2>3. /\ runs' \in [Pipes -> RunRecords] /\ runs'[p] = new
        /\ \A o \in Pipes \ {p} : runs'[o] = runs[o]
    <3> HIDE DEF new
    <3>1. runs' = [runs EXCEPT ![p] = new]
      BY <1>2 DEF new
    <3> QED BY <1>0, <2>1, <3>1
  <2> HIDE DEF new
  <2>4. RunsOK'
    BY <1>0, <2>2, <2>3 DEF HostInvariant, RunsOK
  <2>5. ASSUME NEW o \in Pipes
        PROVE  RestsOnAnswer(runs[o])'
    <3>1. PICK r : r = runs'[o]
      OBVIOUS
    <3>2. RestsOnAnswer(r)
      <4>1. CASE o = p
        BY <2>1, <2>3, <3>1, <4>1 DEF RestsOnAnswer
      <4>2. CASE o # p
        BY <1>0, <2>3, <3>1, <4>2 DEF HostInvariant, AdmittedWithAnswer
      <4> QED BY <4>1, <4>2
    <3> QED BY <1>3, <3>1, <3>2, RestKept DEF RestsOnAnswer, Genuine, Matches
  <2> QED BY <2>4, <2>5 DEF AdmittedWithAnswer
<1>6. TargetsGenuine'
  BY <1>0, <1>1, <1>3, TargetsKept DEF HostInvariant
<1>7. earlier \in Texts \cup {None}
  BY <1>1 DEF Contents
<1>8. /\ asked' \in [Attempts -> Texts \cup {None}]
      /\ asked'[a] = earlier
      /\ \A b \in Attempts \ {a} : asked'[b] = asked[b]
  <2> HIDE DEF earlier
  <2> QED BY <1>0, <1>2, <1>7
<1>9. AskedGenuine'
  <2> SUFFICES ASSUME NEW b \in Reserved', Prior[generations'[b].message] # None
               PROVE  \E w \in Reserved' :
                        /\ generations'[w].message = Prior[generations'[b].message]
                        /\ generations'[w].status = "completed"
                        /\ generations'[w].answer = asked'[b]
    BY DEF AskedGenuine
  <2>1. CASE b = a
    <3>1. PICK w \in Reserved : /\ generations[w].message = Prior[run.message]
                                /\ Genuine(w, run.prior)
      BY <1>0, <1>1, <1>3, <2>1 DEF RestsOnAnswer
    <3>2. generations'[w] = generations[w] /\ w \in Reserved'
      BY <1>3, <3>1 DEF AttemptsKept, Genuine
    <3>3. generations[w].status = "completed" /\ generations[w].answer = earlier
      BY <3>1 DEF Genuine, Matches
    <3> QED BY <1>3, <1>8, <2>1, <3>1, <3>2, <3>3
  <2>2. CASE b # a
    <3>1. b \in Reserved /\ b \in Attempts \ {a} /\ generations'[b] = generations[b]
      BY <1>3, <2>2 DEF Reserved
    <3>2. PICK w \in Reserved : /\ generations[w].message = Prior[generations[b].message]
                                /\ generations[w].status = "completed"
                                /\ generations[w].answer = asked[b]
      BY <1>0, <3>1 DEF HostInvariant, AskedGenuine
    <3>3. generations'[w] = generations[w] /\ w \in Reserved'
      BY <1>3, <3>2 DEF AttemptsKept
    <3> QED BY <1>8, <3>1, <3>2, <3>3
  <2> QED BY <2>1, <2>2
<1> QED BY <1>3, <1>4, <1>5, <1>6, <1>8, <1>9 DEF TrialInvariant, HostInvariant

\* An edit withdraws before it is written, and is written as it was let through.
LEMMA EditKeeps ==
  ASSUME TrialAssumption, HostAssumption, TrialInvariant,
         \/ \E c \in Chats : DeleteChat(c) \/ \E h \in Histories(c) : EditChat(c, h)
         \/ \E m \in Messages, d \in Drafts : EditMessage(m, d)
         \/ Write
  PROVE  TrialInvariant'
<1>0. /\ TablesInvariant /\ HostInvariant
      /\ saved \in [Messages -> Contents \cup {None}]
      /\ \A m \in Messages \cap DOMAIN edit : edit[m] \in Contents \cup {None}
      /\ Drafts \subseteq Contents \cup {None}
  BY DEF TrialInvariant, HostInvariant, SavedOK, HostAssumption, Contents
<1> SUFFICES TablesStep /\ HostInvariant'
  BY DEF TrialInvariant, TablesStep
<1>1. ASSUME NEW c \in Chats, DeleteChat(c)
      PROVE  TablesStep /\ HostInvariant'
  <2>1. /\ edit' = [m \in {m \in Messages : ChatOf[m] = c} |-> None]
        /\ Invalidate(c, TRUE)
        /\ UNCHANGED <<saved, runs, held, feedback, asked>>
    BY <1>1 DEF DeleteChat
  <2>2. SavedOK'
    BY <1>0, <2>1 DEF SavedOK
  <2>3. TablesStep
    BY <1>0, <2>1, InvalidateKeeps DEF TablesStep
  <2> QED BY <1>0, <2>1, <2>2, <2>3, HostFrame
<1>2. ASSUME NEW c \in Chats, NEW h \in Histories(c), EditChat(c, h)
      PROVE  TablesStep /\ HostInvariant'
  <2>1. /\ edit' = h
        /\ Invalidate(c, FALSE) \/ UNCHANGED trialVars
        /\ UNCHANGED <<saved, runs, held, feedback, asked>>
    BY <1>2 DEF EditChat
  <2>2. \A m \in Messages \cap DOMAIN h : h[m] \in Contents \cup {None}
    <3> DEFINE copy == [m \in {m \in Messages : ChatOf[m] = c} |-> saved[m]]
    <3>1. \A m \in DOMAIN copy : copy[m] \in Contents \cup {None}
      BY <1>0
    <3>a. Histories(c) = {copy} \cup {[copy EXCEPT ![m] = d] : m \in DOMAIN copy, d \in Drafts}
      BY DEF Histories
    <3> HIDE DEF copy
    <3>2. h = copy \/ \E m \in DOMAIN copy, d \in Drafts : h = [copy EXCEPT ![m] = d]
      BY <3>a
    <3> QED BY <1>0, <3>1, <3>2
  <2>3. SavedOK'
    BY <1>0, <2>1, <2>2 DEF SavedOK
  <2>4. TablesStep
    BY <1>0, <2>1, InvalidateKeeps, TablesStutter DEF TablesStep
  <2> QED BY <1>0, <2>1, <2>3, <2>4, HostFrame
<1>3. ASSUME NEW m \in Messages, NEW d \in Drafts, EditMessage(m, d)
      PROVE  TablesStep /\ HostInvariant'
  <2>1. /\ edit' = [k \in {m} |-> d]
        /\ ChatOf[m] \in Chats /\ Invalidate(ChatOf[m], FALSE)
        /\ UNCHANGED <<saved, runs, held, feedback, asked>>
    BY <1>3 DEF EditMessage, TrialAssumption
  <2>2. SavedOK'
    BY <1>0, <2>1 DEF SavedOK
  <2>3. TablesStep
    BY <1>0, <2>1, InvalidateKeeps DEF TablesStep
  <2> QED BY <1>0, <2>1, <2>2, <2>3, HostFrame
<1>4. CASE Write
  <2>1. /\ saved' = [m \in Messages |-> IF m \in DOMAIN edit THEN edit[m] ELSE saved[m]]
        /\ edit' = << >>
        /\ UNCHANGED <<trialVars, runs, held, feedback, asked>>
    BY <1>4 DEF Write
  <2>2. saved' \in [Messages -> Contents \cup {None}]
    BY <1>0, <2>1
  <2>3. SavedOK'
    <3>1. DOMAIN << >> = {}
      OBVIOUS
    <3> QED BY <2>1, <2>2, <3>1 DEF SavedOK
  <2>4. TablesStep
    BY <1>0, <2>1, TablesStutter DEF TablesStep
  <2> QED BY <1>0, <2>1, <2>3, <2>4, HostFrame
<1> QED BY <1>1, <1>2, <1>3, <1>4

\* The callbacks that judge an answer, the operator, and the end of the host.
LEMMA OthersKeep ==
  ASSUME TrialInvariant,
         \/ \E m \in Messages : Press(m)
         \/ \E h \in held : Record(h)
         \/ Switch \/ Crash
  PROVE  TrialInvariant'
<1>0. TablesInvariant /\ HostInvariant /\ TargetsGenuine
  BY DEF TrialInvariant, HostInvariant
<1>1. UNCHANGED <<trialVars, saved, asked>>
  BY DEF Press, Record, Switch, Crash
<1>2. TablesStep
  BY <1>0, <1>1, TablesStutter DEF TablesStep
<1>3. /\ asked' \in [Attempts -> Texts \cup {None}]
      /\ AskedGenuine'
  BY <1>0, <1>1, <1>2, AskedKept DEF HostInvariant
<1>4. TargetsGenuine'
  <2>1. ASSUME NEW m \in Messages, Press(m)
        PROVE  TargetsGenuine'
    <3>1. PICK a \in Reserved : /\ Qualifies(a, m, saved[m])
                                /\ held' = held \cup {[attempt |-> a, shown |-> saved[m]]}
      BY <2>1 DEF Press
    <3>2. Genuine(a, saved[m])
      BY <3>1 DEF Qualifies, HasReceipt, Genuine
    <3>3. \A h \in held' \cup feedback' : Genuine(h.attempt, h.shown)
      BY <1>0, <2>1, <3>1, <3>2 DEF Press, TargetsGenuine
    <3> QED BY <1>2, <3>3 DEF TargetsGenuine, TablesStep, AttemptsKept, Genuine, Matches
  <2>2. ASSUME NEW h \in held, Record(h)
        PROVE  TargetsGenuine'
    BY <1>0, <1>2, <2>2, TargetsKept DEF Record, TablesStep
  <2>3. CASE Switch
    BY <1>0, <1>2, <2>3, TargetsKept DEF Switch, TablesStep
  <2>4. CASE Crash
    BY <1>0, <1>2, <2>4, TargetsKept DEF Crash, TablesStep
  <2> QED BY <2>1, <2>2, <2>3, <2>4
<1>5. SavedOK' /\ RunsOK' /\ AdmittedWithAnswer'
  <2>1. CASE Crash
    <3>1. /\ runs' = [p \in Pipes |-> Idle]
          /\ edit' = << >>
      BY <2>1 DEF Crash
    <3>2. Idle \in RunRecords /\ Idle.phase = "idle"
      BY DEF Idle, RunRecords, Phases
    <3>3. RunsOK'
      BY <3>1, <3>2 DEF RunsOK, RunOK
    <3>4. AdmittedWithAnswer'
      BY <3>1, <3>2 DEF AdmittedWithAnswer, RestsOnAnswer
    <3>5. SavedOK'
      <4>1. DOMAIN << >> = {}
        OBVIOUS
      <4> QED BY <1>0, <1>1, <3>1, <4>1 DEF HostInvariant, SavedOK
    <3> QED BY <3>3, <3>4, <3>5
  <2>2. CASE ~Crash
    <3>1. runs' = runs /\ edit' = edit
      BY <2>2 DEF Press, Record, Switch
    <3>2. SavedOK'
      BY <1>0, <1>1, <3>1 DEF HostInvariant, SavedOK
    <3>3. RunsOK'
      BY <1>0, <3>1 DEF HostInvariant, RunsOK
    <3>4. AdmittedWithAnswer'
      BY <1>0, <1>2, <3>1, RestKept DEF HostInvariant, AdmittedWithAnswer, TablesStep
    <3> QED BY <3>2, <3>3, <3>4
  <2> QED BY <2>1, <2>2
<1> QED BY <1>2, <1>3, <1>4, <1>5 DEF TrialInvariant, HostInvariant, TablesStep

-----------------------------------------------------------------------------
(* The theorems *)

\* The trial begins with empty tables, and nothing of it has been shown or judged.
LEMMA InitHolds ==
  ASSUME TrialAssumption, HostAssumption, Init
  PROVE  TrialInvariant
<1>1. TrialInit /\ runs = [p \in Pipes |-> Idle] /\ edit = << >>
      /\ held = {} /\ feedback = {} /\ asked = [a \in Attempts |-> None]
  BY DEF Init
<1>2. PICK q \in Prompts : saved = [m \in Messages |-> [prompt |-> q, text |-> None]]
  BY DEF Init
<1>3. \A a \in Attempts : generations[a] = Unused /\ states[a] = << >>
  BY <1>1 DEF TrialInit
<1>4. Reserved = {} /\ (\A a \in Attempts : ~InFlight(a))
  BY <1>3 DEF Reserved, InFlight, Unused
<1>5. TablesOK
  <2>1. << >> \in Seq(Kinds)
    OBVIOUS
  <2> QED BY <1>1, <2>1 DEF TrialInit, TablesOK
<1>6. TablesInvariant
  BY <1>1, <1>3, <1>4, <1>5
     DEF TrialInit, TablesInvariant, OneInFlight, FreshIsBlank, CurrentIsIts, LedgerOK
<1>7. SavedOK
  <2>1. DOMAIN << >> = {}
    OBVIOUS
  <2>2. [prompt |-> q, text |-> None] \in Contents
    BY DEF Contents
  <2> QED BY <1>1, <1>2, <2>1, <2>2 DEF SavedOK
<1>8. Idle \in RunRecords /\ Idle.phase = "idle"
  BY DEF Idle, RunRecords, Phases
<1>9. RunsOK /\ AdmittedWithAnswer
  BY <1>1, <1>8 DEF RunsOK, RunOK, AdmittedWithAnswer, RestsOnAnswer
<1>10. TargetsGenuine /\ AskedGenuine /\ asked \in [Attempts -> Texts \cup {None}]
  BY <1>1, <1>4 DEF TargetsGenuine, AskedGenuine
<1> QED BY <1>6, <1>7, <1>9, <1>10 DEF TrialInvariant, HostInvariant

LEMMA StutterHolds ==
  ASSUME TrialInvariant, UNCHANGED vars
  PROVE  TrialInvariant'
<1>1. UNCHANGED trialVars /\ UNCHANGED <<saved, runs, edit, held, feedback, asked>>
  BY DEF vars, hostVars
<1>2. TablesInvariant /\ HostInvariant
  BY DEF TrialInvariant
<1>3. TablesStep
  BY <1>1, <1>2, TablesStutter DEF TablesStep
<1>4. SavedOK'
  BY <1>1, <1>2 DEF HostInvariant, SavedOK
<1>5. HostInvariant'
  BY <1>1, <1>2, <1>3, <1>4, HostFrame
<1> QED BY <1>3, <1>5 DEF TrialInvariant, TablesStep

\* The tables and the callbacks stay as described, whatever interleaves.
THEOREM TrialInvariance == Spec => []TrialInvariant
<1>1. Init => TrialInvariant
  BY InitHolds, TrialAssumption, HostAssumption
<1>2. TrialInvariant /\ [Next]_vars => TrialInvariant'
  <2> SUFFICES ASSUME TrialInvariant, Next
               PROVE  TrialInvariant'
    BY StutterHolds
  <2> USE TrialAssumption, HostAssumption
  <2>1. ASSUME NEW p \in Pipes, Begin(p)
        PROVE  TrialInvariant'
    BY <2>1, BeginKeeps
  <2>2. ASSUME NEW p \in Pipes,
               \/ \E m \in Messages : Check(p, m)
               \/ Read(p) \/ Admit(p) \/ Refused(p) \/ NotStarted(p) \/ Answered(p)
               \/ Failed(p) \/ Save(p) \/ NotSaved(p) \/ Confirm(p)
        PROVE  TrialInvariant'
    BY <2>2, RequestKeeps
  <2>3. CASE \/ \E c \in Chats : DeleteChat(c) \/ \E h \in Histories(c) : EditChat(c, h)
             \/ \E m \in Messages, d \in Drafts : EditMessage(m, d)
             \/ Write
    BY <2>3, EditKeeps
  <2>4. CASE \/ \E m \in Messages : Press(m)
             \/ \E h \in held : Record(h)
             \/ Switch \/ Crash
    BY <2>4, OthersKeep
  <2> QED BY <2>1, <2>2, <2>3, <2>4 DEF Next
<1> QED BY <1>1, <1>2, PTL DEF Spec

\* One generation at a time, counting those that wait to be saved (s1.py:222-223).
THEOREM OneGenerationAtATime == Spec => []OneInFlight
<1>1. TrialInvariant => OneInFlight
  BY DEF TrialInvariant, TablesInvariant
<1> QED BY <1>1, TrialInvariance, PTL

\* The ledger and the receipts tell the same story of every attempt on record.
THEOREM LedgerAgreesWithReceipts == Spec => []LedgerTellsReceipts
<1>1. TrialInvariant => LedgerTellsReceipts
  BY DEF TrialInvariant, TablesInvariant, LedgerOK, LedgerTellsReceipts, UntouchedBefore,
     HasReceipt, Stands
<1> QED BY <1>1, TrialInvariance, PTL

\* Only text this program generated and the host saved is judged or asked with again.
THEOREM TextsAreGenuine == Spec => []OnlyGenuineText
<1>1. TrialInvariant => OnlyGenuineText
  BY DEF TrialInvariant, HostInvariant, TargetsGenuine, AskedGenuine, Genuine, OnlyGenuineText
<1> QED BY <1>1, TrialInvariance, PTL

\* The guard of the last transaction is enough: what a callback read before an edit, a
\* regeneration or a deletion is not recorded after it (s1_action.py:59-69).
THEOREM FeedbackStaysInForce == Spec => FeedbackInForce
<1> DEFINE InForce == \A h \in feedback' \ feedback : ~Withdrawn(h.attempt)
<1>1. TrialInvariant /\ [Next]_vars => [InForce]_vars
  <2> SUFFICES ASSUME TrialInvariant, Next
               PROVE  InForce
    OBVIOUS
  <2>1. ASSUME NEW h \in held, Record(h)
        PROVE  InForce
    <3>1. feedback' = feedback \cup {h} /\ HasReceipt(h.attempt)
      BY <2>1 DEF Record
    <3>2. h.attempt \in Attempts
      BY DEF TrialInvariant, HostInvariant, TargetsGenuine, Genuine, Reserved
    <3>3. ~Withdrawn(h.attempt)
      <4>1. CASE states[h.attempt] = << >>
        BY <4>1 DEF Withdrawn, Range
      <4>2. CASE states[h.attempt] # << >>
        BY <3>1, <3>2, <4>2 DEF TrialInvariant, TablesInvariant, LedgerOK, HasReceipt, Stands
      <4> QED BY <4>1, <4>2
    <3> QED BY <3>1, <3>3
  <2>2. CASE ~\E h \in held : Record(h)
    <3>1. feedback' = feedback
      BY <2>2 DEF Next, Check, Read, Admit, Begin, Refused, NotStarted, Answered, Failed, Save,
         NotSaved, Confirm, DeleteChat, EditChat, EditMessage, Press, Write, Switch, Crash
    <3> QED BY <3>1
  <2> QED BY <2>1, <2>2
<1> QED BY <1>1, TrialInvariance, PTL DEF Spec, FeedbackInForce

-----------------------------------------------------------------------------
(* One slot and a purse *)

\* What the purse rests on: finitely many generations, of which one whose end is not told
\* counts in full, and which never cost more than there was.
PurseInv ==
  /\ IsFiniteSet(Reserved)
  /\ \A a \in Reserved : Pending(a) => generations[a].settled = None
  /\ \A a \in Reserved : chats[ChatOf[generations[a].message]] # "unknown"
  /\ Spent <= Budget

ChargeOf == [a \in Reserved |-> Charge(a)]

LEMMA ChargeIs ==
  ASSUME TrialAssumption, TablesOK, NEW a \in Reserved
  PROVE  Charge(a) \in Costs \cup {Reservation} /\ Charge(a) \in 0..Reservation
<1>1. generations[a] \in Generations
  BY DEF TablesOK, Reserved, Unused
<1>2. Charge(a) \in Costs \cup {Reservation}
  BY <1>1 DEF Charge, Generations
<1>3. Reservation \in 0..Reservation /\ Costs \subseteq 0..Reservation
  BY DEF TrialAssumption
<1> QED BY <1>2, <1>3

LEMMA SpentIs ==
  ASSUME TrialAssumption, TablesOK, IsFiniteSet(Reserved)
  PROVE  /\ Spent = SumFunctionOnSet(ChargeOf, Reserved) /\ Spent \in Nat
         /\ \A a \in Reserved : ChargeOf[a] = Charge(a) /\ Charge(a) \in Nat
<1>1. \A a \in Reserved : ChargeOf[a] = Charge(a) /\ Charge(a) \in Nat
  <2>1. Reservation \in Nat
    BY DEF TrialAssumption
  <2>2. 0..Reservation \subseteq Nat
    BY <2>1
  <2> QED BY <2>2, ChargeIs DEF ChargeOf
<1>2. Spent = SumFunctionOnSet(ChargeOf, Reserved)
  BY DEF Spent, SumFunction, ChargeOf
<1>3. SumFunctionOnSet(ChargeOf, Reserved) \in Nat
  <2>1. \A a \in Reserved : ChargeOf[a] \in Int /\ ChargeOf[a] >= 0
    BY <1>1
  <2> QED BY <2>1, SumType
<1> QED BY <1>1, <1>2, <1>3

\* A step that charges nobody.
LEMMA SpentSame ==
  ASSUME TrialAssumption, TablesOK, TablesOK', IsFiniteSet(Reserved), Reserved' = Reserved,
         \A a \in Reserved : generations'[a].settled = generations[a].settled
  PROVE  Spent' = Spent
<1>1. /\ Spent = SumFunctionOnSet(ChargeOf, Reserved)
      /\ \A a \in Reserved : ChargeOf[a] = Charge(a) /\ Charge(a) \in Nat
  BY SpentIs
<1>2. Spent' = SumFunctionOnSet(ChargeOf', Reserved)
  BY DEF Spent, SumFunction, ChargeOf
<1>3. \A a \in Reserved : ChargeOf'[a] = ChargeOf[a]
  BY DEF ChargeOf, Charge
<1> QED BY <1>1, <1>2, <1>3, SumSame

\* A generation begins with its whole reservation.
LEMMA SpentBegins ==
  ASSUME TrialAssumption, TablesOK, IsFiniteSet(Reserved),
         NEW a \in Attempts \ Reserved, Reserved' = Reserved \cup {a},
         generations'[a].settled = None, \A b \in Reserved : generations'[b] = generations[b]
  PROVE  Spent' = Spent + Reservation
<1>1. /\ Spent = SumFunctionOnSet(ChargeOf, Reserved)
      /\ \A b \in Reserved : ChargeOf[b] = Charge(b) /\ Charge(b) \in Nat
  BY SpentIs
<1>2. Spent' = SumFunctionOnSet(ChargeOf', Reserved \cup {a})
  BY DEF Spent, SumFunction, ChargeOf
<1>3. /\ \A b \in Reserved : ChargeOf'[b] = ChargeOf[b]
      /\ ChargeOf'[a] = Reservation /\ Reservation \in Nat
  BY DEF ChargeOf, Charge, TrialAssumption
<1>4. SumFunctionOnSet(ChargeOf', Reserved \cup {a})
        = ChargeOf'[a] + SumFunctionOnSet(ChargeOf', Reserved)
  <2>1. \A b \in Reserved \cup {a} : ChargeOf'[b] \in Int
    BY <1>1, <1>3
  <2> QED BY <2>1, SumExtend
<1>5. SumFunctionOnSet(ChargeOf', Reserved) = SumFunctionOnSet(ChargeOf, Reserved)
  <2>1. \A b \in Reserved : ChargeOf[b] \in Int /\ ChargeOf[b] = ChargeOf'[b]
    BY <1>1, <1>3
  <2> QED BY <2>1, SumSame
<1>6. Spent \in Nat
  BY SpentIs
<1> QED BY <1>1, <1>2, <1>3, <1>4, <1>5, <1>6

\* Once its end is told it counts with what it cost.
LEMMA SpentSettles ==
  ASSUME TrialAssumption, TablesOK, TablesOK', IsFiniteSet(Reserved), Reserved' = Reserved,
         NEW a \in Reserved, generations[a].settled = None,
         \A b \in Reserved \ {a} : generations'[b] = generations[b]
  PROVE  Spent' = Spent - Reservation + Charge(a)'
<1>1. /\ Spent = SumFunctionOnSet(ChargeOf, Reserved) /\ Spent \in Nat
      /\ \A b \in Reserved : ChargeOf[b] = Charge(b) /\ Charge(b) \in Nat
  BY SpentIs
<1>2. /\ Spent' = SumFunctionOnSet(ChargeOf', Reserved)
      /\ \A b \in Reserved : ChargeOf'[b] = Charge(b)'
  BY DEF Spent, SumFunction, ChargeOf
<1>3. /\ \A b \in Reserved \ {a} : ChargeOf'[b] = ChargeOf[b]
      /\ ChargeOf[a] = Reservation /\ ChargeOf'[a] = Charge(a)'
  BY <1>1, <1>2 DEF ChargeOf, Charge
<1>4. Charge(a)' \in Int
  <2>1. generations'[a] \in Generations
    BY DEF TablesOK, Reserved, Unused
  <2>2. Charge(a)' \in Costs \cup {Reservation}
    BY <2>1 DEF Charge, Generations
  <2>3. Costs \cup {Reservation} \subseteq Int
    BY DEF TrialAssumption
  <2> QED BY <2>2, <2>3
<1>5. SumFunctionOnSet(ChargeOf', Reserved)
        = SumFunctionOnSet(ChargeOf, Reserved) - ChargeOf[a] + ChargeOf'[a]
  <2>1. \A b \in Reserved : ChargeOf[b] \in Int /\ ChargeOf'[b] \in Int
    BY <1>1, <1>3, <1>4
  <2>2. \A b \in Reserved \ {a} : ChargeOf[b] = ChargeOf'[b]
    BY <1>3
  <2> QED BY <2>1, <2>2, SumChange
<1> QED BY <1>1, <1>2, <1>3, <1>5

\* What the contract sees.
Seen == <<Reserved, Slot, Running, Budget - Spent, Receipts, Over>>

LEMMA NothingSeen ==
  ASSUME PurseInv, UNCHANGED trialVars
  PROVE  PurseInv' /\ UNCHANGED Seen
<1>1. generations' = generations /\ current' = current /\ chats' = chats
  BY DEF trialVars
<1>2. /\ Reserved' = Reserved /\ Slot' = Slot /\ Running' = Running
      /\ Receipts' = Receipts /\ Over' = Over
  BY <1>1 DEF Reserved, Slot, InFlight, Running, Pending, Receipts, HasReceipt, Stands, Admitted, Over
<1>3. Spent' = Spent
  BY <1>1 DEF Spent, Charge, Reserved
<1> QED BY <1>1, <1>2, <1>3 DEF PurseInv, Pending, Seen

\* A reservation takes the free slot and its part of the purse, and replaces the attempt
\* before it for the same message (s1.py: reserve).
LEMMA ReserveRefines ==
  ASSUME TrialAssumption, TablesInvariant, PurseInv, NEW a \in Attempts, NEW m \in Messages,
         NEW prompt \in Prompts, NEW tracked \in BOOLEAN, Reserve(a, m, prompt, tracked)
  PROVE  /\ PurseInv'
         /\ \E replaced \in SUBSET Reserved : Contract!Begin(a, replaced)
<1> DEFINE replaced == {current[m]} \cap Reserved
           row == [status |-> "pending", message |-> m, prompt |-> prompt,
                   answer |-> None, settled |-> None]
<1>1. /\ a \notin Reserved /\ Admitted(m)
      /\ \A b \in Attempts : ~InFlight(b)
      /\ Spent + Reservation <= Budget
      /\ generations' = [generations EXCEPT ![a] = row]
      /\ current' = [current EXCEPT ![m] = a]
      /\ chats' = chats
  BY DEF Reserve, Available
<1>2. /\ TablesOK /\ CurrentIsIts
      /\ generations \in [Attempts -> Generations \cup {Unused}]
      /\ current \in [Messages -> Attempts \cup {None}]
  BY DEF TablesInvariant, TablesOK
<1>3. /\ generations'[a] = row /\ row.status = "pending" /\ row.message = m /\ row.settled = None
      /\ \A b \in Attempts \ {a} : generations'[b] = generations[b]
      /\ current'[m] = a /\ \A n \in Messages \ {m} : current'[n] = current[n]
  BY <1>1, <1>2
<1> HIDE DEF row
<1>4. Reserved' = Reserved \cup {a} /\ Reserved \subseteq Attempts
  BY <1>3 DEF Reserved
<1>5. \A b \in Reserved : Stands(b)' <=> Stands(b) /\ b \notin replaced
  <2> SUFFICES ASSUME NEW b \in Reserved PROVE Stands(b)' <=> Stands(b) /\ b \notin replaced
    OBVIOUS
  <2>1. /\ generations'[b] = generations[b] /\ b # a /\ generations[b].message \in Messages
        /\ Admitted(generations[b].message)' <=> Admitted(generations[b].message)
    BY <1>1, <1>2, <1>3, <1>4 DEF Reserved, Unused, Generations, Admitted
  <2>2. CASE generations[b].message = m
    BY <1>3, <2>1, <2>2 DEF Stands
  <2>3. CASE generations[b].message # m
    <3>1. b # current[m]
      BY <1>2, <2>3, TrialAssumption DEF CurrentIsIts, TrialAssumption, Reserved
    <3> QED BY <1>3, <2>1, <2>3, <3>1 DEF Stands
  <2> QED BY <2>2, <2>3
<1>6. Stands(a)' /\ ~HasReceipt(a)' /\ ~HasReceipt(a)
  BY <1>1, <1>3 DEF Stands, Admitted, HasReceipt, Reserved
<1>7. Slot = {} /\ Slot' = {a} /\ Running' = {a}
  BY <1>1, <1>3 DEF Slot, Running, InFlight, Pending
<1>8. Spent' = Spent + Reservation /\ Spent \in Nat /\ Reservation \in Nat /\ Budget \in Nat
  <2>1. IsFiniteSet(Reserved) /\ a \in Attempts \ Reserved /\ generations'[a].settled = None
        /\ \A b \in Reserved : generations'[b] = generations[b]
    BY <1>1, <1>3, <1>4 DEF PurseInv
  <2>2. Spent' = Spent + Reservation
    BY <1>2, <1>4, <2>1, SpentBegins
  <2>3. Spent \in Nat
    BY <1>2, <2>1, SpentIs
  <2> QED BY <2>2, <2>3 DEF TrialAssumption
<1>9. Receipts' = Receipts \ replaced
  <2>1. \A b \in Attempts \ Reserved : ~HasReceipt(b)
    BY DEF HasReceipt, Reserved
  <2>2. \A b \in Reserved : HasReceipt(b)' <=> HasReceipt(b) /\ b \notin replaced
    BY <1>1, <1>3, <1>4, <1>5 DEF HasReceipt
  <2>3. \A b \in Attempts \ (Reserved \cup {a}) : ~HasReceipt(b)'
    BY <1>4, <2>1 DEF HasReceipt, Reserved
  <2> HIDE DEF replaced
  <2> QED BY <1>4, <1>6, <2>1, <2>2, <2>3 DEF Receipts
<1>10. Over' = Over \cup replaced
  <2>1. a \notin Over'
    BY <1>3, <1>6 DEF Over
  <2>2. \A b \in Reserved : b \in Over' <=> b \in Over \/ b \in replaced
    BY <1>1, <1>3, <1>4, <1>5 DEF Over
  <2> QED BY <1>4, <2>1, <2>2 DEF Over
<1>11. PurseInv'
  <2>1. IsFiniteSet(Reserved')
    BY <1>4, FS_AddElement DEF PurseInv
  <2>2. ASSUME NEW b \in Reserved'
        PROVE  /\ Pending(b)' => generations'[b].settled = None
               /\ chats'[ChatOf[generations'[b].message]] # "unknown"
    <3>1. CASE b = a
      BY <1>1, <1>3, <3>1 DEF Admitted
    <3>2. CASE b # a
      BY <1>1, <1>3, <1>4, <2>2, <3>2 DEF PurseInv, Pending
    <3> QED BY <3>1, <3>2
  <2>3. Spent' <= Budget
    BY <1>1, <1>8
  <2> QED BY <2>1, <2>2, <2>3 DEF PurseInv
<1>12. Contract!Begin(a, replaced)
  <2>1. Budget - Spent >= Reservation /\ Budget - Spent' = (Budget - Spent) - Reservation
    BY <1>1, <1>8
  <2> QED BY <1>1, <1>4, <1>7, <1>9, <1>10, <2>1 DEF Contract!Begin
<1> QED BY <1>11, <1>12

\* The end of a generation gives back what it did not cost; one without an answer leaves
\* the slot as well (s1.py: finish).
LEMMA FinishRefines ==
  ASSUME TrialAssumption, TablesInvariant, PurseInv, NEW a \in Attempts,
         NEW answer \in Texts \cup {None}, NEW settled \in Costs \cup {None},
         Finish(a, answer, settled)
  PROVE  /\ PurseInv'
         /\ \/ UNCHANGED Seen
            \/ \E charge \in Contract!Charges : Contract!Answered(a, charge) \/ Contract!Failed(a, charge)
<1>1. CASE UNCHANGED trialVars
  BY <1>1, NothingSeen
<1>2. CASE Pending(a)
  <2> DEFINE status == IF answer = None THEN "incomplete" ELSE "awaiting_save"
             charge == Charge(a)'
  <2>1. /\ generations' = [generations EXCEPT ![a].status = status, ![a].answer = answer,
                                              ![a].settled = settled]
        /\ current' = current /\ chats' = chats
    BY <1>2 DEF Finish
  <2>2. /\ TablesOK /\ OneInFlight /\ TablesOK' /\ Reserved' = Reserved
        /\ generations \in [Attempts -> Generations \cup {Unused}]
        /\ generations[a] \in Generations /\ generations[a].status = "pending"
        /\ a \in Reserved /\ Reserved \subseteq Attempts
    <3>1. TablesInvariant' /\ Reserved' = Reserved
      BY FinishKeeps
    <3>2. /\ TablesOK /\ OneInFlight /\ TablesOK'
          /\ generations \in [Attempts -> Generations \cup {Unused}]
      BY <3>1 DEF TablesInvariant, TablesOK
    <3> QED BY <1>2, <3>1, <3>2 DEF Pending, Unused, Reserved
  <2>3. /\ generations'[a].status = status /\ generations'[a].message = generations[a].message
        /\ generations'[a].settled = settled
        /\ \A b \in Attempts \ {a} : generations'[b] = generations[b]
        /\ status \in {"incomplete", "awaiting_save"}
    BY <2>1, <2>2 DEF Generations
  <2>4. \A b \in Reserved : Stands(b)' <=> Stands(b)
    BY <2>1, <2>2, <2>3 DEF Stands, Admitted
  <2>5. Slot = {a} /\ Running = {a} /\ Running' = {}
    <3>1. \A b \in Attempts : InFlight(b) => b = a
      BY <2>2 DEF OneInFlight, InFlight
    <3> QED BY <2>2, <2>3, <3>1 DEF Slot, Running, InFlight, Pending
  <2>6. /\ Spent' = Spent - Reservation + charge /\ Spent \in Nat
        /\ charge \in Costs \cup {Reservation} /\ charge \in 0..Reservation
        /\ Reservation \in Nat /\ Budget \in Nat /\ Spent <= Budget
    <3>1. IsFiniteSet(Reserved) /\ generations[a].settled = None /\ Spent <= Budget
      BY <1>2, <2>2 DEF PurseInv
    <3>2. Spent' = Spent - Reservation + charge
      BY <2>2, <2>3, <3>1, SpentSettles
    <3>3. Spent \in Nat
      BY <2>2, <3>1, SpentIs
    <3>4. charge \in Costs \cup {Reservation}
      BY <2>3 DEF Charge
    <3>5. Costs \subseteq 0..Reservation /\ Reservation \in 0..Reservation /\ Reservation \in Nat /\ Budget \in Nat
      BY DEF TrialAssumption
    <3> QED BY <3>1, <3>2, <3>3, <3>4, <3>5
  <2> HIDE DEF charge
  <2>7. Receipts' = Receipts
    <3>1. \A b \in Attempts \ Reserved : ~HasReceipt(b) /\ ~HasReceipt(b)'
      BY <2>2, <2>3 DEF HasReceipt, Reserved
    <3>2. \A b \in Reserved : HasReceipt(b)' <=> HasReceipt(b)
      BY <2>2, <2>3, <2>4 DEF HasReceipt
    <3> QED BY <3>1, <3>2 DEF Receipts
  <2>8. PurseInv'
    <3>1. \A b \in Reserved : Pending(b)' => generations'[b].settled = None
      BY <2>2, <2>3 DEF PurseInv, Pending
    <3>2. \A b \in Reserved : chats'[ChatOf[generations'[b].message]] # "unknown"
      BY <2>1, <2>2, <2>3 DEF PurseInv
    <3>3. Spent' <= Budget
      BY <2>6
    <3> QED BY <2>2, <3>1, <3>2, <3>3 DEF PurseInv
  <2>9. Contract!Settle(a, charge) /\ charge \in Contract!Charges
    <3>1. Budget - Spent' = (Budget - Spent) + Reservation - charge
      BY <2>6
    <3> QED BY <2>5, <2>6, <3>1 DEF Contract!Settle, Contract!Charges
  <2>10. CASE answer = None
    <3>1. status = "incomplete"
      BY <2>10
    <3>2. Slot' = {}
      BY <2>2, <2>3, <2>5, <3>1 DEF Slot, InFlight
    <3>3. Over' = Over \cup {a}
      BY <2>2, <2>3, <2>4, <3>1 DEF Over
    <3>4. Contract!Failed(a, charge)
      BY <2>2, <2>7, <2>9, <3>2, <3>3 DEF Contract!Failed
    <3> QED BY <2>8, <2>9, <3>4
  <2>11. CASE answer # None
    <3>1. status = "awaiting_save"
      BY <2>11
    <3>2. Slot' = Slot
      <4>1. \A b \in Attempts : InFlight(b)' <=> InFlight(b)
        BY <2>2, <2>3, <3>1 DEF InFlight
      <4> QED BY <4>1 DEF Slot
    <3>3. Over' = Over
      BY <2>2, <2>3, <2>4, <3>1 DEF Over
    <3>4. Contract!Answered(a, charge)
      BY <2>2, <2>7, <2>9, <3>2, <3>3 DEF Contract!Answered
    <3> QED BY <2>8, <2>9, <3>4
  <2> QED BY <2>10, <2>11
<1> QED BY <1>1, <1>2 DEF Finish

\* A confirmed save empties the slot and brings the answer in force; it is that of the
\* generation in the slot, and nobody has withdrawn it (s1.py: confirm_saved).
LEMMA ConfirmRefines ==
  ASSUME TrialAssumption, TablesInvariant, PurseInv, NEW m \in Messages, NEW shown,
         ConfirmSaved(m, shown)
  PROVE  /\ PurseInv'
         /\ UNCHANGED Seen \/ \E a \in Attempts : Contract!Saved(a)
<1> DEFINE confirmed == {a \in Reserved : /\ current[m] = a /\ Admitted(m)
                                          /\ generations[a].status = "awaiting_save"
                                          /\ Matches(a, shown)}
<1>1. /\ generations' = [a \in Attempts |->
           IF a \in confirmed THEN [generations[a] EXCEPT !.status = "completed"]
                              ELSE generations[a]]
      /\ chats' = chats /\ current' = current
  BY DEF ConfirmSaved
<1>2. /\ TablesOK /\ OneInFlight /\ CurrentIsIts /\ TablesOK' /\ Reserved' = Reserved
      /\ generations \in [Attempts -> Generations \cup {Unused}]
      /\ Reserved \subseteq Attempts
      /\ \A b \in Reserved : generations[b] \in Generations
  BY ConfirmKeeps DEF TablesInvariant, TablesOK, Reserved, Unused
<1>3. \A b \in confirmed : /\ b \in Reserved /\ b = current[m] /\ Stands(b)
                           /\ generations[b].status = "awaiting_save"
  BY <1>2 DEF CurrentIsIts, Stands, TrialAssumption, Reserved
<1> HIDE DEF confirmed
<1>4. /\ \A b \in Attempts \ confirmed : generations'[b] = generations[b]
      /\ \A b \in confirmed : /\ generations'[b].status = "completed"
                              /\ generations'[b].message = generations[b].message
                              /\ generations'[b].settled = generations[b].settled
  BY <1>1, <1>2, <1>3 DEF Generations
<1>5. \A b \in Reserved : Stands(b)' <=> Stands(b)
  BY <1>1, <1>2, <1>4 DEF Stands, Admitted
<1>6. Spent' = Spent
  <2>1. IsFiniteSet(Reserved) /\ \A b \in Reserved : generations'[b].settled = generations[b].settled
    BY <1>2, <1>4 DEF PurseInv
  <2> QED BY <1>2, <2>1, SpentSame
<1>7. Running' = Running /\ \A b \in Attempts : Pending(b)' <=> Pending(b)
  BY <1>3, <1>4 DEF Running, Pending
<1>8. PurseInv'
  <2>1. \A b \in Reserved : Pending(b)' => generations'[b].settled = None
    BY <1>2, <1>4, <1>7 DEF PurseInv
  <2>2. \A b \in Reserved : chats'[ChatOf[generations'[b].message]] # "unknown"
    BY <1>1, <1>2, <1>4 DEF PurseInv
  <2> QED BY <1>2, <1>6, <2>1, <2>2 DEF PurseInv
<1>9. CASE confirmed = {}
  <2>1. \A b \in Attempts : generations'[b] = generations[b]
    BY <1>4, <1>9
  <2>2. Slot' = Slot
    BY <2>1 DEF Slot, InFlight
  <2>3. Receipts' = Receipts
    <3>1. \A b \in Attempts : HasReceipt(b)' <=> HasReceipt(b)
      BY <1>1, <2>1 DEF HasReceipt, Stands, Admitted
    <3> QED BY <3>1 DEF Receipts
  <2>4. Over' = Over
    BY <1>2, <1>5, <2>1 DEF Over
  <2> QED BY <1>2, <1>6, <1>7, <1>8, <2>2, <2>3, <2>4 DEF Seen
<1>10. CASE confirmed # {}
  <2>1. PICK a \in Attempts : confirmed = {a}
    BY <1>2, <1>3, <1>10
  <2>2. /\ a \in Reserved /\ Stands(a) /\ generations[a].status = "awaiting_save"
        /\ generations'[a].status = "completed"
        /\ \A b \in Attempts \ {a} : generations'[b] = generations[b]
    BY <1>3, <1>4, <2>1
  <2>3. Slot = {a} /\ Slot' = {} /\ Running = {}
    <3>1. \A b \in Attempts : InFlight(b) => b = a
      BY <1>2, <2>2 DEF OneInFlight, InFlight
    <3> QED BY <2>2, <3>1 DEF Slot, Running, InFlight, Pending
  <2>4. a \notin Over /\ Over' = Over
    BY <1>2, <1>5, <2>2 DEF Over
  <2>5. Receipts' = Receipts \cup {a}
    <3>1. HasReceipt(a)' /\ a \in Attempts
      BY <1>5, <2>2 DEF HasReceipt
    <3>2. \A b \in Attempts \ {a} : HasReceipt(b)' <=> HasReceipt(b)
      BY <1>1, <2>2 DEF HasReceipt, Stands, Admitted
    <3> QED BY <3>1, <3>2 DEF Receipts
  <2>6. Contract!Saved(a)
    BY <1>2, <1>6, <1>7, <2>3, <2>4, <2>5 DEF Contract!Saved
  <2> QED BY <1>8, <2>6
<1> QED BY <1>9, <1>10

\* An edit, a deletion or a revocation withdraws every answer of the chat, and leaves slot
\* and purse alone (s1.py: invalidate).
LEMMA InvalidateRefines ==
  ASSUME TrialAssumption, TablesInvariant, PurseInv, NEW c \in Chats, NEW revoke \in BOOLEAN,
         Invalidate(c, revoke)
  PROVE  /\ PurseInv'
         /\ \E as \in SUBSET Reserved : Contract!Withdraw(as)
<1> DEFINE theirs == {a \in Reserved : ChatOf[generations[a].message] = c}
<1>1. /\ current' = [m \in Messages |-> IF ChatOf[m] = c THEN None ELSE current[m]]
      /\ chats' = IF revoke /\ chats[c] = "active" THEN [chats EXCEPT ![c] = "revoked"]
                                                   ELSE chats
      /\ generations' = generations
  BY DEF Invalidate
<1>2. /\ chats \in [Chats -> {"unknown", "active", "revoked"}]
      /\ \A a \in Reserved : generations[a].message \in Messages
      /\ None \notin Attempts /\ ChatOf \in [Messages -> Chats]
      /\ Reserved \subseteq Attempts
  BY DEF TablesInvariant, TablesOK, TrialAssumption, Reserved, Unused, Generations
<1>3. /\ Reserved' = Reserved /\ Slot' = Slot /\ Running' = Running /\ Spent' = Spent
      /\ \A a \in Attempts : Pending(a)' <=> Pending(a)
  BY <1>1 DEF Reserved, Slot, InFlight, Running, Pending, Spent, Charge
<1>4. \A d \in Chats : /\ d # c => chats'[d] = chats[d]
                       /\ chats[d] # "unknown" => chats'[d] # "unknown"
  BY <1>1, <1>2
<1>5. \A a \in Reserved : Stands(a)' <=> Stands(a) /\ a \notin theirs
  <2> SUFFICES ASSUME NEW a \in Reserved PROVE Stands(a)' <=> Stands(a) /\ a \notin theirs
    OBVIOUS
  <2> DEFINE m == generations[a].message
  <2>1. /\ m \in Messages /\ ChatOf[m] \in Chats /\ a # None
        /\ current'[m] = IF ChatOf[m] = c THEN None ELSE current[m]
        /\ generations'[a].message = m
    BY <1>1, <1>2
  <2>2. CASE ChatOf[m] = c
    BY <2>1, <2>2 DEF Stands
  <2>3. CASE ChatOf[m] # c
    BY <1>4, <2>1, <2>3 DEF Stands, Admitted
  <2> QED BY <2>2, <2>3
<1> HIDE DEF theirs
<1>6. Receipts' = Receipts \ theirs
  <2>1. \A a \in Attempts \ Reserved : ~HasReceipt(a) /\ ~HasReceipt(a)'
    BY <1>1 DEF HasReceipt, Reserved
  <2>2. \A a \in Reserved : HasReceipt(a)' <=> HasReceipt(a) /\ a \notin theirs
    BY <1>1, <1>5 DEF HasReceipt
  <2> QED BY <1>2, <2>1, <2>2 DEF Receipts
<1>7. theirs \subseteq Reserved
  BY DEF theirs
<1>8. Over' = Over \cup theirs
  BY <1>1, <1>3, <1>5, <1>7 DEF Over
<1>9. PurseInv'
  <2>1. \A a \in Reserved : chats'[ChatOf[generations'[a].message]] # "unknown"
    BY <1>1, <1>2, <1>4 DEF PurseInv
  <2> QED BY <1>1, <1>2, <1>3, <2>1 DEF PurseInv
<1>10. Contract!Withdraw(theirs)
  BY <1>3, <1>6, <1>8 DEF Contract!Withdraw
<1> QED BY <1>7, <1>9, <1>10

\* A chat that is admitted again was admitted before, so nothing in it comes back
\* (s1.py: enroll).
LEMMA EnrollRefines ==
  ASSUME TrialAssumption, TablesInvariant, PurseInv, NEW c \in Chats, Enroll(c)
  PROVE  PurseInv' /\ UNCHANGED Seen
<1>1. /\ chats[c] # "revoked" /\ chats' = [chats EXCEPT ![c] = "active"]
      /\ generations' = generations /\ current' = current
  BY DEF Enroll
<1>2. /\ chats \in [Chats -> {"unknown", "active", "revoked"}]
      /\ \A a \in Reserved : generations[a].message \in Messages
      /\ ChatOf \in [Messages -> Chats]
  BY DEF TablesInvariant, TablesOK, TrialAssumption, Reserved, Unused, Generations
<1>3. \A a \in Reserved : chats'[ChatOf[generations[a].message]] = chats[ChatOf[generations[a].message]]
  BY <1>1, <1>2 DEF PurseInv
<1>4. \A a \in Reserved : Stands(a)' <=> Stands(a)
  BY <1>1, <1>3 DEF Stands, Admitted
<1>5. /\ Reserved' = Reserved /\ Slot' = Slot /\ Running' = Running /\ Spent' = Spent
      /\ \A a \in Attempts : Pending(a)' <=> Pending(a)
  BY <1>1 DEF Reserved, Slot, InFlight, Running, Pending, Spent, Charge
<1>6. Receipts' = Receipts
  <2>1. \A a \in Attempts : HasReceipt(a)' <=> HasReceipt(a)
    BY <1>1, <1>4 DEF HasReceipt, Reserved
  <2> QED BY <2>1 DEF Receipts
<1>7. Over' = Over
  BY <1>1, <1>4, <1>5 DEF Over
<1>8. PurseInv'
  BY <1>1, <1>3, <1>5 DEF PurseInv, Reserved
<1> QED BY <1>5, <1>6, <1>7, <1>8 DEF Seen

\* What a step of the host does to the tables is one transaction or nothing.
LEMMA StepIsTransaction ==
  ASSUME TrialAssumption, HostAssumption, TrialInvariant, Next
  PROVE  \/ UNCHANGED trialVars
         \/ \E c \in Chats : Enroll(c) \/ \E revoke \in BOOLEAN : Invalidate(c, revoke)
         \/ \E a \in Attempts, m \in Messages, prompt \in Prompts, tracked \in BOOLEAN :
              Reserve(a, m, prompt, tracked)
         \/ \E a \in Attempts, answer \in Texts \cup {None}, settled \in Costs \cup {None} :
              Finish(a, answer, settled)
         \/ \E m \in Messages : \E shown : ConfirmSaved(m, shown)
<1>1. \A p \in Pipes : RunOK(runs[p])
  BY DEF TrialInvariant, HostInvariant, RunsOK
<1>2. ChatOf \in [Messages -> Chats]
  BY DEF TrialAssumption
<1>3. ASSUME NEW p \in Pipes, Admit(p) PROVE \E c \in Chats : Enroll(c)
  <2>1. runs[p].message \in Messages
    BY <1>1, <1>3 DEF Admit, RunOK
  <2> QED BY <1>2, <1>3, <2>1 DEF Admit
<1>4. ASSUME NEW p \in Pipes, Begin(p)
      PROVE  \E a \in Attempts, m \in Messages, prompt \in Prompts, tracked \in BOOLEAN :
               Reserve(a, m, prompt, tracked)
  <2>1. runs[p].message \in Messages /\ runs[p].shown.prompt \in Prompts /\ Tracking \subseteq BOOLEAN
    BY <1>1, <1>4 DEF Begin, RunOK, Contents, HostAssumption
  <2> QED BY <1>4, <2>1 DEF Begin
<1>5. ASSUME NEW p \in Pipes, Answered(p) \/ Failed(p)
      PROVE  \E a \in Attempts, answer \in Texts \cup {None}, settled \in Costs \cup {None} :
               Finish(a, answer, settled)
  <2>1. runs[p].attempt \in Attempts
    BY <1>1, <1>5 DEF Answered, Failed, RunOK
  <2> QED BY <1>5, <2>1 DEF Answered, Failed
<1>6. ASSUME NEW p \in Pipes, Confirm(p)
      PROVE  UNCHANGED trialVars \/ \E m \in Messages : \E shown : ConfirmSaved(m, shown)
  <2>1. runs[p].message \in Messages
    BY <1>1, <1>6 DEF Confirm, RunOK
  <2> QED BY <1>6, <2>1 DEF Confirm
<1>7. ASSUME \/ \E c \in Chats : DeleteChat(c) \/ \E h \in Histories(c) : EditChat(c, h)
             \/ \E m \in Messages, d \in Drafts : EditMessage(m, d)
      PROVE  \/ UNCHANGED trialVars
             \/ \E c \in Chats, revoke \in BOOLEAN : Invalidate(c, revoke)
  BY <1>2, <1>7 DEF DeleteChat, EditChat, EditMessage
<1>8. ASSUME NEW p \in Pipes,
             \/ \E m \in Messages : Check(p, m)
             \/ Read(p) \/ Refused(p) \/ NotStarted(p) \/ Save(p) \/ NotSaved(p)
      PROVE  UNCHANGED trialVars
  BY <1>8 DEF Check, Read, Refused, NotStarted, Save, NotSaved
<1>9. ASSUME \/ \E m \in Messages : Press(m)
             \/ \E h \in held : Record(h)
             \/ Write \/ Switch \/ Crash
      PROVE  UNCHANGED trialVars
  BY <1>9 DEF Press, Record, Write, Switch, Crash
<1>10. \/ \E p \in Pipes :
            \/ Admit(p) \/ Begin(p) \/ Answered(p) \/ Failed(p) \/ Confirm(p)
            \/ \E m \in Messages : Check(p, m)
            \/ Read(p) \/ Refused(p) \/ NotStarted(p) \/ Save(p) \/ NotSaved(p)
       \/ \E c \in Chats : DeleteChat(c) \/ \E h \in Histories(c) : EditChat(c, h)
       \/ \E m \in Messages, d \in Drafts : EditMessage(m, d)
       \/ \E m \in Messages : Press(m)
       \/ \E h \in held : Record(h)
       \/ Write \/ Switch \/ Crash
  BY DEF Next
<1>11. CASE \E p \in Pipes :
              \/ Admit(p) \/ Begin(p) \/ Answered(p) \/ Failed(p) \/ Confirm(p)
              \/ \E m \in Messages : Check(p, m)
              \/ Read(p) \/ Refused(p) \/ NotStarted(p) \/ Save(p) \/ NotSaved(p)
  BY <1>3, <1>4, <1>5, <1>6, <1>8, <1>11
<1>12. CASE \/ \E c \in Chats : DeleteChat(c) \/ \E h \in Histories(c) : EditChat(c, h)
            \/ \E m \in Messages, d \in Drafts : EditMessage(m, d)
  BY <1>7, <1>12
<1> QED BY <1>9, <1>10, <1>11, <1>12

LEMMA StepRefines ==
  ASSUME TrialAssumption, HostAssumption, TrialInvariant, PurseInv, [Next]_vars
  PROVE  PurseInv' /\ (Contract!Next \/ UNCHANGED Seen)
<1>0. TablesInvariant
  BY DEF TrialInvariant
<1>1. CASE UNCHANGED vars
  BY <1>1, NothingSeen DEF vars
<1>2. CASE UNCHANGED trialVars
  BY <1>2, NothingSeen
<1>3. ASSUME NEW c \in Chats, Enroll(c)
      PROVE  PurseInv' /\ UNCHANGED Seen
  BY <1>0, <1>3, EnrollRefines
<1>4. ASSUME NEW c \in Chats, NEW revoke \in BOOLEAN, Invalidate(c, revoke)
      PROVE  PurseInv' /\ Contract!Next
  BY <1>0, <1>4, InvalidateRefines DEF Contract!Next
<1>5. ASSUME NEW a \in Attempts, NEW m \in Messages, NEW prompt \in Prompts,
             NEW tracked \in BOOLEAN, Reserve(a, m, prompt, tracked)
      PROVE  PurseInv' /\ Contract!Next
  BY <1>0, <1>5, ReserveRefines DEF Contract!Next
<1>6. ASSUME NEW a \in Attempts, NEW answer \in Texts \cup {None},
             NEW settled \in Costs \cup {None}, Finish(a, answer, settled)
      PROVE  PurseInv' /\ (Contract!Next \/ UNCHANGED Seen)
  BY <1>0, <1>6, FinishRefines DEF Contract!Next
<1>7. ASSUME NEW m \in Messages, NEW shown, ConfirmSaved(m, shown)
      PROVE  PurseInv' /\ (Contract!Next \/ UNCHANGED Seen)
  BY <1>0, <1>7, ConfirmRefines DEF Contract!Next
<1>8. CASE Next
  BY <1>2, <1>3, <1>4, <1>5, <1>6, <1>7, <1>8, StepIsTransaction
<1> QED BY <1>1, <1>8

LEMMA FirstRefines ==
  ASSUME TrialAssumption, Init
  PROVE  PurseInv /\ Contract!Init
<1>1. \A a \in Attempts : generations[a] = Unused
  BY DEF Init, TrialInit
<1>2. /\ Reserved = {} /\ Slot = {} /\ Running = {} /\ Receipts = {} /\ Over = {}
  BY <1>1 DEF Reserved, Slot, InFlight, Running, Pending, Receipts, HasReceipt, Over, Unused
<1>3. Spent = 0
  <2>1. Spent = SumFunctionOnSet(ChargeOf, {})
    BY <1>2 DEF Spent, SumFunction, ChargeOf
  <2> QED BY <2>1, FS_EmptySet, SumStep
<1>4. Budget \in Nat /\ Budget - Spent = Budget
  BY <1>3 DEF TrialAssumption
<1> QED BY <1>2, <1>3, <1>4, FS_EmptySet DEF PurseInv, Contract!Init

\* What the purse rests on stays so.
THEOREM PurseIsKept == Spec => []PurseInv
<1>1. Init => PurseInv
  BY FirstRefines, TrialAssumption
<1>2. TrialInvariant /\ PurseInv /\ [Next]_vars => PurseInv'
  BY StepRefines, TrialAssumption, HostAssumption
<1> QED BY <1>1, <1>2, TrialInvariance, PTL DEF Spec

\* Whatever the generations cost and whichever of them are interrupted, the budget is never
\* overdrawn (s1.py:225-228).
THEOREM BudgetIsKept == Spec => [](Spent <= Budget)
<1>1. PurseInv => Spent <= Budget
  BY DEF PurseInv
<1> QED BY <1>1, PurseIsKept, PTL

\* Every step of the trial, whatever requests, edits, feedback and crashes interleave, is a
\* step of the contract or none.
THEOREM TrialImplementsContract == Spec => ImplementsTrialContract
<1>1. Init => Contract!Init
  BY FirstRefines, TrialAssumption
<1>2. TrialInvariant /\ PurseInv /\ [Next]_vars => [Contract!Next]_(Contract!contractVars)
  BY StepRefines, TrialAssumption, HostAssumption DEF Seen, Contract!contractVars
<1> QED
  BY <1>1, <1>2, TrialInvariance, PurseIsKept, PTL DEF Spec, ImplementsTrialContract, Contract!Spec

=============================================================================
