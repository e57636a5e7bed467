------------------------------ MODULE ModelRunProofs ------------------------------
(***************************************************************************)
(* The two ways to ask the local model.                                     *)
(*                                                                         *)
(* Exploration runs, for any slots, any inputs withheld, and any number of  *)
(* edits, faults, crashes and resumes: a slot and the model meet at most    *)
(* once, and a report says COMPLETED only of slots with known results.  The *)
(* inductive invariant says that the table rebuilt from the journal is      *)
(* the index of a process that is past its start, that the attempt in hand  *)
(* is open there, that a call is on record before it is made, that a worker *)
(* owes at most the answer that is awaited, and that what a report found    *)
(* settled has stayed so.                                                   *)
(*                                                                         *)
(* Controlled replays, for any manifest, any schedule and any library of    *)
(* reasons: no answer of a worker costs the run, every row is made while it *)
(* was admitted, and the losses of a report add up.  The inductive          *)
(* invariant says that every row kept is one that the report accepts, that  *)
(* the answer under way is one that the worker can give, and when it came.  *)
(***************************************************************************)
EXTENDS ExploreRun, ControlledReplay, FoldProofs, SequenceTheorems

-----------------------------------------------------------------------------
(* The table a journal amounts to *)

Rows == [event : {"started", "ended"}, slot : Slots, bucket : BUCKETS \cup {None}]

\* What the table after n rows is, from the tables after fewer.
Entry(t, past, n) == IF n = 0 THEN Unstarted ELSE Replayed(t[n - 1], past[n])

IsReplay(t, past, k) == t = [n \in 0..k |-> Entry(t, past, n)]

\* The recursion of Replay has the form these lemmas speak of.
LEMMA ReplayIsChosen ==
  ASSUME NEW past
  PROVE  Replay(past) = CHOOSE t : IsReplay(t, past, Len(past))
BY DEF Replay, IsReplay, Entry

\* Entries depend only on earlier rows: two tables agree as far as both go.
LEMMA ReplaysAgree ==
  ASSUME NEW past, NEW more, NEW k \in Nat, NEW l \in Nat, k <= l,
         \A n \in 1..k : more[n] = past[n],
         NEW t, NEW u, IsReplay(t, past, k), IsReplay(u, more, l)
  PROVE  \A n \in 0..k : t[n] = u[n]
<1> DEFINE B == {n \in 0..k : t[n] # u[n]}
<1> SUFFICES ASSUME B # {} PROVE FALSE
  OBVIOUS
<1>1. PICK n \in B : \A m \in B : n <= m
  <2>1. B \subseteq Nat
    OBVIOUS
  <2> HIDE DEF B
  <2> QED BY <2>1, SmallestNat
<1>2. t[n] = Entry(t, past, n) /\ u[n] = Entry(u, more, n)
  <2>1. n \in 0..k /\ n \in 0..l
    OBVIOUS
  <2> HIDE DEF B
  <2> QED BY <2>1 DEF IsReplay
<1>3. n # 0
  BY <1>2 DEF Entry
<1>4. n - 1 \in 0..k /\ n - 1 \notin B /\ n \in 1..k
  BY <1>1, <1>3
<1>5. t[n - 1] = u[n - 1] /\ more[n] = past[n]
  BY <1>4
<1> QED BY <1>2, <1>3, <1>5 DEF Entry

\* One more row makes a table of one more entry.
LEMMA ReplayGrows ==
  ASSUME NEW past, NEW k \in Nat, NEW t, IsReplay(t, past, k)
  PROVE  \E u : IsReplay(u, past, k + 1)
<1> DEFINE u == [n \in 0..(k + 1) |->
                   IF n <= k THEN t[n] ELSE Replayed(t[k], past[k + 1])]
<1>1. \A n \in 0..(k + 1) : u[n] = Entry(u, past, n)
  <2> SUFFICES ASSUME NEW n \in 0..(k + 1) PROVE u[n] = Entry(u, past, n)
    OBVIOUS
  <2>1. CASE n = k + 1
    <3>1. u[n - 1] = t[k] /\ u[n] = Replayed(t[k], past[k + 1]) /\ n # 0
      BY <2>1
    <3> HIDE DEF u
    <3> QED BY <3>1, <2>1 DEF Entry
  <2>2. CASE n <= k
    <3>1. u[n] = t[n] /\ (n # 0 => u[n - 1] = t[n - 1])
      BY <2>2
    <3>2. t[n] = Entry(t, past, n)
      BY <2>2 DEF IsReplay
    <3> HIDE DEF u
    <3> QED BY <3>1, <3>2 DEF Entry
  <2> QED BY <2>1, <2>2
<1>2. u = [n \in 0..(k + 1) |-> u[n]]
  OBVIOUS
<1> HIDE DEF u
<1>3. u = [n \in 0..(k + 1) |-> Entry(u, past, n)]
  BY <1>1, <1>2
<1> QED BY <1>3 DEF IsReplay

\* The tables of a journal exist.
LEMMA ReplaysExist ==
  ASSUME NEW past, NEW k \in Nat
  PROVE  \E t : IsReplay(t, past, k)
<1> DEFINE B == {n \in Nat : ~\E t : IsReplay(t, past, n)}
<1> SUFFICES ASSUME B # {} PROVE FALSE
  OBVIOUS
<1>1. PICK n \in B : \A m \in B : n <= m
  <2>1. B \subseteq Nat
    OBVIOUS
  <2> HIDE DEF B
  <2> QED BY <2>1, SmallestNat
<1>2. CASE n = 0
  <2> DEFINE t == [m \in 0..0 |-> Unstarted]
  <2>1. IsReplay(t, past, 0)
    <3>1. \A m \in 0..0 : Entry(t, past, m) = Unstarted
      BY DEF Entry
    <3> QED BY <3>1 DEF IsReplay
  <2> HIDE DEF t
  <2> QED BY <2>1, <1>2
<1>3. CASE n # 0
  <2>1. n - 1 \in Nat /\ n - 1 \notin B
    BY <1>1, <1>3
  <2>2. PICK t : IsReplay(t, past, n - 1)
    BY <2>1
  <2>3. \E u : IsReplay(u, past, (n - 1) + 1)
    BY <2>1, <2>2, ReplayGrows
  <2> QED BY <2>3, <1>3
<1> QED BY <1>2, <1>3

\* The tables of a journal are what Replay says they are.
LEMMA ReplayIsReplay ==
  ASSUME NEW past, Len(past) \in Nat
  PROVE  IsReplay(Replay(past), past, Len(past))
<1>1. \E t : IsReplay(t, past, Len(past))
  BY ReplaysExist
<1> QED BY <1>1, ReplayIsChosen

\* A journal without rows has started nothing.
LEMMA RebuiltOfNothing == Rebuilt(<< >>) = Unstarted
<1>1. Len(<< >>) = 0
  OBVIOUS
<1>2. IsReplay(Replay(<< >>), << >>, 0)
  BY <1>1, ReplayIsReplay
<1>3. Replay(<< >>)[0] = Unstarted
  BY <1>2 DEF IsReplay, Entry
<1> QED BY <1>1, <1>3 DEF Rebuilt

\* A row changes the table as Replayed says.
LEMMA RebuiltOfAppend ==
  ASSUME NEW past \in Seq(Rows), NEW row \in Rows
  PROVE  Rebuilt(Append(past, row)) = Replayed(Rebuilt(past), row)
<1> DEFINE more == Append(past, row)
           k == Len(past)
<1>1. /\ k \in Nat /\ Len(more) = k + 1 /\ more[k + 1] = row
      /\ \A n \in 1..k : more[n] = past[n]
  OBVIOUS
<1> HIDE DEF more
<1>2. IsReplay(Replay(past), past, k) /\ IsReplay(Replay(more), more, k + 1)
  BY <1>1, ReplayIsReplay
<1> HIDE DEF k
<1>3. Replay(past)[k] = Replay(more)[k]
  <2>1. \A n \in 0..k : Replay(past)[n] = Replay(more)[n]
    <3>1. k \in Nat /\ k + 1 \in Nat /\ k <= k + 1
      BY <1>1
    <3>2. \A n \in 1..k : more[n] = past[n]
      BY <1>1
    <3>3. \A t, u : IsReplay(t, past, k) /\ IsReplay(u, more, k + 1)
                      => \A n \in 0..k : t[n] = u[n]
      BY <3>1, <3>2, ReplaysAgree
    <3> QED BY <3>3, <1>2
  <2> QED BY <2>1, <1>1
<1>4. Replay(more)[k + 1] = Replayed(Replay(more)[k], row)
  <2>1. k + 1 \in 0..(k + 1) /\ k + 1 # 0 /\ (k + 1) - 1 = k
    BY <1>1
  <2>2. Replay(more)[k + 1] = Entry(Replay(more), more, k + 1)
    BY <1>2, <2>1 DEF IsReplay
  <2> QED BY <2>1, <2>2, <1>1 DEF Entry
<1>5. Rebuilt(more) = Replay(more)[k + 1]
  BY <1>1 DEF Rebuilt
<1>6. Rebuilt(past) = Replay(past)[k]
  BY DEF Rebuilt, k
<1> QED BY <1>3, <1>4, <1>5, <1>6 DEF more

\* An attempt that starts is open in the table.
LEMMA TableOfStart ==
  ASSUME NEW past \in Seq(Rows), Rebuilt(past) \in Tables, NEW s \in Slots,
         Rebuilt(past)[s] = "none"
  PROVE  /\ Append(past, Row("started", s, None)) \in Seq(Rows)
         /\ Rebuilt(Append(past, Row("started", s, None)))
              = [Rebuilt(past) EXCEPT ![s] = "open"]
<1> DEFINE row == Row("started", s, None)
           table == Rebuilt(past)
<1>1. row \in Rows /\ row.event = "started" /\ row.slot = s
  BY DEF Row, Rows
<1>2. table # None
  BY RunAssumption
<1> HIDE DEF row
<1>3. Rebuilt(Append(past, row)) = Replayed(table, row)
  BY <1>1, RebuiltOfAppend
<1>4. Append(past, row) \in Seq(Rows)
  BY <1>1
<1> QED BY <1>1, <1>2, <1>3, <1>4 DEF Replayed, row

\* An attempt that ends has its bucket there.
LEMMA TableOfEnd ==
  ASSUME NEW past \in Seq(Rows), Rebuilt(past) \in Tables, NEW s \in Slots,
         Rebuilt(past)[s] = "open", NEW b \in BUCKETS
  PROVE  /\ Append(past, Row("ended", s, b)) \in Seq(Rows)
         /\ Rebuilt(Append(past, Row("ended", s, b))) = [Rebuilt(past) EXCEPT ![s] = b]
<1> DEFINE row == Row("ended", s, b)
           table == Rebuilt(past)
<1>1. row \in Rows /\ row.event # "started" /\ row.slot = s /\ row.bucket = b
  BY DEF Row, Rows
<1>2. table # None
  BY RunAssumption
<1> HIDE DEF row
<1>3. Rebuilt(Append(past, row)) = Replayed(table, row)
  BY <1>1, RebuiltOfAppend
<1>4. Append(past, row) \in Seq(Rows)
  BY <1>1
<1> QED BY <1>1, <1>2, <1>3, <1>4 DEF Replayed, row

\* The slot that is next is one to do.
LEMMA FirstIsToDo == ToDo # {} => First \in ToDo /\ First \in Slots
<1> SUFFICES ASSUME ToDo # {} PROVE First \in ToDo /\ First \in Slots
  OBVIOUS
<1>1. ToDo \subseteq Nat /\ ToDo \subseteq Slots
  BY RunAssumption DEF ToDo
<1>2. \E s \in ToDo : \A t \in ToDo : s <= t
  BY <1>1, SmallestNat
<1> QED BY <1>1, <1>2 DEF First

-----------------------------------------------------------------------------
(* The inductive invariant *)

Phases == {"off", "saving", "segment", "recover", "next", "started", "invoking", "waiting",
           "result", "closing"}
Errors == {None, "uncaught_error", "source_expired", "cancelled"}
Results == [bucket : BUCKETS, error : Errors]
Processes == [pc : Phases, slot : Slots \cup {0}, result : Results, cause : Errors,
              version : Nat \cup {None}]
Answers == [slot : Slots, bucket : BUCKETS, error : Errors]
Workers == [alive : BOOLEAN, owes : Seq(Slots), inbox : Seq(Answers)]
Reports == [status : {"reading", "STOPPED", "COMPLETED", "PARTIAL"}, settled : BOOLEAN,
            hidden : Int]

\* The phases in which the process has an attempt in hand.
Attempting == {"started", "invoking", "waiting", "result"}

RunTypeOK ==
  /\ journal \in Seq(Rows)
  /\ index \in Tables
  /\ proc \in Processes
  /\ proc.pc \in Attempting => proc.slot \in Slots
  /\ worker \in Workers
  /\ calls \in [Slots -> Nat]
  /\ version \in Nat

Table == Rebuilt(journal)

\* The journal makes a table, which a process past its start has as its index.
JournalIsRead ==
  /\ Table \in Tables
  /\ proc.pc \notin {"off", "saving"} => index = Table
  /\ proc.pc = "saving" => journal = << >>

\* The attempt in hand is open, not yet sent before it is sent, and exposed by then.
AttemptInHand ==
  /\ proc.pc \in Attempting => Table[proc.slot] = "open"
  /\ proc.pc \in {"started", "invoking"} => calls[proc.slot] = 0
  /\ proc.pc = "invoking" => InputOf[proc.slot] \in exposures \cup spoilt

\* What has been sent was sent once, exposed and started.
CallsOnRecord ==
  \A s \in Slots : /\ calls[s] <= 1
                   /\ calls[s] = 1 => InputOf[s] \in exposures \cup spoilt
                   /\ calls[s] = 1 => Table[s] # "none"

\* The worker owes the answer that is awaited, or has given it, and nothing else.
WorkerOwes ==
  IF proc.pc = "waiting"
  THEN \/ worker.owes = << >> /\ worker.inbox = << >>
       \/ worker.owes = <<proc.slot>> /\ worker.inbox = << >>
       \/ worker.owes = << >> /\ Len(worker.inbox) = 1 /\ worker.inbox[1].slot = proc.slot
  ELSE worker.owes = << >> /\ worker.inbox = << >>

SettledIn(table) == \A s \in Slots : table[s] \in BUCKETS \ {"interrupted"}

\* What a report found settled is still settled.
ReportsSettled ==
  /\ summary \in {None} \cup Reports
  /\ summary # None /\ summary.settled => SettledIn(Table)
  /\ summary # None /\ summary.status = "COMPLETED" => summary.settled

RunInv ==
  /\ RunTypeOK /\ JournalIsRead /\ AttemptInHand /\ CallsOnRecord /\ WorkerOwes
  /\ ReportsSettled

\* An exposure row is spoilt by a fault of its own: each incomplete line can spoil one.
SpoiltByFaults ==
  /\ faults \in Nat /\ ragged \in BOOLEAN /\ IsFiniteSet(spoilt)
  /\ Cardinality(spoilt) <= faults
  /\ ragged => Cardinality(spoilt) < faults

\* The two imply both properties.
LEMMA RunInvImplies ==
  RunInv /\ SpoiltByFaults => OneExchangePerSlot /\ CompletedIsComplete
<1> SUFFICES ASSUME RunInv, SpoiltByFaults PROVE OneExchangePerSlot /\ CompletedIsComplete
  OBVIOUS
<1> USE DEF RunInv
<1>1. OneExchangePerSlot
  <2>1. ASSUME proc.pc = "waiting", worker.inbox # << >>
        PROVE  Head(worker.inbox).slot = proc.slot
    BY <2>1 DEF WorkerOwes, RunTypeOK, Workers
  <2> QED BY <2>1 DEF OneExchangePerSlot, CallsOnRecord, SpoiltByFaults
<1>2. CompletedIsComplete
  BY DEF CompletedIsComplete, ReportsSettled, SettledIn, Table
<1> QED BY <1>1, <1>2

-----------------------------------------------------------------------------
(* Steps that leave the journal as it is *)

\* The step keeps the journal, the calls and the summary, and forgets no exposure.
Keeps == /\ journal' = journal /\ calls' = calls /\ summary' = summary
         /\ exposures \subseteq exposures' /\ spoilt \subseteq spoilt'

\* What such a step must keep of the invariant, and what it cannot lose.
LEMMA KeepsRecords ==
  ASSUME RunInv, Keeps, RunTypeOK',
         proc'.pc \notin {"off", "saving"} => index' = Table,
         proc'.pc = "saving" => journal = << >>,
         AttemptInHand', WorkerOwes'
  PROVE  RunInv'
<1>1. Table' = Table
  BY DEF Keeps, Table
<1>2. JournalIsRead'
  BY <1>1 DEF RunInv, JournalIsRead, Keeps
<1>3. CallsOnRecord'
  BY <1>1 DEF RunInv, CallsOnRecord, Keeps
<1>4. ReportsSettled'
  BY <1>1 DEF RunInv, ReportsSettled, Keeps, SettledIn
<1> QED BY <1>2, <1>3, <1>4 DEF RunInv

\* A worker that has been closed owes nothing.
LEMMA ClosedOwesNothing ==
  ASSUME worker' = NoWorker
  PROVE  worker' \in Workers /\ WorkerOwes'
BY DEF NoWorker, Workers, WorkerOwes

\* The beginning, with nothing done.
LEMMA RunInvInitially == Init => RunInv
<1> SUFFICES ASSUME Init PROVE RunInv
  OBVIOUS
<1>1. Table = Unstarted
  BY RebuiltOfNothing DEF Init, Table
<1>2. Unstarted \in Tables
  BY DEF Unstarted, Tables
<1>3. RunTypeOK /\ proc.pc = "off"
  BY <1>2 DEF Init, RunTypeOK, Off, Processes, Phases, Results, Result, Errors, NoWorker,
              Workers, BUCKETS, Attempting
<1>4. AttemptInHand /\ WorkerOwes
  BY <1>3 DEF AttemptInHand, Attempting, WorkerOwes, Init, NoWorker
<1> QED BY <1>1, <1>2, <1>3, <1>4 DEF RunInv, Init, JournalIsRead, CallsOnRecord, ReportsSettled

-----------------------------------------------------------------------------
(* The run, as far as it leaves the journal as it is *)

\* A run or a resume begins with no attempt in hand.
LEMMA StartKeeps == RunInv /\ (Start \/ Resume) => RunInv'
<1> SUFFICES ASSUME RunInv, Start \/ Resume PROVE RunInv'
  OBVIOUS
<1> USE DEF RunInv
<1>1. Keeps /\ worker' = worker /\ version' = version
  BY DEF Start, Resume, Keeps, disk, world
<1>2. proc' \in Processes /\ proc'.pc \in {"saving", "segment"}
  <2>1. Off \in Processes
    BY DEF Off, Processes, Phases, Results, Result, Errors, BUCKETS
  <2>2. \E pc \in {"saving", "segment"} :
          proc' = [Off EXCEPT !.pc = pc, !.version = version]
    BY DEF Start, Resume
  <2>3. version \in Nat
    BY DEF RunTypeOK
  <2> QED BY <2>1, <2>2, <2>3 DEF Processes, Phases
<1>3. index' \in Tables /\ (proc'.pc = "segment" => index' = Table)
      /\ (proc'.pc = "saving" => journal = << >>)
  BY DEF Start, Resume, RunTypeOK, JournalIsRead, Table, Off
<1>4. RunTypeOK' /\ AttemptInHand' /\ WorkerOwes'
  <2>1. proc.pc = "off"
    BY DEF Start, Resume
  <2> QED BY <1>1, <1>2, <1>3, <2>1
       DEF RunTypeOK, Keeps, Attempting, AttemptInHand, WorkerOwes
<1> QED BY <1>1, <1>2, <1>3, <1>4, KeepsRecords

\* A fresh run has an empty index, as its journal is empty.
LEMMA SaveRuntimeKeeps == RunInv /\ SaveRuntime => RunInv'
<1> SUFFICES ASSUME RunInv, SaveRuntime PROVE RunInv'
  OBVIOUS
<1> USE DEF RunInv
<1>1. Keeps /\ worker' = worker /\ version' = version
  BY DEF SaveRuntime, Keeps, world
<1>2. proc' \in Processes /\ proc'.pc = "segment"
  BY DEF SaveRuntime, RunTypeOK, Processes, Phases
<1>3. index' = Table /\ Table \in Tables
  <2>1. journal = << >>
    BY DEF SaveRuntime, JournalIsRead
  <2> QED BY <2>1, RebuiltOfNothing DEF SaveRuntime, Table, JournalIsRead
<1>4. RunTypeOK' /\ AttemptInHand' /\ WorkerOwes'
  BY <1>1, <1>2, <1>3 DEF SaveRuntime, RunTypeOK, Keeps, Attempting, AttemptInHand, WorkerOwes
<1> QED BY <1>1, <1>2, <1>3, <1>4, KeepsRecords

\* The segment goes on to its next phase, the index as it is and no attempt in hand.
LEMMA BetweenAttempts ==
  ASSUME RunInv, Keeps, index' = index, version' = version, proc' \in Processes,
         proc.pc \notin {"off", "saving"}, proc'.pc \notin Attempting \cup {"saving"},
         worker' = NoWorker \/ (worker' = worker /\ proc.pc # "waiting")
  PROVE  RunInv'
<1> USE DEF RunInv
<1>1. worker' \in Workers /\ WorkerOwes'
  <2>1. CASE worker' = NoWorker
    BY <2>1, ClosedOwesNothing
  <2>2. CASE worker' = worker /\ proc.pc # "waiting"
    BY <2>2 DEF RunTypeOK, WorkerOwes, Attempting
  <2> QED BY <2>1, <2>2
<1>2. RunTypeOK' /\ AttemptInHand'
  BY <1>1 DEF RunTypeOK, Keeps, Attempting, AttemptInHand
<1>3. index' = Table
  BY DEF JournalIsRead
<1> QED BY <1>1, <1>2, <1>3, KeepsRecords

\* The beginning, the end and the end of recovery of a segment.
LEMMA SegmentKeeps ==
  RunInv /\ (BeginSegment \/ AllDone \/ StopHere \/ EndSegment) => RunInv'
<1> SUFFICES ASSUME RunInv, BeginSegment \/ AllDone \/ StopHere \/ EndSegment PROVE RunInv'
  OBVIOUS
<1>1. proc \in Processes
  BY DEF RunInv, RunTypeOK
<1>2. Keeps /\ index' = index /\ version' = version
  BY DEF BeginSegment, AllDone, StopHere, EndSegment, Keeps, disk, world
<1>3. CASE BeginSegment
  <2>1. proc' \in Processes
    BY <1>1, <1>3 DEF BeginSegment, Processes, Phases
  <2> QED BY <1>1, <1>2, <1>3, <2>1, BetweenAttempts
       DEF BeginSegment, Processes, Attempting
<1>4. CASE AllDone \/ StopHere
  <2>1. PICK cause \in Errors : Stop(cause)
    BY <1>4 DEF AllDone, StopHere, Errors
  <2>2. proc' \in Processes
    BY <1>1, <2>1 DEF Stop, Processes, Phases
  <2> QED BY <1>1, <1>2, <1>4, <2>1, <2>2, BetweenAttempts
       DEF AllDone, StopHere, Stop, Processes, Attempting
<1>5. CASE EndSegment
  <2>1. proc' \in Processes
    BY <1>5 DEF EndSegment, Off, Processes, Phases, Results, Result, Errors, BUCKETS
  <2> QED BY <1>2, <1>5, <2>1, BetweenAttempts DEF EndSegment, Off, Attempting
<1> QED BY <1>3, <1>4, <1>5

-----------------------------------------------------------------------------
(* An attempt *)

\* A result is kept for the journal, in the slot in hand.
LEMMA ConcludeType ==
  ASSUME proc \in Processes, NEW result \in Results, Conclude(result)
  PROVE  proc' \in Processes /\ proc'.pc = "result" /\ proc'.slot = proc.slot
<1>1. Uncaught \in Results
  BY DEF Uncaught, Result, Results, Errors, BUCKETS
<1> QED BY <1>1 DEF Conclude, Processes, Phases

\* An attempt goes on, or is concluded, without a row.
LEMMA AttemptKeeps ==
  ASSUME RunInv, Keeps, index' = index, version' = version, proc' \in Processes,
         proc.pc \in Attempting, proc'.pc \in Attempting, proc'.slot = proc.slot,
         proc'.pc \in {"started", "invoking"} => calls[proc.slot] = 0,
         proc'.pc = "invoking" => InputOf[proc.slot] \in exposures' \cup spoilt',
         worker' \in Workers, WorkerOwes'
  PROVE  RunInv'
<1> USE DEF RunInv
<1>1. Table' = Table /\ index' = Table
  BY DEF Keeps, Table, JournalIsRead, Attempting
<1>2. RunTypeOK' /\ AttemptInHand'
  BY <1>1 DEF RunTypeOK, Keeps, AttemptInHand
<1> QED BY <1>1, <1>2, KeepsRecords DEF Attempting

\* A result in hand, and what is left of the worker.
LEMMA ConcludeKeeps ==
  ASSUME RunInv, Keeps, index' = index, version' = version, proc.pc \in Attempting,
         NEW result \in Results, Conclude(result),
         worker' = NoWorker \/ (worker' = worker /\ proc.pc # "waiting")
  PROVE  RunInv'
<1>1. proc' \in Processes /\ proc'.pc = "result" /\ proc'.slot = proc.slot
  BY ConcludeType DEF RunInv, RunTypeOK
<1>2. worker' \in Workers /\ WorkerOwes'
  <2>1. CASE worker' = NoWorker
    BY <2>1, ClosedOwesNothing
  <2>2. CASE worker' = worker /\ proc.pc # "waiting"
    BY <1>1, <2>2 DEF RunInv, RunTypeOK, WorkerOwes
  <2> QED BY <2>1, <2>2
<1> QED BY <1>1, <1>2, AttemptKeeps DEF Attempting

\* An input that is withheld.
LEMMA WithholdKeeps == RunInv /\ Withhold => RunInv'
<1> SUFFICES ASSUME RunInv, Withhold PROVE RunInv'
  OBVIOUS
<1>1. Result(Withheld[InputOf[proc.slot]], None) \in Results
  <2>1. proc.slot \in Slots
    BY DEF Withhold, RunInv, RunTypeOK, Attempting
  <2> QED BY <2>1, RunAssumption DEF Withhold, Result, Results, BUCKETS, Errors
<1>2. Keeps /\ index' = index /\ version' = version /\ worker' = worker
  BY DEF Withhold, Keeps, disk, world
<1> QED BY <1>1, <1>2, ConcludeKeeps DEF Withhold, Attempting

\* The exposure is registered before the text can be sent.
LEMMA ExposeKeeps == RunInv /\ Expose => RunInv'
<1> SUFFICES ASSUME RunInv, Expose PROVE RunInv'
  OBVIOUS
<1>1. Keeps /\ index' = index /\ version' = version /\ worker' = worker
  BY DEF Expose, Keeps, world
<1>2. proc' \in Processes /\ proc'.pc = "invoking" /\ proc'.slot = proc.slot
  BY DEF Expose, RunInv, RunTypeOK, Processes, Phases
<1>3. InputOf[proc.slot] \in exposures' \cup spoilt'
  BY DEF Expose
<1>4. worker' \in Workers /\ WorkerOwes' /\ calls[proc.slot] = 0
  BY <1>1, <1>2 DEF Expose, RunInv, RunTypeOK, WorkerOwes, AttemptInHand
<1> QED BY <1>1, <1>2, <1>3, <1>4, AttemptKeeps DEF Expose, Attempting

\* Results without an exchange.
LEMMA SmallResults ==
  ASSUME NEW bucket \in BUCKETS, NEW error \in Errors
  PROVE  Result(bucket, error) \in Results
BY DEF Result, Results

\* The sources have expired, the time is over, or a cancel is seen.
LEMMA GivingUpKeeps == RunInv /\ (ExpiredHere \/ GiveUp \/ CancelHere) => RunInv'
<1> SUFFICES ASSUME RunInv, ExpiredHere \/ GiveUp \/ CancelHere PROVE RunInv'
  OBVIOUS
<1>1. Keeps /\ index' = index /\ version' = version /\ worker' = NoWorker
  BY DEF ExpiredHere, GiveUp, CancelHere, Keeps, disk, world
<1>2. PICK result \in Results : Conclude(result)
  <2>1. /\ Result("skipped", "source_expired") \in Results
        /\ Result("technical_failure", None) \in Results
        /\ Result("interrupted", "cancelled") \in Results
    BY SmallResults DEF BUCKETS, Errors
  <2> QED BY <2>1 DEF ExpiredHere, GiveUp, CancelHere
<1> QED BY <1>1, <1>2, ConcludeKeeps DEF ExpiredHere, GiveUp, CancelHere, Attempting

\* A worker is started, or the attempt has its result.
LEMMA LoadKeeps == RunInv /\ Load => RunInv'
<1> SUFFICES ASSUME RunInv, Load PROVE RunInv'
  OBVIOUS
<1>1. Keeps /\ index' = index /\ version' = version
  BY DEF Load, Keeps, disk, world
<1>2. CASE worker' = [NoWorker EXCEPT !.alive = TRUE] /\ proc' = proc
  <2>1. worker' \in Workers /\ worker'.owes = << >> /\ worker'.inbox = << >>
    <3>1. NoWorker \in Workers
      BY DEF NoWorker, Workers
    <3>2. worker' \in Workers
      BY <3>1, <1>2 DEF Workers
    <3> QED BY <3>2, <1>2 DEF NoWorker
  <2>2. proc \in Processes /\ proc.pc = "invoking"
    BY DEF Load, RunInv, RunTypeOK
  <2>3. calls[proc.slot] = 0 /\ InputOf[proc.slot] \in exposures' \cup spoilt'
    BY <1>1, <2>2 DEF RunInv, AttemptInHand, Keeps
  <2>4. WorkerOwes'
    BY <1>2, <2>1, <2>2 DEF WorkerOwes
  <2> QED BY <1>1, <1>2, <2>1, <2>2, <2>3, <2>4, AttemptKeeps DEF Attempting
<1>3. CASE worker' = worker
           /\ (Conclude(Result("technical_failure", None)) \/ Conclude(Uncaught)
                 \/ Conclude(Result("interrupted", "cancelled")))
  <2>1. /\ Result("technical_failure", None) \in Results /\ Uncaught \in Results
        /\ Result("interrupted", "cancelled") \in Results
    BY SmallResults DEF BUCKETS, Errors, Uncaught
  <2>2. PICK result \in Results : Conclude(result)
    BY <1>3, <2>1
  <2> QED BY <1>1, <1>3, <2>2, ConcludeKeeps DEF Load, Attempting
<1> QED BY <1>2, <1>3 DEF Load

\* The answer that is received is the one that was awaited.
LEMMA ReceiveKeeps == RunInv /\ Receive => RunInv'
<1> SUFFICES ASSUME RunInv, Receive PROVE RunInv'
  OBVIOUS
<1> DEFINE answer == Head(worker.inbox)
<1>1. Keeps /\ index' = index /\ version' = version /\ proc.pc = "waiting"
  BY DEF Receive, Keeps, disk, world
<1>2. /\ worker \in Workers /\ worker.owes = << >> /\ Len(worker.inbox) = 1
      /\ answer \in Answers /\ Tail(worker.inbox) = << >>
  <2>1. worker \in Workers /\ worker.inbox \in Seq(Answers) /\ worker.inbox # << >>
    BY DEF Receive, RunInv, RunTypeOK, Workers
  <2>2. worker.owes = << >> /\ Len(worker.inbox) = 1
    BY <1>1, <2>1 DEF RunInv, WorkerOwes
  <2>3. answer \in Answers
    BY <2>1
  <2>4. Tail(worker.inbox) = << >>
    <3>1. Tail(worker.inbox) \in Seq(Answers) /\ Len(Tail(worker.inbox)) = 0
      BY <2>1, <2>2, HeadTailProperties
    <3> QED BY <3>1, EmptySeq
  <2> QED BY <2>1, <2>2, <2>3, <2>4
<1>3. Classified(answer) \in Results /\ Conclude(Classified(answer))
  BY <1>2 DEF Receive, Classified, Uncaught, Result, Results, Answers, Errors, BUCKETS
<1>4. CASE worker' = NoWorker
  BY <1>1, <1>3, <1>4, ConcludeKeeps DEF Attempting
<1>5. CASE worker' = [worker EXCEPT !.inbox = Tail(@)]
  <2>1. worker' \in Workers /\ worker'.owes = << >> /\ worker'.inbox = << >>
    BY <1>2, <1>5 DEF Workers
  <2>2. proc' \in Processes /\ proc'.pc = "result" /\ proc'.slot = proc.slot
    BY <1>3, ConcludeType DEF RunInv, RunTypeOK
  <2>3. WorkerOwes'
    BY <2>1, <2>2 DEF WorkerOwes
  <2> QED BY <1>1, <2>1, <2>2, <2>3, AttemptKeeps DEF Attempting
<1> QED BY <1>4, <1>5 DEF Receive

\* The text is sent once, after its exposure and while its attempt is on record.
LEMMA RequestKeeps == RunInv /\ Request => RunInv'
<1> SUFFICES ASSUME RunInv, Request PROVE RunInv'
  OBVIOUS
<1>1. /\ proc \in Processes /\ proc.pc = "invoking" /\ proc.slot \in Slots
      /\ worker \in Workers /\ worker.owes = << >> /\ worker.inbox = << >>
  BY DEF Request, RunInv, RunTypeOK, Attempting, WorkerOwes
<1>2. /\ journal' = journal /\ index' = index /\ summary' = summary /\ version' = version
      /\ exposures' = exposures /\ spoilt' = spoilt
      /\ worker' = [worker EXCEPT !.owes = Append(@, proc.slot)]
      /\ calls' = [calls EXCEPT ![proc.slot] = @ + 1]
      /\ proc' = [proc EXCEPT !.pc = "waiting"]
  BY <1>1 DEF Request, disk, world
<1>3. /\ worker' \in Workers /\ worker'.owes = <<proc.slot>> /\ worker'.inbox = << >>
  <2>1. Append(worker.owes, proc.slot) \in Seq(Slots) /\ Append(<< >>, proc.slot) = <<proc.slot>>
    BY <1>1 DEF Workers
  <2> QED BY <1>1, <1>2, <2>1 DEF Workers
<1>4. proc' \in Processes /\ proc'.pc = "waiting" /\ proc'.slot = proc.slot
  BY <1>1, <1>2 DEF Processes, Phases
<1>5. Table' = Table
  BY <1>2 DEF Table
<1>6. calls \in [Slots -> Nat] /\ calls[proc.slot] = 0 /\ Table[proc.slot] = "open"
      /\ InputOf[proc.slot] \in exposures \cup spoilt
  BY <1>1 DEF RunInv, RunTypeOK, AttemptInHand, Attempting
<1>7. RunTypeOK'
  BY <1>1, <1>2, <1>3, <1>4, <1>6 DEF RunInv, RunTypeOK
<1>8. JournalIsRead'
  BY <1>1, <1>2, <1>4, <1>5 DEF RunInv, JournalIsRead
<1>9. AttemptInHand'
  BY <1>4, <1>5, <1>6 DEF AttemptInHand
<1>10. CallsOnRecord'
  BY <1>2, <1>5, <1>6 DEF RunInv, CallsOnRecord
<1>11. WorkerOwes'
  BY <1>3, <1>4 DEF WorkerOwes
<1>12. ReportsSettled'
  BY <1>2, <1>5 DEF RunInv, ReportsSettled, SettledIn
<1> QED BY <1>7, <1>8, <1>9, <1>10, <1>11, <1>12 DEF RunInv

-----------------------------------------------------------------------------
(* The worker, faults and the world *)

\* The worker can only answer what is awaited.
LEMMA WorkerAnswersKeeps == RunInv /\ WorkerAnswers => RunInv'
<1> SUFFICES ASSUME RunInv, WorkerAnswers PROVE RunInv'
  OBVIOUS
<1>1. Keeps /\ index' = index /\ version' = version /\ proc' = proc
  BY DEF WorkerAnswers, Keeps, disk, world
<1>2. worker \in Workers /\ worker.owes = <<proc.slot>> /\ worker.inbox = << >>
      /\ proc.pc = "waiting" /\ proc.slot \in Slots /\ proc \in Processes
  BY DEF WorkerAnswers, RunInv, RunTypeOK, WorkerOwes, Attempting
<1>3. PICK r \in Results :
        worker' = [worker EXCEPT !.owes = Tail(@),
                     !.inbox = Append(@, [slot |-> Head(worker.owes),
                                          bucket |-> r.bucket, error |-> r.error])]
  <2>1. {Result("suggested", None), Result("ineligible", None),
         Result("technical_failure", None), Uncaught} \subseteq Results
    BY SmallResults DEF BUCKETS, Errors, Uncaught
  <2> QED BY <2>1 DEF WorkerAnswers
<1> DEFINE answer == [slot |-> proc.slot, bucket |-> r.bucket, error |-> r.error]
<1>4. answer \in Answers /\ answer.slot = proc.slot
  BY <1>2 DEF Answers, Results
<1>5. Head(worker.owes) = proc.slot /\ Tail(worker.owes) = << >>
  BY <1>2
<1>6. worker'.owes = << >> /\ worker'.inbox = Append(<< >>, answer) /\ worker' \in Workers
  <2>1. worker' = [worker EXCEPT !.owes = << >>, !.inbox = Append(<< >>, answer)]
    BY <1>2, <1>3, <1>5
  <2> HIDE DEF answer
  <2>2. Append(<< >>, answer) \in Seq(Answers) /\ << >> \in Seq(Slots)
    BY <1>4
  <2> QED BY <1>2, <2>1, <2>2 DEF Workers
<1> HIDE DEF answer
<1>7. Len(Append(<< >>, answer)) = 1 /\ Append(<< >>, answer)[1] = answer
  OBVIOUS
<1>8. WorkerOwes'
  BY <1>1, <1>2, <1>4, <1>6, <1>7 DEF WorkerOwes
<1> QED BY <1>1, <1>2, <1>6, <1>8, AttemptKeeps DEF Attempting

\* A dead process leaves its journal, its exposures and the calls it has made.
LEMMA CrashKeeps == RunInv /\ Crash => RunInv'
<1> SUFFICES ASSUME RunInv, Crash PROVE RunInv'
  OBVIOUS
<1>1. /\ Keeps /\ index' = index /\ version' = version /\ proc' = Off
      /\ worker' = NoWorker
  BY DEF Crash, Keeps
<1>2. Off \in Processes /\ Off.pc = "off"
  BY DEF Off, Processes, Phases, Results, Result, Errors, BUCKETS
<1>3. worker' \in Workers /\ WorkerOwes'
  BY <1>1, ClosedOwesNothing
<1>4. RunTypeOK' /\ AttemptInHand'
  BY <1>1, <1>2, <1>3 DEF RunInv, RunTypeOK, Keeps, Attempting, AttemptInHand
<1> QED BY <1>1, <1>2, <1>3, <1>4, KeepsRecords

\* A row that is not written ends the process, the segment or the attempt, without a request.
LEMMA WriteFailsKeeps == RunInv /\ WriteFails => RunInv'
<1> SUFFICES ASSUME RunInv, WriteFails PROVE RunInv'
  OBVIOUS
<1>1. Keeps /\ index' = index /\ version' = version
  BY DEF WriteFails, Keeps
<1>2. CASE proc.pc \in {"segment", "closing", "saving"} /\ proc' = Off /\ UNCHANGED worker
  <2>1. Off \in Processes /\ Off.pc = "off"
    BY DEF Off, Processes, Phases, Results, Result, Errors, BUCKETS
  <2>2. worker' \in Workers /\ WorkerOwes'
    BY <1>2, <2>1 DEF RunInv, RunTypeOK, WorkerOwes
  <2>3. RunTypeOK' /\ AttemptInHand'
    BY <1>1, <1>2, <2>1, <2>2 DEF RunInv, RunTypeOK, Keeps, Attempting, AttemptInHand
  <2> QED BY <1>1, <1>2, <2>1, <2>2, <2>3, KeepsRecords
<1>3. CASE proc.pc \in {"recover", "next", "result"} /\ Stop("uncaught_error")
  <2>1. proc \in Processes
    BY DEF RunInv, RunTypeOK
  <2>2. proc' \in Processes /\ proc'.pc = "closing"
    BY <1>3, <2>1 DEF Stop, Processes, Phases, Errors
  <2> QED BY <1>1, <1>3, <2>2, BetweenAttempts DEF Stop, Attempting
<1>4. CASE proc.pc \in {"started", "invoking"} /\ Conclude(Uncaught) /\ UNCHANGED worker
  <2>1. Uncaught \in Results
    BY SmallResults DEF Uncaught, BUCKETS, Errors
  <2> QED BY <1>1, <1>4, <2>1, ConcludeKeeps DEF Attempting
<1> QED BY <1>2, <1>3, <1>4 DEF WriteFails

\* The world around a run.
LEMMA WorldKeeps == RunInv /\ (Edit \/ Expire \/ CancelFile) => RunInv'
<1> SUFFICES ASSUME RunInv, Edit \/ Expire \/ CancelFile PROVE RunInv'
  OBVIOUS
<1>1. Keeps /\ index' = index /\ proc' = proc /\ worker' = worker
  BY DEF Edit, Expire, CancelFile, Keeps, disk, memory
<1>2. version' \in Nat
  BY DEF Edit, Expire, CancelFile, RunInv, RunTypeOK
<1>3. Table' = Table
  BY <1>1 DEF Keeps, Table
<1>4. RunTypeOK' /\ AttemptInHand' /\ WorkerOwes'
  BY <1>1, <1>2, <1>3 DEF RunInv, RunTypeOK, Keeps, Attempting, AttemptInHand, WorkerOwes
<1> QED BY <1>1, <1>4, KeepsRecords DEF RunInv, JournalIsRead

-----------------------------------------------------------------------------
(* Rows *)

\* A row moves one slot on, from open or not started: nothing settled is unsettled,
\* and nothing started is forgotten.
LEMMA RowKeepsRecords ==
  ASSUME RunInv, NEW s \in Slots, NEW status \in {"open"} \cup BUCKETS,
         Table[s] = IF status = "open" THEN "none" ELSE "open",
         Table' = [Table EXCEPT ![s] = status],
         calls' = calls, exposures' = exposures, spoilt' = spoilt, summary' = summary
  PROVE  Table' \in Tables /\ CallsOnRecord' /\ ReportsSettled'
<1>1. Table \in Tables
  BY DEF RunInv, JournalIsRead
<1>2. Table' \in Tables /\ Table'[s] # "none"
  BY <1>1 DEF Tables, BUCKETS
<1>3. CallsOnRecord'
  BY <1>1, <1>2 DEF RunInv, CallsOnRecord, Tables
<1>4. ~SettledIn(Table)
  BY DEF SettledIn, BUCKETS
<1>5. ReportsSettled'
  BY <1>4 DEF RunInv, ReportsSettled
<1> QED BY <1>2, <1>3, <1>5

\* An attempt left open is interrupted; when none is, the segment goes on.
LEMMA RecoverKeeps == RunInv /\ Recover => RunInv'
<1> SUFFICES ASSUME RunInv, Recover PROVE RunInv'
  OBVIOUS
<1>1. /\ proc \in Processes /\ proc.pc = "recover" /\ index = Table /\ Table \in Tables
      /\ journal \in Seq(Rows)
  BY DEF Recover, RunInv, RunTypeOK, JournalIsRead
<1>2. /\ exposures' = exposures /\ spoilt' = spoilt /\ worker' = worker /\ calls' = calls
      /\ summary' = summary /\ version' = version
  BY DEF Recover, world
<1>3. CASE /\ \A s \in Slots : index[s] # "open"
           /\ proc' = [proc EXCEPT !.pc = "next"]
           /\ UNCHANGED <<journal, index>>
  <2>1. proc' \in Processes /\ proc'.pc = "next"
    BY <1>1, <1>3 DEF Processes, Phases
  <2> QED BY <1>1, <1>2, <1>3, <2>1, BetweenAttempts DEF Keeps, Attempting
<1>4. CASE \E s \in Slots :
             /\ index[s] = "open"
             /\ journal' = Append(journal, Row("ended", s, "interrupted"))
             /\ index' = [index EXCEPT ![s] = "interrupted"]
             /\ UNCHANGED proc
  <2>1. PICK s \in Slots :
             /\ index[s] = "open"
             /\ journal' = Append(journal, Row("ended", s, "interrupted"))
             /\ index' = [index EXCEPT ![s] = "interrupted"]
             /\ UNCHANGED proc
    BY <1>4
  <2>2. "interrupted" \in BUCKETS /\ "interrupted" # "open"
    BY DEF BUCKETS
  <2>3. journal' \in Seq(Rows) /\ Table' = [Table EXCEPT ![s] = "interrupted"]
    BY <1>1, <2>1, <2>2, TableOfEnd DEF Table
  <2>4. Table' \in Tables /\ CallsOnRecord' /\ ReportsSettled'
    BY <1>1, <1>2, <2>1, <2>2, <2>3, RowKeepsRecords
  <2>5. index' = Table'
    BY <1>1, <2>1, <2>3
  <2>6. RunTypeOK' /\ JournalIsRead' /\ AttemptInHand' /\ WorkerOwes'
    BY <1>1, <1>2, <2>1, <2>3, <2>4, <2>5
    DEF RunInv, RunTypeOK, JournalIsRead, AttemptInHand, WorkerOwes, Attempting
  <2> QED BY <2>4, <2>6 DEF RunInv
<1> QED BY <1>3, <1>4 DEF Recover

\* The first slot that is not started is started: it cannot have been sent.
LEMMA BeginSlotKeeps == RunInv /\ BeginSlot => RunInv'
<1> SUFFICES ASSUME RunInv, BeginSlot PROVE RunInv'
  OBVIOUS
<1>1. /\ proc \in Processes /\ proc.pc = "next" /\ index = Table /\ Table \in Tables
      /\ journal \in Seq(Rows) /\ calls \in [Slots -> Nat]
  BY DEF BeginSlot, RunInv, RunTypeOK, JournalIsRead
<1>2. /\ exposures' = exposures /\ spoilt' = spoilt /\ worker' = worker /\ calls' = calls
      /\ summary' = summary /\ version' = version
  BY DEF BeginSlot, world
<1> DEFINE s == First
<1>3. s \in Slots /\ index[s] = "none"
  BY FirstIsToDo DEF BeginSlot, MayBegin, ToDo
<1>4. /\ journal' = Append(journal, Row("started", s, None))
      /\ index' = [index EXCEPT ![s] = "open"]
      /\ proc' = [proc EXCEPT !.pc = "started", !.slot = s]
  BY DEF BeginSlot
<1> HIDE DEF s
<1>5. journal' \in Seq(Rows) /\ Table' = [Table EXCEPT ![s] = "open"]
  BY <1>1, <1>3, <1>4, TableOfStart DEF Table
<1>6. Table' \in Tables /\ CallsOnRecord' /\ ReportsSettled'
  BY <1>1, <1>2, <1>3, <1>5, RowKeepsRecords
<1>7. proc' \in Processes /\ proc'.pc = "started" /\ proc'.slot = s
  BY <1>1, <1>3, <1>4 DEF Processes, Phases
<1>8. index' = Table' /\ Table'[s] = "open"
  BY <1>1, <1>3, <1>4, <1>5 DEF Tables
<1>9. calls[s] = 0
  <2>1. calls[s] \in Nat /\ calls[s] <= 1 /\ calls[s] # 1
    BY <1>1, <1>3 DEF RunInv, CallsOnRecord
  <2> QED BY <2>1
<1>10. RunTypeOK'
  BY <1>1, <1>2, <1>3, <1>5, <1>6, <1>7, <1>8 DEF RunInv, RunTypeOK
<1>11. JournalIsRead' /\ AttemptInHand'
  BY <1>2, <1>6, <1>7, <1>8, <1>9 DEF JournalIsRead, AttemptInHand
<1>12. WorkerOwes'
  BY <1>1, <1>2, <1>7 DEF RunInv, WorkerOwes
<1> QED BY <1>6, <1>10, <1>11, <1>12 DEF RunInv

\* The result is recorded for the attempt in hand.
LEMMA RecordKeeps == RunInv /\ Record => RunInv'
<1> SUFFICES ASSUME RunInv, Record PROVE RunInv'
  OBVIOUS
<1> DEFINE s == proc.slot
           b == proc.result.bucket
<1>1. /\ proc \in Processes /\ proc.pc = "result" /\ index = Table /\ Table \in Tables
      /\ journal \in Seq(Rows) /\ s \in Slots /\ Table[s] = "open"
  BY DEF Record, RunInv, RunTypeOK, JournalIsRead, AttemptInHand, Attempting
<1>2. /\ exposures' = exposures /\ spoilt' = spoilt /\ calls' = calls
      /\ summary' = summary /\ version' = version
  BY DEF Record, world
<1>3. /\ journal' = Append(journal, Row("ended", s, b))
      /\ index' = [index EXCEPT ![s] = b]
  BY DEF Record
<1>4. proc' \in Processes /\ proc'.pc \in {"next", "closing"}
      /\ (worker' = NoWorker \/ worker' = worker)
  <2>1. proc.result.error \in Errors
    BY <1>1 DEF Processes, Results
  <2>2. \/ \E cause \in Errors : Stop(cause)
        \/ proc' = [proc EXCEPT !.pc = "next"] /\ worker' = worker
    BY <2>1 DEF Record, Errors
  <2> QED BY <1>1, <2>2 DEF Stop, Processes, Phases
<1>5. b \in BUCKETS /\ b # "open"
  BY <1>1 DEF Processes, Results, BUCKETS
<1> HIDE DEF s, b
<1>6. journal' \in Seq(Rows) /\ Table' = [Table EXCEPT ![s] = b]
  BY <1>1, <1>3, <1>5, TableOfEnd DEF Table
<1>7. Table' \in Tables /\ CallsOnRecord' /\ ReportsSettled'
  BY <1>1, <1>2, <1>5, <1>6, RowKeepsRecords
<1>8. index' = Table'
  BY <1>1, <1>3, <1>6
<1>9. worker' \in Workers /\ WorkerOwes'
  <2>1. CASE worker' = NoWorker
    BY <2>1, ClosedOwesNothing
  <2>2. CASE worker' = worker
    BY <1>1, <1>4, <2>2 DEF RunInv, RunTypeOK, WorkerOwes
  <2> QED BY <1>4, <2>1, <2>2
<1>10. RunTypeOK' /\ JournalIsRead' /\ AttemptInHand'
  BY <1>1, <1>2, <1>4, <1>6, <1>7, <1>8, <1>9
  DEF RunInv, RunTypeOK, JournalIsRead, AttemptInHand, Attempting
<1> QED BY <1>7, <1>9, <1>10 DEF RunInv

-----------------------------------------------------------------------------
(* The report *)

\* A report that finds nothing interrupted and nothing left has counted every slot.
LEMMA SettledByNumbers ==
  ASSUME NEW table \in Tables
  PROVE  /\ NotStarted(table) \in Int /\ Number(table, "none") \in Int
         /\ NotStarted(table) = 0 /\ Interrupted(table) = 0 => SettledIn(table)
<1> DEFINE settled == {s \in Slots : table[s] \in BUCKETS \ {"interrupted"}}
<1>1. \A status : Number(table, status) \in Nat
  <2> SUFFICES ASSUME NEW status PROVE Number(table, status) \in Nat
    OBVIOUS
  <2>1. IsFiniteSet({s \in Slots : table[s] = status})
    BY RunAssumption, FS_Subset
  <2> QED BY <2>1, FS_CardinalityType DEF Number
<1>2. /\ IsFiniteSet(Slots) /\ settled \in SUBSET Slots
      /\ Cardinality(settled) \in Nat /\ Cardinality(Slots) \in Nat
      /\ (Cardinality(Slots) = Cardinality(settled) => settled = Slots)
  <2>1. IsFiniteSet(Slots) /\ settled \in SUBSET Slots
    BY RunAssumption
  <2>2. IsFiniteSet(settled)
    BY <2>1, FS_Subset
  <2> HIDE DEF settled
  <2> QED BY <2>1, <2>2, FS_Subset, FS_CardinalityType
<1>3. Interrupted(table) \in Nat
  BY <1>1 DEF Interrupted
<1>4. NotStarted(table) = Cardinality(Slots) - Interrupted(table) - Cardinality(settled)
  BY DEF NotStarted
<1> HIDE DEF settled
<1>5. NotStarted(table) = 0 /\ Interrupted(table) = 0 => settled = Slots
  BY <1>2, <1>3, <1>4
<1>6. settled = Slots => SettledIn(table)
  BY DEF settled, SettledIn
<1> QED BY <1>1, <1>2, <1>3, <1>4, <1>5, <1>6

\* What the report reads.
LEMMA ReadAttemptsKeeps == RunInv /\ ReadAttempts => RunInv'
<1> SUFFICES ASSUME RunInv, ReadAttempts PROVE RunInv'
  OBVIOUS
<1>1. /\ UNCHANGED <<journal, exposures, spoilt, proc, index, worker, calls, version>>
      /\ summary' = [status |-> "reading",
                     settled |-> NotStarted(Table) = 0 /\ Interrupted(Table) = 0,
                     hidden |-> NotStarted(Table) - Number(Table, "none")]
  BY DEF ReadAttempts, disk, memory, world, Table
<1>2. Table \in Tables /\ Table' = Table
  BY <1>1 DEF RunInv, JournalIsRead, Table
<1>3. ReportsSettled'
  <2> DEFINE known == NotStarted(Table) = 0 /\ Interrupted(Table) = 0
             difference == NotStarted(Table) - Number(Table, "none")
  <2>1. known \in BOOLEAN /\ (known => SettledIn(Table)) /\ difference \in Int
    BY <1>2, SettledByNumbers
  <2>2. summary' = [status |-> "reading", settled |-> known, hidden |-> difference]
    BY <1>1
  <2> HIDE DEF known, difference
  <2>3. summary' \in Reports
    BY <2>1, <2>2 DEF Reports
  <2>4. summary'.status = "reading" /\ summary'.settled = known
    BY <2>2
  <2>5. SettledIn(Table)' <=> SettledIn(Table)
    BY <1>2 DEF SettledIn
  <2>6. summary'.settled => SettledIn(Table)'
    BY <2>1, <2>4, <2>5
  <2> QED BY <2>3, <2>4, <2>6 DEF ReportsSettled
<1>4. RunTypeOK' /\ JournalIsRead' /\ AttemptInHand' /\ CallsOnRecord' /\ WorkerOwes'
  BY <1>1, <1>2
  DEF RunInv, RunTypeOK, JournalIsRead, AttemptInHand, CallsOnRecord, WorkerOwes
<1> QED BY <1>3, <1>4 DEF RunInv

\* What it says of that.
LEMMA SummariseKeeps == RunInv /\ Summarise => RunInv'
<1> SUFFICES ASSUME RunInv, Summarise PROVE RunInv'
  OBVIOUS
<1>1. /\ UNCHANGED <<journal, exposures, spoilt, proc, index, worker, calls, version>>
      /\ summary # None /\ summary' = [summary EXCEPT !.status = Status(summary.settled)]
  BY DEF Summarise, disk, memory, world
<1>2. Table' = Table
  BY <1>1 DEF Table
<1>3. summary \in Reports /\ (summary.settled => SettledIn(Table))
  BY <1>1 DEF RunInv, ReportsSettled
<1>4. /\ Status(summary.settled) \in {"STOPPED", "COMPLETED", "PARTIAL"}
      /\ Status(summary.settled) = "COMPLETED" => summary.settled
  BY DEF Status
<1>5. summary' \in Reports /\ summary'.settled = summary.settled
      /\ summary'.status = Status(summary.settled)
  BY <1>1, <1>3, <1>4 DEF Reports
<1>6. ReportsSettled'
  BY <1>2, <1>3, <1>4, <1>5 DEF ReportsSettled
<1>7. RunTypeOK' /\ JournalIsRead' /\ AttemptInHand' /\ CallsOnRecord' /\ WorkerOwes'
  BY <1>1, <1>2
  DEF RunInv, RunTypeOK, JournalIsRead, AttemptInHand, CallsOnRecord, WorkerOwes
<1> QED BY <1>6, <1>7 DEF RunInv

-----------------------------------------------------------------------------
(* Theorems *)

\* Nothing changes.
LEMMA RunStutters == RunInv /\ UNCHANGED vars => RunInv'
<1> SUFFICES ASSUME RunInv, UNCHANGED vars PROVE RunInv'
  OBVIOUS
<1>1. /\ UNCHANGED <<journal, exposures, spoilt, proc, index, worker, calls, version, summary>>
  BY DEF vars, disk, memory, world
<1>2. Table' = Table
  BY <1>1 DEF Table
<1> QED BY <1>1, <1>2
     DEF RunInv, RunTypeOK, JournalIsRead, AttemptInHand, CallsOnRecord, WorkerOwes,
         ReportsSettled

\* The invariant holds of every run of execute, over crashes and resumes.
THEOREM RunInvariance == Spec => []RunInv
<1>1. Init => RunInv
  BY RunInvInitially
<1>2. RunInv /\ [Next]_vars => RunInv'
  BY StartKeeps, SaveRuntimeKeeps, SegmentKeeps, RecoverKeeps, BeginSlotKeeps, WithholdKeeps,
     ExposeKeeps, GivingUpKeeps, LoadKeeps, RequestKeeps, ReceiveKeeps, RecordKeeps,
     WorkerAnswersKeeps, CrashKeeps, WriteFailsKeeps, WorldKeeps, ReadAttemptsKeeps,
     SummariseKeeps, RunStutters
  DEF Next, RunStep
<1> QED BY <1>1, <1>2, PTL DEF Spec

\* Incomplete lines come of faults, and the row that follows one takes its place.
LEMMA SpoiltByFaultsKept == SpoiltByFaults /\ [Next]_vars => SpoiltByFaults'
<1> SUFFICES ASSUME SpoiltByFaults, [Next]_vars PROVE SpoiltByFaults'
  OBVIOUS
<1>1. Cardinality(spoilt) \in Nat
  BY FS_CardinalityType DEF SpoiltByFaults
<1>2. CASE UNCHANGED <<spoilt, ragged, faults>>
  BY <1>2 DEF SpoiltByFaults
<1>3. CASE Expose
  <2>1. CASE ~ragged /\ UNCHANGED spoilt
    BY <1>3, <2>1 DEF Expose, SpoiltByFaults, world
  <2>2. CASE ragged /\ spoilt' = spoilt \cup {InputOf[proc.slot]}
    <3>1. /\ IsFiniteSet(spoilt')
          /\ Cardinality(spoilt') \in {Cardinality(spoilt), Cardinality(spoilt) + 1}
      BY <2>2, FS_AddElement DEF SpoiltByFaults
    <3>2. faults' = faults /\ ragged' = FALSE
      BY <1>3 DEF Expose, world
    <3>3. faults \in Nat /\ Cardinality(spoilt) < faults
      BY <2>2 DEF SpoiltByFaults
    <3>4. Cardinality(spoilt') <= faults'
      BY <1>1, <3>1, <3>2, <3>3
    <3> QED BY <3>1, <3>2, <3>3, <3>4 DEF SpoiltByFaults
  <2> QED BY <1>3, <2>1, <2>2 DEF Expose
<1>4. CASE Crash \/ WriteFails
  <2>1. spoilt' = spoilt /\ faults' = faults + 1 /\ ragged' \in BOOLEAN
    BY <1>4 DEF Crash, WriteFails, Fault, SpoiltByFaults
  <2> QED BY <1>1, <2>1 DEF SpoiltByFaults
<1>5. CASE Start \/ Resume \/ SaveRuntime \/ BeginSegment \/ Recover \/ AllDone \/ StopHere
           \/ BeginSlot \/ Withhold
  BY <1>2, <1>5 DEF Start, Resume, SaveRuntime, BeginSegment, Recover, AllDone, StopHere,
                    BeginSlot, Withhold, disk, world
<1>6. CASE ExpiredHere \/ Load \/ Request \/ Receive \/ GiveUp \/ CancelHere \/ Record
           \/ EndSegment
  BY <1>2, <1>6 DEF ExpiredHere, Load, Request, Receive, GiveUp, CancelHere, Record,
                    EndSegment, disk, world
<1>7. CASE WorkerAnswers \/ Edit \/ Expire \/ CancelFile \/ ReadAttempts \/ Summarise
           \/ UNCHANGED vars
  BY <1>2, <1>7 DEF WorkerAnswers, Edit, Expire, CancelFile, ReadAttempts, Summarise,
                    vars, disk, world
<1> QED BY <1>3, <1>4, <1>5, <1>6, <1>7 DEF Next, RunStep

\* A fault spoils one exposure row at most.
THEOREM SpoiltInvariance == Spec => []SpoiltByFaults
<1>1. Init => SpoiltByFaults
  <2> SUFFICES ASSUME Init PROVE SpoiltByFaults
    OBVIOUS
  <2>1. spoilt = {} /\ ~ragged /\ ragged \in BOOLEAN /\ faults = 0
    BY DEF Init
  <2>2. IsFiniteSet(spoilt) /\ Cardinality(spoilt) = 0
    BY <2>1, FS_EmptySet
  <2>3. Cardinality(spoilt) <= faults /\ faults \in Nat
    BY <2>1, <2>2
  <2> QED BY <2>1, <2>2, <2>3 DEF SpoiltByFaults
<1> QED BY <1>1, SpoiltByFaultsKept, PTL DEF Spec

\* A slot and the model meet at most once, on record as exposed but for one row at most
\* for each fault, and the answer taken for a slot is its own, whatever crashes, full
\* disks, cancels and late answers there are (explore_run.py).
THEOREM SlotsMeetTheModelOnce == Spec => []OneExchangePerSlot
<1>1. RunInv /\ SpoiltByFaults => OneExchangePerSlot
  BY RunInvImplies
<1> QED BY <1>1, RunInvariance, SpoiltInvariance, PTL

\* A report that says COMPLETED is of slots that all have known results, also when the
\* run goes on between its two readings of the journal (explore_report.py).
THEOREM ReportsOfCompletion == Spec => []CompletedIsComplete
<1>1. RunInv /\ SpoiltByFaults => CompletedIsComplete
  BY RunInvImplies
<1> QED BY <1>1, RunInvariance, SpoiltInvariance, PTL

-----------------------------------------------------------------------------
(* What a worker may answer *)

Outcomes == {"suggested", "unknown", "no_match"}

\* What an answer names as its first candidates.
InitialOf(a) == IF a.initial = Nothing THEN a.routed ELSE a.initial

\* What prediction and the report can rely on.
Sound(scheme, a) ==
  /\ a.kind = "prediction" /\ a.status \in {"ok", "error"}
  /\ a.routed \subseteq Allowed(scheme) \cup (IF scheme = "A" THEN {Sentinel} ELSE {})
  /\ a.available \subseteq a.routed /\ InitialOf(a) \subseteq a.routed
  /\ a.reasons = {} \/ \E r \in a.available \cap Allowed(scheme) : a.reasons = {r}
  /\ a.status = "ok" => a.outcome \in Outcomes /\ (a.reasons # {} <=> a.outcome = "suggested")
  /\ a.status = "error" => a.outcome = Nothing /\ a.reasons = {} /\ a.error = "unlisted"
  /\ scheme = "A" \/ a.route # Nothing \/ (a.routed = {} /\ a.status = "error")

\* The decision on one set of candidates.
LEMMA DecidedIsSound ==
  ASSUME NEW scheme \in {"B", "C"}, NEW route, route # Nothing,
         NEW routed \in SUBSET POOL, NEW initial \in SUBSET routed, NEW available \in SUBSET routed,
         NEW a \in Decided(initial, route, routed, available)
  PROVE  Sound(scheme, a)
<1>1. Allowed(scheme) = POOL
  BY DEF Allowed
<1>2. CASE \E r \in available : a = Answer(route, initial, routed, available, "ok", "suggested", {r})
  BY <1>1, <1>2 DEF Answer, Sound, InitialOf, Outcomes
<1>3. CASE a = Answer(route, initial, routed, available, "ok", "unknown", {})
  BY <1>1, <1>3 DEF Answer, Sound, InitialOf, Outcomes
<1>4. CASE a = Answer(route, initial, routed, available, "ok", "no_match", {})
  BY <1>1, <1>4 DEF Answer, Sound, InitialOf, Outcomes
<1>5. CASE a \in Failed(route, initial, routed, available)
  BY <1>1, <1>5 DEF Failed, Answer, Sound, InitialOf, Outcomes
<1> QED BY <1>2, <1>3, <1>4, <1>5 DEF Decided

\* Candidates are of the pool, and the second try has all of it.
LEMMA CandidatesOfPool ==
  /\ \A scheme \in {"B", "C"} : \A route : Candidates(scheme, route) \subseteq POOL
  /\ Candidates("C", "mixed") = POOL
  /\ \A reasons, evidence : Ready(reasons, evidence) \subseteq reasons
BY DEF Candidates, Ready

\* Both tries of a scheme with routes.
LEMMA InferredIsSound ==
  ASSUME NEW scheme \in {"B", "C"}, NEW route, route # Nothing, NEW evidence,
         NEW a \in Inferred(scheme, route, evidence)
  PROVE  Sound(scheme, a)
<1> DEFINE routed == Candidates(scheme, route)
           first == Decided(routed, route, routed, Ready(routed, evidence))
           again == Candidates("C", "mixed")
<1>1. a \in first \/ (scheme = "C" /\ a \in Fallback(routed, evidence))
  BY DEF Inferred
<1>2. routed \in SUBSET POOL /\ Ready(routed, evidence) \in SUBSET routed
  BY CandidatesOfPool
<1>3. CASE a \in first
  <2> HIDE DEF routed
  <2> QED BY <1>2, <1>3, DecidedIsSound
<1>4. CASE scheme = "C" /\ a \in Fallback(routed, evidence)
  <2>1. a \in Decided(routed, "general", again, Ready(again, evidence))
    BY <1>4 DEF Fallback
  <2>2. again \in SUBSET POOL /\ routed \in SUBSET again /\ Ready(again, evidence) \in SUBSET again
    BY <1>2, CandidatesOfPool
  <2>3. "general" # Nothing
    BY ManifestAssumption
  <2> HIDE DEF routed, again
  <2> QED BY <2>1, <2>2, <2>3, DecidedIsSound
<1> QED BY <1>1, <1>3, <1>4

\* Every answer of every scheme.
LEMMA AnswersAreSound ==
  ASSUME NEW scheme \in SCHEMES, NEW evidence, NEW a \in InferScheme(scheme, evidence)
  PROVE  Sound(scheme, a)
<1> DEFINE all == Candidates("A", Nothing)
<1>1. CASE scheme = "A"
  <2>1. all = LEGACY \cup {Sentinel} /\ Allowed("A") = LEGACY
    BY DEF Candidates, Allowed
  <2>2. \/ \E r \in LEGACY : a = Answer(Nothing, Nothing, all, all, "ok", "suggested", {r})
        \/ a = Answer(Nothing, Nothing, all, all, "ok", "unknown", {})
        \/ a = [Answer(Nothing, Nothing, all, all, "error", Nothing, {}) EXCEPT !.error = "unlisted"]
    BY <1>1 DEF InferScheme, Failed
  <2> HIDE DEF all
  <2> QED BY <1>1, <2>1, <2>2 DEF Answer, Sound, InitialOf, Outcomes
<1>2. CASE scheme = "B"
  <2>1. (\E route \in {"code", "general"} : a \in Inferred("B", route, evidence))
          \/ a \in Failed(Nothing, Nothing, {}, {})
    BY <1>2 DEF InferScheme
  <2>2. ASSUME NEW route \in {"code", "general"}, a \in Inferred("B", route, evidence)
        PROVE  Sound("B", a)
    <3>1. route # Nothing
      BY ManifestAssumption
    <3> QED BY <2>2, <3>1, InferredIsSound
  <2>3. ASSUME a \in Failed(Nothing, Nothing, {}, {})
        PROVE  Sound("B", a)
    BY <2>3 DEF Failed, Answer, Sound, InitialOf, Outcomes
  <2> QED BY <1>2, <2>1, <2>2, <2>3
<1>3. CASE scheme = "C"
  <2>1. (\E route \in TASK_TYPES : a \in Inferred("C", route, evidence))
          \/ a \in Failed(Nothing, Nothing, {}, {})
    BY <1>3 DEF InferScheme
  <2>2. ASSUME NEW route \in TASK_TYPES, a \in Inferred("C", route, evidence)
        PROVE  Sound("C", a)
    <3>1. route # Nothing
      BY ManifestAssumption
    <3> QED BY <2>2, <3>1, InferredIsSound
  <2>3. ASSUME a \in Failed(Nothing, Nothing, {}, {})
        PROVE  Sound("C", a)
    BY <2>3 DEF Failed, Answer, Sound, InitialOf, Outcomes
  <2> QED BY <1>3, <2>1, <2>2, <2>3
<1> QED BY <1>1, <1>2, <1>3 DEF SCHEMES

-----------------------------------------------------------------------------
(* What is kept of it *)

\* A sound answer never costs the run its candidates.
LEMMA SoundIsNotRefused ==
  ASSUME NEW slot, slot[2] \in SCHEMES, NEW a, Sound(slot[2], a), NEW late
  PROVE  Refused(slot, a, late) # "candidates"
<1> DEFINE scheme == slot[2]
           row == RowOf(slot, a)
<1>1. /\ row.initial = InitialOf(a) \cap Allowed(scheme)
      /\ row.routed = a.routed \cap Allowed(scheme)
      /\ row.available = a.available \cap Allowed(scheme)
      /\ row.reasons = IF a.status = "ok" THEN a.reasons \cap Allowed(scheme) ELSE {}
  BY DEF RowOf, Blank, Kept, InitialOf
<1>2. Nested(row)
  BY <1>1 DEF Nested, Sound
<1>3. a.status = "ok" => (row.reasons # {} <=> a.outcome = "suggested")
  BY <1>1 DEF Sound
<1>4. a.routed \cup a.available \cup a.reasons
        \subseteq Allowed(scheme) \cup (IF scheme = "A" THEN {Sentinel} ELSE {})
  BY DEF Sound
<1>5. Nothing # "candidates"
  BY ManifestAssumption
<1> HIDE DEF row
<1> QED BY <1>2, <1>3, <1>4, <1>5 DEF Refused, row

\* The rows that prediction can write.
Predictions ==
  [sample : Nat, scheme : SCHEMES, status : {"ok", "error", "ineligible"},
   error : ERRORS \cup {Nothing, "material_unavailable", "input_budget_exceeded"},
   outcome : Outcomes \cup {Nothing}, route : {"success", "failed", "not_attempted"},
   initial : SUBSET (POOL \cup LEGACY), routed : SUBSET (POOL \cup LEGACY),
   available : SUBSET (POOL \cup LEGACY), reasons : SUBSET (POOL \cup LEGACY)]

\* A sample by its number, under a scheme.
AnySlot == Nat \X SCHEMES

\* What a scheme allows is of one of the two libraries.
LEMMA AllowedIsKnown == \A scheme \in SCHEMES : Allowed(scheme) \subseteq POOL \cup LEGACY
BY DEF Allowed, SCHEMES

\* The row of a slot that was never answered.
LEMMA BlankIsPrediction ==
  ASSUME NEW slot \in AnySlot
  PROVE  Blank(slot) \in Predictions
<1>1. slot[1] \in Nat /\ slot[2] \in SCHEMES
  BY DEF AnySlot
<1> QED BY <1>1 DEF Blank, Predictions, ERRORS

\* The row of an answer is one that the report accepts.
LEMMA RowOfIsValid ==
  ASSUME NEW slot \in AnySlot, NEW a, Sound(slot[2], a), Eligible(inputs[slot[1]])
  PROVE  /\ RowOf(slot, a) \in Predictions /\ Valid(RowOf(slot, a))
         /\ RowOf(slot, a).sample = slot[1] /\ RowOf(slot, a).scheme = slot[2]
<1> DEFINE scheme == slot[2]
           row == RowOf(slot, a)
<1>1. slot[1] \in Nat /\ scheme \in SCHEMES
  BY DEF AnySlot
<1>2. /\ row = [sample |-> slot[1], scheme |-> scheme, status |-> row.status, error |-> row.error,
               outcome |-> row.outcome, route |-> row.route, initial |-> row.initial,
               routed |-> row.routed, available |-> row.available, reasons |-> row.reasons]
      /\ row.initial = InitialOf(a) \cap Allowed(scheme)
      /\ row.routed = a.routed \cap Allowed(scheme)
      /\ row.available = a.available \cap Allowed(scheme)
      /\ row.reasons = IF a.status = "ok" THEN a.reasons \cap Allowed(scheme) ELSE {}
      /\ row.route = IF scheme = "A" \/ a.route # Nothing THEN "success" ELSE "failed"
      /\ row.status = a.status /\ row.outcome = a.outcome
      /\ row.error = IF a.status = "ok" THEN Nothing ELSE Listed(a.error)
  <2> DEFINE route == IF scheme = "A" \/ a.route # Nothing THEN "success" ELSE "failed"
             first == InitialOf(a) \cap Allowed(scheme)
             routed == a.routed \cap Allowed(scheme)
             available == a.available \cap Allowed(scheme)
             reasons == IF a.status = "ok" THEN a.reasons \cap Allowed(scheme) ELSE {}
             error == IF a.status = "ok" THEN Nothing ELSE Listed(a.error)
  <2>1. row = [Blank(slot) EXCEPT
                 !.route = route, !.initial = first, !.routed = routed, !.available = available,
                 !.reasons = reasons, !.status = a.status, !.outcome = a.outcome, !.error = error]
    BY DEF RowOf, Kept, InitialOf
  <2> HIDE DEF row, route, first, routed, available, reasons, error
  <2>2. row = [sample |-> slot[1], scheme |-> scheme, status |-> a.status, error |-> error,
               outcome |-> a.outcome, route |-> route, initial |-> first,
               routed |-> routed, available |-> available, reasons |-> reasons]
    BY <2>1 DEF Blank
  <2> QED BY <2>2 DEF route, first, routed, available, reasons, error
<1>3. row.sample = slot[1] /\ row.scheme = scheme
  BY DEF RowOf, Blank
<1> HIDE DEF row
<1>4. Listed("unlisted") = "invalid_response" /\ "invalid_response" \in ERRORS
  BY DEF Listed, ERRORS
<1>5. row.error \in ERRORS \cup {Nothing}
  BY <1>2, <1>4 DEF Sound
<1>6. row \in Predictions
  <2>1. /\ row.initial \in SUBSET (POOL \cup LEGACY) /\ row.routed \in SUBSET (POOL \cup LEGACY)
        /\ row.available \in SUBSET (POOL \cup LEGACY) /\ row.reasons \in SUBSET (POOL \cup LEGACY)
    BY <1>1, <1>2, AllowedIsKnown
  <2>2. /\ row.status \in {"ok", "error"} /\ row.outcome \in Outcomes \cup {Nothing}
        /\ row.route \in {"success", "failed"}
    BY <1>2 DEF Sound
  <2> QED BY <1>1, <1>2, <1>5, <2>1, <2>2 DEF Predictions
<1>7. Nested(row) /\ row.initial \cup row.routed \cup row.available \cup row.reasons \subseteq Allowed(scheme)
  BY <1>2 DEF Nested, Sound
<1>8. Cardinality(row.reasons) <= 1
  <2>1. row.reasons = {} \/ \E r \in row.reasons : row.reasons = {r}
    BY <1>2 DEF Sound
  <2>2. Cardinality(row.reasons) \in {0, 1}
    BY <2>1, FS_EmptySet, FS_Singleton
  <2> QED BY <2>2
<1>9. row.route = "success" \/ row.routed = {}
  BY <1>2 DEF Sound
<1>10. CASE row.status = "ok"
  <2>1. row.route = "success" /\ row.error = Nothing /\ row.outcome \in Outcomes
    BY <1>2, <1>10 DEF Sound
  <2>2. row.reasons # {} <=> row.outcome = "suggested"
    BY <1>2, <1>10 DEF Sound
  <2> QED BY <1>3, <1>6, <1>7, <1>8, <1>9, <1>10, <2>1, <2>2 DEF Valid, row, Outcomes
<1>11. CASE row.status = "error"
  <2>1. row.outcome = Nothing /\ row.reasons = {} /\ row.error \in ERRORS
    BY <1>2, <1>4, <1>11 DEF Sound
  <2> QED BY <1>3, <1>6, <1>7, <1>8, <1>9, <1>11, <2>1 DEF Valid, row
<1> QED BY <1>2, <1>10, <1>11 DEF Sound

\* What is written without an answer is accepted too.
LEMMA PredictedIsValid ==
  ASSUME NEW slot \in AnySlot, NEW response,
         Eligible(inputs[slot[1]]) => response \in Responses(slot[2], inputs[slot[1]].evidence)
  PROVE  /\ Predicted(slot, response) \in Predictions /\ Valid(Predicted(slot, response))
         /\ Predicted(slot, response).sample = slot[1]
         /\ Predicted(slot, response).scheme = slot[2]
<1> DEFINE sample == inputs[slot[1]]
           row == Predicted(slot, response)
<1>1. slot[1] \in Nat /\ slot[2] \in SCHEMES
  BY DEF AnySlot
<1>2. Cardinality({}) = 0
  BY FS_EmptySet
<1>3. CASE ~Eligible(sample)
  <2> DEFINE error == IF sample.budget THEN "material_unavailable" ELSE "input_budget_exceeded"
  <2>1. row = [Blank(slot) EXCEPT !.status = "ineligible", !.route = "not_attempted",
                                  !.error = error]
    BY <1>3 DEF Predicted
  <2>2. row \in Predictions
    BY <2>1, BlankIsPrediction DEF Predictions
  <2>3. /\ row.sample = slot[1] /\ row.scheme = slot[2] /\ row.status = "ineligible"
        /\ row.outcome = Nothing /\ row.route = "not_attempted" /\ row.error = error
        /\ row.initial = {} /\ row.routed = {} /\ row.available = {} /\ row.reasons = {}
    BY <2>1 DEF Blank
  <2>4. \/ error = "input_budget_exceeded" /\ ~sample.budget
        \/ error = "material_unavailable" /\ ~sample.material
    BY <1>3 DEF Eligible
  <2> HIDE DEF row, error
  <2>5. Valid(row)
    BY <1>2, <2>3, <2>4 DEF Valid, Nested
  <2> QED BY <2>2, <2>3, <2>5 DEF row
<1>4. CASE Eligible(sample) /\ response \in InferScheme(slot[2], sample.evidence)
  <2>1. Sound(slot[2], response)
    BY <1>1, <1>4, AnswersAreSound
  <2>2. row = RowOf(slot, response)
    BY <1>4, <2>1 DEF Predicted, Sound
  <2> QED BY <1>4, <2>1, <2>2, RowOfIsValid
<1>5. CASE /\ Eligible(sample)
           /\ response \in {[kind |-> "error", error |-> e] :
                              e \in {"timeout", "model_load_failed", "uncaught_error", "unlisted"}}
                           \cup {[kind |-> "garbage"], [kind |-> "sandbox"]}
  <2> DEFINE Blanked(r) ==
               /\ r \in Predictions /\ r.sample = slot[1] /\ r.scheme = slot[2]
               /\ r.status = "error" /\ r.outcome = Nothing /\ r.error \in ERRORS
               /\ r.initial = {} /\ r.routed = {} /\ r.available = {} /\ r.reasons = {}
  <2>1. Blanked(Blank(slot))
    <3>1. Blank(slot) \in Predictions
      BY BlankIsPrediction
    <3> QED BY <3>1 DEF Blank, ERRORS
  <2>2. Blanked(row)
    <3>1. CASE \E e : response = [kind |-> "error", error |-> e]
      <4>1. PICK e : response = [kind |-> "error", error |-> e]
        BY <3>1
      <4> DEFINE route == IF e = "model_load_failed" THEN "not_attempted" ELSE Blank(slot).route
      <4>2. row = [Blank(slot) EXCEPT !.error = Listed(e), !.route = route]
        BY <1>5, <4>1 DEF Predicted
      <4>3. Listed(e) \in ERRORS /\ route \in {"failed", "not_attempted"}
        BY DEF Listed, ERRORS, Blank
      <4> HIDE DEF row, route
      <4>4. row \in Predictions
        BY <4>2, <4>3, <2>1 DEF Predictions
      <4> QED BY <4>2, <4>3, <4>4, <2>1 DEF Predictions
    <3>2. CASE response.kind \in {"garbage", "sandbox"}
      <4>1. row = Blank(slot)
        BY <1>5, <3>2 DEF Predicted
      <4> HIDE DEF row
      <4> QED BY <4>1, <2>1
    <3> QED BY <1>5, <3>1, <3>2
  <2>3. /\ row \in Predictions /\ row.sample = slot[1] /\ row.scheme = slot[2]
        /\ row.status = "error" /\ row.outcome = Nothing /\ row.error \in ERRORS
        /\ row.initial = {} /\ row.routed = {} /\ row.available = {} /\ row.reasons = {}
    BY <2>2
  <2> HIDE DEF row
  <2>4. Valid(row)
    BY <1>2, <2>3 DEF Valid, Nested
  <2> QED BY <2>3, <2>4 DEF row
<1> QED BY <1>3, <1>4, <1>5 DEF Responses

-----------------------------------------------------------------------------
(* The inductive invariant *)

ReplayPhases == {"off", "probing", "refused", "ready", "asking", "answered", "stopped", "reported",
           "unreported"}

ReplayTypeOK ==
  /\ inputs \in Inputs /\ schedule \in Schedules[Len(inputs)]
  /\ replay = [phase |-> replay.phase, started |-> replay.started, response |-> replay.response,
               late |-> replay.late, made |-> replay.made, cause |-> replay.cause]
  /\ replay.phase \in ReplayPhases /\ replay.started \in Nat
  /\ rows \in Seq(Predictions)
  /\ moment \in Nat /\ source \in {"frozen", "changed"} /\ file \in {"admitted", "changed"}

\* The rows are those of the schedule, as far as the run has come, and all acceptable.
RowsKept ==
  /\ Len(rows) <= Len(schedule)
  /\ \A i \in 1..Len(rows) :
       /\ Valid(rows[i])
       /\ rows[i].sample = schedule[i][1] /\ rows[i].scheme = schedule[i][2]

\* The slot under way, and what is known of its answer.
UnderWay ==
  /\ replay.phase \in {"asking", "answered"} => Len(rows) < Len(schedule)
  /\ replay.phase \in {"off", "probing", "ready", "asking"} => replay.response = Nothing
  /\ replay.phase = "answered" =>
       LET sample == inputs[Slot[1]] IN
       IF Eligible(sample) THEN replay.response \in Responses(Slot[2], sample.evidence)
       ELSE replay.response = Nothing

\* The papers were in order when the run began, and its answer came after that.
Times(started) == Confirmed < started /\ Sealed < started /\ started < Expires

InOrder ==
  /\ replay.phase \notin {"off", "probing", "refused"} =>
       Times(replay.started) /\ replay.started <= moment
  /\ replay.phase = "answered" =>
       /\ replay.made[1] \in Nat /\ replay.started <= replay.made[1] /\ replay.made[1] <= moment
       /\ source = "frozen" => replay.made[2] = "frozen"

\* What is said of the run in the end.
EndIsTrue ==
  /\ replay.cause # "candidates"
  /\ replay.phase = "unreported" => file = "changed"
  /\ replay.phase = "reported" => ValidPredictions

ReplayInv == ReplayTypeOK /\ RowsKept /\ UnderWay /\ InOrder /\ EndIsTrue

\* The slot that comes next is one of the manifest.
LEMMA SlotIsSlot ==
  ASSUME ReplayTypeOK, NEW i \in 1..Len(schedule)
  PROVE  schedule \in Seq(AnySlot) /\ schedule[i] \in AnySlot /\ schedule[i][2] \in SCHEMES
<1>1. schedule \in Seq((1..Len(inputs)) \X SCHEMES)
  BY ManifestAssumption DEF ReplayTypeOK
<1>2. schedule[i] \in (1..Len(inputs)) \X SCHEMES
  BY <1>1
<1>3. (1..Len(inputs)) \X SCHEMES \subseteq AnySlot
  BY DEF AnySlot
<1>4. schedule \in Seq(AnySlot)
  BY <1>1, <1>3
<1> QED BY <1>2, <1>4 DEF AnySlot

\* The beginning.
LEMMA ReplayInvInitially == ReplayInit => ReplayInv
<1> SUFFICES ASSUME ReplayInit PROVE ReplayInv
  OBVIOUS
<1>1. schedule \in Seq((1..Len(inputs)) \X SCHEMES)
  BY ManifestAssumption DEF ReplayInit
<1>2. Nothing # "candidates" /\ Declared \in Nat
  BY ManifestAssumption, PapersAssumption
<1>3. ReplayTypeOK
  BY <1>2, PapersAssumption DEF ReplayInit, ReplayTypeOK, NotBegun, ReplayPhases
<1>4. Len(rows) = 0 /\ Len(schedule) \in Nat
  BY <1>1 DEF ReplayInit
<1>5. RowsKept
  BY <1>4 DEF RowsKept
<1> QED BY <1>2, <1>3, <1>5
     DEF ReplayInv, ReplayInit, NotBegun, UnderWay, InOrder, EndIsTrue

-----------------------------------------------------------------------------
(* The steps that keep the rows *)

\* Rows that stay are as good as they were.
LEMMA RowsRest ==
  ASSUME RowsKept, UNCHANGED <<inputs, schedule, rows>>
  PROVE  RowsKept'
BY DEF RowsKept, Valid, Eligible

\* Before the first slot.
LEMMA BeginningKeeps == ReplayInv /\ (Begin \/ BeginSlots) => ReplayInv'
<1> SUFFICES ASSUME ReplayInv, Begin \/ BeginSlots PROVE ReplayInv'
  OBVIOUS
<1>1. UNCHANGED <<inputs, schedule, rows, moment, source, file>>
  BY DEF Begin, BeginSlots, setting
<1>2. RowsKept'
  BY <1>1, RowsRest DEF ReplayInv
<1>3. CASE Begin
  <2>1. /\ replay.phase = "off" /\ replay'.phase \in {"probing", "refused"}
        /\ \E phase \in {"probing", "refused"} : replay' = [replay EXCEPT !.phase = phase]
    BY <1>3 DEF Begin, ReplayInv, ReplayTypeOK
  <2> QED BY <1>1, <1>2, <2>1
       DEF ReplayInv, ReplayTypeOK, ReplayPhases, UnderWay, InOrder, EndIsTrue
<1>4. CASE BeginSlots
  <2>1. PICK phase \in {"ready", "refused"} :
          /\ replay' = [replay EXCEPT !.started = moment, !.phase = phase]
          /\ phase = "ready" => CheckSetup(moment)
    BY <1>4 DEF BeginSlots
  <2>2. replay.phase = "probing" /\ moment \in Nat
    BY <1>4 DEF BeginSlots, ReplayInv, ReplayTypeOK
  <2>3. /\ replay'.phase = phase /\ replay'.started = moment
        /\ replay'.response = replay.response /\ replay'.cause = replay.cause
    BY <2>1 DEF ReplayInv, ReplayTypeOK
  <2>4. ReplayTypeOK'
    BY <1>1, <2>1, <2>2 DEF ReplayInv, ReplayTypeOK, ReplayPhases
  <2>5. InOrder'
    BY <1>1, <2>1, <2>2, <2>3 DEF InOrder, CheckSetup, Times
  <2>6. UnderWay' /\ EndIsTrue'
    BY <2>1, <2>2, <2>3 DEF ReplayInv, UnderWay, EndIsTrue
  <2> QED BY <1>2, <2>4, <2>5, <2>6 DEF ReplayInv
<1> QED BY <1>3, <1>4

\* A run that stops keeps its rows and its reason, which is none of its candidates.
LEMMA StoppingKeeps ==
  ASSUME ReplayInv, NEW cause, cause # "candidates", StopReplay(cause),
         UNCHANGED <<inputs, schedule, setting>>,
         replay.phase \in {"ready", "asking", "answered"}
  PROVE  ReplayInv'
<1>1. UNCHANGED <<inputs, schedule, rows, moment, source, file>>
  BY DEF StopReplay, setting
<1>2. RowsKept'
  BY <1>1, RowsRest DEF ReplayInv
<1>3. /\ replay'.phase = "stopped" /\ replay'.cause = cause /\ replay'.started = replay.started
      /\ ReplayTypeOK'
  BY <1>1 DEF StopReplay, ReplayInv, ReplayTypeOK, ReplayPhases
<1> QED BY <1>1, <1>2, <1>3 DEF ReplayInv, UnderWay, InOrder, EndIsTrue

\* The reasons to stop that are none of the worker's.
LEMMA OtherCauses == "guard" # "candidates" /\ "sandbox" # "candidates"
OBVIOUS

\* A slot is begun under guard.
LEMMA StartSlotKeeps == ReplayInv /\ StartSlot => ReplayInv'
<1> SUFFICES ASSUME ReplayInv, StartSlot PROVE ReplayInv'
  OBVIOUS
<1>1. replay.phase = "ready" /\ Len(rows) < Len(schedule) /\ UNCHANGED <<inputs, schedule, setting>>
  BY DEF StartSlot
<1>2. CASE StopReplay("guard")
  BY <1>1, <1>2, OtherCauses, StoppingKeeps
<1>3. CASE replay' = [replay EXCEPT !.phase = "asking"] /\ UNCHANGED rows
  <2>1. UNCHANGED <<inputs, schedule, rows, moment, source, file>>
    BY <1>1, <1>3 DEF setting
  <2>2. RowsKept'
    BY <2>1, RowsRest DEF ReplayInv
  <2>3. /\ replay'.phase = "asking" /\ replay'.started = replay.started
        /\ replay'.response = replay.response /\ replay'.cause = replay.cause
        /\ ReplayTypeOK'
    BY <2>1, <1>3 DEF ReplayInv, ReplayTypeOK, ReplayPhases
  <2>4. UnderWay'
    BY <1>1, <2>1, <2>3 DEF ReplayInv, UnderWay
  <2> QED BY <1>1, <2>1, <2>2, <2>3, <2>4 DEF ReplayInv, InOrder, EndIsTrue
<1> QED BY <1>2, <1>3 DEF StartSlot

\* The answer is noted with the instant and the program it came from.
LEMMA InvokeKeeps == ReplayInv /\ Invoke => ReplayInv'
<1> SUFFICES ASSUME ReplayInv, Invoke PROVE ReplayInv'
  OBVIOUS
<1> DEFINE sample == inputs[Slot[1]]
<1>1. replay.phase = "asking" /\ UNCHANGED <<inputs, schedule, setting>>
  BY DEF Invoke
<1>2. CASE StopReplay("sandbox")
  BY <1>1, <1>2, OtherCauses, StoppingKeeps
<1>3. ASSUME NEW r, NEW late,
             IF Eligible(sample) THEN r \in Responses(Slot[2], sample.evidence) ELSE r = Nothing,
             replay' = [replay EXCEPT !.phase = "answered", !.response = r, !.late = late,
                                      !.made = <<moment, source>>],
             UNCHANGED rows
      PROVE  ReplayInv'
  <2>1. UNCHANGED <<inputs, schedule, rows, moment, source, file>>
    BY <1>1, <1>3 DEF setting
  <2>2. RowsKept'
    BY <2>1, RowsRest DEF ReplayInv
  <2>3. /\ replay'.phase = "answered" /\ replay'.started = replay.started
        /\ replay'.response = r /\ replay'.cause = replay.cause
        /\ replay'.made = <<moment, source>> /\ ReplayTypeOK'
    BY <2>1, <1>3 DEF ReplayInv, ReplayTypeOK, ReplayPhases
  <2>4. UnderWay'
    <3>1. Len(rows') < Len(schedule')
      BY <1>1, <2>1 DEF ReplayInv, UnderWay
    <3>2. (Eligible(sample) <=> Eligible(sample)') /\ Slot' = Slot /\ sample' = sample
      BY <2>1 DEF Eligible, Slot
    <3> QED BY <1>3, <2>3, <3>1, <3>2 DEF UnderWay
  <2>5. InOrder'
    BY <1>1, <2>1, <2>3 DEF ReplayInv, ReplayTypeOK, InOrder
  <2> QED BY <1>1, <2>1, <2>2, <2>3, <2>4, <2>5 DEF ReplayInv, EndIsTrue
<1>4. CASE /\ ~Eligible(sample) /\ UNCHANGED rows
           /\ replay' = [replay EXCEPT !.phase = "answered", !.made = <<moment, source>>]
  <2>1. replay.response = Nothing
    BY <1>1 DEF ReplayInv, UnderWay
  <2>2. replay' = [replay EXCEPT !.phase = "answered", !.response = Nothing, !.late = replay.late,
                                 !.made = <<moment, source>>]
    BY <1>4, <2>1 DEF ReplayInv, ReplayTypeOK
  <2> QED BY <1>3, <1>4, <2>2
<1>5. CASE Eligible(sample)
  <2>1. \/ StopReplay("sandbox")
        \/ \E r \in Responses(Slot[2], sample.evidence), late \in BOOLEAN :
             /\ replay' = [replay EXCEPT !.phase = "answered", !.response = r, !.late = late,
                                         !.made = <<moment, source>>]
             /\ UNCHANGED rows
    BY <1>5 DEF Invoke
  <2> QED BY <1>2, <1>3, <1>5, <2>1
<1> QED BY <1>4, <1>5 DEF Invoke

\* The world.
LEMMA MeanwhileKeeps ==
  ASSUME ReplayInv, Tick \/ EditSource \/ EditFile, UNCHANGED <<inputs, schedule, replay, rows>>
  PROVE  ReplayInv'
<1>1. RowsKept'
  BY RowsRest DEF ReplayInv
<1>2. ReplayTypeOK'
  BY DEF ReplayInv, ReplayTypeOK, Tick, EditSource, EditFile
<1>3. UnderWay'
  <2>1. Slot' = Slot
    BY DEF Slot
  <2> QED BY <2>1 DEF ReplayInv, UnderWay, Eligible
<1>4. moment \in Nat /\ moment <= moment' /\ (source' = "frozen" => source = "frozen")
      /\ (file = "changed" => file' = "changed")
  BY DEF ReplayInv, ReplayTypeOK, Tick, EditSource, EditFile
<1>5. InOrder'
  BY <1>2, <1>4 DEF ReplayInv, ReplayTypeOK, InOrder, Times
<1>6. EndIsTrue'
  BY <1>4 DEF ReplayInv, EndIsTrue, ValidPredictions, Valid, Eligible
<1> QED BY <1>1, <1>2, <1>3, <1>5, <1>6 DEF ReplayInv

-----------------------------------------------------------------------------
(* The row that is kept *)

\* Whatever was answered, the row is acceptable; a sound answer is not refused.
LEMMA FinishSlotKeeps == ReplayInv /\ FinishSlot => ReplayInv'
<1> SUFFICES ASSUME ReplayInv, FinishSlot PROVE ReplayInv'
  OBVIOUS
<1> DEFINE sample == inputs[Slot[1]]
           answered == replay.response # Nothing /\ replay.response.kind = "prediction"
           refused == IF answered THEN Refused(Slot, replay.response, replay.late) ELSE Nothing
           row == Predicted(Slot, replay.response)
<1>1. /\ replay.phase = "answered" /\ UNCHANGED <<inputs, schedule, setting>>
      /\ Len(rows) < Len(schedule) /\ rows \in Seq(Predictions)
  BY DEF FinishSlot, ReplayInv, ReplayTypeOK, UnderWay
<1>2. schedule \in Seq(AnySlot) /\ Slot \in AnySlot /\ Slot[2] \in SCHEMES
  <2>1. Len(schedule) \in Nat /\ Len(rows) \in Nat
    <3>1. schedule \in Seq((1..Len(inputs)) \X SCHEMES)
      BY ManifestAssumption DEF ReplayInv, ReplayTypeOK
    <3> QED BY <1>1, <3>1
  <2>2. Len(rows) + 1 \in 1..Len(schedule)
    BY <1>1, <2>1
  <2> QED BY <2>2, SlotIsSlot DEF Slot, ReplayInv
<1>3. Eligible(sample) => replay.response \in Responses(Slot[2], sample.evidence)
  BY <1>1 DEF ReplayInv, UnderWay
<1>4. refused # "candidates"
  <2>1. Nothing # "candidates"
    BY ManifestAssumption
  <2>2. ASSUME answered PROVE Refused(Slot, replay.response, replay.late) # "candidates"
    <3>1. Eligible(sample)
      BY <1>1, <2>2 DEF ReplayInv, UnderWay
    <3>2. replay.response \in InferScheme(Slot[2], sample.evidence)
      BY <1>3, <2>2, <3>1 DEF Responses
    <3>3. Sound(Slot[2], replay.response)
      BY <1>2, <3>2, AnswersAreSound
    <3> QED BY <1>2, <3>3, SoundIsNotRefused
  <2> QED BY <2>1, <2>2
<1>5. /\ row \in Predictions /\ Valid(row)
      /\ row.sample = Slot[1] /\ row.scheme = Slot[2]
  BY <1>2, <1>3, PredictedIsValid
<1> HIDE DEF refused, row, answered
<1>6. CASE StopReplay("guard") \/ StopReplay(refused)
  BY <1>1, <1>4, <1>6, OtherCauses, StoppingKeeps
<1>7. ASSUME NEW phase \in {"stopped", "ready"}, NEW cause \in {"uncaught", Nothing},
             rows' = Append(rows, row),
             replay' = [replay EXCEPT !.phase = phase, !.cause = cause,
                                      !.response = Nothing, !.late = FALSE, !.made = Nothing]
      PROVE  ReplayInv'
  <2>1. UNCHANGED <<inputs, schedule, moment, source, file>>
    BY <1>1 DEF setting
  <2>2. /\ replay'.phase = phase /\ replay'.started = replay.started
        /\ replay'.response = Nothing /\ replay'.cause = cause
    BY <1>7 DEF ReplayInv, ReplayTypeOK
  <2>3. rows' \in Seq(Predictions) /\ Len(rows') = Len(rows) + 1 /\ rows'[Len(rows) + 1] = row
        /\ \A i \in 1..Len(rows) : rows'[i] = rows[i]
    BY <1>1, <1>5, <1>7
  <2>4. ReplayTypeOK'
    BY <1>7, <2>1, <2>2, <2>3 DEF ReplayInv, ReplayTypeOK, ReplayPhases
  <2>5. RowsKept'
    <3>1. Len(rows) \in Nat /\ Len(schedule) \in Nat
      BY <1>1, <1>2
    <3>2. Len(rows') <= Len(schedule')
      BY <1>1, <2>1, <2>3, <3>1
    <3>3. ASSUME NEW i \in 1..Len(rows')
          PROVE  /\ Valid(rows[i])' /\ rows'[i].sample = schedule'[i][1]
                 /\ rows'[i].scheme = schedule'[i][2]
      <4>1. CASE i \in 1..Len(rows)
        <5>1. rows'[i] = rows[i] /\ Valid(rows[i])
          BY <2>3, <4>1 DEF ReplayInv, RowsKept
        <5>2. Valid(rows[i])'
          BY <2>1, <5>1 DEF Valid, Eligible
        <5> QED BY <2>1, <4>1, <5>1, <5>2 DEF ReplayInv, RowsKept
      <4>2. CASE i = Len(rows) + 1
        <5>1. rows'[i] = row
          BY <2>3, <4>2
        <5>2. Valid(rows[i])'
          BY <1>5, <2>1, <5>1 DEF Valid, Eligible
        <5> QED BY <1>5, <2>1, <4>2, <5>1, <5>2 DEF Slot
      <4> QED BY <2>3, <3>1, <4>1, <4>2
    <3> QED BY <3>2, <3>3 DEF RowsKept
  <2>6. UnderWay'
    BY <2>2 DEF UnderWay
  <2>7. InOrder'
    BY <1>1, <2>1, <2>2 DEF ReplayInv, InOrder
  <2>8. EndIsTrue'
    <3>1. Nothing # "candidates"
      BY ManifestAssumption
    <3> QED BY <1>7, <2>2, <3>1 DEF EndIsTrue
  <2> QED BY <2>4, <2>5, <2>6, <2>7, <2>8 DEF ReplayInv
<1>8. \/ StopReplay("guard") \/ StopReplay(refused)
      \/ \E phase \in {"stopped", "ready"}, cause \in {"uncaught", Nothing} :
           /\ rows' = Append(rows, row)
           /\ replay' = [replay EXCEPT !.phase = phase, !.cause = cause,
                                      !.response = Nothing, !.late = FALSE, !.made = Nothing]
  BY DEF FinishSlot, refused, row, answered
<1> QED BY <1>6, <1>7, <1>8

-----------------------------------------------------------------------------
(* The report *)

\* The reasons that would have been right for a row.
Gold(row, label) == IF row.scheme = "A" THEN label.legacy ELSE label.reasons
MetBy(row, label, reasons) == Gold(row, label) \cap reasons # {}

\* What each flag tells of a row and its label.
LEMMA FlagsTell ==
  ASSUME NEW row, NEW label
  PROVE  LET Flag(f) == f \in Flags(row, label)
             Met(reasons) == MetBy(row, label, reasons) IN
         /\ Flag("N")
         /\ Flag("D") <=> label.verdict = "defect"
         /\ Flag("covered") <=> Flag("D") /\ Met(Allowed(row.scheme))
         /\ Flag("routable") <=> Flag("covered") /\ row.route = "success"
         /\ Flag("S") <=> label.verdict # "unjudgeable" /\ row.reasons # {}
         /\ Flag("initial_omission") <=> Flag("routable") /\ ~Met(row.initial)
         /\ Flag("final_omission") <=> Flag("routable") /\ ~Met(row.routed)
         /\ Flag("route_unavailable") <=> Flag("covered") /\ row.route # "success"
         /\ Flag("material_unavailable") <=> Flag("D") /\ Met(row.routed) /\ ~Met(row.available)
         /\ Flag("hit") <=> Flag("D") /\ Met(row.reasons)
         /\ Flag("wrong_suggestion") <=>
              label.verdict # "unjudgeable" /\ row.reasons \ Gold(row, label) # {}
         /\ Flag("answerable") <=> Flag("D") /\ Met(row.available) /\ row.status = "ok"
         /\ Flag("wrong_selection") <=> Flag("answerable") /\ row.reasons # {} /\ ~Met(row.reasons)
         /\ Flag("answerable_abstention") <=>
              Flag("answerable") /\ row.outcome \in {"unknown", "no_match"}
         /\ Flag("unjudgeable") <=> label.verdict = "unjudgeable"
         /\ Flag("unjudgeable_suggestion") <=> label.verdict = "unjudgeable" /\ row.reasons # {}
         /\ Flag("budget_eligible") <=> inputs[row.sample].budget
         /\ Flag("technical_failure") <=> inputs[row.sample].budget /\ row.status = "error"
BY DEF Flags, Gold, MetBy, Reached

\* The rows of a scheme of which a flag is told.
Told(flag, scheme, labels) ==
  {i \in DOMAIN rows : rows[i].scheme = scheme /\ flag \in Flags(rows[i], labels[rows[i].sample])}

\* The rows told of can be counted.
LEMMA ToldIsFinite ==
  ASSUME ReplayTypeOK, NEW flag, NEW scheme, NEW labels
  PROVE  /\ IsFiniteSet(Told(flag, scheme, labels))
         /\ Count(flag, scheme, labels) = Cardinality(Told(flag, scheme, labels))
         /\ Count(flag, scheme, labels) \in Nat
<1>1. IsFiniteSet(1..Len(rows)) /\ DOMAIN rows = 1..Len(rows)
  <2>1. Len(rows) \in Nat /\ DOMAIN rows = 1..Len(rows)
    BY DEF ReplayTypeOK
  <2> QED BY <2>1, FS_Interval
<1>2. Told(flag, scheme, labels) \in SUBSET (1..Len(rows))
  BY <1>1 DEF Told
<1>3. IsFiniteSet(Told(flag, scheme, labels))
  BY <1>1, <1>2, FS_Subset
<1>4. Count(flag, scheme, labels) = Cardinality(Told(flag, scheme, labels))
  BY DEF Count, Told
<1> QED BY <1>3, <1>4, FS_CardinalityType

\* Of every ratio the part is told only where the whole is.
LEMMA PartsOfWholes ==
  ASSUME NEW row, NEW label, NEW pair \in Ratios, pair[1] \in Flags(row, label)
  PROVE  pair[2] \in Flags(row, label)
<1> DEFINE Flag(f) == f \in Flags(row, label)
<1>1. /\ Flag("N")
      /\ Flag("covered") => Flag("D")
      /\ Flag("initial_omission") \/ Flag("final_omission") => Flag("routable")
      /\ Flag("route_unavailable") => Flag("covered")
      /\ Flag("material_unavailable") \/ Flag("hit") => Flag("D")
      /\ Flag("wrong_selection") \/ Flag("answerable_abstention") => Flag("answerable")
      /\ Flag("technical_failure") => Flag("budget_eligible")
  BY FlagsTell
<1>2. Flag("wrong_suggestion") => Flag("S")
  BY FlagsTell
<1>3. Flag("unjudgeable_suggestion") => Flag("unjudgeable")
  BY FlagsTell
<1> HIDE DEF Flag
<1>4. Flag(pair[1])
  BY DEF Flag
<1>5. Flag(pair[2])
  BY <1>1, <1>2, <1>3, <1>4 DEF Ratios
<1> QED BY <1>5 DEF Flag

\* No ratio of a report has a part greater than its whole.
LEMMA AlwaysMeasurable ==
  ASSUME ReplayTypeOK, NEW labels
  PROVE  Measurable(labels)
<1> SUFFICES ASSUME NEW pair \in Ratios, NEW scheme \in SCHEMES
             PROVE  Count(pair[1], scheme, labels) <= Count(pair[2], scheme, labels)
  BY DEF Measurable
<1>1. Told(pair[1], scheme, labels) \in SUBSET Told(pair[2], scheme, labels)
  BY PartsOfWholes DEF Told
<1> QED BY <1>1, ToldIsFinite, FS_Subset

\* A run that filled every slot is reported if the papers and the file are still right.
LEMMA ReportKeeps == ReplayInv /\ Report => ReplayInv'
<1> SUFFICES ASSUME ReplayInv, Report PROVE ReplayInv'
  OBVIOUS
<1>1. /\ replay.phase = "ready" /\ Len(rows) = Len(schedule)
      /\ UNCHANGED <<inputs, schedule, rows, moment, source, file>>
  BY DEF Report, setting
<1>2. ValidPredictions
  <2>1. schedule \in Seq((1..Len(inputs)) \X SCHEMES) /\ rows \in Seq(Predictions)
    BY ManifestAssumption DEF ReplayInv, ReplayTypeOK
  <2>2. DOMAIN rows = 1..Len(schedule) /\ DOMAIN schedule = 1..Len(schedule)
    BY <1>1, <2>1
  <2>3. ASSUME NEW i \in 1..Len(schedule)
        PROVE  <<rows[i].sample, rows[i].scheme>> = schedule[i]
    <3>1. rows[i].sample = schedule[i][1] /\ rows[i].scheme = schedule[i][2]
      BY <1>1 DEF ReplayInv, RowsKept
    <3>2. schedule[i] \in (1..Len(inputs)) \X SCHEMES
      BY <2>1
    <3>3. schedule[i] = <<schedule[i][1], schedule[i][2]>>
      BY <3>2
    <3> QED BY <3>1, <3>3
  <2>4. [i \in DOMAIN rows |-> <<rows[i].sample, rows[i].scheme>>] = schedule
    <3>1. schedule = [i \in 1..Len(schedule) |-> schedule[i]]
      BY <2>1
    <3> QED BY <2>2, <2>3, <3>1
  <2>5. \A i \in DOMAIN rows : Valid(rows[i])
    BY <1>1, <2>2 DEF ReplayInv, RowsKept
  <2> QED BY <2>4, <2>5 DEF ValidPredictions
<1>3. PICK phase \in {"reported", "unreported"} :
        /\ replay' = [replay EXCEPT !.phase = phase]
        /\ phase = "unreported" => ~CheckSetup(replay.started)
  BY <1>2, AlwaysMeasurable DEF Report, ReplayInv
<1>4. file # "admitted" => file = "changed"
  BY DEF ReplayInv, ReplayTypeOK
<1>5. phase = "unreported" => file = "changed"
  BY <1>1, <1>3, <1>4 DEF CheckSetup, ReplayInv, InOrder, Times
<1>6. /\ replay'.phase = phase /\ replay'.started = replay.started
      /\ replay'.cause = replay.cause /\ ReplayTypeOK'
  BY <1>1, <1>3 DEF ReplayInv, ReplayTypeOK, ReplayPhases
<1>7. RowsKept' /\ ValidPredictions'
  BY <1>1, <1>2, RowsRest DEF ReplayInv, ValidPredictions, Valid, Eligible
<1>8. EndIsTrue'
  BY <1>1, <1>5, <1>6, <1>7 DEF ReplayInv, EndIsTrue
<1> QED BY <1>1, <1>6, <1>7, <1>8 DEF ReplayInv, UnderWay, InOrder

\* A step of others, or none.
LEMMA ReplayStutterKeeps == ReplayInv /\ UNCHANGED replayVars => ReplayInv'
<1> SUFFICES ASSUME ReplayInv, UNCHANGED replayVars PROVE ReplayInv'
  OBVIOUS
<1>1. UNCHANGED <<inputs, schedule, replay, rows, moment, source, file>>
  BY DEF replayVars, setting
<1>2. RowsKept'
  BY <1>1, RowsRest DEF ReplayInv
<1>3. ReplayTypeOK'
  BY <1>1 DEF ReplayInv, ReplayTypeOK
<1>4. UnderWay'
  <2>1. Slot' = Slot
    BY <1>1 DEF Slot
  <2> QED BY <1>1, <2>1 DEF ReplayInv, UnderWay, Eligible
<1>5. InOrder'
  BY <1>1 DEF ReplayInv, InOrder, Times
<1>6. EndIsTrue'
  BY <1>1 DEF ReplayInv, EndIsTrue, ValidPredictions, Valid, Eligible
<1> QED BY <1>2, <1>3, <1>4, <1>5, <1>6 DEF ReplayInv

\* Every step keeps the invariant.
LEMMA ReplayNextKeeps == ReplayInv /\ [ReplayNext]_replayVars => ReplayInv'
<1> SUFFICES ASSUME ReplayInv, ReplayNext PROVE ReplayInv'
  BY ReplayStutterKeeps
<1> QED BY BeginningKeeps, StartSlotKeeps, InvokeKeeps, FinishSlotKeeps, ReportKeeps,
           MeanwhileKeeps DEF ReplayNext

-----------------------------------------------------------------------------
(* The theorems *)

\* The invariant of every run.
THEOREM ReplayInvariance == ReplaySpec => []ReplayInv
<1> QED BY ReplayInvInitially, ReplayNextKeeps, PTL DEF ReplaySpec

\* What a worker may say never costs a run: it is not stopped for the candidates of an
\* answer, and one that filled its slots is reported unless an admitted file was changed
\* meanwhile, whatever the evidence, the schedule and the order of the answers.
THEOREM AnswersAlwaysAccepted == ReplaySpec => []AnswersAccepted
<1>1. ReplayInv => AnswersAccepted
  BY DEF ReplayInv, EndIsTrue, AnswersAccepted
<1> QED BY <1>1, ReplayInvariance, PTL

\* A row that comes is of an answer of the frozen program, after the labels were sealed and
\* the run frozen, and while the admission was in force.
LEMMA StepsAreMadeInForce ==
  ASSUME ReplayInv, [ReplayNext]_replayVars, rows' # rows
  PROVE  /\ replay.made[2] = "frozen"
         /\ Confirmed < replay.made[1] /\ Sealed < replay.made[1]
         /\ Approved <= replay.made[1] /\ replay.made[1] < Expires
<1>1. FinishSlot /\ GuardAfter
  BY DEF ReplayNext, replayVars, Begin, BeginSlots, StartSlot, Invoke, FinishSlot, Report, StopReplay
<1>2. /\ replay.phase = "answered" /\ source = "frozen" /\ moment < Expires
  BY <1>1 DEF FinishSlot, GuardAfter, Guard
<1>3. /\ Times(replay.started) /\ replay.made[1] \in Nat /\ replay.made[2] = "frozen"
      /\ replay.started <= replay.made[1] /\ replay.made[1] <= moment
      /\ replay.started \in Nat /\ moment \in Nat
  BY <1>2 DEF ReplayInv, InOrder, ReplayTypeOK
<1> QED BY <1>2, <1>3, PapersAssumption DEF Times

\* Every row of every run was made by the frozen program, after the labels were sealed and
\* the run frozen, and before the admission ran out, whenever the clock, the program or the
\* guards came between.
THEOREM RowsAreMadeInForce == ReplaySpec => MadeInForce
<1>1. ReplayInv /\ [ReplayNext]_replayVars =>
        [rows' # rows =>
           /\ replay.made[2] = "frozen"
           /\ Confirmed < replay.made[1] /\ Sealed < replay.made[1]
           /\ Approved <= replay.made[1] /\ replay.made[1] < Expires]_replayVars
  BY StepsAreMadeInForce
<1> QED BY <1>1, ReplayInvariance, PTL DEF ReplaySpec, MadeInForce

\* Two disjoint finite sets.
LEMMA DisjointSum ==
  ASSUME NEW S, NEW T, IsFiniteSet(S), IsFiniteSet(T), S \cap T = {}
  PROVE  /\ IsFiniteSet(S \cup T)
         /\ Cardinality(S \cup T) = Cardinality(S) + Cardinality(T)
         /\ Cardinality(S) \in Nat /\ Cardinality(T) \in Nat
<1>1. Cardinality(S \cap T) = 0
  BY FS_EmptySet
<1>2. Cardinality(S) \in Nat /\ Cardinality(T) \in Nat
  BY FS_CardinalityType
<1>3. IsFiniteSet(S \cup T) /\ Cardinality(S \cup T) = Cardinality(S) + Cardinality(T) - Cardinality(S \cap T)
  BY FS_Union
<1> QED BY <1>1, <1>2, <1>3

\* The rows that were not answered although one of their labels was at hand.
Unanswered(scheme, labels) ==
  {i \in DOMAIN rows :
     /\ rows[i].scheme = scheme /\ rows[i].status # "ok"
     /\ LET label == labels[rows[i].sample]
            gold == IF scheme = "A" THEN label.legacy ELSE label.reasons
        IN  label.verdict = "defect" /\ gold \cap rows[i].available # {}}

\* A covered defect is in exactly one of the classes of loss, or hit.
LEMMA OneClassEach ==
  ASSUME NEW row \in Predictions, Valid(row), NEW label
  PROVE  LET Flag(f) == f \in Flags(row, label)
             unanswered == /\ row.status # "ok" /\ label.verdict = "defect"
                           /\ MetBy(row, label, row.available)
         IN
         /\ Flag("covered") <=>
              \/ Flag("route_unavailable") \/ Flag("final_omission") \/ Flag("material_unavailable")
              \/ unanswered \/ Flag("wrong_selection") \/ Flag("answerable_abstention") \/ Flag("hit")
         /\ Flag("covered") => Flag("D")
         /\ ~(Flag("route_unavailable") /\ Flag("final_omission"))
         /\ ~((Flag("route_unavailable") \/ Flag("final_omission")) /\ Flag("material_unavailable"))
         /\ ~(/\ Flag("route_unavailable") \/ Flag("final_omission") \/ Flag("material_unavailable")
              /\ unanswered)
         /\ ~(/\ \/ Flag("route_unavailable") \/ Flag("final_omission")
                 \/ Flag("material_unavailable") \/ unanswered
              /\ Flag("wrong_selection"))
         /\ ~(/\ \/ Flag("route_unavailable") \/ Flag("final_omission")
                 \/ Flag("material_unavailable") \/ unanswered \/ Flag("wrong_selection")
              /\ Flag("answerable_abstention"))
         /\ ~(/\ \/ Flag("route_unavailable") \/ Flag("final_omission")
                 \/ Flag("material_unavailable") \/ unanswered \/ Flag("wrong_selection")
                 \/ Flag("answerable_abstention")
              /\ Flag("hit"))
<1> DEFINE Met(reasons) == MetBy(row, label, reasons)
           Flag(f) == f \in Flags(row, label)
           defect == label.verdict = "defect"
           reached == Met(Allowed(row.scheme))
           success == row.route = "success"
           routed == Met(row.routed)
           available == Met(row.available)
           right == Met(row.reasons)
           ok == row.status = "ok"
           empty == row.reasons = {}
           silent == row.outcome \in {"unknown", "no_match"}
<1>1. (routed => reached) /\ (available => routed) /\ (right => available)
  BY DEF Valid, Nested, MetBy
<1>2. (routed => success) /\ (right => ~empty)
  BY DEF Valid, MetBy
<1>3. (ok => (silent <=> empty)) /\ (~ok => empty)
  <2>1. CASE row.status = "ok"
    BY <2>1 DEF Valid
  <2>2. CASE row.status = "error"
    BY <2>2 DEF Valid
  <2>3. CASE row.status = "ineligible"
    BY <2>3 DEF Valid
  <2> QED BY <2>1, <2>2, <2>3 DEF Predictions
<1>4. /\ Flag("D") <=> defect
      /\ Flag("covered") <=> defect /\ reached
      /\ Flag("final_omission") <=> defect /\ reached /\ success /\ ~routed
      /\ Flag("route_unavailable") <=> defect /\ reached /\ ~success
      /\ Flag("material_unavailable") <=> defect /\ routed /\ ~available
      /\ Flag("hit") <=> defect /\ right
      /\ Flag("wrong_selection") <=> defect /\ available /\ ok /\ ~empty /\ ~right
      /\ Flag("answerable_abstention") <=> defect /\ available /\ ok /\ silent
  BY FlagsTell
<1> HIDE DEF Flag, Met, defect, reached, success, routed, available, right, ok, empty, silent
<1>5. /\ Flag("covered") <=>
           \/ Flag("route_unavailable") \/ Flag("final_omission") \/ Flag("material_unavailable")
           \/ (~ok /\ defect /\ available)
           \/ Flag("wrong_selection") \/ Flag("answerable_abstention") \/ Flag("hit")
      /\ Flag("covered") => Flag("D")
      /\ ~(Flag("route_unavailable") /\ Flag("final_omission"))
      /\ ~((Flag("route_unavailable") \/ Flag("final_omission")) /\ Flag("material_unavailable"))
      /\ ~(/\ Flag("route_unavailable") \/ Flag("final_omission") \/ Flag("material_unavailable")
           /\ ~ok /\ defect /\ available)
      /\ ~(/\ \/ Flag("route_unavailable") \/ Flag("final_omission")
              \/ Flag("material_unavailable") \/ (~ok /\ defect /\ available)
           /\ Flag("wrong_selection"))
      /\ ~(/\ \/ Flag("route_unavailable") \/ Flag("final_omission")
              \/ Flag("material_unavailable") \/ (~ok /\ defect /\ available)
              \/ Flag("wrong_selection")
           /\ Flag("answerable_abstention"))
      /\ ~(/\ \/ Flag("route_unavailable") \/ Flag("final_omission")
              \/ Flag("material_unavailable") \/ (~ok /\ defect /\ available)
              \/ Flag("wrong_selection") \/ Flag("answerable_abstention")
           /\ Flag("hit"))
  BY <1>1, <1>2, <1>3, <1>4
<1> QED BY <1>5 DEF Flag, Met, defect, available, ok

\* The classes are counted apart.
LEMMA LossesOfReported ==
  ASSUME ReplayTypeOK, ValidPredictions, NEW scheme, NEW labels
  PROVE  LET N(flag) == Count(flag, scheme, labels) IN
         N("D") = (N("D") - N("covered")) + N("route_unavailable") + N("final_omission")
                    + N("material_unavailable") + Cardinality(Unanswered(scheme, labels))
                    + N("wrong_selection") + N("answerable_abstention") + N("hit")
<1> DEFINE T(flag) == Told(flag, scheme, labels)
           U == Unanswered(scheme, labels)
           two == T("route_unavailable") \cup T("final_omission")
           three == two \cup T("material_unavailable")
           four == three \cup U
           five == four \cup T("wrong_selection")
           six == five \cup T("answerable_abstention")
           seven == six \cup T("hit")
<1>1. /\ T("route_unavailable") \cap T("final_omission") = {}
      /\ two \cap T("material_unavailable") = {} /\ three \cap U = {}
      /\ four \cap T("wrong_selection") = {} /\ five \cap T("answerable_abstention") = {}
      /\ six \cap T("hit") = {}
      /\ T("covered") = seven /\ T("covered") \in SUBSET T("D")
  <2>1. ASSUME NEW i \in DOMAIN rows, rows[i].scheme = scheme
        PROVE  LET In(flag) == i \in T(flag)
                   unanswered == i \in U
               IN
               /\ In("covered") <=>
                    \/ In("route_unavailable") \/ In("final_omission") \/ In("material_unavailable")
                    \/ unanswered \/ In("wrong_selection") \/ In("answerable_abstention") \/ In("hit")
               /\ In("covered") => In("D")
               /\ ~(In("route_unavailable") /\ In("final_omission"))
               /\ ~((In("route_unavailable") \/ In("final_omission")) /\ In("material_unavailable"))
               /\ ~(/\ In("route_unavailable") \/ In("final_omission") \/ In("material_unavailable")
                    /\ unanswered)
               /\ ~(/\ \/ In("route_unavailable") \/ In("final_omission")
                       \/ In("material_unavailable") \/ unanswered
                    /\ In("wrong_selection"))
               /\ ~(/\ \/ In("route_unavailable") \/ In("final_omission")
                       \/ In("material_unavailable") \/ unanswered \/ In("wrong_selection")
                    /\ In("answerable_abstention"))
               /\ ~(/\ \/ In("route_unavailable") \/ In("final_omission")
                       \/ In("material_unavailable") \/ unanswered \/ In("wrong_selection")
                       \/ In("answerable_abstention")
                    /\ In("hit"))
    <3> DEFINE label == labels[rows[i].sample]
    <3>1. \A flag : i \in T(flag) <=> flag \in Flags(rows[i], label)
      BY <2>1 DEF Told
    <3>2. i \in U <=> /\ rows[i].status # "ok" /\ label.verdict = "defect"
                      /\ MetBy(rows[i], label, rows[i].available)
      BY <2>1 DEF Unanswered, MetBy, Gold
    <3>3. Valid(rows[i]) /\ rows[i] \in Predictions
      BY DEF ValidPredictions, ReplayTypeOK
    <3> HIDE DEF T, U, label
    <3> QED BY <3>1, <3>2, <3>3, OneClassEach
  <2>2. \A i : (\A flag : i \in T(flag) => i \in DOMAIN rows /\ rows[i].scheme = scheme)
               /\ (i \in U => i \in DOMAIN rows /\ rows[i].scheme = scheme)
    BY DEF Told, Unanswered
  <2> HIDE DEF T, U
  <2> QED BY <2>1, <2>2
<1>2. /\ \A flag : IsFiniteSet(T(flag)) /\ Count(flag, scheme, labels) = Cardinality(T(flag))
                   /\ Count(flag, scheme, labels) \in Nat
      /\ IsFiniteSet(U)
  <2>1. IsFiniteSet(1..Len(rows)) /\ DOMAIN rows = 1..Len(rows)
    <3>1. Len(rows) \in Nat /\ DOMAIN rows = 1..Len(rows)
      BY DEF ReplayTypeOK
    <3> QED BY <3>1, FS_Interval
  <2>2. U \in SUBSET (1..Len(rows))
    BY <2>1 DEF Unanswered
  <2> QED BY <2>1, <2>2, ToldIsFinite, FS_Subset
<1> HIDE DEF T, U
<1>3. /\ IsFiniteSet(two)
      /\ Cardinality(two) = Cardinality(T("route_unavailable")) + Cardinality(T("final_omission"))
  BY <1>1, <1>2, DisjointSum
<1> HIDE DEF two
<1>4. /\ IsFiniteSet(three)
      /\ Cardinality(three) = Cardinality(two) + Cardinality(T("material_unavailable"))
  BY <1>1, <1>2, <1>3, DisjointSum
<1> HIDE DEF three
<1>5. IsFiniteSet(four) /\ Cardinality(four) = Cardinality(three) + Cardinality(U) /\ Cardinality(U) \in Nat
  BY <1>1, <1>2, <1>4, DisjointSum
<1> HIDE DEF four
<1>6. IsFiniteSet(five) /\ Cardinality(five) = Cardinality(four) + Cardinality(T("wrong_selection"))
  BY <1>1, <1>2, <1>5, DisjointSum
<1> HIDE DEF five
<1>7. IsFiniteSet(six) /\ Cardinality(six) = Cardinality(five) + Cardinality(T("answerable_abstention"))
  BY <1>1, <1>2, <1>6, DisjointSum
<1> HIDE DEF six
<1>8. Cardinality(seven) = Cardinality(six) + Cardinality(T("hit"))
  BY <1>1, <1>2, <1>7, DisjointSum
<1> HIDE DEF seven
<1>9. Cardinality(T("covered")) <= Cardinality(T("D"))
  BY <1>1, <1>2, FS_Subset
<1> DEFINE N(flag) == Count(flag, scheme, labels)
<1>10. \A flag : N(flag) = Cardinality(T(flag)) /\ N(flag) \in Nat
  BY <1>2
<1>11. N("covered") = N("route_unavailable") + N("final_omission")
                       + N("material_unavailable") + Cardinality(U)
                       + N("wrong_selection") + N("answerable_abstention") + N("hit")
  <2> HIDE DEF N
  <2> QED BY <1>1, <1>3, <1>4, <1>5, <1>6, <1>7, <1>8, <1>10
<1> HIDE DEF N
<1>12. N("D") = (N("D") - N("covered")) + N("route_unavailable") + N("final_omission")
                       + N("material_unavailable") + Cardinality(U)
                       + N("wrong_selection") + N("answerable_abstention") + N("hit")
  BY <1>5, <1>10, <1>11
<1> QED BY <1>12 DEF N, U

\* The losses of a report add up, whatever the labels say: under every scheme each covered
\* defect is counted in exactly one of its classes.
THEOREM LossesAlwaysAddUp == ReplaySpec => []LossesAddUp
<1>1. ReplayInv => LossesAddUp
  <2> SUFFICES ASSUME ReplayInv, replay.phase = "reported", NEW scheme \in SCHEMES,
                      NEW labels \in [DOMAIN inputs -> SealedLabels]
               PROVE  LET N(flag) == Count(flag, scheme, labels) IN
                      N("D") = (N("D") - N("covered")) + N("route_unavailable") + N("final_omission")
                                 + N("material_unavailable") + Cardinality(Unanswered(scheme, labels))
                                 + N("wrong_selection") + N("answerable_abstention") + N("hit")
    <3>1. ASSUME NEW scheme \in SCHEMES, NEW labels \in [DOMAIN inputs -> SealedLabels]
          PROVE  Unanswered(scheme, labels) =
                   {i \in DOMAIN rows :
                      /\ rows[i].scheme = scheme /\ rows[i].status # "ok"
                      /\ LET label == labels[rows[i].sample]
                             gold == IF scheme = "A" THEN label.legacy ELSE label.reasons
                         IN  label.verdict = "defect" /\ gold \cap rows[i].available # {}}
      BY DEF Unanswered
    <3> QED BY <3>1 DEF LossesAddUp
  <2>1. ReplayTypeOK /\ ValidPredictions
    BY DEF ReplayInv, EndIsTrue
  <2> QED BY <2>1, LossesOfReported
<1> QED BY <1>1, ReplayInvariance, PTL

=============================================================================
