----------------------------- MODULE RegisterProofs -----------------------------
(***************************************************************************)
(* The registers that stand apart.  Of budget pools, for any               *)
(* number of directories, processes, configurations, crashes and removed   *)
(* files: a pool and an approval pay for one ledger in their life, ledgers *)
(* stand beside the plan they were made for, and only a crash strands a    *)
(* pool.  Of confirmation studies, for any number of workspaces, units,    *)
(* reviewers, desks, reviews and deaths: a unit is confirmed in one study, *)
(* a population is analysed at most once, and none of it is labelled       *)
(* before its freeze.  And, of the receipts of suggestions, for any number *)
(* of tabs, reasons and events and any lifetime: a confirmed reason was    *)
(* the newest shown and answered in its time, a callback tells what is on  *)
(* record, and the denominators of the report nest at every cutoff.        *)
(***************************************************************************)
EXTENDS BudgetPool, ConfirmationStudy, Suggestions, FoldProofs

-----------------------------------------------------------------------------
(* The register of budget pools *)


Places == {"glance", "freeze", "write", "look", "bind", "open", "identify", "running"}
Bindings == {"look", "bind", "open", "identify", "running"}
PoolJob == [at : Places, dir : Dirs, mode : Modes, cfg : Plans]

FilesOK ==
    /\ plans \in [Dirs -> Plans \cup {Nothing, Torn}]
    /\ mocks \in [Dirs -> Plans \cup {Nothing, Blank}]
    /\ lives \in [Dirs -> Plans \cup {Nothing, Blank}]
ProcsOK ==
    /\ procs \in [Procs -> {Idle} \cup PoolJob]
    /\ \A p \in Procs : procs[p] \in PoolJob /\ Live(p) => procs[p].cfg \in Configs

(* One process at a time in a directory. *)
Locked == \A p, q \in Procs : procs[p] \in PoolJob /\ procs[q] \in PoolJob /\ procs[p].dir = procs[q].dir => p = q

(* Where a process has gone past the plan, the plan is its own. *)
PlanHeld == \A p \in Procs : procs[p] \in PoolJob =>
    /\ procs[p].at \in Bindings => plans[procs[p].dir] = procs[p].cfg
    /\ procs[p].at = "write" => mocks[procs[p].dir] = Nothing /\ lives[procs[p].dir] = Nothing

RowsUnique == \A r, s \in pools : r.pool = s.pool \/ r.approval = s.approval => r = s
IssuedBound == \A x \in issued : x.cfg \in Configs /\ Row(x.cfg, x.dir) \in pools

(* A live process about to create its ledger holds a row nobody used before. *)
Fresh == \A p \in Procs : procs[p] \in PoolJob /\ Live(p) /\ procs[p].at = "open"
                          /\ lives[procs[p].dir] = Nothing =>
    /\ Row(procs[p].cfg, procs[p].dir) \in pools
    /\ \A x \in issued : Row(x.cfg, x.dir) # Row(procs[p].cfg, procs[p].dir)

PoolInv == /\ FilesOK /\ ProcsOK /\ Locked /\ PlanHeld /\ RowsUnique /\ IssuedBound /\ Fresh
           /\ OneLedgerPerAllowance /\ LedgersKeepTheirPlan

-----------------------------------------------------------------------------

(* What a step of p leaves of the table of processes. *)
Moved(p, at) ==
    /\ procs' \in [Procs -> {Idle} \cup PoolJob]
    /\ procs'[p] \in PoolJob /\ procs'[p].at = at
    /\ procs'[p].dir = procs[p].dir /\ procs'[p].mode = procs[p].mode /\ procs'[p].cfg = procs[p].cfg
    /\ \A q \in Procs \ {p} : procs'[q] = procs[q]
Left(p) ==
    /\ procs' \in [Procs -> {Idle} \cup PoolJob]
    /\ procs'[p] = Idle
    /\ \A q \in Procs \ {p} : procs'[q] = procs[q]

(* An idle process does no job, and every job has a place. *)
LEMMA IdleIsNoJob ==
  /\ Idle \notin PoolJob
  /\ ProcsOK => \A p \in Procs : procs[p] \in PoolJob <=> procs[p].at # "idle"
BY DEF Idle, PoolJob, Places, ProcsOK

(* Goto changes where one process is, and nothing else. *)
LEMMA GotoMoves ==
  ASSUME ProcsOK, NEW p \in Procs, procs[p] \in PoolJob, NEW at \in Places, Goto(p, at)
  PROVE  Moved(p, at)
BY DEF Goto, Moved, ProcsOK, PoolJob

(* Exit ends one process. *)
LEMMA ExitLeaves ==
  ASSUME ProcsOK, NEW p \in Procs, Exit(p)
  PROVE  Left(p)
BY DEF Exit, Left, ProcsOK

(* The table of processes stays sound and the directories stay locked. *)
LEMMA TableKept ==
  ASSUME PoolInv, NEW p \in Procs, NEW at, procs[p] \in PoolJob, Moved(p, at) \/ Left(p)
  PROVE  ProcsOK' /\ Locked'
<1>1. CASE Moved(p, at)
  <2>1. ProcsOK'
    BY <1>1 DEF PoolInv, ProcsOK, Moved, Live
  <2>2. Locked'
    BY <1>1 DEF PoolInv, Locked, Moved
  <2> QED
    BY <2>1, <2>2
<1>2. CASE Left(p)
  <2>1. ProcsOK'
    BY <1>2, IdleIsNoJob DEF PoolInv, ProcsOK, Left, Live
  <2>2. Locked'
    BY <1>2, IdleIsNoJob DEF PoolInv, Locked, Left
  <2> QED
    BY <2>1, <2>2
<1> QED
  BY <1>1, <1>2

(* A process that ends with all files as they were disturbs nothing. *)
LEMMA LeavingKeeps ==
  ASSUME PoolInv, NEW p \in Procs, Left(p), UNCHANGED files
  PROVE  PoolInv'
BY IdleIsNoJob DEF PoolInv, Left, files, FilesOK, ProcsOK, Locked, PlanHeld, RowsUnique, IssuedBound, Fresh,
   OneLedgerPerAllowance, LedgersKeepTheirPlan, Live

(* Moving on with all files as they were is harmless where the plan is its   *)
(* own and, at the ledger, the row is bound.                                *)
LEMMA MovingKeeps ==
  ASSUME PoolInv, NEW p \in Procs, NEW at \in Places, procs[p] \in PoolJob, Moved(p, at), UNCHANGED files,
         at \in Bindings => plans[procs[p].dir] = procs[p].cfg,
         at # "write",
         at = "open" => ~Live(p) \/ lives[procs[p].dir] # Nothing
  PROVE  PoolInv'
<1>1. FilesOK' /\ RowsUnique' /\ IssuedBound' /\ OneLedgerPerAllowance' /\ LedgersKeepTheirPlan'
  BY DEF PoolInv, files, FilesOK, RowsUnique, IssuedBound, OneLedgerPerAllowance, LedgersKeepTheirPlan
<1>2. ProcsOK'
  BY DEF PoolInv, ProcsOK, Moved, Live
<1>3. Locked'
  BY DEF PoolInv, Locked, Moved
<1>4. PlanHeld'
  BY DEF PoolInv, PlanHeld, Moved, files
<1>5. Fresh'
  BY DEF PoolInv, Fresh, Moved, files, Live
<1> QED
  BY <1>1, <1>2, <1>3, <1>4, <1>5 DEF PoolInv

-----------------------------------------------------------------------------

(* A process that starts finds its directory and, when live, the budget free. *)
LEMMA StartKeeps ==
  ASSUME PoolInv, NEW p \in Procs, NEW d \in Dirs, NEW mode \in Modes, NEW c \in Plans,
         Start(p, d, mode, c)
  PROVE  PoolInv'
<1>1. /\ procs' \in [Procs -> {Idle} \cup PoolJob]
      /\ procs'[p] \in PoolJob /\ procs'[p].at \in {"glance", "freeze"}
      /\ procs'[p].dir = d /\ procs'[p].mode = mode /\ procs'[p].cfg = c
      /\ \A q \in Procs \ {p} : procs'[q] = procs[q]
  BY DEF Start, FirstStep, PoolInv, ProcsOK, PoolJob, Places
<1>2. FilesOK' /\ RowsUnique' /\ IssuedBound' /\ OneLedgerPerAllowance' /\ LedgersKeepTheirPlan'
  BY DEF PoolInv, Start, files, FilesOK, RowsUnique, IssuedBound, OneLedgerPerAllowance,
         LedgersKeepTheirPlan
<1>3. ProcsOK'
  BY <1>1 DEF PoolInv, ProcsOK, Live, Start
<1>4. Locked'
  BY <1>1, IdleIsNoJob DEF PoolInv, Locked, Start, Busy
<1>5. PlanHeld'
  BY <1>1 DEF PoolInv, PlanHeld, Start, files, Bindings
<1>6. Fresh'
  BY <1>1 DEF PoolInv, Fresh, Start, files, Live
<1> QED
  BY <1>2, <1>3, <1>4, <1>5, <1>6 DEF PoolInv

(* The steps that only look: the first glance at the register, the          *)
(* comparison with an existing plan, the second look, and the end.          *)
LEMMA LookingKeeps ==
  ASSUME PoolInv, NEW p \in Procs, Glance(p) \/ Keep(p) \/ Look(p) \/ Finish(p) \/ Crash(p)
  PROVE  PoolInv'
<1>1. ProcsOK /\ UNCHANGED files
  BY DEF PoolInv, Glance, Keep, Look, Finish, Crash
<1>2. procs[p] \in PoolJob
  BY <1>1, IdleIsNoJob DEF Glance, Keep, Look, Finish, Crash
<1>3. CASE Exit(p)
  BY <1>1, <1>3, ExitLeaves, LeavingKeeps
<1>4. CASE ~Exit(p)
  <2>1. CASE Glance(p)
    <3>1. Goto(p, "freeze") /\ "freeze" \in Places
      BY <1>4, <2>1 DEF Glance, Places
    <3>2. Moved(p, "freeze")
      BY <1>1, <1>2, <3>1, GotoMoves
    <3> QED
      BY <1>1, <1>2, <3>1, <3>2, MovingKeeps DEF Bindings
  <2>2. CASE Keep(p)
    <3>1. /\ Goto(p, AfterFreeze(p)) /\ AfterFreeze(p) \in {"look", "open"}
          /\ AfterFreeze(p) = "open" => ~Live(p)
          /\ plans[procs[p].dir] = procs[p].cfg
      BY <1>4, <2>2 DEF Keep, AfterFreeze, Live
    <3>2. AfterFreeze(p) \in Places
      BY <3>1 DEF Places
    <3>3. Moved(p, AfterFreeze(p))
      BY <1>1, <1>2, <3>1, <3>2, GotoMoves
    <3> QED
      BY <1>1, <1>2, <3>1, <3>2, <3>3, MovingKeeps
  <2>3. CASE Look(p)
    <3>1. PICK at \in {"bind", "open"} :
             Goto(p, at) /\ (at = "open" => lives[procs[p].dir] # Nothing)
      BY <1>4, <2>3 DEF Look, PoolAdmits
    <3>2. at \in Places
      BY DEF Places
    <3>3. Moved(p, at)
      BY <1>1, <1>2, <3>1, <3>2, GotoMoves
    <3>4. plans[procs[p].dir] = procs[p].cfg
      BY <1>2, <2>3 DEF PoolInv, PlanHeld, Look, Bindings
    <3> QED
      BY <1>1, <1>2, <3>1, <3>2, <3>3, <3>4, MovingKeeps
  <2> QED
    BY <1>4, <2>1, <2>2, <2>3 DEF Finish, Crash
<1> QED
  BY <1>3, <1>4

(* A plan is created only where no ledger is. *)
LEMMA FreezeKeeps ==
  ASSUME PoolInv, NEW p \in Procs, FreezePlan(p)
  PROVE  PoolInv'
<1>1. ProcsOK /\ procs[p] \in PoolJob /\ procs[p].dir \in Dirs
  BY IdleIsNoJob DEF PoolInv, FreezePlan, PoolJob
<1>2. CASE ~MayFreeze(procs[p].dir)
  BY <1>1, <1>2, ExitLeaves, LeavingKeeps DEF FreezePlan, files
<1>3. CASE MayFreeze(procs[p].dir)
  <2>1. Goto(p, "write") /\ "write" \in Places
    BY <1>3 DEF FreezePlan, Places
  <2>2. Moved(p, "write")
    BY <1>1, <2>1, GotoMoves
  <2>3. /\ plans' = [plans EXCEPT ![procs[p].dir] = Torn]
        /\ UNCHANGED <<mocks, lives, pools, issued>>
    BY <1>3 DEF FreezePlan
  <2>4. FilesOK' /\ RowsUnique' /\ IssuedBound' /\ OneLedgerPerAllowance'
    BY <2>3 DEF PoolInv, FilesOK, RowsUnique, IssuedBound, OneLedgerPerAllowance
  <2>5. LedgersKeepTheirPlan'
    BY <1>1, <2>3, ConstantsApart DEF PoolInv, LedgersKeepTheirPlan, Plans, FilesOK
  <2>6. ProcsOK' /\ Locked'
    BY <1>1, <2>2, TableKept
  <2>7. PlanHeld'
    BY <1>1, <1>3, <2>2, <2>3 DEF PoolInv, PlanHeld, Locked, Moved, MayFreeze, FilesOK, Bindings
  <2>8. Fresh'
    BY <2>2, <2>3 DEF PoolInv, Fresh, Moved, Live
  <2> QED
    BY <2>4, <2>5, <2>6, <2>7, <2>8 DEF PoolInv
<1> QED
  BY <1>2, <1>3

(* The plan is written before any ledger of the directory exists. *)
LEMMA WriteKeeps ==
  ASSUME PoolInv, NEW p \in Procs, Write(p)
  PROVE  PoolInv'
<1>1. ProcsOK /\ procs[p] \in PoolJob /\ procs[p].dir \in Dirs /\ procs[p].cfg \in Plans
  BY IdleIsNoJob DEF PoolInv, Write, PoolJob
<1>2. /\ plans' = [plans EXCEPT ![procs[p].dir] = procs[p].cfg]
      /\ UNCHANGED <<mocks, lives, pools, issued>>
      /\ mocks[procs[p].dir] = Nothing /\ lives[procs[p].dir] = Nothing
  BY <1>1 DEF PoolInv, PlanHeld, Write
<1>3. Left(p) \/ (Moved(p, AfterFreeze(p)) /\ AfterFreeze(p) \in {"look", "open"}
                  /\ (AfterFreeze(p) = "open" => ~Live(p)))
  <2>1. CASE AfterFreeze(p) = "idle"
    BY <1>1, <2>1, ExitLeaves DEF Write
  <2>2. CASE AfterFreeze(p) # "idle"
    <3>1. AfterFreeze(p) \in {"look", "open"} /\ (AfterFreeze(p) = "open" => ~Live(p))
      BY <2>2 DEF AfterFreeze, Live
    <3>2. AfterFreeze(p) \in Places
      BY <3>1 DEF Places
    <3> QED
      BY <1>1, <2>2, <3>1, <3>2, GotoMoves DEF Write
  <2> QED
    BY <2>1, <2>2
<1>4. FilesOK' /\ RowsUnique' /\ IssuedBound' /\ OneLedgerPerAllowance'
  BY <1>1, <1>2 DEF PoolInv, FilesOK, RowsUnique, IssuedBound, OneLedgerPerAllowance
<1>5. LedgersKeepTheirPlan'
  BY <1>1, <1>2 DEF PoolInv, LedgersKeepTheirPlan, FilesOK
<1>6. ProcsOK' /\ Locked'
  BY <1>1, <1>3, TableKept
<1>7. PlanHeld'
  BY <1>1, <1>2, <1>3, IdleIsNoJob DEF PoolInv, PlanHeld, Locked, Moved, Left, FilesOK
<1>8. Fresh'
  BY <1>2, <1>3, IdleIsNoJob DEF PoolInv, Fresh, Moved, Left, Live
<1> QED
  BY <1>4, <1>5, <1>6, <1>7, <1>8 DEF PoolInv

(* A row is inserted for a pool and an approval nobody holds, so the ledger  *)
(* it is meant for is the first of both.                                    *)
LEMMA BindKeeps ==
  ASSUME PoolInv, NEW p \in Procs, Bind(p)
  PROVE  PoolInv'
<1>1. ProcsOK /\ procs[p] \in PoolJob /\ procs[p].dir \in Dirs /\ procs[p].cfg \in Plans
  BY IdleIsNoJob DEF PoolInv, Bind, PoolJob
<1>2. CASE Bound(procs[p].cfg) # {}
  BY <1>1, <1>2, ExitLeaves, LeavingKeeps DEF Bind, files
<1>3. CASE Bound(procs[p].cfg) = {}
  <2> DEFINE row == Row(procs[p].cfg, procs[p].dir)
  <2>1. Goto(p, "open") /\ "open" \in Places
    BY <1>3 DEF Bind, Places
  <2>2. Moved(p, "open")
    BY <1>1, <2>1, GotoMoves
  <2>3. pools' = pools \cup {row} /\ UNCHANGED <<plans, mocks, lives, issued>>
    BY <1>3 DEF Bind
  <2>4. \A r \in pools : r.pool # row.pool /\ r.approval # row.approval
    BY <1>3 DEF Bound, Row
  <2>5. FilesOK' /\ IssuedBound' /\ OneLedgerPerAllowance' /\ LedgersKeepTheirPlan'
    BY <2>3 DEF PoolInv, FilesOK, IssuedBound, OneLedgerPerAllowance, LedgersKeepTheirPlan
  <2>6. RowsUnique'
    BY <2>3, <2>4 DEF PoolInv, RowsUnique
  <2>7. ProcsOK' /\ Locked'
    BY <1>1, <2>2, TableKept
  <2>8. PlanHeld'
    BY <1>1, <2>2, <2>3 DEF PoolInv, PlanHeld, Moved, Bindings, Bind
  <2>9. \A x \in issued : Row(x.cfg, x.dir) # row
    BY <2>4 DEF PoolInv, IssuedBound
  <2>10. Fresh'
    BY <1>1, <2>2, <2>3, <2>9 DEF PoolInv, Fresh, Moved, Live
  <2> QED
    BY <2>5, <2>6, <2>7, <2>8, <2>10 DEF PoolInv
<1> QED
  BY <1>2, <1>3

(* A ledger is created for a row that never had one, or for a rehearsal. *)
LEMMA ConnectKeeps ==
  ASSUME PoolInv, NEW p \in Procs, Connect(p)
  PROVE  PoolInv'
<1>1. ProcsOK /\ procs[p] \in PoolJob /\ procs[p].dir \in Dirs /\ procs[p].cfg \in Plans
  BY IdleIsNoJob DEF PoolInv, Connect, PoolJob
<1>2. Goto(p, "identify") /\ "identify" \in Places
  BY DEF Connect, Places
<1>3. Moved(p, "identify")
  BY <1>1, <1>2, GotoMoves
<1>4. plans[procs[p].dir] = procs[p].cfg
  BY <1>1 DEF PoolInv, PlanHeld, Connect, Bindings
<1>5. CASE LedgerFiles(p)[procs[p].dir] # Nothing
  <2>1. UNCHANGED files
    BY <1>5 DEF Connect, files
  <2> QED
    BY <1>1, <1>2, <1>3, <1>4, <2>1, MovingKeeps
<1>6. CASE LedgerFiles(p)[procs[p].dir] = Nothing
  <2> DEFINE new == [cfg |-> procs[p].cfg, dir |-> procs[p].dir, file |-> Number(procs[p].dir)]
  <2>1. /\ UNCHANGED <<plans, pools>>
        /\ SetFile(p, Blank)
        /\ issued' = IF Live(p) THEN issued \cup {new} ELSE issued
    BY <1>6 DEF Connect
  <2>2. /\ mocks' \in [Dirs -> Plans \cup {Nothing, Blank}]
        /\ lives' \in [Dirs -> Plans \cup {Nothing, Blank}]
        /\ \A d \in Dirs : mocks'[d] \in {mocks[d], Blank} /\ lives'[d] \in {lives[d], Blank}
        /\ \A d \in Dirs \ {procs[p].dir} : mocks'[d] = mocks[d] /\ lives'[d] = lives[d]
    BY <1>1, <2>1 DEF SetFile, PoolInv, FilesOK
  <2>3. FilesOK' /\ RowsUnique'
    BY <2>1, <2>2 DEF PoolInv, FilesOK, RowsUnique
  <2>4. LedgersKeepTheirPlan'
    BY <2>1, <2>2 DEF PoolInv, LedgersKeepTheirPlan
  <2>5. ProcsOK' /\ Locked'
    BY <1>1, <1>3, TableKept
  <2>6. PlanHeld'
    <3>1. ASSUME NEW q \in Procs, procs'[q] \in PoolJob
          PROVE  /\ procs'[q].at \in Bindings => plans'[procs'[q].dir] = procs'[q].cfg
                 /\ procs'[q].at = "write" =>
                      mocks'[procs'[q].dir] = Nothing /\ lives'[procs'[q].dir] = Nothing
      <4>1. CASE q = p
        BY <1>3, <1>4, <2>1, <4>1 DEF Moved
      <4>2. CASE q # p
        <5>1. procs'[q] = procs[q] /\ procs[q].dir \in Dirs \ {procs[p].dir}
          BY <1>1, <1>3, <3>1, <4>2 DEF PoolInv, Locked, Moved, PoolJob
        <5> QED
          BY <2>1, <2>2, <3>1, <5>1 DEF PoolInv, PlanHeld
      <4> QED
        BY <4>1, <4>2
    <3> QED
      BY <3>1 DEF PlanHeld
  <2>7. Live(p) => /\ Row(procs[p].cfg, procs[p].dir) \in pools
                   /\ \A x \in issued : Row(x.cfg, x.dir) # Row(procs[p].cfg, procs[p].dir)
                   /\ procs[p].cfg \in Configs
    BY <1>1, <1>6 DEF PoolInv, Fresh, Connect, LedgerFiles, ProcsOK
  <2>8. IssuedBound'
    BY <2>1, <2>7 DEF PoolInv, IssuedBound
  <2>9. \A x \in issued : Live(p) => x.cfg.pool # new.cfg.pool /\ x.cfg.approval # new.cfg.approval
    BY <2>7 DEF PoolInv, RowsUnique, IssuedBound, Row
  <2>10. OneLedgerPerAllowance'
    BY <2>1, <2>9 DEF PoolInv, OneLedgerPerAllowance
  <2>11. Fresh'
    <3>1. SUFFICES ASSUME NEW q \in Procs, procs'[q] \in PoolJob, Live(q)', procs'[q].at = "open",
                          lives'[procs'[q].dir] = Nothing
                   PROVE  /\ Row(procs'[q].cfg, procs'[q].dir) \in pools
                          /\ \A x \in issued' : Row(x.cfg, x.dir) # Row(procs'[q].cfg, procs'[q].dir)
      BY <2>1 DEF Fresh
    <3>2. procs'[q] = procs[q] /\ procs[q].dir \in Dirs \ {procs[p].dir}
      BY <1>1, <1>3, <3>1 DEF PoolInv, Locked, Moved, PoolJob
    <3>3. lives[procs[q].dir] = Nothing /\ Live(q)
      BY <2>2, <3>1, <3>2 DEF Live
    <3>4. Row(new.cfg, new.dir) # Row(procs[q].cfg, procs[q].dir)
      BY <3>2 DEF Row
    <3> QED
      BY <2>1, <3>1, <3>2, <3>3, <3>4 DEF PoolInv, Fresh
  <2> QED
    BY <2>3, <2>4, <2>5, <2>6, <2>8, <2>10, <2>11 DEF PoolInv
<1> QED
  BY <1>5, <1>6

(* The identity row names the plan the process holds. *)
LEMMA IdentifyKeeps ==
  ASSUME PoolInv, NEW p \in Procs, Identify(p)
  PROVE  PoolInv'
<1>1. ProcsOK /\ procs[p] \in PoolJob /\ procs[p].dir \in Dirs /\ procs[p].cfg \in Plans
  BY IdleIsNoJob DEF PoolInv, Identify, PoolJob
<1>2. plans[procs[p].dir] = procs[p].cfg
  BY <1>1 DEF PoolInv, PlanHeld, Identify, Bindings
<1>3. CASE LedgerFiles(p)[procs[p].dir] \notin {Blank, procs[p].cfg}
  BY <1>1, <1>3, ExitLeaves, LeavingKeeps DEF Identify, files
<1>4. CASE LedgerFiles(p)[procs[p].dir] \in {Blank, procs[p].cfg}
  <2>1. Goto(p, "running") /\ "running" \in Places
    BY <1>4 DEF Identify, Places
  <2>2. Moved(p, "running")
    BY <1>1, <2>1, GotoMoves
  <2>3. SetFile(p, procs[p].cfg) /\ UNCHANGED <<plans, pools, issued>>
    BY <1>4 DEF Identify
  <2>4. Nothing \notin {Blank, procs[p].cfg}
    BY <1>1, ConstantsApart DEF Plans
  <2>5. /\ mocks' \in [Dirs -> Plans \cup {Nothing, Blank}]
        /\ lives' \in [Dirs -> Plans \cup {Nothing, Blank}]
        /\ \A d \in Dirs \ {procs[p].dir} : mocks'[d] = mocks[d] /\ lives'[d] = lives[d]
        /\ mocks'[procs[p].dir] \in {mocks[procs[p].dir], procs[p].cfg}
        /\ lives'[procs[p].dir] \in {lives[procs[p].dir], procs[p].cfg}
    BY <1>1, <2>3 DEF SetFile, PoolInv, FilesOK
  <2>6. FilesOK' /\ RowsUnique' /\ IssuedBound' /\ OneLedgerPerAllowance'
    BY <2>3, <2>5 DEF PoolInv, FilesOK, RowsUnique, IssuedBound, OneLedgerPerAllowance
  <2>7. LedgersKeepTheirPlan'
    <3>1. ASSUME NEW d \in Dirs, plans'[d] \in Plans
          PROVE  mocks'[d] \in {Nothing, Blank, plans'[d]} /\ lives'[d] \in {Nothing, Blank, plans'[d]}
      BY <1>2, <2>3, <2>5, <3>1 DEF PoolInv, LedgersKeepTheirPlan
    <3> QED
      BY <3>1 DEF LedgersKeepTheirPlan
  <2>8. ProcsOK' /\ Locked'
    BY <1>1, <2>2, TableKept
  <2>9. ASSUME NEW q \in Procs, procs'[q] \in PoolJob, q # p
        PROVE  procs'[q] = procs[q] /\ procs[q].dir \in Dirs \ {procs[p].dir}
    BY <1>1, <2>2, <2>9 DEF PoolInv, Locked, Moved, PoolJob
  <2>10. PlanHeld'
    <3>1. ASSUME NEW q \in Procs, procs'[q] \in PoolJob
          PROVE  /\ procs'[q].at \in Bindings => plans'[procs'[q].dir] = procs'[q].cfg
                 /\ procs'[q].at = "write" =>
                      mocks'[procs'[q].dir] = Nothing /\ lives'[procs'[q].dir] = Nothing
      <4>1. CASE q = p
        BY <1>2, <2>2, <2>3, <4>1 DEF Moved
      <4>2. CASE q # p
        BY <2>3, <2>5, <2>9, <3>1, <4>2 DEF PoolInv, PlanHeld
      <4> QED
        BY <4>1, <4>2
    <3> QED
      BY <3>1 DEF PlanHeld
  <2>11. Fresh'
    <3>1. ASSUME NEW q \in Procs, procs'[q] \in PoolJob, Live(q)', procs'[q].at = "open",
                 lives'[procs'[q].dir] = Nothing
          PROVE  /\ Row(procs'[q].cfg, procs'[q].dir) \in pools'
                 /\ \A x \in issued' : Row(x.cfg, x.dir) # Row(procs'[q].cfg, procs'[q].dir)
      <4>1. q # p
        BY <2>2, <3>1 DEF Moved
      <4>2. procs'[q] = procs[q] /\ lives[procs[q].dir] = Nothing /\ Live(q)
        BY <2>5, <2>9, <3>1, <4>1 DEF Live
      <4> QED
        BY <2>3, <3>1, <4>2 DEF PoolInv, Fresh
    <3> QED
      BY <3>1 DEF Fresh
  <2> QED
    BY <2>6, <2>7, <2>8, <2>10, <2>11 DEF PoolInv
<1> QED
  BY <1>3, <1>4

(* LedgerFiles are removed only where nothing runs, and their absence allows less. *)
LEMMA RemoveKeeps ==
  ASSUME PoolInv, NEW d \in Dirs, Remove(d)
  PROVE  PoolInv'
<1>1. /\ UNCHANGED <<pools, issued, procs>>
      /\ FilesOK'
      /\ \A e \in Dirs : /\ plans'[e] \in {plans[e], Nothing}
                         /\ mocks'[e] \in {mocks[e], Nothing}
                         /\ lives'[e] \in {lives[e], Nothing}
      /\ \A e \in Dirs \ {d} : plans'[e] = plans[e] /\ mocks'[e] = mocks[e] /\ lives'[e] = lives[e]
  BY DEF Remove, PoolInv, FilesOK
<1>2. \A p \in Procs : procs[p] \in PoolJob => procs[p].dir \in Dirs \ {d}
  BY IdleIsNoJob DEF Remove, Busy, PoolInv, PoolJob
<1>3. ProcsOK' /\ Locked' /\ RowsUnique' /\ IssuedBound' /\ OneLedgerPerAllowance'
  BY <1>1 DEF PoolInv, ProcsOK, Locked, RowsUnique, IssuedBound, OneLedgerPerAllowance, Live
<1>4. PlanHeld' /\ Fresh'
  BY <1>1, <1>2 DEF PoolInv, PlanHeld, Fresh, Live
<1>5. LedgersKeepTheirPlan'
  BY <1>1, ConstantsApart DEF PoolInv, LedgersKeepTheirPlan, Plans
<1> QED
  BY <1>1, <1>3, <1>4, <1>5 DEF PoolInv

-----------------------------------------------------------------------------

(* Every reachable state satisfies the invariant. *)
THEOREM PoolInvariance == Spec => []PoolInv
<1>1. Init => PoolInv
  BY IdleIsNoJob DEF Init, PoolInv, FilesOK, ProcsOK, Locked, PlanHeld, RowsUnique, IssuedBound, Fresh,
     OneLedgerPerAllowance, LedgersKeepTheirPlan
<1>2. PoolInv /\ [Next]_vars => PoolInv'
  <2> SUFFICES ASSUME PoolInv, [Next]_vars PROVE PoolInv'
    OBVIOUS
  <2>1. CASE \E p \in Procs : Step(p) \/ Crash(p)
    BY <2>1, LookingKeeps, FreezeKeeps, WriteKeeps, BindKeeps, ConnectKeeps, IdentifyKeeps DEF Step
  <2>2. CASE \E p \in Procs, d \in Dirs, mode \in Modes, c \in Plans : Start(p, d, mode, c)
    BY <2>2, StartKeeps
  <2>3. CASE \E d \in Dirs : Remove(d)
    BY <2>3, RemoveKeeps
  <2>4. CASE UNCHANGED vars
    BY <2>4 DEF vars, PoolInv, FilesOK, ProcsOK, Locked, PlanHeld, RowsUnique, IssuedBound, Fresh,
       OneLedgerPerAllowance, LedgersKeepTheirPlan, Live
  <2> QED
    BY <2>1, <2>2, <2>3, <2>4 DEF Next
<1> QED
  BY <1>1, <1>2, PTL DEF Spec

(* No pool and no approval ever pays for a second ledger. *)
THEOREM AllowancesPayOnce == Spec => []OneLedgerPerAllowance
BY PoolInvariance, PTL DEF PoolInv

(* A ledger never stands beside a plan other than its own. *)
THEOREM LedgersStayWithPlans == Spec => []LedgersKeepTheirPlan
BY PoolInvariance, PTL DEF PoolInv

-----------------------------------------------------------------------------
(* A bound pool whose ledger is not there yet is in the hands of the process *)
(* that bound it, which is about to create the ledger.                      *)
Counted == crashes \in Nat /\ repairs \in Nat
RowsPlaced == \A r \in pools : r.dir \in Dirs
BindersLive == \A p \in Procs : procs[p] \in PoolJob /\ procs[p].at \in {"look", "bind"} => Live(p)
InHand(r) == \E p \in Procs : /\ procs[p] \in PoolJob /\ procs[p].at = "open" /\ Live(p)
                             /\ Row(procs[p].cfg, procs[p].dir) = r
Served == crashes = 0 /\ repairs = 0 => \A r \in pools : lives[r.dir] # Nothing \/ InHand(r)

ServedInv == PoolInv /\ Counted /\ RowsPlaced /\ BindersLive /\ Served

(* A process that is not about to create its ledger takes no row along: the *)
(* rows in the hands of others stay there.                                  *)
LEMMA OthersHold ==
  ASSUME PoolInv, NEW p \in Procs, NEW at, procs[p] \in PoolJob, procs[p].at # "open",
         Moved(p, at) \/ Left(p), NEW r, InHand(r)
  PROVE  InHand(r)'
<1>1. PICK q \in Procs : /\ procs[q] \in PoolJob /\ procs[q].at = "open" /\ Live(q)
                         /\ Row(procs[q].cfg, procs[q].dir) = r
  BY DEF InHand
<1>2. procs'[q] = procs[q]
  BY <1>1 DEF Moved, Left
<1>3. Row(procs'[q].cfg, procs'[q].dir) = r /\ Live(q)'
  BY <1>1, <1>2 DEF Live, Row
<1> QED
  BY <1>1, <1>2, <1>3 DEF InHand

(* A step that leaves register and live ledgers alone strands nothing. *)
LEMMA IdleHandsKeep ==
  ASSUME ServedInv, NEW p \in Procs, NEW at, procs[p] \in PoolJob, procs[p].at # "open",
         Moved(p, at) \/ Left(p), UNCHANGED <<pools, crashes, repairs>>,
         \A d \in Dirs : lives[d] # Nothing => lives'[d] # Nothing
  PROVE  Served'
BY OthersHold DEF ServedInv, RowsPlaced, Served

(* The steps of a process that is elsewhere than at its ledger and binds     *)
(* nothing.                                                                 *)
LEMMA ElsewhereServes ==
  ASSUME ServedInv, NEW p \in Procs,
         Glance(p) \/ Keep(p) \/ FreezePlan(p) \/ Write(p) \/ Look(p) \/ Identify(p) \/ Finish(p)
  PROVE  Served'
<1>1. ProcsOK /\ procs[p] \in PoolJob /\ procs[p].at # "open" /\ procs[p].dir \in Dirs /\ procs[p].cfg \in Plans
  BY IdleIsNoJob DEF ServedInv, PoolInv, Glance, Keep, FreezePlan, Write, Look, Identify, Finish, PoolJob
<1>2. Exit(p) \/ \E at \in Places : Goto(p, at)
  <2>1. AfterFreeze(p) # "idle" => AfterFreeze(p) \in Places
    BY DEF AfterFreeze, Places
  <2> QED
    BY <2>1 DEF Glance, Keep, FreezePlan, Write, Look, Identify, Finish, Places
<1>3. \E at : Moved(p, at) \/ Left(p)
  BY <1>1, <1>2, GotoMoves, ExitLeaves
<1>4. UNCHANGED <<pools, crashes, repairs>>
  BY DEF Glance, Keep, FreezePlan, Write, Look, Identify, Finish, files
<1>5. \A d \in Dirs : lives[d] # Nothing => lives'[d] # Nothing
  <2>1. CASE UNCHANGED lives
    BY <2>1
  <2>2. CASE Identify(p) /\ lives' = [lives EXCEPT ![procs[p].dir] = procs[p].cfg]
    BY <1>1, <2>2, ConstantsApart DEF Plans, ServedInv, PoolInv, FilesOK
  <2> QED
    BY <2>1, <2>2 DEF Glance, Keep, FreezePlan, Write, Look, Identify, Finish, files, SetFile
<1> QED
  BY <1>1, <1>3, <1>4, <1>5, IdleHandsKeep

(* A row is bound by the process that goes on to create its ledger. *)
LEMMA BindServes ==
  ASSUME ServedInv, NEW p \in Procs, Bind(p)
  PROVE  Served'
<1>1. /\ ProcsOK /\ procs[p] \in PoolJob /\ procs[p].at # "open"
      /\ UNCHANGED <<lives, crashes, repairs>>
  BY IdleIsNoJob DEF ServedInv, PoolInv, Bind
<1>2. CASE Bound(procs[p].cfg) # {}
  BY <1>1, <1>2, ExitLeaves, IdleHandsKeep DEF Bind
<1>3. CASE Bound(procs[p].cfg) = {}
  <2>1. Moved(p, "open") /\ pools' = pools \cup {Row(procs[p].cfg, procs[p].dir)}
    BY <1>1, <1>3, GotoMoves DEF Bind, Places
  <2>2. Live(p)
    BY <1>1 DEF ServedInv, BindersLive, Bind
  <2>3. ASSUME NEW r, r = Row(procs[p].cfg, procs[p].dir) PROVE InHand(r)'
    BY <2>1, <2>2, <2>3 DEF InHand, Moved, Live, Row
  <2>4. \A r : InHand(r) => InHand(r)'
    BY <1>1, <2>1, OthersHold DEF ServedInv
  <2> QED
    BY <1>1, <2>1, <2>3, <2>4 DEF ServedInv, Served
<1> QED
  BY <1>2, <1>3

(* The row in hand gets its ledger. *)
LEMMA ConnectServes ==
  ASSUME ServedInv, NEW p \in Procs, Connect(p)
  PROVE  Served'
<1>1. /\ ProcsOK /\ procs[p] \in PoolJob /\ procs[p].dir \in Dirs
      /\ lives \in [Dirs -> Plans \cup {Nothing, Blank}]
      /\ UNCHANGED <<pools, crashes, repairs>>
  BY IdleIsNoJob DEF ServedInv, PoolInv, FilesOK, Connect, PoolJob
<1>2. Moved(p, "identify")
  BY <1>1, GotoMoves DEF Connect, Places
<1>3. \A d \in Dirs : lives[d] # Nothing => lives'[d] # Nothing
  BY <1>1, ConstantsApart DEF Connect, SetFile
<1>4. Live(p) => lives'[procs[p].dir] # Nothing
  BY <1>1, ConstantsApart DEF Connect, SetFile, LedgerFiles
<1>5. ASSUME NEW r \in pools, InHand(r)
      PROVE  lives'[r.dir] # Nothing \/ InHand(r)'
  <2>1. PICK q \in Procs : /\ procs[q] \in PoolJob /\ procs[q].at = "open" /\ Live(q)
                           /\ Row(procs[q].cfg, procs[q].dir) = r
    BY <1>5 DEF InHand
  <2>2. CASE q = p
    BY <1>4, <2>1, <2>2 DEF Row
  <2>3. CASE q # p
    BY <1>2, <2>1, <2>3 DEF InHand, Moved, Live, Row
  <2> QED
    BY <2>2, <2>3
<1> QED
  BY <1>1, <1>3, <1>5 DEF ServedInv, RowsPlaced, Served

(* A process that starts takes nothing from another one's hands. *)
LEMMA StartServes ==
  ASSUME ServedInv, NEW p \in Procs, NEW d \in Dirs, NEW mode \in Modes, NEW c \in Plans,
         Start(p, d, mode, c)
  PROVE  Served'
<1>1. UNCHANGED <<pools, lives, crashes, repairs>> /\ procs[p].at = "idle"
      /\ \A q \in Procs \ {p} : procs'[q] = procs[q]
  BY DEF Start, files, ServedInv, PoolInv, ProcsOK
<1>2. ASSUME NEW r, InHand(r) PROVE InHand(r)'
  BY <1>1, <1>2 DEF InHand, Live, Row
<1> QED
  BY <1>1, <1>2 DEF ServedInv, Served

(* The counters count, and rows name directories. *)
LEMMA CountersKept ==
  ASSUME ServedInv, [Next]_vars
  PROVE  Counted' /\ RowsPlaced'
<1>1. CASE UNCHANGED <<pools, crashes, repairs>>
  BY <1>1 DEF ServedInv, Counted, RowsPlaced
<1>2. CASE \E p \in Procs : Bind(p)
  BY <1>2, IdleIsNoJob DEF ServedInv, PoolInv, Counted, RowsPlaced, Bind, Row, PoolJob
<1>3. CASE \E p \in Procs : Crash(p)
  BY <1>3 DEF ServedInv, Counted, RowsPlaced, Crash, files
<1>4. CASE \E d \in Dirs : Remove(d)
  BY <1>4 DEF ServedInv, Counted, RowsPlaced, Remove
<1>5. CASE \E p \in Procs : Glance(p) \/ Keep(p) \/ FreezePlan(p) \/ Write(p) \/ Look(p)
                             \/ Connect(p) \/ Identify(p) \/ Finish(p)
  BY <1>1, <1>5 DEF Glance, Keep, FreezePlan, Write, Look, Connect, Identify, Finish, files
<1>6. CASE \E p \in Procs, d \in Dirs, mode \in Modes, c \in Plans : Start(p, d, mode, c)
  BY <1>1, <1>6 DEF Start, files
<1>7. CASE UNCHANGED vars
  BY <1>1, <1>7 DEF vars
<1> QED
  BY <1>2, <1>3, <1>4, <1>5, <1>6, <1>7 DEF Next, Step

(* Only a live run comes to the register. *)
LEMMA BindersKept ==
  ASSUME ServedInv, [Next]_vars
  PROVE  BindersLive'
<1> SUFFICES ASSUME NEW p \in Procs, procs'[p] \in PoolJob, procs'[p].at \in {"look", "bind"}
             PROVE  Live(p)'
  BY DEF BindersLive
<1>1. CASE procs'[p] = procs[p]
  BY <1>1 DEF ServedInv, BindersLive, Live
<1>2. CASE procs[p] \in PoolJob /\ (Keep(p) \/ Write(p) \/ Look(p)) /\ ~Exit(p)
  <2>1. ProcsOK
    BY DEF ServedInv, PoolInv
  <2>2. CASE Look(p)
    <3>1. procs[p].at = "look" /\ \E at : Goto(p, at)
      BY <1>2, <2>2 DEF Look
    <3>2. Live(p)
      BY <1>2, <3>1 DEF ServedInv, BindersLive
    <3> QED
      BY <2>1, <3>1, <3>2 DEF Goto, Live, ProcsOK
  <2>3. CASE Keep(p) \/ Write(p)
    <3>1. Goto(p, AfterFreeze(p))
      BY <1>2, <2>3 DEF Keep, Write
    <3>2. /\ procs'[p].at = AfterFreeze(p) /\ procs'[p].mode = procs[p].mode
      BY <1>2, <2>1, <3>1 DEF Goto, ProcsOK, PoolJob
    <3> QED
      BY <3>2 DEF AfterFreeze, Live
  <2> QED
    BY <1>2, <2>2, <2>3
<1>3. ASSUME NEW q \in Procs, Step(q) \/ Crash(q) PROVE Live(p)'
  <2>1. ProcsOK /\ procs[q] \in PoolJob
    BY <1>3, IdleIsNoJob DEF ServedInv, PoolInv, Step, Crash, Glance, Keep, FreezePlan, Write, Look, Bind,
       Connect, Identify, Finish
  <2>2. CASE Exit(q)
    BY <1>1, <2>1, <2>2, ExitLeaves, IdleIsNoJob DEF Left
  <2>3. CASE ~Exit(q) /\ (Keep(q) \/ Write(q) \/ Look(q))
    <3>1. \E at : Goto(q, at)
      BY <2>3 DEF Keep, Write, Look
    <3> QED
      BY <1>1, <1>2, <2>1, <2>3, <3>1 DEF Goto, ProcsOK
  <2>4. CASE ~Exit(q) /\ (Glance(q) \/ FreezePlan(q) \/ Bind(q) \/ Connect(q) \/ Identify(q))
    <3>1. \E at \in {"freeze", "write", "open", "identify", "running"} : Goto(q, at)
      BY <2>4 DEF Glance, FreezePlan, Bind, Connect, Identify
    <3>2. PICK at \in {"freeze", "write", "open", "identify", "running"} : Moved(q, at)
      BY <2>1, <3>1, GotoMoves DEF Places
    <3> QED
      BY <1>1, <3>2 DEF Moved
  <2> QED
    BY <1>3, <2>2, <2>3, <2>4 DEF Step, Crash, Finish
<1>4. CASE \E q \in Procs, d \in Dirs, mode \in Modes, c \in Plans : Start(q, d, mode, c)
  BY <1>1, <1>4 DEF Start, FirstStep, ServedInv, PoolInv, ProcsOK
<1>5. CASE (\E d \in Dirs : Remove(d)) \/ UNCHANGED vars
  BY <1>1, <1>5 DEF Remove, vars
<1> QED
  BY <1>3, <1>4, <1>5 DEF Next

(* Every reachable state has each bound pool served, unless somebody died or *)
(* removed files.                                                           *)
THEOREM PoolsServed == Spec => []ServedInv
<1>1. Init => Counted /\ RowsPlaced /\ BindersLive /\ Served
  BY IdleIsNoJob DEF Init, Counted, RowsPlaced, BindersLive, Served
<1>2. ServedInv /\ PoolInv' /\ [Next]_vars => ServedInv'
  <2> SUFFICES ASSUME ServedInv, PoolInv', [Next]_vars PROVE ServedInv'
    OBVIOUS
  <2>1. Counted' /\ RowsPlaced' /\ BindersLive'
    BY CountersKept, BindersKept
  <2>2. CASE \E p \in Procs : Step(p)
    BY <2>1, <2>2, ElsewhereServes, BindServes, ConnectServes DEF Step, ServedInv
  <2>3. CASE (\E p \in Procs : Crash(p)) \/ (\E d \in Dirs : Remove(d))
    <3>1. crashes' # 0 \/ repairs' # 0
      BY <2>3 DEF Crash, Remove, ServedInv, Counted
    <3> QED
      BY <2>1, <3>1 DEF ServedInv, Served
  <2>4. CASE \E p \in Procs, d \in Dirs, mode \in Modes, c \in Plans : Start(p, d, mode, c)
    BY <2>1, <2>4, StartServes DEF ServedInv
  <2>5. CASE UNCHANGED vars
    BY <2>1, <2>5 DEF vars, ServedInv, Served, InHand, Live, Row
  <2> QED
    BY <2>2, <2>3, <2>4, <2>5 DEF Next
<1> QED
  BY <1>1, <1>2, PoolInvariance, PTL DEF Spec, ServedInv

(* Without a death or a removed file no pool is left bound for nothing       *)
(* (register_pool after the plan is frozen, two_stage_batch.py:1110-1127).  *)
THEOREM PoolsAreNotStranded == Spec => []StrandedOnlyByCrash
<1>1. ServedInv => StrandedOnlyByCrash
  BY IdleIsNoJob DEF ServedInv, PoolInv, Served, InHand, StrandedOnlyByCrash
<1> QED
  BY <1>1, PoolsServed, PTL

-----------------------------------------------------------------------------
(* The registry of confirmation studies *)


Ops == {"none", "label", "receipt", "search", "freeze", "save", "confirm", "evaluate"}
AnyLabel == [file : Files, verdict : Verdicts]
Job == [op : Ops, ws : Workspaces \cup {Absent}, todo : SUBSET AnyLabel,
        file : Files \cup {Absent}, result : {"pass", "insufficient", Absent}]

StudyTypeOK ==
  /\ sample \in [Workspaces -> Partition]
  /\ opinions \in [Files -> Verdicts \cup {Absent, Broken}]
  /\ usedBy \in [Units -> Workspaces \cup {Absent}]
  /\ studies \in [Workspaces -> {"none", "frozen", "consumed"}]
  /\ frozen \in [Workspaces -> {"none", "torn", "written"}]
  /\ analysed \in [Workspaces -> Nat]
  /\ desk \in [Desks -> Job]
  /\ \A p \in Desks : desk[p].op # "none" => desk[p].ws \in Workspaces

(* No workspace calibrates on what it confirms. *)
Apart == \A w \in Workspaces : sample[w].calibration \cap sample[w].confirmation = {}

(* The registry knows the units of every study. *)
UnitsClaimed ==
  \A w \in Workspaces : studies[w] # "none" => \A u \in sample[w].confirmation : usedBy[u] = w

(* A consumed study is analysed, is about to be by one desk, or was lost with it. *)
AnalysedOnce ==
  /\ \A w \in Workspaces : analysed[w] <= 1 /\ (analysed[w] # 0 => studies[w] = "consumed")
  /\ \A p \in Desks : desk[p].op = "evaluate" =>
       /\ studies[desk[p].ws] = "consumed" /\ analysed[desk[p].ws] = 0
       /\ \A q \in Desks : desk[q].op = "evaluate" /\ desk[q].ws = desk[p].ws => q = p

(* The freeze file comes after the registry, and no desk holds a label too early. *)
Registered ==
  /\ \A w \in Workspaces : frozen[w] # "none" => studies[w] # "none"
  /\ \A p \in Desks : desk[p].op = "save" => studies[desk[p].ws] # "none"
  /\ \A p \in Desks : \A l \in desk[p].todo :
       l.file[2] \in sample[l.file[1]].confirmation => studies[l.file[1]] # "none"

StudyInv == /\ StudyTypeOK /\ Apart /\ UnitsClaimed /\ AnalysedOnce
            /\ Registered /\ LabelsFollowFreeze

-----------------------------------------------------------------------------
(* What a step leaves of the desks *)

(* Desk p has gone on to job; the others have not moved. *)
Turned(p, job) ==
  /\ desk' \in [Desks -> Job]
  /\ desk'[p] = job
  /\ \A q \in Desks \ {p} : desk'[q] = desk[q]

(* The Free desk is a job like another. *)
LEMMA FreeIsJob ==
  /\ Free \in Job /\ Free.op = "none" /\ Free.ws = Absent /\ Free.todo = {}
BY DEF Free, Job, Ops

(* Putting a job on a desk turns that desk alone. *)
LEMMA Turns ==
  ASSUME StudyTypeOK, NEW p \in Desks, NEW job \in Job, desk' = [desk EXCEPT ![p] = job]
  PROVE  Turned(p, job)
BY DEF StudyTypeOK, Turned

(* Leave frees the desk. *)
LEMMA Leaves ==
  ASSUME StudyTypeOK, NEW p \in Desks, Leave(p)
  PROVE  Turned(p, Free)
BY FreeIsJob, Turns DEF Leave

(* Sit gives it a command over a workspace. *)
LEMMA Sits ==
  ASSUME StudyTypeOK, NEW p \in Desks, NEW op \in Ops, NEW w \in Workspaces, Sit(p, op, w)
  PROVE  \E job \in Job : Turned(p, job) /\ job.op = op /\ job.ws = w /\ job.todo = {}
<1> DEFINE job == [Free EXCEPT !.op = op, !.ws = w]
<1>1. job \in Job /\ job.op = op /\ job.ws = w /\ job.todo = {}
  BY DEF Free, Job, Ops
<1>2. desk' = [desk EXCEPT ![p] = job]
  BY DEF Sit
<1>3. Turned(p, job)
  BY <1>1, <1>2, Turns
<1> QED
  BY <1>1, <1>3

(* Continue leaves no label that was not to be locked before. *)
LEMMA Continues ==
  ASSUME StudyTypeOK, NEW p \in Desks, NEW todo \in SUBSET AnyLabel, Continue(p, todo),
         desk[p].op # "none"
  PROVE  \E job \in Job : /\ Turned(p, job) /\ job.op \in {"none", "label"}
                          /\ job.op # "none" => job.ws \in Workspaces
                          /\ job.todo \subseteq todo
<1> DEFINE on == [desk[p] EXCEPT !.op = "label", !.todo = todo, !.file = Absent]
           job == IF todo = {} THEN Free ELSE on
<1>1. desk[p] \in Job /\ desk[p].ws \in Workspaces
  BY DEF StudyTypeOK
<1>2. on \in Job /\ on.op = "label" /\ on.ws = desk[p].ws /\ on.todo = todo
  BY <1>1 DEF Job, Ops
<1>3. /\ job \in Job /\ job.op \in {"none", "label"} /\ job.todo \subseteq todo
      /\ job.op # "none" => job.ws \in Workspaces
  BY <1>1, <1>2, FreeIsJob
<1>4. desk' = [desk EXCEPT ![p] = job]
  BY DEF Continue, StudyTypeOK
<1>5. Turned(p, job)
  BY <1>3, <1>4, Turns
<1> QED
  BY <1>3, <1>5

-----------------------------------------------------------------------------
(* Steps that leave the registry and the analyses alone *)

(* A label of a population needs its study. *)
Covered(file) == file[2] \in sample[file[1]].confirmation => studies[file[1]] # "none"

(* A desk takes up a job that is neither the end of a freeze nor an analysis, with no
   label too early; no opinion appears too early and no freeze file without a study. *)
LEMMA QuietStep ==
  ASSUME StudyInv, NEW p \in Desks, NEW job \in Job, Turned(p, job),
         job.op # "none" => job.ws \in Workspaces,
         job.op \notin {"save", "evaluate"},
         \A l \in job.todo : Covered(l.file),
         UNCHANGED <<sample, usedBy, studies, analysed>>,
         opinions' \in [Files -> Verdicts \cup {Absent, Broken}],
         \A f \in Files : opinions'[f] # Absent => opinions[f] # Absent \/ Covered(f),
         frozen' \in [Workspaces -> {"none", "torn", "written"}],
         \A w \in Workspaces : frozen'[w] # "none" => studies[w] # "none"
  PROVE  StudyInv'
<1>1. StudyTypeOK'
  BY DEF StudyInv, StudyTypeOK, Turned
<1>2. Apart' /\ UnitsClaimed'
  BY DEF StudyInv, Apart, UnitsClaimed
<1>3. AnalysedOnce'
  BY DEF StudyInv, AnalysedOnce, Turned
<1>4. Registered'
  <2>1. \A q \in Desks : desk'[q].op = "save" => studies[desk'[q].ws] # "none"
    BY DEF StudyInv, Registered, Turned
  <2>2. \A q \in Desks : \A l \in desk'[q].todo : Covered(l.file)
    BY DEF StudyInv, Registered, Turned, Covered
  <2> QED
    BY <2>1, <2>2 DEF Registered, Covered
<1>5. LabelsFollowFreeze'
  BY DEF StudyInv, LabelsFollowFreeze, Written, Covered
<1> QED
  BY <1>1, <1>2, <1>3, <1>4, <1>5 DEF StudyInv

(* The same where neither opinions nor freeze files change. *)
LEMMA DeskStep ==
  ASSUME StudyInv, NEW p \in Desks, NEW job \in Job, Turned(p, job),
         job.op # "none" => job.ws \in Workspaces,
         job.op \notin {"save", "evaluate"},
         \A l \in job.todo : Covered(l.file),
         UNCHANGED <<sample, opinions, usedBy, studies, frozen, analysed>>
  PROVE  StudyInv'
<1>1. /\ opinions \in [Files -> Verdicts \cup {Absent, Broken}]
      /\ frozen \in [Workspaces -> {"none", "torn", "written"}]
      /\ \A w \in Workspaces : frozen[w] # "none" => studies[w] # "none"
  BY DEF StudyInv, StudyTypeOK, Registered
<1> QED
  BY <1>1, QuietStep

(* A desk that gives up or is done is quiet. *)
LEMMA LeaveStep ==
  ASSUME StudyInv, NEW p \in Desks, Leave(p),
         UNCHANGED <<sample, opinions, usedBy, studies, frozen, analysed>>
  PROVE  StudyInv'
<1>1. Turned(p, Free)
  BY Leaves DEF StudyInv
<1> QED
  BY <1>1, FreeIsJob, DeskStep

(* So is one that sits down to a search or a freeze. *)
LEMMA SitStep ==
  ASSUME StudyInv, NEW p \in Desks, NEW w \in Workspaces, NEW op \in {"search", "freeze"},
         Sit(p, op, w), UNCHANGED <<sample, opinions, usedBy, studies, frozen, analysed>>
  PROVE  StudyInv'
<1>1. PICK job \in Job : Turned(p, job) /\ job.op = op /\ job.ws = w /\ job.todo = {}
  BY Sits DEF StudyInv, Ops
<1> QED
  BY <1>1, DeskStep

(* And one that goes on with fewer labels. *)
LEMMA ContinueStep ==
  ASSUME StudyInv, NEW p \in Desks, NEW todo \in SUBSET desk[p].todo, desk[p].op # "none",
         Continue(p, todo), UNCHANGED <<sample, opinions, usedBy, studies, frozen, analysed>>
  PROVE  StudyInv'
<1>1. desk[p] \in Job
  BY DEF StudyInv, StudyTypeOK
<1>2. todo \in SUBSET AnyLabel
  BY <1>1 DEF Job
<1>3. PICK job \in Job : /\ Turned(p, job) /\ job.op \in {"none", "label"}
                         /\ job.op # "none" => job.ws \in Workspaces
                         /\ job.todo \subseteq todo
  BY <1>2, Continues DEF StudyInv
<1>4. \A l \in job.todo : Covered(l.file)
  BY <1>3 DEF StudyInv, Registered, Covered
<1>5. job.op \notin {"save", "evaluate"} /\ (job.op # "none" => job.ws \in Workspaces)
  BY <1>3
<1>6. Turned(p, job)
  BY <1>3
<1> QED
  BY <1>4, <1>5, <1>6, DeskStep

-----------------------------------------------------------------------------
(* The steps of reviewing *)

(* A review starts with labels of cases that are shown. *)
LEMMA ReviewKeeps ==
  ASSUME StudyInv, NEW p \in Desks, NEW w \in Workspaces,
         NEW labels \in SUBSET Labels(w), Review(p, w, labels)
  PROVE  StudyInv'
<1> DEFINE job == [Free EXCEPT !.op = "label", !.ws = w, !.todo = labels]
<1>1. labels \subseteq AnyLabel /\ \A l \in labels : l.file \in Files /\ l.file[1] = w
  BY DEF Labels, FilesOf, AnyLabel
<1>2. job \in Job /\ job.op = "label" /\ job.ws = w /\ job.todo = labels
  BY <1>1 DEF Free, Job, Ops
<1>3. Turned(p, job)
  <2>1. desk' = [desk EXCEPT ![p] = job]
    BY DEF Review
  <2> QED
    BY <1>2, <2>1, Turns DEF StudyInv
<1>4. \A l \in job.todo : Covered(l.file)
  <2> SUFFICES ASSUME NEW l \in labels PROVE Covered(l.file)
    BY <1>2
  <2>1. Case(w, l.file[2]) /\ l.file[1] = w
    BY <1>1 DEF Review
  <2>2. l.file[2] \in sample[w].calibration => l.file[2] \notin sample[w].confirmation
    BY DEF StudyInv, Apart
  <2>3. frozen[w] # "none" => studies[w] # "none"
    BY DEF StudyInv, Registered
  <2> QED
    BY <2>1, <2>2, <2>3 DEF Case, Covered
<1>5. UNCHANGED <<sample, opinions, usedBy, studies, frozen, analysed>>
  BY DEF Review, registry, outcome
<1>6. job.op \notin {"save", "evaluate"} /\ (job.op # "none" => job.ws \in Workspaces)
  BY <1>2
<1> HIDE DEF job
<1> QED
  BY <1>2, <1>3, <1>4, <1>5, <1>6, DeskStep

(* Lock writes an opinion that its desk was entitled to. *)
LEMMA LockKeeps ==
  ASSUME StudyInv, NEW p \in Desks, NEW l \in desk[p].todo, Lock(p, l)
  PROVE  StudyInv'
<1> DEFINE job == [desk[p] EXCEPT !.op = "receipt", !.file = l.file, !.todo = @ \ {l}]
<1>1. desk[p] \in Job /\ desk[p].ws \in Workspaces /\ l \in AnyLabel
  BY DEF StudyInv, StudyTypeOK, Lock, Doing, Job
<1>2. /\ job \in Job /\ job.op = "receipt" /\ job.ws = desk[p].ws
      /\ job.todo = desk[p].todo \ {l}
  BY <1>1 DEF Job, Ops, AnyLabel
<1>3. Turned(p, job)
  <2>1. desk' = [desk EXCEPT ![p] = job]
    BY DEF Lock, StudyInv, StudyTypeOK
  <2> QED
    BY <1>2, <2>1, Turns DEF StudyInv
<1>4. \A m \in desk[p].todo : Covered(m.file)
  BY DEF StudyInv, Registered, Covered
<1>5. l.file \in Files /\ l.verdict \in Verdicts /\ opinions' = [opinions EXCEPT ![l.file] = l.verdict]
  BY <1>1 DEF Lock, AnyLabel
<1>6. /\ opinions' \in [Files -> Verdicts \cup {Absent, Broken}]
      /\ \A f \in Files : opinions'[f] # Absent => opinions[f] # Absent \/ Covered(f)
  BY <1>4, <1>5 DEF StudyInv, StudyTypeOK
<1>7. UNCHANGED <<sample, usedBy, studies, analysed>> /\ frozen' = frozen
  BY DEF Lock, registry, outcome
<1>8. /\ frozen' \in [Workspaces -> {"none", "torn", "written"}]
      /\ \A w \in Workspaces : frozen'[w] # "none" => studies[w] # "none"
  BY <1>7 DEF StudyInv, StudyTypeOK, Registered
<1>9. /\ job.op \notin {"save", "evaluate"} /\ (job.op # "none" => job.ws \in Workspaces)
      /\ \A m \in job.todo : Covered(m.file)
  BY <1>1, <1>2, <1>4
<1> HIDE DEF job
<1> QED
  BY <1>2, <1>3, <1>6, <1>7, <1>8, <1>9, QuietStep

(* The receipt of a label, and a label that somebody else has locked. *)
LEMMA ReceiptKeeps ==
  ASSUME StudyInv, NEW p \in Desks, Receipt(p)
  PROVE  StudyInv'
<1>1. /\ desk[p].op # "none" /\ Continue(p, desk[p].todo)
      /\ UNCHANGED <<sample, opinions, usedBy, studies, frozen, analysed>>
  BY DEF Receipt, Doing, registry, outcome
<1> QED
  BY <1>1, ContinueStep

(* See Forestalled: the label is passed over. *)
LEMMA ForestalledKeeps ==
  ASSUME StudyInv, NEW p \in Desks, NEW l \in desk[p].todo, Forestalled(p, l)
  PROVE  StudyInv'
<1>1. /\ desk[p].op # "none" /\ Continue(p, desk[p].todo \ {l})
      /\ UNCHANGED <<sample, opinions, usedBy, studies, frozen, analysed>>
  BY DEF Forestalled, Doing, registry, outcome
<1> QED
  BY <1>1, ContinueStep

-----------------------------------------------------------------------------
(* The steps of a study *)

(* A search and the checks of a freeze only seat the desk. *)
LEMMA SeatsKeep ==
  ASSUME StudyInv, NEW p \in Desks, NEW w \in Workspaces, Search(p, w) \/ Freeze(p, w)
  PROVE  StudyInv'
<1>1. UNCHANGED <<sample, opinions, usedBy, studies, frozen, analysed>>
  BY DEF Search, Freeze, registry, outcome
<1>2. Sit(p, "search", w) \/ Sit(p, "freeze", w)
  BY DEF Search, Freeze
<1> QED
  BY <1>1, <1>2, SitStep

(* A saved search changes nothing that is claimed. *)
LEMMA SaveSearchKeeps ==
  ASSUME StudyInv, NEW p \in Desks, SaveSearch(p)
  PROVE  StudyInv'
<1>1. Leave(p) /\ UNCHANGED <<sample, opinions, usedBy, studies, frozen, analysed>>
  BY DEF SaveSearch, registry, outcome
<1> QED
  BY <1>1, LeaveStep

(* A population is registered when none of its units is in a study, so that its own
   study is new and no other loses a unit. *)
LEMMA RegisterKeeps ==
  ASSUME StudyInv, NEW p \in Desks, Register(p)
  PROVE  StudyInv'
<1> DEFINE w == desk[p].ws
           job == [desk[p] EXCEPT !.op = "save"]
<1>1. w \in Workspaces /\ desk[p] \in Job /\ desk[p].op = "freeze"
  BY DEF StudyInv, StudyTypeOK, Register, Doing
<1>2. CASE Leave(p) /\ UNCHANGED registry
  <2>1. UNCHANGED <<sample, opinions, usedBy, studies, frozen, analysed>>
    BY <1>2 DEF Register, registry, outcome
  <2> QED
    BY <1>2, <2>1, LeaveStep
<1>3. CASE /\ \A u \in sample[w].confirmation : usedBy[u] = Absent
           /\ usedBy' = [u \in Units |-> IF u \in sample[w].confirmation THEN w ELSE usedBy[u]]
           /\ studies' = [studies EXCEPT ![w] = "frozen"]
           /\ desk' = [desk EXCEPT ![p].op = "save"]
  <2>1. job \in Job /\ job.op = "save" /\ job.ws = w /\ job.todo = desk[p].todo
    BY <1>1 DEF Job, Ops
  <2>2. Turned(p, job)
    <3>1. desk' = [desk EXCEPT ![p] = job]
      BY <1>3 DEF StudyInv, StudyTypeOK
    <3> QED
      BY <2>1, <3>1, Turns DEF StudyInv
  <2>3. UNCHANGED <<sample, opinions, frozen, analysed>>
    BY DEF Register, outcome
  <2>4. studies[w] = "none"
    <3>0. sample[w].confirmation # {}
      <4>1. sample[w] \in Partition
        BY <1>1 DEF StudyInv, StudyTypeOK
      <4> HIDE DEF w
      <4> QED
        BY <4>1 DEF Partition
    <3>1. PICK u \in sample[w].confirmation : TRUE
      BY <3>0
    <3>2. usedBy[u] # w
      BY <1>1, <1>3, <3>1, StudyAssumption
    <3> QED
      BY <1>1, <3>1, <3>2 DEF StudyInv, UnitsClaimed
  <2>5. /\ studies' \in [Workspaces -> {"none", "frozen", "consumed"}]
        /\ studies'[w] = "frozen" /\ \A v \in Workspaces \ {w} : studies'[v] = studies[v]
    BY <1>1, <1>3 DEF StudyInv, StudyTypeOK
  <2>6. \A v \in Workspaces : sample[v].confirmation \subseteq Units
    BY DEF StudyInv, StudyTypeOK, Partition
  <2> HIDE DEF job
  <2>7. StudyTypeOK'
    <3>1. usedBy' \in [Units -> Workspaces \cup {Absent}]
      BY <1>1, <1>3 DEF StudyInv, StudyTypeOK
    <3>2. \A q \in Desks : desk'[q].op # "none" => desk'[q].ws \in Workspaces
      BY <1>1, <2>1, <2>2 DEF StudyInv, StudyTypeOK, Turned
    <3> QED
      BY <2>2, <2>3, <2>5, <3>1, <3>2 DEF StudyInv, StudyTypeOK, Turned
  <2>8. UnitsClaimed'
    <3> SUFFICES ASSUME NEW v \in Workspaces, studies'[v] # "none",
                        NEW u \in sample[v].confirmation
                 PROVE  usedBy'[u] = v
      BY <2>3 DEF UnitsClaimed
    <3>1. CASE v = w
      BY <1>3, <2>6, <3>1
    <3>2. CASE v # w
      <4>1. usedBy[u] = v
        BY <2>5, <3>2 DEF StudyInv, UnitsClaimed
      <4>2. u \notin sample[w].confirmation
        BY <1>3, <4>1, StudyAssumption
      <4> QED
        BY <1>3, <2>6, <4>1, <4>2
    <3> QED
      BY <3>1, <3>2
  <2>9. AnalysedOnce'
    <3>1. \A v \in Workspaces : analysed[v] # 0 => v # w
      BY <1>1, <2>4 DEF StudyInv, AnalysedOnce
    <3>2. \A q \in Desks : desk'[q].op = "evaluate" => q # p /\ desk'[q] = desk[q]
      BY <2>1, <2>2 DEF Turned
    <3>3. \A q \in Desks : desk[q].op = "evaluate" => desk[q].ws \in Workspaces \ {w}
      BY <2>4 DEF StudyInv, StudyTypeOK, AnalysedOnce
    <3> QED
      BY <2>3, <2>5, <3>1, <3>2, <3>3 DEF StudyInv, AnalysedOnce
  <2>10. \A v \in Workspaces : studies[v] # "none" => studies'[v] # "none"
    BY <2>5
  <2>11. Registered'
    <3>1. \A q \in Desks : desk'[q].op = "save" => studies'[desk'[q].ws] # "none"
      BY <2>1, <2>2, <2>5, <2>10 DEF StudyInv, StudyTypeOK, Registered, Turned
    <3>2. \A q \in Desks : desk'[q].todo = desk[q].todo /\ desk[q].todo \subseteq AnyLabel
      BY <2>1, <2>2 DEF StudyInv, StudyTypeOK, Turned, Job
    <3>3. \A l \in AnyLabel : l.file[1] \in Workspaces
      BY DEF AnyLabel, Files
    <3> QED
      BY <2>3, <2>10, <3>1, <3>2, <3>3 DEF StudyInv, Registered
  <2>12. LabelsFollowFreeze'
    <3>1. \A f \in Files : f[1] \in Workspaces
      BY DEF Files
    <3> QED
      BY <2>3, <2>10, <3>1 DEF StudyInv, LabelsFollowFreeze, Written
  <2>13. Apart'
    BY <2>3 DEF StudyInv, Apart
  <2> QED
    BY <2>7, <2>8, <2>9, <2>11, <2>12, <2>13 DEF StudyInv
<1> QED
  BY <1>2, <1>3 DEF Register

(* The freeze file is written only by a desk that has registered. *)
LEMMA SaveFreezeKeeps ==
  ASSUME StudyInv, NEW p \in Desks, Doing(p, "save"), NEW as \in {"torn", "written"},
         frozen' = [frozen EXCEPT ![desk[p].ws] = as], Leave(p),
         UNCHANGED <<sample, opinions, usedBy, studies, analysed>>
  PROVE  StudyInv'
<1>1. desk[p].ws \in Workspaces /\ studies[desk[p].ws] # "none"
  BY DEF StudyInv, StudyTypeOK, Registered, Doing
<1>2. /\ frozen' \in [Workspaces -> {"none", "torn", "written"}]
      /\ \A w \in Workspaces : frozen'[w] # "none" => studies[w] # "none"
  BY <1>1 DEF StudyInv, StudyTypeOK, Registered
<1>3. opinions' \in [Files -> Verdicts \cup {Absent, Broken}]
  BY DEF StudyInv, StudyTypeOK
<1>4. Turned(p, Free)
  BY Leaves DEF StudyInv
<1> QED
  BY <1>2, <1>3, <1>4, FreeIsJob, QuietStep

(* Confirm takes up the population of a freeze. *)
LEMMA ConfirmKeeps ==
  ASSUME StudyInv, NEW p \in Desks, NEW w \in Workspaces,
         NEW r \in {"pass", "insufficient"}, Confirm(p, w, r)
  PROVE  StudyInv'
<1> DEFINE job == [Free EXCEPT !.op = "confirm", !.ws = w, !.result = r]
<1>1. job \in Job /\ job.op = "confirm" /\ job.ws = w /\ job.todo = {}
  BY DEF Free, Job, Ops
<1>2. Turned(p, job)
  <2>1. desk' = [desk EXCEPT ![p] = job]
    BY DEF Confirm
  <2> QED
    BY <1>1, <2>1, Turns DEF StudyInv
<1>3. UNCHANGED <<sample, opinions, usedBy, studies, frozen, analysed>>
  BY DEF Confirm, registry, outcome
<1>4. job.op \notin {"save", "evaluate"} /\ (job.op # "none" => job.ws \in Workspaces)
  BY <1>1
<1>5. \A l \in job.todo : Covered(l.file)
  BY <1>1
<1> HIDE DEF job
<1> QED
  BY <1>1, <1>2, <1>3, <1>4, <1>5, DeskStep

(* A study is consumed by one desk, and its population was not analysed before. *)
LEMMA ConsumeKeeps ==
  ASSUME StudyInv, NEW p \in Desks, Consume(p)
  PROVE  StudyInv'
<1> DEFINE w == desk[p].ws
           job == [desk[p] EXCEPT !.op = "evaluate"]
<1>1. w \in Workspaces /\ desk[p] \in Job /\ desk[p].op = "confirm"
  BY DEF StudyInv, StudyTypeOK, Consume, Doing
<1>2. UNCHANGED <<sample, opinions, usedBy, frozen, analysed>>
  BY DEF Consume, outcome
<1>3. CASE Leave(p) /\ UNCHANGED studies
  BY <1>2, <1>3, LeaveStep
<1>4. CASE /\ studies[w] = "frozen"
           /\ studies' = [studies EXCEPT ![w] = "consumed"]
           /\ desk' = [desk EXCEPT ![p].op = "evaluate"]
  <2>1. job \in Job /\ job.op = "evaluate" /\ job.ws = w /\ job.todo = desk[p].todo
    BY <1>1 DEF Job, Ops
  <2>2. Turned(p, job)
    <3>1. desk' = [desk EXCEPT ![p] = job]
      BY <1>4 DEF StudyInv, StudyTypeOK
    <3> QED
      BY <2>1, <3>1, Turns DEF StudyInv
  <2>3. /\ studies' \in [Workspaces -> {"none", "frozen", "consumed"}]
        /\ studies'[w] = "consumed" /\ \A v \in Workspaces \ {w} : studies'[v] = studies[v]
    BY <1>1, <1>4 DEF StudyInv, StudyTypeOK
  <2>4. \A v \in Workspaces : studies'[v] # "none" <=> studies[v] # "none"
    BY <1>1, <1>4, <2>3
  <2> HIDE DEF job
  <2>5. StudyTypeOK'
    <3>1. \A q \in Desks : desk'[q].op # "none" => desk'[q].ws \in Workspaces
      BY <1>1, <2>1, <2>2 DEF StudyInv, StudyTypeOK, Turned
    <3> QED
      BY <1>2, <2>2, <2>3, <3>1 DEF StudyInv, StudyTypeOK, Turned
  <2>6. UnitsClaimed' /\ Apart'
    BY <1>2, <2>4 DEF StudyInv, UnitsClaimed, Apart
  <2>7. AnalysedOnce'
    <3>1. analysed[w] = 0
      BY <1>1, <1>4 DEF StudyInv, StudyTypeOK, AnalysedOnce
    <3>2. \A q \in Desks : desk[q].op = "evaluate" => desk[q].ws \in Workspaces \ {w}
      BY <1>4 DEF StudyInv, StudyTypeOK, AnalysedOnce
    <3>3. \A q \in Desks : desk'[q].op = "evaluate" => q = p \/ (q # p /\ desk'[q] = desk[q])
      BY <2>2 DEF Turned
    <3>4. desk'[p].ws = w
      BY <2>1, <2>2 DEF Turned
    <3> HIDE DEF w
    <3>5. \A v \in Workspaces : analysed[v] <= 1 /\ (analysed[v] # 0 => studies'[v] = "consumed")
      BY <2>3, <3>1 DEF StudyInv, AnalysedOnce
    <3>6. ASSUME NEW q \in Desks, desk'[q].op = "evaluate"
          PROVE  /\ studies'[desk'[q].ws] = "consumed" /\ analysed[desk'[q].ws] = 0
                 /\ \A o \in Desks : desk'[o].op = "evaluate" /\ desk'[o].ws = desk'[q].ws => o = q
      BY <2>3, <3>1, <3>2, <3>3, <3>4, <3>6 DEF StudyInv, AnalysedOnce
    <3> QED
      BY <1>2, <3>5, <3>6 DEF AnalysedOnce
  <2>8. Registered'
    <3>1. \A q \in Desks : desk'[q].op = "save" => studies'[desk'[q].ws] # "none"
      BY <2>1, <2>2, <2>4 DEF StudyInv, StudyTypeOK, Registered, Turned
    <3>2. \A q \in Desks : desk'[q].todo = desk[q].todo /\ desk[q].todo \subseteq AnyLabel
      BY <2>1, <2>2 DEF StudyInv, StudyTypeOK, Turned, Job
    <3>3. \A l \in AnyLabel : l.file[1] \in Workspaces
      BY DEF AnyLabel, Files
    <3> QED
      BY <1>2, <2>4, <3>1, <3>2, <3>3 DEF StudyInv, Registered
  <2>9. LabelsFollowFreeze'
    <3>1. \A f \in Files : f[1] \in Workspaces
      BY DEF Files
    <3> QED
      BY <1>2, <2>4, <3>1 DEF StudyInv, LabelsFollowFreeze, Written
  <2> QED
    BY <2>5, <2>6, <2>7, <2>8, <2>9 DEF StudyInv
<1> QED
  BY <1>3, <1>4 DEF Consume

(* The analysis is the one that its desk consumed the study for. *)
LEMMA EvaluateKeeps ==
  ASSUME StudyInv, NEW p \in Desks, Evaluate(p)
  PROVE  StudyInv'
<1> DEFINE w == desk[p].ws
<1>1. /\ w \in Workspaces /\ desk[p].op = "evaluate"
      /\ studies[w] = "consumed" /\ analysed[w] = 0
  BY DEF StudyInv, StudyTypeOK, AnalysedOnce, Evaluate, Doing
<1>2. Turned(p, Free)
  BY Leaves DEF Evaluate, StudyInv
<1>3. UNCHANGED <<sample, opinions, usedBy, studies, frozen>>
  BY DEF Evaluate, registry
<1>4. /\ analysed' \in [Workspaces -> Nat] /\ analysed'[w] = 1
      /\ \A v \in Workspaces \ {w} : analysed'[v] = analysed[v]
  BY <1>1 DEF Evaluate, StudyInv, StudyTypeOK
<1>5. StudyTypeOK'
  BY <1>2, <1>3, <1>4, FreeIsJob DEF StudyInv, StudyTypeOK, Turned
<1>6. UnitsClaimed' /\ Apart' /\ LabelsFollowFreeze'
  BY <1>3 DEF StudyInv, UnitsClaimed, Apart, LabelsFollowFreeze, Written
<1>7. AnalysedOnce'
  <2>1. \A q \in Desks : desk'[q].op = "evaluate" =>
          /\ q # p /\ desk'[q] = desk[q] /\ desk[q].ws \in Workspaces \ {w}
    BY <1>1, <1>2, FreeIsJob DEF StudyInv, StudyTypeOK, AnalysedOnce, Turned
  <2> QED
    BY <1>1, <1>3, <1>4, <2>1 DEF StudyInv, AnalysedOnce
<1>8. Registered'
  BY <1>2, <1>3, FreeIsJob DEF StudyInv, Registered, Turned
<1> QED
  BY <1>5, <1>6, <1>7, <1>8 DEF StudyInv

(* A death tears at most a label that its desk was entitled to, or the freeze file of
   a study on record. *)
LEMMA DieKeeps ==
  ASSUME StudyInv, NEW p \in Desks, Die(p)
  PROVE  StudyInv'
<1>1. Leave(p) /\ Turned(p, Free) /\ UNCHANGED <<sample, usedBy, studies, analysed>>
  BY Leaves DEF Die, StudyInv, registry, outcome
<1>2. CASE UNCHANGED <<opinions, frozen>>
  BY <1>1, <1>2, LeaveStep
<1>3. CASE /\ Doing(p, "label")
           /\ \E l \in desk[p].todo :
                opinions[l.file] = Absent /\ opinions' = [opinions EXCEPT ![l.file] = Broken]
           /\ UNCHANGED frozen
  <2>1. PICK l \in desk[p].todo : opinions' = [opinions EXCEPT ![l.file] = Broken]
    BY <1>3
  <2>2. l.file \in Files /\ Covered(l.file)
    BY DEF StudyInv, StudyTypeOK, Job, AnyLabel, Registered, Covered
  <2>3. /\ opinions' \in [Files -> Verdicts \cup {Absent, Broken}]
        /\ \A f \in Files : opinions'[f] # Absent => opinions[f] # Absent \/ Covered(f)
    BY <2>1, <2>2 DEF StudyInv, StudyTypeOK
  <2>4. /\ frozen' \in [Workspaces -> {"none", "torn", "written"}]
        /\ \A w \in Workspaces : frozen'[w] # "none" => studies[w] # "none"
    BY <1>3 DEF StudyInv, StudyTypeOK, Registered
  <2> QED
    BY <1>1, <2>3, <2>4, FreeIsJob, QuietStep
<1>4. CASE /\ Doing(p, "save") /\ frozen' = [frozen EXCEPT ![desk[p].ws] = "torn"]
           /\ UNCHANGED opinions
  BY <1>1, <1>4, SaveFreezeKeeps
<1> QED
  BY <1>2, <1>3, <1>4 DEF Die

-----------------------------------------------------------------------------
(* Theorems *)

(* Every step of every desk preserves the invariant. *)
LEMMA StudyStep == StudyInv /\ [StudyNext]_studyVars => StudyInv'
<1> SUFFICES ASSUME StudyInv, [StudyNext]_studyVars PROVE StudyInv'
  OBVIOUS
<1>1. CASE UNCHANGED studyVars
  BY <1>1 DEF studyVars, StudyInv, StudyTypeOK, Apart, UnitsClaimed, AnalysedOnce,
              Registered, LabelsFollowFreeze, Written
<1>2. ASSUME NEW p \in Desks, Desk(p) PROVE StudyInv'
  <2>1. ASSUME NEW l \in desk[p].todo, Lock(p, l) \/ Forestalled(p, l) PROVE StudyInv'
    BY <2>1, LockKeeps, ForestalledKeeps
  <2>2. CASE SaveFreeze(p)
    <3>1. /\ Doing(p, "save") /\ frozen' = [frozen EXCEPT ![desk[p].ws] = "written"] /\ Leave(p)
          /\ UNCHANGED <<sample, opinions, usedBy, studies, analysed>>
      BY <2>2 DEF SaveFreeze, registry, outcome
    <3> QED
      BY <3>1, SaveFreezeKeeps
  <2>3. CASE Receipt(p) \/ SaveSearch(p) \/ Register(p) \/ Consume(p) \/ Evaluate(p) \/ Die(p)
    BY <2>3, ReceiptKeeps, SaveSearchKeeps, RegisterKeeps, ConsumeKeeps, EvaluateKeeps, DieKeeps
  <2>4. ASSUME NEW w \in Workspaces, Search(p, w) \/ Freeze(p, w) PROVE StudyInv'
    BY <2>4, SeatsKeep
  <2>5. ASSUME NEW w \in Workspaces, NEW r \in {"pass", "insufficient"}, Confirm(p, w, r)
        PROVE  StudyInv'
    BY <2>5, ConfirmKeeps
  <2>6. ASSUME NEW w \in Workspaces, NEW l \in Labels(w), NEW m \in Labels(w), Review(p, w, {l, m})
        PROVE  StudyInv'
    BY <2>6, ReviewKeeps
  <2> QED
    BY <1>2, <2>1, <2>2, <2>3, <2>4, <2>5, <2>6 DEF Desk
<1> QED
  BY <1>1, <1>2 DEF StudyNext

(* Every behaviour of the workspaces keeps desks, files and registry in step
   (two_stage_review_ui.py:88-160, two_stage_confirmation.py:557-589). *)
THEOREM StudyInvariance == StudySpec => []StudyInv
<1>1. StudyInit => StudyInv
  <2> SUFFICES ASSUME StudyInit PROVE StudyInv
    OBVIOUS
  <2>1. StudyTypeOK
    <3>1. sample \in [Workspaces -> Partition]
      BY StudyAssumption DEF StudyInit
    <3>2. desk \in [Desks -> Job] /\ \A p \in Desks : desk[p].op = "none"
      BY FreeIsJob DEF StudyInit
    <3> QED
      BY <3>1, <3>2 DEF StudyInit, StudyTypeOK
  <2>2. Apart
    BY StudyAssumption DEF StudyInit, Apart
  <2>3. UnitsClaimed /\ AnalysedOnce /\ Registered /\ LabelsFollowFreeze
    BY FreeIsJob DEF StudyInit, UnitsClaimed, AnalysedOnce, Registered, LabelsFollowFreeze, Written
  <2> QED
    BY <2>1, <2>2, <2>3 DEF StudyInv
<1> QED
  BY <1>1, StudyStep, PTL DEF StudySpec

(* A unit is confirmed in one study only and a population analysed at most once,
   whichever desks die (two_stage_confirmation.py:557-589). *)
THEOREM PopulationsStudiedOnce == StudySpec => []StudiedOnce
<1>1. StudyInv => StudiedOnce
  BY DEF StudyInv, UnitsClaimed, AnalysedOnce, StudiedOnce
<1> QED
  BY <1>1, StudyInvariance, PTL

(* No target of a population is labelled before its study is on record
   (two_stage_review_ui.py:48-69). *)
THEOREM LabelsAlwaysFollowFreeze == StudySpec => []LabelsFollowFreeze
<1>1. StudyInv => LabelsFollowFreeze
  BY DEF StudyInv
<1> QED
  BY <1>1, StudyInvariance, PTL


-----------------------------------------------------------------------------
(* The receipts of suggestions *)

Stages == {"evaluating", "drawing", "drawn", "rendered", "asking", "answered", "menu", "done"}
Underway == {"drawing", "drawn", "rendered", "asking", "answered"}
Results == {"superseded", "manual", "fallback", "confirmed", "skip"} \cup UserOps
Tab == [at : Stages, config : Versions, result : Results \cup {None}, previous : Nat,
        confirmed : Reasons \cup {None}, arrived : Nat, op : UserOps \cup {None},
        reason : Reasons \cup {None}]

Event ==
    [kind : {"generated"}, tab : Tabs, reasons : SUBSET Reasons, config : Versions, at : Nat, expires : Nat]
    \cup [kind : {"rendered", "invalidated"}, tab : Tabs, at : Nat]
    \cup [kind : {"responded"}, tab : Tabs, op : UserOps \cup {"skip"}, reason : Reasons \cup {None},
          arrived : Nat, at : Nat]
    \cup [kind : {"retracted"}, at : Nat]

ReceiptsOK ==
    /\ log \in Seq(Event) /\ now \in Nat /\ touched \in BOOLEAN
    /\ config \in Versions /\ tabs \in [Tabs -> {NoTab} \cup Tab]

Dated ==
    /\ \A i \in All : log[i].at <= now
    /\ \A i, j \in All : i <= j => log[i].at <= log[j].at
    /\ \A i \in Of(All, "generated") : log[i].expires = log[i].at + TTL

(* A tab has one suggestion, of its configuration, with something to show if *)
(* it was ever drawn.                                                        *)
Once == \A t \in Tabs : \A i, j \in By(All, "generated", t) : i = j
Displayed == \A i \in Of(All, "rendered") :
                 \E j \in By(All, "generated", log[i].tab) : log[j].reasons # {}

Fitting(t) ==
    /\ tabs[t].at \in {"new", "evaluating"} => By(All, "generated", t) = {}
    /\ tabs[t].at \in Underway => By(All, "generated", t) # {}
    /\ tabs[t].at \in Underway => \A i \in By(All, "generated", t) :
         /\ log[i].config = tabs[t].config /\ log[i].reasons # {}
         /\ tabs[t].at \in {"drawn", "answered"} =>
              log[i].at <= tabs[t].arrived /\ tabs[t].arrived < log[i].expires
    /\ tabs[t].at = "answered" => tabs[t].op \in UserOps
    /\ tabs[t].at = "menu" => tabs[t].result \in {"manual", "fallback"}
    /\ tabs[t].at # "new" => touched \/ tabs[t].config = config

(* What a tab last drew, read and confirmed stands until another tab makes a *)
(* suggestion.                                                               *)
Overtaken(t) == Of(All, "generated") # {} /\ Newest(Of(All, "generated")).tab # t
OnRecord(t) == By(All, "responded", t) # {}
               /\ Newest(By(All, "responded", t)).reason = tabs[t].confirmed
Standing(t) ==
    /\ tabs[t].at \in {"new", "evaluating", "drawing", "drawn", "rendered"} => By(All, "responded", t) = {}
    /\ tabs[t].at \in {"evaluating", "drawing", "drawn", "rendered"} => tabs[t].confirmed = None
    /\ tabs[t].at \in {"rendered", "asking", "answered"} => LastDrawn(t) \/ Overtaken(t)
    /\ tabs[t].at \in {"asking", "answered"} =>
         /\ LastResponse = tabs[t].previous \/ Overtaken(t)
         /\ tabs[t].confirmed = None => By(All, "responded", t) = {}
         /\ tabs[t].confirmed # None =>
              /\ OnRecord(t)
              /\ Chosen(All) # {} /\ (Newest(Chosen(All)).reason = tabs[t].confirmed \/ Overtaken(t))

Caused(t) ==
    \/ Retracted(All) \/ lost # None \/ touched
    \/ By(All, "invalidated", t) # {}
    \/ Overtaken(t)
    \/ /\ By(All, "generated", t) # {}
       /\ tabs[t].op \in {"yes", "no", "correct"} /\ tabs[t].reason \notin Suggestion(t).reasons
    \/ tabs[t].op = "correct" /\ tabs[t].reason = tabs[t].confirmed
Told(t) == tabs[t].at = "done" =>
    /\ tabs[t].result = "superseded" => Caused(t)
    /\ tabs[t].result = "confirmed" => OnRecord(t)

TabInv(t) == Fitting(t) /\ Standing(t) /\ Told(t)
LogInv == ReceiptsOK /\ Dated /\ Once /\ Displayed /\ ConfirmedWasShown
SuggestInv == LogInv /\ \A t \in Tabs : TabInv(t)

-----------------------------------------------------------------------------
(* Reading a log that grows *)

\* The greatest member is the only one that is not below another.
LEMMA MaxOf ==
  ASSUME NEW n \in Nat, NEW S, S \subseteq 0..n, NEW x \in S, \A j \in S : j <= x
  PROVE  Max(S) = x
<1>1. Max(S) \in S /\ \A j \in S : j <= Max(S)
  BY MaxIs
<1>2. Max(S) <= x /\ x <= Max(S) /\ x \in 0..n /\ Max(S) \in 0..n
  BY <1>1
<1> QED BY <1>2

\* A set of naturals has a least member, and Min is it.
LEMMA MinIs ==
  ASSUME NEW S, S \subseteq Nat, S # {}
  PROVE  Min(S) \in S /\ \A j \in S : Min(S) <= j
BY SmallestNat DEF Min

\* The newest of some events is one of them, and none of them is later.
LEMMA NewestIs ==
  ASSUME log \in Seq(Event), NEW S, S \subseteq All, S # {}
  PROVE  /\ Max(S) \in S /\ Newest(S) = log[Max(S)]
         /\ \A j \in S : j <= Max(S)
<1>1. Len(log) \in Nat /\ S \subseteq 0..Len(log)
  BY DEF All
<1>2. Max(S) \in S /\ \A j \in S : j <= Max(S)
  BY <1>1, MaxIs
<1> QED BY <1>2 DEF Newest

\* Appending an event leaves what the log tells of the others, and puts it last.
LEMMA Grown ==
  ASSUME log \in Seq(Event), NEW e \in Event, log' = Append(log, e), NEW n, n = Len(log) + 1
  PROVE  /\ log' \in Seq(Event) /\ n \in Nat /\ n # 0
         /\ All' = All \cup {n} /\ (\A i \in All : i < n /\ i \in Nat) /\ n \notin All
         /\ log'[n] = e /\ \A i \in All : log'[i] = log[i]
<1>1. Len(log) \in Nat /\ All = 1..Len(log)
  BY DEF All
<1>2. log' \in Seq(Event) /\ Len(log') = Len(log) + 1 /\ All' = 1..(Len(log) + 1)
  BY DEF All
<1>3. log'[n] = e /\ \A i \in All : log'[i] = log[i]
  BY <1>1
<1> QED BY <1>1, <1>2, <1>3

\* Of each kind, and of each tab, the log then tells one event more or the same.
LEMMA GrownEvents ==
  ASSUME log \in Seq(Event), NEW e \in Event, log' = Append(log, e), NEW n, n = Len(log) + 1
  PROVE  /\ \A k : Of(All, k)' = Of(All, k) \cup {i \in {n} : e.kind = k}
         /\ \A k, t : By(All, k, t)' = By(All, k, t) \cup {i \in {n} : e.kind = k /\ e.tab = t}
         /\ Chosen(All)' = Chosen(All) \cup {i \in {n} : e.kind = "responded" /\ e.op \in {"yes", "correct"}}
<1>1. /\ All' = All \cup {n} /\ n \notin All /\ log'[n] = e /\ \A i \in All : log'[i] = log[i]
  BY Grown
<1>2. \A k : Of(All, k)' = Of(All, k) \cup {i \in {n} : e.kind = k}
  BY <1>1 DEF Of
<1>3. \A k : Of(All, k) \subseteq All
  BY DEF Of
<1>4. \A k, t : By(All, k, t)' = By(All, k, t) \cup {i \in {n} : e.kind = k /\ e.tab = t}
  <2> TAKE k, t
  <2>1. \A i : i \in By(All, k, t)' <=> i \in All' /\ log'[i].kind = k /\ log'[i].tab = t
    BY DEF By, Of
  <2>2. \A i : i \in By(All, k, t) <=> i \in All /\ log[i].kind = k /\ log[i].tab = t
    BY DEF By, Of
  <2> QED BY <2>1, <2>2, <1>1
<1>5. Chosen(All)' = Chosen(All) \cup {i \in {n} : e.kind = "responded" /\ e.op \in {"yes", "correct"}}
  <2>1. \A i : i \in Chosen(All)' <=> i \in All' /\ log'[i].kind = "responded" /\ log'[i].op \in {"yes", "correct"}
    BY DEF Chosen, Of
  <2>2. \A i : i \in Chosen(All) <=> i \in All /\ log[i].kind = "responded" /\ log[i].op \in {"yes", "correct"}
    BY DEF Chosen, Of
  <2> QED BY <2>1, <2>2, <1>1
<1> QED BY <1>2, <1>4, <1>5

\* What is not told again stays the newest of its kind; what is told is.
LEMMA GrownNewest ==
  ASSUME log \in Seq(Event), NEW e \in Event, log' = Append(log, e), NEW n, n = Len(log) + 1,
         NEW S, S \subseteq All
  PROVE  /\ S # {} => log'[Max(S)] = Newest(S)
         /\ Max(S \cup {n}) = n /\ log'[Max(S \cup {n})] = e
<1>1. /\ n \in Nat /\ (\A i \in All : i < n /\ i \in Nat) /\ log'[n] = e
      /\ \A i \in All : log'[i] = log[i]
  BY Grown
<1>2. Max(S \cup {n}) = n
  <2>1. S \cup {n} \subseteq 0..n /\ n \in S \cup {n} /\ \A j \in S \cup {n} : j <= n
    BY <1>1
  <2> QED BY <2>1, <1>1, MaxOf
<1>3. S # {} => log'[Max(S)] = Newest(S)
  BY <1>1, NewestIs
<1> QED BY <1>1, <1>2, <1>3

-----------------------------------------------------------------------------
(* What the others' steps leave to a tab *)

\* What a tab goes by in the log: its own events, and what came before and after them.
Kept(t) ==
    /\ \A k \in {"generated", "responded"} :
         /\ By(All, k, t)' = By(All, k, t)
         /\ By(All, k, t) # {} => Newest(By(All, k, t))' = Newest(By(All, k, t))
    /\ \A i \in By(All, "generated", t) : log'[i] = log[i]
    /\ By(All, "invalidated", t) # {} => By(All, "invalidated", t)' # {}
    /\ Retracted(All) => Retracted(All)'
    /\ Overtaken(t) => Overtaken(t)'
    /\ LastDrawn(t) => LastDrawn(t)' \/ Overtaken(t)'
    /\ LastResponse' = LastResponse \/ Overtaken(t)'
    /\ Chosen(All) # {} => /\ Chosen(All)' # {}
                           /\ Newest(Chosen(All))' = Newest(Chosen(All)) \/ Overtaken(t)'

\* A log that nobody writes tells everybody what it told.
LEMMA Unwritten ==
  ASSUME log' = log
  PROVE  /\ All' = All /\ (\A k : Of(All, k)' = Of(All, k)) /\ (\A k, t : By(All, k, t)' = By(All, k, t))
         /\ Chosen(All)' = Chosen(All) /\ LastResponse' = LastResponse
         /\ (\A k : Newest(Of(All, k))' = Newest(Of(All, k)))
         /\ (\A k, t : Newest(By(All, k, t))' = Newest(By(All, k, t)))
         /\ Newest(Chosen(All))' = Newest(Chosen(All)) /\ Retracted(All)' = Retracted(All)
         /\ (\A t : Suggestion(t)' = Suggestion(t))
         /\ \A t : Kept(t) /\ Overtaken(t)' = Overtaken(t) /\ LastDrawn(t)' = LastDrawn(t)
<1>1. /\ All' = All /\ (\A k : Of(All, k)' = Of(All, k)) /\ (\A k, t : By(All, k, t)' = By(All, k, t))
      /\ Chosen(All)' = Chosen(All)
  BY DEF All, Of, By, Chosen
<1>2. LastResponse' = LastResponse
  BY <1>1 DEF LastResponse
<1>3. /\ \A k, t : Newest(By(All, k, t))' = Newest(By(All, k, t))
      /\ \A k : Newest(Of(All, k))' = Newest(Of(All, k))
      /\ Newest(Chosen(All))' = Newest(Chosen(All))
  BY <1>1 DEF Newest
<1>4. \A t : Overtaken(t)' = Overtaken(t) /\ LastDrawn(t)' = LastDrawn(t)
  BY <1>1, <1>3 DEF Overtaken, LastDrawn
<1>5. Retracted(All)' = Retracted(All)
  BY <1>1 DEF Retracted
<1>6. \A t : Kept(t)
  BY <1>1, <1>2, <1>3, <1>4, <1>5 DEF Kept
<1>7. \A t : Suggestion(t)' = Suggestion(t)
  BY <1>3 DEF Suggestion
<1> QED BY <1>1, <1>2, <1>3, <1>4, <1>5, <1>6, <1>7

\* An event of another tab leaves a tab what it goes by: draws and answers come from a
\* tab that made the newest suggestion.
LEMMA WrittenByOthers ==
  ASSUME log \in Seq(Event), NEW e \in Event, log' = Append(log, e), NEW t,
         e.kind \in {"generated", "rendered", "responded"} => e.tab # t,
         e.kind \in {"rendered", "responded"} => Overtaken(t)
  PROVE  Kept(t)
<1>n. PICK n : n = Len(log) + 1
  OBVIOUS
<1>1. /\ n \in Nat /\ n # 0
      /\ All' = All \cup {n} /\ (\A i \in All : i < n /\ i \in Nat) /\ n \notin All
      /\ log'[n] = e /\ \A i \in All : log'[i] = log[i]
  BY <1>n, Grown
<1>2. /\ \A k : Of(All, k)' = Of(All, k) \cup {i \in {n} : e.kind = k}
      /\ \A k, u : By(All, k, u)' = By(All, k, u) \cup {i \in {n} : e.kind = k /\ e.tab = u}
      /\ Chosen(All)' = Chosen(All) \cup {i \in {n} : e.kind = "responded" /\ e.op \in {"yes", "correct"}}
  BY <1>n, GrownEvents
<1>3. \A S \in SUBSET All : /\ S # {} => log'[Max(S)] = Newest(S)
                            /\ Max(S \cup {n}) = n /\ log'[Max(S \cup {n})] = e
  BY <1>n, GrownNewest
<1>4. /\ \A k : Of(All, k) \subseteq All
      /\ \A k, u : By(All, k, u) \subseteq All
      /\ Chosen(All) \subseteq All
  BY DEF Of, By, Chosen
<1>5. \A k \in {"generated", "responded"} :
        /\ By(All, k, t)' = By(All, k, t)
        /\ By(All, k, t) # {} => Newest(By(All, k, t))' = Newest(By(All, k, t))
  <2> TAKE k \in {"generated", "responded"}
  <2>1. By(All, k, t)' = By(All, k, t)
    <3>1. ~(e.kind = k /\ e.tab = t)
      OBVIOUS
    <3>2. By(All, k, t)' = By(All, k, t) \cup {i \in {n} : e.kind = k /\ e.tab = t}
      BY <1>2
    <3> QED BY <3>1, <3>2
  <2>2. Newest(By(All, k, t))' = log'[Max(By(All, k, t)')]
    BY DEF Newest
  <2> QED BY <2>1, <2>2, <1>3, <1>4
<1>6. \A i \in By(All, "generated", t) : log'[i] = log[i]
  BY <1>1, <1>4
<1>7. /\ By(All, "invalidated", t) # {} => By(All, "invalidated", t)' # {}
      /\ Retracted(All) => Retracted(All)'
  BY <1>2 DEF Retracted
<1>8. \A k : /\ e.kind # k => Of(All, k)' = Of(All, k)
             /\ e.kind # k /\ Of(All, k) # {} => Newest(Of(All, k))' = Newest(Of(All, k))
             /\ e.kind = k => Of(All, k)' # {} /\ Newest(Of(All, k))' = e
  <2> TAKE k
  <2>1. Newest(Of(All, k))' = log'[Max(Of(All, k)')]
    BY DEF Newest
  <2>2. CASE e.kind = k
    <3>1. Of(All, k)' = Of(All, k) \cup {n}
      BY <2>2, <1>2
    <3> QED BY <2>1, <2>2, <3>1, <1>3, <1>4
  <2>3. CASE e.kind # k
    <3>1. Of(All, k)' = Of(All, k)
      BY <2>3, <1>2
    <3> QED BY <2>1, <2>3, <3>1, <1>3, <1>4
  <2> QED BY <2>2, <2>3
<1>9. Overtaken(t) => Overtaken(t)'
  <2>1. CASE e.kind = "generated"
    <3>1. Of(All, "generated")' # {} /\ Newest(Of(All, "generated"))' = e /\ e.tab # t
      BY <2>1, <1>8
    <3> QED BY <3>1 DEF Overtaken
  <2>2. CASE e.kind # "generated"
    BY <2>2, <1>8 DEF Overtaken
  <2> QED BY <2>1, <2>2
<1>10. LastDrawn(t) => LastDrawn(t)' \/ Overtaken(t)'
  <2>1. CASE e.kind = "rendered"
    BY <2>1, <1>9
  <2>2. CASE e.kind # "rendered"
    BY <2>2, <1>8 DEF LastDrawn
  <2> QED BY <2>1, <2>2
<1>11. LastResponse' = LastResponse \/ Overtaken(t)'
  <2>1. CASE e.kind = "responded"
    BY <2>1, <1>9
  <2>2. CASE e.kind # "responded"
    BY <2>2, <1>8 DEF LastResponse
  <2> QED BY <2>1, <2>2
<1>12. Chosen(All) # {} => /\ Chosen(All)' # {}
                           /\ Newest(Chosen(All))' = Newest(Chosen(All)) \/ Overtaken(t)'
  <2>1. CASE e.kind = "responded"
    BY <2>1, <1>2, <1>9
  <2>2. CASE e.kind # "responded"
    <3>1. Chosen(All)' = Chosen(All)
      BY <2>2, <1>2
    <3>2. Newest(Chosen(All))' = log'[Max(Chosen(All))]
      BY <3>1 DEF Newest
    <3> QED BY <3>1, <3>2, <1>3, <1>4
  <2> QED BY <2>1, <2>2
<1> QED BY <1>5, <1>6, <1>7, <1>9, <1>10, <1>11, <1>12 DEF Kept

\* A tab that did not move keeps its invariant where what it goes by is kept.
LEMMA Undisturbed ==
  ASSUME NEW t \in Tabs, TabInv(t), Kept(t), tabs'[t] = tabs[t], ReceiptsOK,
         lost' = None => lost = None, touched => touched', config' = config \/ touched'
  PROVE  TabInv(t)'
<1>1. Fitting(t)'
  BY DEF TabInv, Fitting, Kept, Underway
<1>2. OnRecord(t) => OnRecord(t)'
  BY DEF OnRecord, Kept
<1>3. Standing(t)'
  BY <1>2 DEF TabInv, Standing, Kept
<1>4. Caused(t) => Caused(t)'
  BY DEF Caused, Kept, Suggestion
<1>5. Told(t)'
  BY <1>2, <1>4 DEF TabInv, Told
<1> QED BY <1>1, <1>3, <1>5 DEF TabInv

-----------------------------------------------------------------------------
(* What the log says of itself *)

ShownAt(i) ==
    LET before == 1..(i - 1)
        shown == Newest(Of(before, "generated"))
    IN /\ Of(before, "rendered") # {} /\ Newest(Of(before, "rendered")).tab = log[i].tab
       /\ Of(before, "generated") # {} /\ shown.tab = log[i].tab
       /\ log[i].op \in {"yes", "correct"} => log[i].reason \in shown.reasons
       /\ shown.at <= log[i].arrived /\ log[i].arrived < shown.expires
       /\ ~Retracted(before) /\ By(before, "invalidated", log[i].tab) = {}

\* What an answer was given to is in what came before it.
LEMMA ShownBefore ==
  ASSUME log \in Seq(Event), NEW e \in Event, log' = Append(log, e), NEW i \in All
  PROVE  ShownAt(i)' = ShownAt(i)
<1> DEFINE B == 1..(i - 1)
<1>1. /\ B \subseteq All /\ i \in Nat /\ \A j \in All : log'[j] = log[j]
      /\ \A j \in B : j \in Nat
  BY DEF All
<1> HIDE DEF B
<1>2. \A k : Of(B, k)' = Of(B, k) /\ Of(B, k) \subseteq B
  BY <1>1 DEF Of
<1>3. \A k, t : By(B, k, t)' = By(B, k, t)
  <2> TAKE k, t
  <2>1. \A j : j \in By(B, k, t)' <=> j \in B /\ log'[j].kind = k /\ log'[j].tab = t
    BY DEF By, Of
  <2>2. \A j : j \in By(B, k, t) <=> j \in B /\ log[j].kind = k /\ log[j].tab = t
    BY DEF By, Of
  <2> QED BY <2>1, <2>2, <1>1
<1>4. \A k : Of(B, k) # {} => Newest(Of(B, k))' = Newest(Of(B, k))
  <2> TAKE k
  <2>1. Newest(Of(B, k))' = log'[Max(Of(B, k)')]
    BY DEF Newest
  <2>2. ASSUME Of(B, k) # {} PROVE Max(Of(B, k)) \in All
    BY <2>2, <1>1, <1>2, NewestIs
  <2> QED BY <2>1, <2>2, <1>1, <1>2 DEF Newest
<1>5. Retracted(B)' = Retracted(B)
  BY <1>2 DEF Retracted
<1>6. log'[i] = log[i]
  BY <1>1
<1> USE DEF B
<1> QED BY <1>2, <1>3, <1>4, <1>5, <1>6 DEF ShownAt

\* The log keeps its invariant when it gets an event that fits what it tells.
LEMMA LogGrows ==
  ASSUME LogInv, NEW e \in Event, log' = Append(log, e), e.at = now, now' = now,
         e.kind = "generated" => By(All, "generated", e.tab) = {} /\ e.expires = e.at + TTL,
         e.kind = "rendered" => \E j \in By(All, "generated", e.tab) : log[j].reasons # {},
         e.kind = "responded" =>
           /\ LastDrawn(e.tab)
           /\ Of(All, "generated") # {} /\ Newest(Of(All, "generated")).tab = e.tab
           /\ e.op \in {"yes", "correct"} => e.reason \in Newest(Of(All, "generated")).reasons
           /\ Newest(Of(All, "generated")).at <= e.arrived
           /\ e.arrived < Newest(Of(All, "generated")).expires
           /\ ~Retracted(All) /\ By(All, "invalidated", e.tab) = {}
  PROVE  log' \in Seq(Event) /\ Dated' /\ Once' /\ Displayed' /\ ConfirmedWasShown'
<1>0. log \in Seq(Event) /\ now \in Nat
  BY DEF LogInv, ReceiptsOK
<1>n. PICK n : n = Len(log) + 1
  OBVIOUS
<1>1. /\ log' \in Seq(Event) /\ n \in Nat /\ n # 0
      /\ All' = All \cup {n} /\ (\A i \in All : i < n /\ i \in Nat) /\ n \notin All
      /\ log'[n] = e /\ \A i \in All : log'[i] = log[i]
  BY <1>0, <1>n, Grown
<1>2. /\ \A k : Of(All, k)' = Of(All, k) \cup {i \in {n} : e.kind = k}
      /\ \A k, u : By(All, k, u)' = By(All, k, u) \cup {i \in {n} : e.kind = k /\ e.tab = u}
  BY <1>0, <1>n, GrownEvents
<1>3. /\ \A k : Of(All, k) \subseteq All
      /\ \A k, u : By(All, k, u) \subseteq All
  BY DEF Of, By
<1>d. /\ \A i \in All : log[i].at \in Nat /\ log[i].at <= now
      /\ \A i, j \in All : i <= j => log[i].at <= log[j].at
      /\ \A i \in Of(All, "generated") : log[i].expires = log[i].at + TTL
  BY DEF LogInv, Dated, ReceiptsOK, All, Event
<1>s. \A i \in All' : (i = n /\ log'[i] = e) \/ (i \in All /\ i # n /\ i < n /\ log'[i] = log[i])
  BY <1>1
<1>4. Dated'
  <2>1. \A i \in All' : log'[i].at <= now'
    <3> SUFFICES ASSUME NEW i \in All' PROVE log'[i].at <= now
      OBVIOUS
    <3>1. CASE i = n
      BY <3>1, <1>0, <1>1
    <3>2. CASE i # n
      BY <3>2, <1>d, <1>s
    <3> QED BY <3>1, <3>2
  <2>2. \A i, j \in All' : i <= j => log'[i].at <= log'[j].at
    <3> SUFFICES ASSUME NEW i \in All', NEW j \in All', i <= j PROVE log'[i].at <= log'[j].at
      OBVIOUS
    <3>1. CASE j = n
      BY <3>1, <2>1, <1>0, <1>1
    <3>2. CASE j # n
      <4>1. j \in All /\ j < n /\ j \in Nat /\ i \in Nat
        BY <3>2, <1>s, <1>1
      <4>2. i \in All
        BY <4>1, <1>s, <1>1
      <4> QED BY <4>1, <4>2, <1>d, <1>s, <1>1
    <3> QED BY <3>1, <3>2
  <2>3. \A i \in Of(All, "generated")' : log'[i].expires = log'[i].at + TTL
    <3> SUFFICES ASSUME NEW i \in Of(All, "generated")' PROVE log'[i].expires = log'[i].at + TTL
      OBVIOUS
    <3>1. Of(All, "generated")' = Of(All, "generated") \cup {j \in {n} : e.kind = "generated"}
      BY <1>2
    <3>2. i \in Of(All, "generated") \/ (i = n /\ e.kind = "generated")
      BY <3>1
    <3> QED BY <3>2, <1>1, <1>3, <1>d
  <2> QED BY <2>1, <2>2, <2>3 DEF Dated
<1>5. Once'
  <2> SUFFICES ASSUME NEW t \in Tabs, NEW i \in By(All, "generated", t)', NEW j \in By(All, "generated", t)'
               PROVE  i = j
    BY DEF Once
  <2>1. CASE e.kind = "generated" /\ e.tab = t
    <3>1. By(All, "generated", t)' = {n}
      BY <2>1, <1>2
    <3> QED BY <3>1
  <2>2. CASE ~(e.kind = "generated" /\ e.tab = t)
    <3>0. By(All, "generated", t)' = By(All, "generated", t) \cup {k \in {n} : e.kind = "generated" /\ e.tab = t}
      BY <1>2
    <3>1. By(All, "generated", t)' = By(All, "generated", t)
      BY <2>2, <3>0
    <3> QED BY <3>1 DEF LogInv, Once
  <2> QED BY <2>1, <2>2
<1>6. Displayed'
  <2> SUFFICES ASSUME NEW i \in Of(All, "rendered")'
               PROVE  \E t : t = log'[i].tab /\ \E j \in By(All, "generated", t)' : log'[j].reasons # {}
    BY DEF Displayed, By
  <2>t. PICK t : t = log'[i].tab
    OBVIOUS
  <2>1. PICK j \in By(All, "generated", t) : log[j].reasons # {}
    <3>1. CASE i = n
      BY <3>1, <2>t, <1>1, <1>2, <1>3
    <3>2. CASE i # n
      <4>1. i \in Of(All, "rendered") /\ log'[i] = log[i]
        BY <3>2, <1>1, <1>2, <1>3
      <4> QED BY <2>t, <4>1 DEF LogInv, Displayed
    <3> QED BY <3>1, <3>2
  <2>2. j \in By(All, "generated", t)' /\ log'[j] = log[j]
    <3>1. By(All, "generated", t)' = By(All, "generated", t) \cup {k \in {n} : e.kind = "generated" /\ e.tab = t}
      BY <1>2
    <3>2. j \in By(All, "generated", t) /\ j \in All
      BY <2>1, <1>3
    <3> QED BY <3>1, <3>2, <1>1
  <2> QED BY <2>t, <2>1, <2>2
<1>7. ConfirmedWasShown'
  <2> SUFFICES ASSUME NEW i \in Of(All, "responded")' PROVE ShownAt(i)'
    BY DEF ConfirmedWasShown, ShownAt
  <2>1. CASE i # n
    <3>1. i \in Of(All, "responded") /\ i \in All
      BY <2>1, <1>2, <1>3
    <3>2. ShownAt(i)
      BY <3>1 DEF LogInv, ConfirmedWasShown, ShownAt
    <3> QED BY <3>1, <3>2, <1>0, ShownBefore
  <2>2. CASE i = n
    <3> DEFINE B == 1..(i - 1)
    <3>1. B = All
      BY <2>2, <1>0, <1>n DEF All
    <3>2. e.kind = "responded"
      BY <2>2, <1>2, <1>3, <1>1
    <3> HIDE DEF B
    <3>3. \A k : Of(B, k)' = Of(All, k)
      BY <3>1, <1>1 DEF Of
    <3>4. \A k, t : By(B, k, t)' = By(All, k, t)
      <4> TAKE k, t
      <4>1. \A j : j \in By(B, k, t)' <=> j \in B /\ log'[j].kind = k /\ log'[j].tab = t
        BY DEF By, Of
      <4>2. \A j : j \in By(All, k, t) <=> j \in All /\ log[j].kind = k /\ log[j].tab = t
        BY DEF By, Of
      <4>3. \A j \in All : log'[j] = log[j]
        BY <1>1
      <4>4. \A j : j \in By(B, k, t)' <=> j \in By(All, k, t)
        BY <4>1, <4>2, <4>3, <3>1
      <4> QED BY <4>4
    <3>5. \A k : Of(All, k) # {} => Newest(Of(B, k))' = Newest(Of(All, k))
      <4> TAKE k
      <4>1. Newest(Of(B, k))' = log'[Max(Of(B, k)')]
        BY DEF Newest
      <4>2. ASSUME Of(All, k) # {} PROVE Max(Of(All, k)) \in All
        BY <4>2, <1>0, <1>3, NewestIs
      <4> QED BY <4>1, <4>2, <3>3, <1>1 DEF Newest
    <3>6. Retracted(B)' = Retracted(All)
      BY <3>3 DEF Retracted
    <3>7. log'[i] = e
      BY <2>2, <1>1
    <3>8. Of(All, "rendered") # {} /\ Newest(Of(All, "rendered")).tab = e.tab
      BY <3>2 DEF LastDrawn
    <3> USE DEF B
    <3> QED BY <3>2, <3>3, <3>4, <3>5, <3>6, <3>7, <3>8 DEF ShownAt
  <2> QED BY <2>1, <2>2
<1> QED BY <1>1, <1>4, <1>5, <1>6, <1>7

\* The log keeps its invariant where nobody writes it and time goes on.
LEMMA LogStays ==
  ASSUME LogInv, log' = log, now' \in Nat, now <= now'
  PROVE  Dated' /\ Once' /\ Displayed' /\ ConfirmedWasShown'
<1>1. /\ All' = All /\ (\A k : Of(All, k)' = Of(All, k)) /\ (\A k, t : By(All, k, t)' = By(All, k, t))
  BY Unwritten
<1>2. Dated'
  <2>1. \A i \in All : log[i].at \in Nat
    BY DEF LogInv, ReceiptsOK, All, Event
  <2> QED BY <1>1, <2>1 DEF LogInv, Dated, ReceiptsOK
<1>3. Once' /\ Displayed'
  BY <1>1 DEF LogInv, Once, Displayed
<1>4. ConfirmedWasShown'
  <2>1. ConfirmedWasShown' <=> ConfirmedWasShown
    BY DEF ConfirmedWasShown, All, Of, By, Newest, Retracted
  <2> QED BY <2>1 DEF LogInv
<1> QED BY <1>2, <1>3, <1>4

-----------------------------------------------------------------------------
(* The steps *)

\* A tab that moves without writing keeps the invariant, if it does for itself.
LEMMA MovedQuietly ==
  ASSUME SuggestInv, NEW t \in Tabs, Quiet, NEW tab \in Tab, Set(t, tab), TabInv(t)'
  PROVE  SuggestInv'
<1>1. /\ log' = log /\ now' = now /\ lost' = lost /\ config' = config /\ touched' = touched
      /\ now \in Nat
  BY DEF Quiet, SuggestInv, LogInv, ReceiptsOK
<1>2. ReceiptsOK'
  BY <1>1 DEF SuggestInv, LogInv, ReceiptsOK, Set
<1>3. LogInv'
  <2>1. now' \in Nat /\ now <= now'
    BY <1>1
  <2> QED BY <2>1, <1>1, <1>2, LogStays DEF SuggestInv, LogInv
<1>4. ASSUME NEW u \in Tabs, u # t PROVE TabInv(u)'
  <2>1. tabs'[u] = tabs[u]
    BY <1>4 DEF SuggestInv, LogInv, ReceiptsOK, Set
  <2>2. Kept(u)
    BY <1>1, Unwritten
  <2>3. TabInv(u) /\ ReceiptsOK
    BY DEF SuggestInv, LogInv
  <2> QED BY <2>1, <2>2, <2>3, <1>1, Undisturbed
<1> QED BY <1>3, <1>4 DEF SuggestInv

\* A tab that writes an event of its own that fits the log keeps the invariant, if it
\* does for itself: it draws and answers only the newest suggestion, its own.
LEMMA MovedWriting ==
  ASSUME SuggestInv, NEW t \in Tabs, NEW e \in Event, Record(e), e.tab = t, e.at = now,
         e.kind \in {"generated", "rendered", "responded"},
         NEW tab \in Tab, Set(t, tab), TabInv(t)',
         e.kind = "generated" => By(All, "generated", t) = {} /\ e.expires = e.at + TTL,
         e.kind # "generated" => Of(All, "generated") # {} /\ Newest(Of(All, "generated")).tab = t,
         e.kind = "rendered" => \E j \in By(All, "generated", t) : log[j].reasons # {},
         e.kind = "responded" =>
           /\ LastDrawn(t)
           /\ e.op \in {"yes", "correct"} => e.reason \in Newest(Of(All, "generated")).reasons
           /\ Newest(Of(All, "generated")).at <= e.arrived
           /\ e.arrived < Newest(Of(All, "generated")).expires
           /\ ~Retracted(All) /\ By(All, "invalidated", t) = {}
  PROVE  SuggestInv'
<1>1. /\ log' = Append(log, e) /\ now' = now /\ lost' = lost /\ config' = config
      /\ touched' = touched /\ now \in Nat /\ log \in Seq(Event)
  BY DEF Record, SuggestInv, LogInv, ReceiptsOK
<1>2. log' \in Seq(Event) /\ Dated' /\ Once' /\ Displayed' /\ ConfirmedWasShown'
  <2>1. LogInv
    BY DEF SuggestInv
  <2> QED BY <2>1, <1>1, LogGrows
<1>3. LogInv'
  <2>1. ReceiptsOK'
    BY <1>1, <1>2 DEF SuggestInv, LogInv, ReceiptsOK, Set
  <2> QED BY <2>1, <1>2 DEF LogInv
<1>4. ASSUME NEW u \in Tabs, u # t PROVE TabInv(u)'
  <2>1. tabs'[u] = tabs[u]
    BY <1>4 DEF SuggestInv, LogInv, ReceiptsOK, Set
  <2>2. Kept(u)
    <3>1. e.kind \in {"rendered", "responded"} => Overtaken(u)
      BY <1>4 DEF Overtaken
    <3>2. e.tab # u
      BY <1>4
    <3> QED BY <3>1, <3>2, <1>1, WrittenByOthers
  <2>3. TabInv(u) /\ ReceiptsOK
    BY DEF SuggestInv, LogInv
  <2> QED BY <2>1, <2>2, <2>3, <1>1, Undisturbed
<1> QED BY <1>3, <1>4 DEF SuggestInv

\* No event yet, no tab begun.
LEMMA SuggestInit == TabsInit => SuggestInv
<1> SUFFICES ASSUME TabsInit PROVE SuggestInv
  OBVIOUS
<1>1. /\ All = {} /\ (\A k : Of(All, k) = {}) /\ (\A k, t : By(All, k, t) = {}) /\ Chosen(All) = {}
  BY DEF TabsInit, All, Of, By, Chosen
<1>2. ReceiptsOK
  <2>1. log \in Seq(Event)
    BY DEF TabsInit
  <2>2. tabs \in [Tabs -> {NoTab} \cup Tab]
    BY DEF TabsInit
  <2> QED BY <2>1, <2>2 DEF TabsInit, ReceiptsOK, Versions
<1>3. Dated /\ Once /\ Displayed /\ ConfirmedWasShown
  BY <1>1 DEF Dated, Once, Displayed, ConfirmedWasShown
<1>4. ASSUME NEW t \in Tabs PROVE TabInv(t)
  <2>1. tabs[t].at = "new"
    BY DEF TabsInit, NoTab
  <2> QED BY <2>1, <1>1 DEF TabInv, Fitting, Standing, Told, Underway
<1> QED BY <1>2, <1>3, <1>4 DEF SuggestInv, LogInv

\* What everybody knows in a state of the invariant.
LEMMA TabFacts ==
  ASSUME SuggestInv, NEW t \in Tabs, tabs[t].at # "new"
  PROVE  /\ tabs[t] \in Tab /\ TabInv(t) /\ ReceiptsOK /\ Dated /\ Once /\ LogInv
         /\ Fitting(t) /\ Standing(t) /\ Told(t)
BY DEF SuggestInv, LogInv, ReceiptsOK, NoTab, TabInv

\* A callback that looks for the first time.
LEMMA BeginKeeps ==
  ASSUME SuggestInv, NEW t \in Tabs, Begin(t)
  PROVE  SuggestInv'
<1> DEFINE tab == [at |-> IF Admitted THEN "evaluating" ELSE "done", config |-> config,
               result |-> IF Admitted THEN None ELSE "superseded",
               previous |-> 0, confirmed |-> None, arrived |-> 0, op |-> None, reason |-> None]
<1>1. tab \in Tab /\ Set(t, tab) /\ Quiet /\ tabs'[t] = tab /\ config \in Versions
      /\ log' = log /\ lost' = lost /\ touched' = touched /\ config' = config
  BY DEF Begin, Tab, Stages, Results, SuggestInv, LogInv, ReceiptsOK, Set, Quiet
<1>2. By(All, "generated", t) = {} /\ By(All, "responded", t) = {}
  BY DEF SuggestInv, TabInv, Fitting, Standing, Begin
<1>3. (\A k : By(All, k, t)' = By(All, k, t)) /\ Retracted(All)' = Retracted(All)
  BY <1>1, Unwritten
<1>4. TabInv(t)'
  <2>1. tab.at \in {"evaluating", "done"} /\ (tab.at = "done" => tab.result = "superseded" /\ ~Admitted)
        /\ tab.confirmed = None /\ tab.config = config
    OBVIOUS
  <2> HIDE DEF tab
  <2>2. Fitting(t)' /\ Standing(t)'
    BY <1>1, <1>2, <1>3, <2>1 DEF Fitting, Standing, Underway
  <2>3. Told(t)'
    BY <1>1, <1>3, <2>1 DEF Told, Caused, Admitted
  <2> QED BY <2>2, <2>3 DEF TabInv
<1> HIDE DEF tab
<1> QED BY <1>1, <1>4, MovedQuietly

\* The suggestion of a tab is the only one it made; the newest of all is in its place.
LEMMA OwnSuggestion ==
  ASSUME SuggestInv, NEW t \in Tabs, By(All, "generated", t) # {}
  PROVE  \A i \in By(All, "generated", t) : Suggestion(t) = log[i] /\ i \in All
<1>1. log \in Seq(Event) /\ Once
  BY DEF SuggestInv, LogInv, ReceiptsOK
<1>2. By(All, "generated", t) \subseteq All
  BY DEF By, Of
<1>3. Suggestion(t) = log[Max(By(All, "generated", t))] /\ Max(By(All, "generated", t)) \in By(All, "generated", t)
  BY <1>1, <1>2, NewestIs DEF Suggestion
<1> QED BY <1>1, <1>2, <1>3 DEF Once

\* Where the newest suggestion is a tab's, it is the tab's suggestion.
LEMMA NewestSuggestion ==
  ASSUME SuggestInv, NEW t \in Tabs, Of(All, "generated") # {}, Newest(Of(All, "generated")).tab = t
  PROVE  \E i \in By(All, "generated", t) :
           Newest(Of(All, "generated")) = log[i] /\ Suggestion(t) = log[i] /\ log[i].expires = log[i].at + TTL
                                        /\ log[i].at \in Nat
<1>1. log \in Seq(Event) /\ Dated
  BY DEF SuggestInv, LogInv, ReceiptsOK
<1>2. Of(All, "generated") \subseteq All
  BY DEF Of
<1>3. PICK i : /\ i = Max(Of(All, "generated")) /\ i \in Of(All, "generated")
               /\ Newest(Of(All, "generated")) = log[i]
  BY <1>1, <1>2, NewestIs
<1>4. i \in By(All, "generated", t)
  BY <1>3 DEF By
<1>5. Suggestion(t) = log[i] /\ i \in All
  BY <1>4, OwnSuggestion
<1>6. log[i].expires = log[i].at + TTL
  BY <1>1, <1>3 DEF Dated
<1>7. log[i].at \in Nat
  BY <1>1, <1>5 DEF Event, All
<1> QED BY <1>3, <1>4, <1>5, <1>6, <1>7

\* What is current is the tab's own suggestion, newest of all, in its time.
LEMMA CurrentIsOwn ==
  ASSUME SuggestInv, NEW t \in Tabs, NEW arrived \in Nat, Current(t, arrived)
  PROVE  /\ Of(All, "generated") # {} /\ Newest(Of(All, "generated")).tab = t
         /\ Newest(Of(All, "generated")) = Suggestion(t) /\ By(All, "generated", t) # {}
         /\ Suggestion(t).at <= arrived /\ arrived < Suggestion(t).expires
         /\ By(All, "invalidated", t) = {}
<1>1. /\ Of(All, "generated") # {} /\ Newest(Of(All, "generated")).tab = t
      /\ Newest(Of(All, "generated")).expires - TTL <= arrived
      /\ arrived < Newest(Of(All, "generated")).expires /\ By(All, "invalidated", t) = {}
  BY DEF Current
<1>2. PICK i \in By(All, "generated", t) :
        /\ Newest(Of(All, "generated")) = log[i] /\ Suggestion(t) = log[i]
        /\ log[i].expires = log[i].at + TTL /\ log[i].at \in Nat
  BY <1>1, NewestSuggestion
<1>3. log[i].expires - TTL = log[i].at
  BY <1>2, SuggestionAssumption
<1> QED BY <1>1, <1>2, <1>3

\* What is no longer admitted has a cause.
LEMMA NotAdmitted ==
  ASSUME SuggestInv, NEW t \in Tabs, tabs[t].at # "new", ~AdmittedFor(t)
  PROVE  Caused(t)
<1>1. Fitting(t)
  BY TabFacts
<1> QED BY <1>1 DEF Fitting, AdmittedFor, Admitted, Caused

\* What arrived in time, and is admitted, is not current only because it was replaced.
LEMMA NotCurrent ==
  ASSUME SuggestInv, NEW t \in Tabs, tabs[t].at \in {"drawn", "answered"}, AdmittedFor(t),
         ~Current(t, tabs[t].arrived)
  PROVE  Caused(t)
<1>1. Fitting(t) /\ By(All, "generated", t) # {} /\ config = tabs[t].config /\ tabs[t].arrived \in Nat
  BY TabFacts DEF Fitting, Underway, AdmittedFor, Tab
<1>2. Of(All, "generated") # {}
  BY <1>1 DEF By
<1>3. CASE Newest(Of(All, "generated")).tab = t
  <2>1. PICK i \in By(All, "generated", t) :
          /\ Newest(Of(All, "generated")) = log[i] /\ Suggestion(t) = log[i]
          /\ log[i].expires = log[i].at + TTL /\ log[i].at \in Nat
    BY <1>2, <1>3, NewestSuggestion
  <2>2. log[i].config = config /\ log[i].at <= tabs[t].arrived /\ tabs[t].arrived < log[i].expires
    BY <1>1, <2>1 DEF Fitting, Underway
  <2>3. log[i].expires - TTL = log[i].at
    BY <2>1, SuggestionAssumption
  <2> QED BY <1>2, <1>3, <2>1, <2>2, <2>3 DEF Current, Caused
<1>4. CASE Newest(Of(All, "generated")).tab # t
  BY <1>2, <1>4 DEF Caused, Overtaken
<1> QED BY <1>3, <1>4

\* A callback that is done owes only what it tells.
LEMMA Returned ==
  ASSUME SuggestInv, NEW t \in Tabs, tabs[t].at # "new", NEW result \in Results, Return(t, result),
         config' = config, touched' = touched
  PROVE  /\ Fitting(t)' /\ Standing(t)'
         /\ \E tab \in Tab : /\ Set(t, tab) /\ tabs'[t] = tab /\ tab.at = "done" /\ tab.result = result
                             /\ tab.op = tabs[t].op /\ tab.reason = tabs[t].reason
                             /\ tab.confirmed = tabs[t].confirmed
<1>1. tabs[t] \in Tab /\ Fitting(t) /\ ReceiptsOK
  BY TabFacts
<1>2. PICK tab : tab = [tabs[t] EXCEPT !.at = "done", !.result = result, !.arrived = 0, !.previous = 0]
  OBVIOUS
<1>3. /\ tab \in Tab /\ tab.at = "done" /\ tab.result = result /\ tab.config = tabs[t].config
      /\ tab.op = tabs[t].op /\ tab.reason = tabs[t].reason /\ tab.confirmed = tabs[t].confirmed
  BY <1>1, <1>2 DEF Tab, Stages
<1>4. Set(t, tab) /\ tabs'[t] = tab
  BY <1>1, <1>2 DEF Return, Set, ReceiptsOK
<1>5. Fitting(t)' /\ Standing(t)'
  BY <1>1, <1>3, <1>4 DEF Fitting, Standing, Underway
<1> QED BY <1>3, <1>4, <1>5

\* A callback may come back without a word if what it tells is so.
LEMMA ReturnedQuietly ==
  ASSUME SuggestInv, NEW t \in Tabs, tabs[t].at # "new", NEW result \in Results, Return(t, result), Quiet,
         result = "superseded" => Caused(t), result = "confirmed" => OnRecord(t)
  PROVE  SuggestInv'
<1>1. log' = log /\ config' = config /\ touched' = touched /\ lost' = lost
  BY DEF Quiet
<1>2. /\ Fitting(t)' /\ Standing(t)'
      /\ \E tab \in Tab : /\ Set(t, tab) /\ tabs'[t] = tab /\ tab.at = "done" /\ tab.result = result
                          /\ tab.op = tabs[t].op /\ tab.reason = tabs[t].reason
                          /\ tab.confirmed = tabs[t].confirmed
  BY <1>1, Returned
<1>3. PICK tab \in Tab : /\ Set(t, tab) /\ tabs'[t] = tab /\ tab.at = "done" /\ tab.result = result
                         /\ tab.op = tabs[t].op /\ tab.reason = tabs[t].reason
                         /\ tab.confirmed = tabs[t].confirmed
  BY <1>2
<1>4. /\ \A k : By(All, k, t)' = By(All, k, t) /\ Newest(By(All, k, t))' = Newest(By(All, k, t))
      /\ Retracted(All)' = Retracted(All) /\ Suggestion(t)' = Suggestion(t) /\ Overtaken(t)' = Overtaken(t)
  BY <1>1, Unwritten
<1>5. OnRecord(t) => OnRecord(t)'
  BY <1>3, <1>4 DEF OnRecord
<1>6. Caused(t) => Caused(t)'
  BY <1>1, <1>3, <1>4 DEF Caused
<1>7. Told(t)'
  BY <1>3, <1>5, <1>6 DEF Told
<1>8. TabInv(t)'
  BY <1>2, <1>7 DEF TabInv
<1> QED BY <1>3, <1>8, MovedQuietly

\* A callback on its way to the menu tells nothing yet.
LEMMA LeftForMenu ==
  ASSUME SuggestInv, NEW t \in Tabs, tabs[t].at # "new", NEW result \in {"manual", "fallback"},
         ToMenu(t, result), config' = config, touched' = touched
  PROVE  \E tab \in Tab : Set(t, tab) /\ TabInv(t)'
<1>1. tabs[t] \in Tab /\ Fitting(t) /\ ReceiptsOK
  BY TabFacts
<1>2. PICK tab : tab = [tabs[t] EXCEPT !.at = "menu", !.result = result, !.arrived = 0, !.previous = 0,
                                       !.op = None, !.reason = None, !.confirmed = None]
  OBVIOUS
<1>3. tab \in Tab /\ tab.at = "menu" /\ tab.result = result /\ tab.config = tabs[t].config
  BY <1>1, <1>2 DEF Tab, Stages, Results
<1>4. Set(t, tab) /\ tabs'[t] = tab
  BY <1>1, <1>2 DEF ToMenu, Set, ReceiptsOK
<1>5. TabInv(t)'
  BY <1>1, <1>3, <1>4 DEF TabInv, Fitting, Standing, Told, Underway
<1> QED BY <1>3, <1>4, <1>5

\* Nor does it write anything.
LEMMA LeftQuietly ==
  ASSUME SuggestInv, NEW t \in Tabs, tabs[t].at # "new", NEW result \in {"manual", "fallback"},
         ToMenu(t, result), Quiet
  PROVE  SuggestInv'
<1>1. PICK tab \in Tab : Set(t, tab) /\ TabInv(t)'
  BY LeftForMenu DEF Quiet
<1> QED BY <1>1, MovedQuietly

\* An own event is a tab's newest of its kind, and so is it among all tabs'.
LEMMA WrittenByOwn ==
  ASSUME log \in Seq(Event), NEW e \in Event, log' = Append(log, e), NEW n, n = Len(log) + 1
  PROVE  /\ n \in Nat /\ log'[n] = e /\ (\A i \in All : log'[i] = log[i])
         /\ \A k, t : /\ e.kind # k => By(All, k, t)' = By(All, k, t)
                      /\ By(All, k, t) \subseteq All
         /\ \A k : e.kind # k => /\ Of(All, k)' = Of(All, k)
                                 /\ Of(All, k) # {} => Newest(Of(All, k))' = Newest(Of(All, k))
         /\ \A k, t : e.kind = k /\ e.tab = t =>
              /\ By(All, k, t)' = By(All, k, t) \cup {n} /\ Newest(By(All, k, t))' = e
              /\ Of(All, k)' # {} /\ Newest(Of(All, k))' = e
         /\ e.kind = "responded" => LastResponse' = n
         /\ e.kind = "responded" /\ e.op \in {"yes", "correct"} =>
              Chosen(All)' # {} /\ Newest(Chosen(All))' = e
<1>1. /\ n \in Nat /\ n # 0 /\ (\A i \in All : i < n /\ i \in Nat)
      /\ log'[n] = e /\ \A i \in All : log'[i] = log[i]
  BY Grown
<1>2. /\ \A k : Of(All, k)' = Of(All, k) \cup {i \in {n} : e.kind = k}
      /\ \A k, u : By(All, k, u)' = By(All, k, u) \cup {i \in {n} : e.kind = k /\ e.tab = u}
      /\ Chosen(All)' = Chosen(All) \cup {i \in {n} : e.kind = "responded" /\ e.op \in {"yes", "correct"}}
  BY GrownEvents
<1>3. \A S \in SUBSET All : /\ S # {} => log'[Max(S)] = Newest(S)
                            /\ Max(S \cup {n}) = n /\ log'[Max(S \cup {n})] = e
  BY GrownNewest
<1>4. /\ \A k : Of(All, k) \subseteq All
      /\ \A k, u : By(All, k, u) \subseteq All
      /\ Chosen(All) \subseteq All
  BY DEF Of, By, Chosen
<1>5. ASSUME NEW k, NEW t, e.kind # k PROVE By(All, k, t)' = By(All, k, t) /\ Of(All, k)' = Of(All, k)
  <2>1. /\ Of(All, k)' = Of(All, k) \cup {i \in {n} : e.kind = k}
        /\ By(All, k, t)' = By(All, k, t) \cup {i \in {n} : e.kind = k /\ e.tab = t}
    BY <1>2
  <2> QED BY <2>1, <1>5
<1>6. ASSUME NEW k, e.kind # k, Of(All, k) # {} PROVE Newest(Of(All, k))' = Newest(Of(All, k))
  <2>1. Newest(Of(All, k))' = log'[Max(Of(All, k)')]
    BY DEF Newest
  <2>2. Of(All, k)' = Of(All, k)
    BY <1>5, <1>6
  <2> QED BY <2>1, <2>2, <1>3, <1>4, <1>6
<1>7. ASSUME NEW k, NEW t, e.kind = k, e.tab = t
      PROVE  /\ By(All, k, t)' = By(All, k, t) \cup {n} /\ Newest(By(All, k, t))' = e
             /\ Of(All, k)' # {} /\ Newest(Of(All, k))' = e
  <2>1. By(All, k, t)' = By(All, k, t) \cup {n} /\ Of(All, k)' = Of(All, k) \cup {n}
    <3>1. /\ Of(All, k)' = Of(All, k) \cup {i \in {n} : e.kind = k}
          /\ By(All, k, t)' = By(All, k, t) \cup {i \in {n} : e.kind = k /\ e.tab = t}
      BY <1>2
    <3> QED BY <3>1, <1>7
  <2>2. /\ Newest(Of(All, k))' = log'[Max(Of(All, k)')]
        /\ Newest(By(All, k, t))' = log'[Max(By(All, k, t)')]
    BY DEF Newest
  <2>3. log'[Max(By(All, k, t) \cup {n})] = e /\ log'[Max(Of(All, k) \cup {n})] = e
    BY <1>3, <1>4
  <2> QED BY <2>1, <2>2, <2>3
<1>8. ASSUME e.kind = "responded" PROVE LastResponse' = n
  <2>1. Of(All, "responded")' = Of(All, "responded") \cup {n}
    BY <1>2, <1>8
  <2>2. LastResponse' = Max({0} \cup Of(All, "responded")')
    BY DEF LastResponse
  <2>3. PICK S : S = {0} \cup Of(All, "responded") \cup {n}
    OBVIOUS
  <2>4. S \subseteq 0..n /\ n \in S /\ \A j \in S : j <= n
    BY <2>3, <1>1, <1>4
  <2>5. Max(S) = n
    BY <2>4, <1>1, MaxOf
  <2>6. {0} \cup Of(All, "responded")' = S
    BY <2>1, <2>3
  <2> QED BY <2>2, <2>5, <2>6
<1>9. ASSUME e.kind = "responded", e.op \in {"yes", "correct"}
      PROVE  Chosen(All)' # {} /\ Newest(Chosen(All))' = e
  <2>1. Chosen(All)' = Chosen(All) \cup {n}
    BY <1>2, <1>9
  <2>2. Newest(Chosen(All))' = log'[Max(Chosen(All)')]
    BY DEF Newest
  <2>3. log'[Max(Chosen(All) \cup {n})] = e
    BY <1>3, <1>4
  <2> QED BY <2>1, <2>2, <2>3
<1> QED BY <1>1, <1>4, <1>5, <1>6, <1>7, <1>8, <1>9

\* A model that answers.
LEMMA GenerateKeeps ==
  ASSUME SuggestInv, NEW t \in Tabs, Generate(t)
  PROVE  SuggestInv'
<1>1. /\ tabs[t].at = "evaluating" /\ tabs[t] \in Tab /\ TabInv(t) /\ Fitting(t) /\ Standing(t)
      /\ log \in Seq(Event) /\ now \in Nat /\ config \in Versions
  BY TabFacts DEF Generate, ReceiptsOK
<1>2. CASE ~AdmittedFor(t) /\ Return(t, "superseded") /\ Quiet
  <2>1. Caused(t)
    BY <1>1, <1>2, NotAdmitted
  <2> QED BY <1>1, <1>2, <2>1, ReturnedQuietly DEF Results
<1>3. CASE AdmittedFor(t) /\ ToMenu(t, "fallback") /\ Quiet
  BY <1>1, <1>3, LeftQuietly
<1>4. ASSUME NEW reasons \in SUBSET Reasons, AdmittedFor(t),
             Record([kind |-> "generated", tab |-> t, reasons |-> reasons, config |-> config,
                     at |-> now, expires |-> now + TTL]),
             IF reasons = {} THEN ToMenu(t, "manual") ELSE Set(t, [tabs[t] EXCEPT !.at = "drawing"])
      PROVE  SuggestInv'
  <2>1. PICK e : e = [kind |-> "generated", tab |-> t, reasons |-> reasons, config |-> config,
                      at |-> now, expires |-> now + TTL]
    OBVIOUS
  <2>2. /\ e \in Event /\ e.kind = "generated" /\ e.tab = t /\ e.at = now /\ e.expires = e.at + TTL
        /\ e.config = config /\ e.reasons = reasons /\ config = tabs[t].config
    BY <2>1, <1>1, <1>4, SuggestionAssumption DEF Event, AdmittedFor
  <2>3. Record(e) /\ log' = Append(log, e) /\ config' = config /\ touched' = touched
    BY <2>1, <1>4 DEF Record
  <2>4. By(All, "generated", t) = {} /\ By(All, "responded", t) = {} /\ tabs[t].confirmed = None
    BY <1>1 DEF Fitting, Standing
  <2>5. PICK n : n = Len(log) + 1
    OBVIOUS
  <2>6. /\ log'[n] = e /\ By(All, "generated", t)' = {n}
        /\ By(All, "responded", t)' = By(All, "responded", t)
    BY <2>2, <2>3, <2>4, <2>5, <1>1, WrittenByOwn
  <2>7. CASE reasons = {}
    <3>1. PICK tab \in Tab : Set(t, tab) /\ TabInv(t)'
      BY <2>3, <2>7, <1>1, <1>4, LeftForMenu
    <3> QED BY <2>2, <2>3, <2>4, <3>1, MovedWriting
  <2>8. CASE reasons # {}
    <3>1. PICK tab : tab = [tabs[t] EXCEPT !.at = "drawing"]
      OBVIOUS
    <3>2. /\ tab \in Tab /\ tab.at = "drawing" /\ tab.confirmed = None /\ tab.config = tabs[t].config
      BY <3>1, <2>4, <1>1 DEF Tab, Stages
    <3>3. Set(t, tab) /\ tabs'[t] = tab
      BY <3>1, <2>8, <1>4 DEF Set, SuggestInv, LogInv, ReceiptsOK
    <3>4. Fitting(t)' /\ Standing(t)' /\ Told(t)'
      BY <2>2, <2>3, <2>4, <2>6, <2>8, <3>2, <3>3 DEF Fitting, Standing, Told, Underway
    <3>5. TabInv(t)'
      BY <3>4 DEF TabInv
    <3> QED BY <2>2, <2>3, <2>4, <3>2, <3>3, <3>5, MovedWriting
  <2> QED BY <2>7, <2>8
<1> QED BY <1>2, <1>3, <1>4 DEF Generate

\* What leaves the log leaves a tab everything but what it changes of itself.
LEMMA QuietFacts ==
  ASSUME NEW t, Quiet
  PROVE  /\ log' = log /\ config' = config /\ touched' = touched /\ lost' = lost /\ now' = now
         /\ \A k : By(All, k, t)' = By(All, k, t) /\ Newest(By(All, k, t))' = Newest(By(All, k, t))
         /\ Retracted(All)' = Retracted(All) /\ Suggestion(t)' = Suggestion(t) /\ Overtaken(t)' = Overtaken(t)
         /\ LastDrawn(t)' = LastDrawn(t) /\ LastResponse' = LastResponse /\ Chosen(All)' = Chosen(All)
         /\ Newest(Chosen(All))' = Newest(Chosen(All))
<1>1. log' = log /\ config' = config /\ touched' = touched /\ lost' = lost /\ now' = now
  BY DEF Quiet
<1> QED BY <1>1, Unwritten

\* A suggestion that is drawn, and an answer that is sent, before it expires.
LEMMA ArrivalsKeep ==
  ASSUME SuggestInv, NEW t \in Tabs, Drawn(t) \/ ReadPrevious(t) \/ Answered(t)
  PROVE  SuggestInv'
<1>1. /\ tabs[t] \in Tab /\ TabInv(t) /\ Fitting(t) /\ Standing(t) /\ ReceiptsOK /\ now \in Nat /\ Quiet /\ Dated
      /\ tabs[t].at \in {"drawing", "rendered", "asking"}
  BY TabFacts DEF Drawn, ReadPrevious, Answered, ReceiptsOK
<1>2. /\ log' = log /\ config' = config /\ touched' = touched
      /\ \A k : By(All, k, t)' = By(All, k, t) /\ Newest(By(All, k, t))' = Newest(By(All, k, t))
      /\ Overtaken(t)' = Overtaken(t)
      /\ LastDrawn(t)' = LastDrawn(t) /\ LastResponse' = LastResponse /\ Chosen(All)' = Chosen(All)
      /\ Newest(Chosen(All))' = Newest(Chosen(All))
  BY <1>1, QuietFacts
<1>3. /\ By(All, "generated", t) # {}
      /\ \A i \in By(All, "generated", t) : Suggestion(t) = log[i] /\ log[i].at <= now
  <2>1. By(All, "generated", t) # {}
    BY <1>1 DEF Fitting, Underway
  <2> QED BY <2>1, <1>1, OwnSuggestion DEF Dated
<1>4. CASE Drawn(t)
  <2>1. PICK tab : tab = [tabs[t] EXCEPT !.at = "drawn", !.arrived = now]
    OBVIOUS
  <2>2. /\ tab \in Tab /\ tab.at = "drawn" /\ tab.arrived = now /\ tab.confirmed = tabs[t].confirmed
        /\ tab.config = tabs[t].config
    BY <2>1, <1>1 DEF Tab, Stages
  <2>3. Set(t, tab) /\ tabs'[t] = tab /\ now < Suggestion(t).expires /\ tabs[t].at = "drawing"
    BY <2>1, <1>1, <1>4 DEF Drawn, Set, ReceiptsOK
  <2>4. Fitting(t)'
    BY <1>1, <1>2, <1>3, <2>2, <2>3 DEF Fitting, Underway
  <2>5. Standing(t)' /\ Told(t)'
    BY <1>1, <1>2, <2>2, <2>3 DEF Standing, Told
  <2> QED BY <1>1, <2>2, <2>3, <2>4, <2>5, MovedQuietly DEF TabInv
<1>5. CASE ReadPrevious(t)
  <2>0. LastResponse \in Nat
    <3>1. PICK n \in Nat : {0} \cup Of(All, "responded") \subseteq 0..n
      <4>1. Len(log) \in Nat /\ {0} \cup Of(All, "responded") \subseteq 0..Len(log)
        BY <1>1 DEF ReceiptsOK, Of, All
      <4> QED BY <4>1
    <3>2. LastResponse \in {0} \cup Of(All, "responded")
      BY <3>1, MaxIs DEF LastResponse
    <3> QED BY <3>1, <3>2
  <2>1. PICK tab : tab = [tabs[t] EXCEPT !.at = "asking", !.previous = LastResponse]
    OBVIOUS
  <2>2. /\ tab \in Tab /\ tab.at = "asking" /\ tab.previous = LastResponse
        /\ tab.confirmed = tabs[t].confirmed /\ tab.config = tabs[t].config
    BY <2>0, <2>1, <1>1 DEF Tab, Stages
  <2>3. Set(t, tab) /\ tabs'[t] = tab /\ tabs[t].at = "rendered"
    BY <2>1, <1>1, <1>5 DEF ReadPrevious, Set, ReceiptsOK
  <2>4. Fitting(t)'
    BY <1>1, <1>2, <2>2, <2>3 DEF Fitting, Underway
  <2>5. Standing(t)' /\ Told(t)'
    BY <1>1, <1>2, <2>2, <2>3 DEF Standing, Told
  <2> QED BY <1>1, <2>2, <2>3, <2>4, <2>5, MovedQuietly DEF TabInv
<1>6. CASE Answered(t)
  <2>0. PICK op \in UserOps, reason \in Reasons \cup {None} :
          Set(t, [tabs[t] EXCEPT !.at = "answered", !.arrived = now, !.op = op, !.reason = reason])
    BY <1>6 DEF Answered
  <2>1. PICK tab : tab = [tabs[t] EXCEPT !.at = "answered", !.arrived = now, !.op = op, !.reason = reason]
    OBVIOUS
  <2>2. /\ tab \in Tab /\ tab.at = "answered" /\ tab.arrived = now /\ tab.previous = tabs[t].previous
        /\ tab.op = op
        /\ tab.confirmed = tabs[t].confirmed /\ tab.config = tabs[t].config
    BY <2>1, <1>1 DEF Tab, Stages
  <2>3. Set(t, tab) /\ tabs'[t] = tab /\ tabs[t].at = "asking" /\ now < Suggestion(t).expires
    BY <2>0, <2>1, <1>1, <1>6 DEF Answered, Set, ReceiptsOK
  <2>4. Fitting(t)'
    BY <1>1, <1>2, <1>3, <2>2, <2>3 DEF Fitting, Underway
  <2>5. Standing(t)' /\ Told(t)'
    BY <1>1, <1>2, <2>2, <2>3 DEF Standing, Told, OnRecord
  <2> QED BY <1>1, <2>2, <2>3, <2>4, <2>5, MovedQuietly DEF TabInv
<1> QED BY <1>4, <1>5, <1>6

\* Nothing is drawn, no answer comes, or the menu opens: what is told is so.
LEMMA EndingsKeep ==
  ASSUME SuggestInv, NEW t \in Tabs, NotDrawn(t) \/ Unanswered(t) \/ OpenMenu(t)
  PROVE  SuggestInv'
<1>1. /\ tabs[t].at \in {"drawing", "asking", "menu"} /\ tabs[t].at # "new" /\ Quiet
      /\ tabs[t] \in Tab /\ Standing(t)
  BY TabFacts DEF NotDrawn, Unanswered, OpenMenu
<1>2. CASE ~AdmittedFor(t) /\ Return(t, "superseded")
  <2>1. Caused(t)
    BY <1>1, <1>2, NotAdmitted
  <2> QED BY <1>1, <1>2, <2>1, ReturnedQuietly DEF Results
<1>3. CASE tabs[t].at # "menu" /\ tabs[t].confirmed # None /\ Return(t, "confirmed")
  <2>1. OnRecord(t)
    BY <1>1, <1>3 DEF Standing
  <2> QED BY <1>1, <1>3, <2>1, ReturnedQuietly DEF Results
<1>4. CASE ToMenu(t, "fallback")
  BY <1>1, <1>4, LeftQuietly
<1>5. CASE tabs[t].at = "menu" /\ Return(t, tabs[t].result)
  <2>1. tabs[t].result \in {"manual", "fallback"}
    BY <1>1, <1>5, TabFacts DEF Fitting
  <2> QED BY <1>1, <1>5, <2>1, ReturnedQuietly DEF Results
<1> QED BY <1>2, <1>3, <1>4, <1>5 DEF NotDrawn, Unanswered, OpenMenu

\* A suggestion that is drawn goes on record if it is current, by the time it came.
LEMMA RecordRenderKeeps ==
  ASSUME SuggestInv, NEW t \in Tabs, RecordRender(t)
  PROVE  SuggestInv'
<1>1. /\ tabs[t].at = "drawn" /\ tabs[t] \in Tab /\ TabInv(t) /\ Fitting(t) /\ Standing(t) /\ ReceiptsOK
      /\ log \in Seq(Event) /\ now \in Nat /\ tabs[t].arrived \in Nat
  BY TabFacts DEF RecordRender, ReceiptsOK, Tab
<1>2. CASE ~(AdmittedFor(t) /\ Current(t, TimeOf(t)))
  <2>1. Return(t, "superseded") /\ Quiet
    BY <1>2 DEF RecordRender
  <2>2. Caused(t)
    <3>1. CASE ~AdmittedFor(t)
      BY <1>1, <3>1, NotAdmitted
    <3>2. CASE AdmittedFor(t)
      <4>1. ~Current(t, tabs[t].arrived)
        BY <1>2, <3>2 DEF TimeOf
      <4> QED BY <1>1, <3>2, <4>1, NotCurrent
    <3> QED BY <3>1, <3>2
  <2> QED BY <1>1, <2>1, <2>2, ReturnedQuietly DEF Results
<1>3. CASE AdmittedFor(t) /\ Current(t, TimeOf(t))
  <2>1. PICK e : e = [kind |-> "rendered", tab |-> t, at |-> now]
    OBVIOUS
  <2>2. e \in Event /\ e.kind = "rendered" /\ e.tab = t /\ e.at = now
    BY <2>1, <1>1 DEF Event
  <2>3. Record(e) /\ log' = Append(log, e) /\ config' = config /\ touched' = touched
    BY <2>1, <1>3 DEF Record, RecordRender
  <2>4. PICK tab : tab = [tabs[t] EXCEPT !.at = "rendered"]
    OBVIOUS
  <2>5. tab \in Tab /\ tab.at = "rendered" /\ tab.confirmed = tabs[t].confirmed /\ tab.config = tabs[t].config
    BY <2>4, <1>1 DEF Tab, Stages
  <2>6. Set(t, tab) /\ tabs'[t] = tab
    BY <2>4, <1>1, <1>3 DEF RecordRender, Set, ReceiptsOK
  <2>7. PICK n : n = Len(log) + 1
    OBVIOUS
  <2>8. /\ By(All, "generated", t)' = By(All, "generated", t) /\ By(All, "generated", t) \subseteq All
        /\ By(All, "responded", t)' = By(All, "responded", t)
        /\ Of(All, "rendered")' # {} /\ Newest(Of(All, "rendered"))' = e
        /\ \A i \in All : log'[i] = log[i]
    <3>1. /\ By(All, "generated", t)' = By(All, "generated", t) /\ By(All, "generated", t) \subseteq All
          /\ By(All, "responded", t)' = By(All, "responded", t)
      BY <2>2, <2>3, <2>7, <1>1, WrittenByOwn
    <3>2. /\ Of(All, "rendered")' # {} /\ Newest(Of(All, "rendered"))' = e
          /\ \A i \in All : log'[i] = log[i]
      BY <2>2, <2>3, <2>7, <1>1, WrittenByOwn
    <3> QED BY <3>1, <3>2
  <2>9. Fitting(t)'
    BY <1>1, <2>3, <2>5, <2>6, <2>8 DEF Fitting, Underway
  <2>10. Standing(t)'
    <3>1. LastDrawn(t)'
      BY <2>2, <2>8 DEF LastDrawn
    <3> QED BY <1>1, <2>5, <2>6, <2>8, <3>1 DEF Standing
  <2>11. TabInv(t)'
    BY <2>5, <2>6, <2>9, <2>10 DEF TabInv, Told
  <2>12. /\ Of(All, "generated") # {} /\ Newest(Of(All, "generated")).tab = t
         /\ \E j \in By(All, "generated", t) : log[j].reasons # {}
    <3>1. Of(All, "generated") # {} /\ Newest(Of(All, "generated")).tab = t
      BY <1>3 DEF Current
    <3> QED BY <3>1, <1>1 DEF Fitting, Underway
  <2> QED BY <2>2, <2>3, <2>5, <2>6, <2>11, <2>12, MovedWriting
<1> QED BY <1>2, <1>3

\* An answer in turn that cannot be recorded, though its suggestion is current, was
\* overtaken, or chose what was not shown, or corrects a reason into itself.
LEMMA NotAnswerable ==
  ASSUME SuggestInv, NEW t \in Tabs, tabs[t].at = "answered", AdmittedFor(t), ~OutOfTurn(t),
         tabs[t].op # "done", NEW op, op = IF tabs[t].op = "manual" THEN "skip" ELSE tabs[t].op,
         ~Answerable(t, op, tabs[t].reason)
  PROVE  Caused(t)
<1>1. Standing(t) /\ tabs[t] \in Tab /\ By(All, "generated", t) # {}
  BY TabFacts DEF Fitting, Underway
<1>2. SUFFICES ASSUME ~Overtaken(t) PROVE Caused(t)
  BY DEF Caused
<1>3. LastDrawn(t) /\ LastResponse = tabs[t].previous
  BY <1>1, <1>2 DEF Standing
<1>4. CASE op \in {"yes", "no", "correct"} /\ tabs[t].reason \notin Suggestion(t).reasons
  <2>1. tabs[t].op \in {"yes", "no", "correct"}
    BY <1>4
  <2> QED BY <2>1, <1>1, <1>4 DEF Caused
<1>5. CASE op # "correct" /\ By(All, "responded", t) # {}
  <2>1. tabs[t].confirmed # None
    BY <1>1, <1>5 DEF Standing
  <2>2. tabs[t].op = "correct"
    BY <2>1 DEF OutOfTurn
  <2> QED BY <2>2, <1>5
<1>6. CASE op = "correct" /\ Project(All) \in {None, tabs[t].reason}
  <2>1. tabs[t].op = "correct" /\ tabs[t].confirmed # None
    BY <1>6 DEF OutOfTurn
  <2>2. Chosen(All) # {} /\ Newest(Chosen(All)).reason = tabs[t].confirmed
    BY <2>1, <1>1, <1>2 DEF Standing
  <2>3. ~Retracted(All)
    BY DEF AdmittedFor, Admitted
  <2>4. Project(All) = tabs[t].confirmed
    BY <2>2, <2>3 DEF Project
  <2> QED BY <2>1, <2>4, <1>6 DEF Caused
<1> QED BY <1>3, <1>4, <1>5, <1>6 DEF Answerable

\* An answer goes on record if it is the one this display may get.
LEMMA RecordAnswerKeeps ==
  ASSUME SuggestInv, NEW t \in Tabs, RecordAnswer(t)
  PROVE  SuggestInv'
<1>1. /\ tabs[t].at = "answered" /\ tabs[t] \in Tab /\ TabInv(t) /\ Fitting(t) /\ Standing(t) /\ ReceiptsOK
      /\ log \in Seq(Event) /\ now \in Nat /\ tabs[t].arrived \in Nat
      /\ tabs[t].op \in UserOps /\ tabs[t].reason \in Reasons \cup {None}
  BY TabFacts DEF RecordAnswer, ReceiptsOK, Tab, Fitting
<1>2. PICK op : op = IF tabs[t].op = "manual" THEN "skip" ELSE tabs[t].op
  OBVIOUS
<1>3. CASE ~AdmittedFor(t) /\ Return(t, "superseded") /\ Quiet
  BY <1>1, <1>3, NotAdmitted, ReturnedQuietly DEF Results
<1>4. CASE ToMenu(t, "fallback") /\ Quiet
  BY <1>1, <1>4, LeftQuietly
<1>5. CASE ~OutOfTurn(t) /\ op = "done" /\ Return(t, "confirmed") /\ Quiet
  <2>1. tabs[t].op = "done"
    BY <1>2, <1>5
  <2>2. OnRecord(t)
    BY <2>1, <1>1, <1>5 DEF OutOfTurn, Standing
  <2> QED BY <2>2, <1>1, <1>5, ReturnedQuietly DEF Results
<1>6. CASE /\ AdmittedFor(t) /\ ~OutOfTurn(t) /\ op # "done"
           /\ ~(Current(t, TimeOf(t)) /\ Answerable(t, op, tabs[t].reason))
           /\ Return(t, "superseded") /\ Quiet
  <2>1. tabs[t].op # "done"
    BY <1>2, <1>6
  <2>2. Caused(t)
    <3>1. CASE ~Current(t, tabs[t].arrived)
      BY <3>1, <1>1, <1>6, NotCurrent
    <3>2. CASE ~Answerable(t, op, tabs[t].reason)
      BY <3>2, <2>1, <1>1, <1>2, <1>6, NotAnswerable
    <3> QED BY <3>1, <3>2, <1>6 DEF TimeOf
  <2> QED BY <2>2, <1>1, <1>6, ReturnedQuietly DEF Results
<1>7. CASE /\ AdmittedFor(t) /\ ~OutOfTurn(t) /\ op # "done"
           /\ Current(t, TimeOf(t)) /\ Answerable(t, op, tabs[t].reason)
           /\ Record([kind |-> "responded", tab |-> t, op |-> op, reason |-> tabs[t].reason,
                      arrived |-> tabs[t].arrived, at |-> now])
           /\ IF op \in {"yes", "correct"}
                THEN Set(t, [tabs[t] EXCEPT !.at = "asking", !.confirmed = tabs[t].reason,
                                             !.previous = Len(log) + 1])
                ELSE IF tabs[t].op \in {"manual", "no", "none_matched"}
                     THEN ToMenu(t, "manual") ELSE Return(t, op)
  <2>0. op \in UserOps \cup {"skip"}
    BY <1>1, <1>2, <1>7
  <2>1. PICK e : e = [kind |-> "responded", tab |-> t, op |-> op, reason |-> tabs[t].reason,
                      arrived |-> tabs[t].arrived, at |-> now]
    OBVIOUS
  <2>2. /\ e \in Event /\ e.kind = "responded" /\ e.tab = t /\ e.at = now /\ e.op = op
        /\ e.reason = tabs[t].reason /\ e.arrived = tabs[t].arrived
    BY <2>0, <2>1, <1>1 DEF Event
  <2>3. Record(e) /\ log' = Append(log, e) /\ config' = config /\ touched' = touched
    BY <2>1, <1>7 DEF Record
  <2>4. /\ Of(All, "generated") # {} /\ Newest(Of(All, "generated")).tab = t
        /\ Newest(Of(All, "generated")) = Suggestion(t) /\ By(All, "generated", t) # {}
        /\ Suggestion(t).at <= tabs[t].arrived /\ tabs[t].arrived < Suggestion(t).expires
        /\ By(All, "invalidated", t) = {}
    BY <1>1, <1>7, CurrentIsOwn DEF TimeOf
  <2>5. PICK n : n = Len(log) + 1
    OBVIOUS
  <2>6. /\ By(All, "generated", t)' = By(All, "generated", t) /\ By(All, "generated", t) \subseteq All
        /\ Of(All, "rendered")' = Of(All, "rendered")
        /\ Of(All, "rendered") # {} => Newest(Of(All, "rendered"))' = Newest(Of(All, "rendered"))
        /\ By(All, "responded", t)' = By(All, "responded", t) \cup {n} /\ Newest(By(All, "responded", t))' = e
        /\ LastResponse' = n /\ \A i \in All : log'[i] = log[i]
        /\ op \in {"yes", "correct"} => Chosen(All)' # {} /\ Newest(Chosen(All))' = e
        /\ n \in Nat
    <3>1. /\ By(All, "generated", t)' = By(All, "generated", t) /\ By(All, "generated", t) \subseteq All
          /\ Of(All, "rendered")' = Of(All, "rendered")
      BY <2>2, <2>3, <2>5, <1>1, WrittenByOwn
    <3>2. Of(All, "rendered") # {} => Newest(Of(All, "rendered"))' = Newest(Of(All, "rendered"))
      BY <2>2, <2>3, <2>5, <1>1, WrittenByOwn
    <3>3. By(All, "responded", t)' = By(All, "responded", t) \cup {n} /\ Newest(By(All, "responded", t))' = e
      BY <2>2, <2>3, <2>5, <1>1, WrittenByOwn
    <3>4. LastResponse' = n /\ n \in Nat /\ \A i \in All : log'[i] = log[i]
      BY <2>2, <2>3, <2>5, <1>1, WrittenByOwn
    <3>5. op \in {"yes", "correct"} => Chosen(All)' # {} /\ Newest(Chosen(All))' = e
      BY <2>2, <2>3, <2>5, <1>1, WrittenByOwn
    <3> QED BY <3>1, <3>2, <3>3, <3>4, <3>5
  <2>7. /\ LastDrawn(t) /\ ~Retracted(All)
        /\ op \in {"yes", "correct"} => tabs[t].reason \in Suggestion(t).reasons
    BY <1>7 DEF Answerable, AdmittedFor, Admitted
  <2>8. CASE op \in {"yes", "correct"}
    <3>1. PICK tab : tab = [tabs[t] EXCEPT !.at = "asking", !.confirmed = tabs[t].reason, !.previous = n]
      OBVIOUS
    <3>2. /\ tab \in Tab /\ tab.at = "asking" /\ tab.confirmed = tabs[t].reason /\ tab.previous = n
          /\ tab.config = tabs[t].config
      BY <3>1, <2>6, <1>1 DEF Tab, Stages
    <3>3. Set(t, tab) /\ tabs'[t] = tab
      BY <3>1, <2>5, <2>8, <1>1, <1>7 DEF Set, ReceiptsOK
    <3>4. tab.confirmed # None
      <4>1. PICK i \in By(All, "generated", t) : Suggestion(t) = log[i] /\ i \in All /\ log[i].kind = "generated"
        BY <2>4, OwnSuggestion DEF By, Of
      <4>2. log[i].reasons \subseteq Reasons
        BY <4>1, <1>1 DEF Event, All
      <4> QED BY <4>1, <4>2, <2>7, <2>8, <3>2, SuggestionAssumption
    <3>5. Fitting(t)'
      <4>1. /\ By(All, "generated", t)' # {} /\ (touched' \/ tabs[t].config = config')
            /\ \A i \in By(All, "generated", t)' :
                 log'[i].config = tabs[t].config /\ log'[i].reasons # {}
        BY <1>1, <2>3, <2>6 DEF Fitting, Underway
      <4> QED BY <4>1, <3>2, <3>3 DEF Fitting, Underway
    <3>6. Standing(t)'
      <4>1. LastDrawn(t)'
        BY <2>6, <2>7 DEF LastDrawn
      <4>2. OnRecord(t)'
        BY <2>2, <2>6, <3>2, <3>3 DEF OnRecord
      <4> QED BY <4>1, <4>2, <2>2, <2>6, <2>8, <3>2, <3>3, <3>4 DEF Standing
    <3>7. TabInv(t)'
      BY <3>2, <3>3, <3>5, <3>6 DEF TabInv, Told
    <3> QED BY <2>2, <2>3, <2>4, <2>7, <3>2, <3>3, <3>7, MovedWriting
  <2>9. CASE op \notin {"yes", "correct"}
    <3>1. CASE ToMenu(t, "manual")
      <4>1. PICK tab \in Tab : Set(t, tab) /\ TabInv(t)'
        BY <3>1, <2>3, <1>1, LeftForMenu
      <4> QED BY <2>2, <2>3, <2>4, <2>7, <2>9, <4>1, MovedWriting
    <3>2. CASE Return(t, op)
      <4>1. op \in Results /\ op \notin {"superseded", "confirmed"}
        BY <2>0, SuggestionAssumption DEF Results, OPERATIONS
      <4>2. /\ Fitting(t)' /\ Standing(t)'
            /\ \E tab \in Tab : Set(t, tab) /\ tabs'[t] = tab /\ tab.at = "done" /\ tab.result = op
        BY <3>2, <4>1, <2>3, <1>1, Returned
      <4>3. PICK tab \in Tab : Set(t, tab) /\ tabs'[t] = tab /\ tab.at = "done" /\ tab.result = op
        BY <4>2
      <4>4. TabInv(t)'
        BY <4>1, <4>2, <4>3 DEF TabInv, Told
      <4> QED BY <2>2, <2>3, <2>4, <2>7, <2>9, <4>3, <4>4, MovedWriting
    <3> QED BY <3>1, <3>2, <2>9, <1>7
  <2> QED BY <2>8, <2>9
<1> QED BY <1>2, <1>3, <1>4, <1>5, <1>6, <1>7 DEF RecordAnswer

\* The others, and the clock, leave every tab what it goes by.
LEMMA OthersKeep ==
  ASSUME SuggestInv, Retract \/ Withdraw \/ Reconfigure \/ Tick \/ (\E t \in Tabs : Invalidate(t))
  PROVE  SuggestInv'
<1>1. LogInv /\ ReceiptsOK /\ log \in Seq(Event) /\ now \in Nat
  BY DEF SuggestInv, LogInv, ReceiptsOK
<1>2. /\ tabs' = tabs /\ (lost' = None => lost = None) /\ (touched => touched') /\ (config' = config \/ touched')
      /\ touched' \in BOOLEAN /\ config' \in Versions /\ now' \in Nat /\ now <= now'
  <2>0. /\ touched \in BOOLEAN /\ config \in Versions
    BY <1>1 DEF ReceiptsOK
  <2>1. CASE Retract \/ \E t \in Tabs : Invalidate(t)
    <3>1. tabs' = tabs /\ UNCHANGED <<now, lost, config, touched>>
      BY <2>1 DEF Retract, Invalidate, Record
    <3> QED BY <3>1, <2>0, <1>1
  <2>2. CASE Withdraw
    <3>1. tabs' = tabs /\ UNCHANGED <<now, config, touched>> /\ lost = None
      BY <2>2 DEF Withdraw
    <3>2. lost' = None => lost = None
      BY <3>1
    <3>3. (touched => touched') /\ touched' \in BOOLEAN /\ config' = config /\ config' \in Versions
          /\ now' \in Nat /\ now <= now'
      BY <3>1, <2>0, <1>1
    <3> QED BY <3>1, <3>2, <3>3
  <2>3. CASE Reconfigure
    BY <2>0, <2>3, <1>1 DEF Reconfigure
  <2>4. CASE Tick
    BY <2>0, <2>4, <1>1 DEF Tick
  <2> QED BY <2>1, <2>2, <2>3, <2>4
<1>3. /\ log' \in Seq(Event) /\ Dated' /\ Once' /\ Displayed' /\ ConfirmedWasShown'
      /\ \A u : Kept(u)
  <2>1. CASE Withdraw \/ Reconfigure \/ Tick
    <3>1. log' = log
      BY <2>1 DEF Withdraw, Reconfigure, Tick
    <3> QED BY <3>1, <1>1, <1>2, LogStays, Unwritten
  <2>2. ASSUME NEW e \in Event, Record(e), e.at = now, e.kind \notin {"generated", "rendered", "responded"}
        PROVE  /\ log' \in Seq(Event) /\ Dated' /\ Once' /\ Displayed' /\ ConfirmedWasShown'
               /\ \A u : Kept(u)
    <3>1. log' = Append(log, e) /\ now' = now
      BY <2>2 DEF Record
    <3>2. log' \in Seq(Event) /\ Dated' /\ Once' /\ Displayed' /\ ConfirmedWasShown'
      BY <2>2, <3>1, <1>1, LogGrows
    <3>3. ASSUME NEW u PROVE Kept(u)
      BY <2>2, <3>1, <1>1, WrittenByOthers
    <3> QED BY <3>2, <3>3
  <2>3. CASE Retract
    <3>1. PICK e : e = [kind |-> "retracted", at |-> now]
      OBVIOUS
    <3>2. e \in Event /\ e.at = now /\ e.kind = "retracted" /\ Record(e)
      BY <3>1, <2>3, <1>1 DEF Event, Retract
    <3> QED BY <3>2, <2>2
  <2>4. ASSUME NEW t \in Tabs, Invalidate(t)
        PROVE  /\ log' \in Seq(Event) /\ Dated' /\ Once' /\ Displayed' /\ ConfirmedWasShown'
               /\ \A u : Kept(u)
    <3>1. PICK e : e = [kind |-> "invalidated", tab |-> t, at |-> now]
      OBVIOUS
    <3>2. e \in Event /\ e.at = now /\ e.kind = "invalidated" /\ Record(e)
      BY <3>1, <2>4, <1>1 DEF Event, Invalidate
    <3> QED BY <3>2, <2>2
  <2> QED BY <2>1, <2>3, <2>4
<1>4. LogInv'
  BY <1>1, <1>2, <1>3 DEF LogInv, ReceiptsOK
<1>5. ASSUME NEW u \in Tabs PROVE TabInv(u)'
  <2>1. tabs'[u] = tabs[u] /\ TabInv(u) /\ Kept(u)
    BY <1>2, <1>3 DEF SuggestInv
  <2> QED BY <2>1, <1>1, <1>2, Undisturbed
<1> QED BY <1>4, <1>5 DEF SuggestInv

\* Every step keeps the invariant.
LEMMA SuggestNext == SuggestInv /\ [TabsNext]_tabsVars => SuggestInv'
<1> SUFFICES ASSUME SuggestInv, [TabsNext]_tabsVars PROVE SuggestInv'
  OBVIOUS
<1>1. ASSUME NEW t \in Tabs, TabStep(t) PROVE SuggestInv'
  BY <1>1, BeginKeeps, GenerateKeeps, ArrivalsKeep, RecordRenderKeeps, EndingsKeep, RecordAnswerKeeps, OthersKeep
  DEF TabStep
<1>2. CASE UNCHANGED tabsVars
  <2>1. /\ log' = log /\ now' = now /\ lost' = lost /\ config' = config /\ tabs' = tabs
        /\ touched' = touched
    BY <1>2 DEF tabsVars
  <2>2. LogInv /\ ReceiptsOK /\ now \in Nat
    BY DEF SuggestInv, LogInv, ReceiptsOK
  <2>3. now' \in Nat /\ now <= now'
    BY <2>1, <2>2
  <2>4. LogInv'
    <3>1. ReceiptsOK'
      BY <2>1, <2>2 DEF ReceiptsOK
    <3> QED BY <2>1, <2>2, <2>3, <3>1, LogStays DEF LogInv
  <2>5. ASSUME NEW u \in Tabs PROVE TabInv(u)'
    <3>1. Kept(u) /\ TabInv(u) /\ tabs'[u] = tabs[u]
      BY <2>1, Unwritten DEF SuggestInv
    <3> QED BY <2>1, <2>2, <3>1, Undisturbed
  <2> QED BY <2>4, <2>5 DEF SuggestInv
<1> QED BY <1>1, <1>2, OthersKeep DEF TabsNext

\* What the log says of itself and what every callback stands on, in every state.
THEOREM SuggestInvariance == TabsSpec => []SuggestInv
BY SuggestInit, SuggestNext, PTL DEF TabsSpec

\* A confirmed reason was among those shown last, and its answer came in time
\* (suggestions.py, _current and respond).
THEOREM ConfirmationsWereShown == TabsSpec => []ConfirmedWasShown
<1>1. SuggestInv => ConfirmedWasShown
  BY DEF SuggestInv, LogInv
<1> QED BY <1>1, SuggestInvariance, PTL

\* What a callback reports is on record, and what it turns down was replaced
\* (template_action.py, the suggestion's loop).
THEOREM RepliesAlwaysTellTheLog == TabsSpec => []RepliesTellTheLog
<1>1. SuggestInv => RepliesTellTheLog
  <2> SUFFICES ASSUME SuggestInv, NEW t \in Tabs, tabs[t].at = "done"
               PROVE  /\ tabs[t].result = "superseded" => Causes(t)
                      /\ tabs[t].result = "confirmed" =>
                           /\ By(All, "responded", t) # {}
                           /\ Newest(By(All, "responded", t)).reason = tabs[t].confirmed
    BY DEF RepliesTellTheLog
  <2>1. Told(t)
    BY DEF SuggestInv, TabInv
  <2>2. Caused(t) => Causes(t)
    BY DEF Caused, Causes, Overtaken
  <2> QED BY <2>1, <2>2 DEF Told, OnRecord
<1> QED BY <1>1, SuggestInvariance, PTL

\* What a report has seen of a tab.
LEMMA SeenRow ==
  ASSUME SuggestInv, NEW cutoff \in Nat, NEW t \in Tabs, By(Upto(cutoff), "generated", t) # {}
  PROVE  LET seen == Upto(cutoff) IN
         /\ By(All, "generated", t) # {} /\ Suggestion(t) = log[Min(By(seen, "generated", t))]
         /\ \E i \in By(seen, "generated", t) : Suggestion(t) = log[i] /\ i \in All
         /\ By(seen, "responded", t) # {} => By(seen, "rendered", t) # {}
         /\ By(seen, "rendered", t) # {} => Suggestion(t).reasons # {}
<1> DEFINE seen == Upto(cutoff)
<1>1. /\ log \in Seq(Event) /\ Dated /\ Once /\ Displayed /\ ConfirmedWasShown
      /\ \A i \in All : log[i].at \in Nat
  BY DEF SuggestInv, LogInv, ReceiptsOK, All, Event
<1>2. /\ seen \subseteq All /\ (\A i \in seen : log[i].at <= cutoff) /\ All \subseteq Nat
      /\ \A i \in All : log[i].at <= cutoff => i \in seen
  BY <1>1 DEF Upto, All
<1> HIDE DEF seen
<1>3. \A k, u : By(seen, k, u) \subseteq By(All, k, u) /\ By(seen, k, u) \subseteq seen
  BY <1>2 DEF By, Of
<1>4. By(seen, "generated", t) # {}
  BY DEF seen
<1>5. /\ Min(By(seen, "generated", t)) \in By(seen, "generated", t)
  BY <1>2, <1>3, <1>4, MinIs
<1>6. /\ By(All, "generated", t) # {}
      /\ \A i \in By(seen, "generated", t) : Suggestion(t) = log[i] /\ i \in All
  BY <1>3, <1>4, OwnSuggestion
<1>7. ASSUME By(seen, "responded", t) # {} PROVE By(seen, "rendered", t) # {}
  <2>1. PICK i \in seen : i \in Of(All, "responded") /\ log[i].tab = t /\ i \in All
    BY <1>7, <1>3, <1>2 DEF By, Of
  <2>2. Of(1..(i - 1), "rendered") # {} /\ Newest(Of(1..(i - 1), "rendered")).tab = t
    BY <2>1, <1>1 DEF ConfirmedWasShown
  <2>3. 1..(i - 1) \subseteq All /\ i \in Nat
    BY <2>1, <1>1 DEF All
  <2>4. PICK j \in 1..(i - 1) : log[j].kind = "rendered" /\ log[j].tab = t
    <3>1. Of(1..(i - 1), "rendered") \subseteq 1..(i - 1)
      BY DEF Of
    <3>2. PICK j \in Of(1..(i - 1), "rendered") : Newest(Of(1..(i - 1), "rendered")) = log[j]
      BY <3>1, <2>2, <2>3, <1>1, NewestIs
    <3> QED BY <3>1, <3>2, <2>2 DEF Of
  <2>5. log[j].at <= log[i].at /\ log[i].at <= cutoff /\ j \in All
    <3>1. j \in All /\ j <= i
      BY <2>3, <2>4
    <3> QED BY <3>1, <2>1, <1>1, <1>2 DEF Dated
  <2>6. j \in seen
    <3>1. log[j].at \in Nat /\ log[i].at \in Nat
      BY <2>1, <2>5, <1>1
    <3> QED BY <3>1, <2>5, <1>2
  <2> QED BY <2>4, <2>6 DEF By, Of
<1>8. ASSUME By(seen, "rendered", t) # {} PROVE Suggestion(t).reasons # {}
  <2>1. PICK i \in Of(All, "rendered") : log[i].tab = t
    BY <1>8, <1>3 DEF By
  <2>2. PICK j \in By(All, "generated", t) : log[j].reasons # {}
    BY <2>1, <1>1 DEF Displayed
  <2> QED BY <2>2, <1>6, OwnSuggestion
<1> QED BY <1>4, <1>5, <1>6, <1>7, <1>8 DEF seen

\* At every cutoff the denominators of the report nest, and what is pending is the
\* newest suggestion, in its time (suggestions.py, report_from_connection).
THEOREM ReportsAlwaysNest == TabsSpec => []ReportNests
<1>1. SuggestInv => ReportNests
  <2> SUFFICES ASSUME SuggestInv, NEW cutoff \in 0..now, NEW rows, rows = Report(cutoff), NEW t \in DOMAIN rows
               PROVE  /\ rows[t].confirmed => rows[t].valid
                      /\ rows[t].valid => rows[t].rendered
                      /\ rows[t].rendered => rows[t].displayable
                      /\ rows[t].status = "pending" => \A u \in DOMAIN rows :
                           Suggestion(u).at <= Suggestion(t).at /\ cutoff < Suggestion(t).expires
    BY DEF ReportNests
  <2> DEFINE seen == Upto(cutoff)
  <2>0. /\ cutoff \in Nat /\ log \in Seq(Event) /\ Dated /\ now \in Nat
        /\ \A i \in All : log[i].at \in Nat
    BY DEF SuggestInv, LogInv, ReceiptsOK, All, Event
  <2>1. /\ \A u \in DOMAIN rows : u \in Tabs /\ By(seen, "generated", u) # {}
        /\ rows[t] = ReportRow(seen, cutoff, t) /\ t \in Tabs
    BY DEF Report
  <2> HIDE DEF seen
  <2>2. /\ seen \subseteq All
    BY DEF Upto, seen
  <2>3. /\ Suggestion(t) = log[Min(By(seen, "generated", t))]
        /\ By(seen, "responded", t) # {} => By(seen, "rendered", t) # {}
        /\ By(seen, "rendered", t) # {} => Suggestion(t).reasons # {}
    BY <2>0, <2>1, SeenRow DEF seen
  <2>4. /\ rows[t].displayable <=> Suggestion(t).reasons # {}
        /\ rows[t].rendered <=> By(seen, "rendered", t) # {}
        /\ rows[t].valid <=> \E i \in By(seen, "responded", t) : log[i].op # "close"
        /\ rows[t].confirmed <=> \E i \in By(seen, "responded", t) : log[i].op \in {"yes", "correct"}
    <3> DEFINE generated == log[Min(By(seen, "generated", t))]
               valid == \E i \in By(seen, "responded", t) : log[i].op # "close"
               rendered == By(seen, "rendered", t) # {}
               confirmed == \E i \in By(seen, "responded", t) : log[i].op \in {"yes", "correct"}
    <3>1. /\ rows[t].displayable = (generated.reasons # {}) /\ rows[t].rendered = rendered
          /\ rows[t].valid = valid /\ rows[t].confirmed = confirmed
      BY <2>1 DEF ReportRow, RowResponses
    <3> QED BY <3>1, <2>3
  <2>5. ASSUME rows[t].status = "pending", NEW u \in DOMAIN rows
        PROVE  Suggestion(u).at <= Suggestion(t).at /\ cutoff < Suggestion(t).expires
    <3>1. Newest(Of(seen, "generated")).tab = t /\ cutoff < Suggestion(t).expires
      BY <2>1, <2>3, <2>5 DEF ReportRow, RowResponses
    <3>2. PICK i \in By(seen, "generated", u) : Suggestion(u) = log[i] /\ i \in All
      BY <2>0, <2>1, SeenRow DEF seen
    <3>3. i \in Of(seen, "generated") /\ Of(seen, "generated") \subseteq All /\ Of(seen, "generated") # {}
      BY <3>2, <2>2 DEF By, Of
    <3>4. PICK j \in Of(seen, "generated") : Newest(Of(seen, "generated")) = log[j] /\ i <= j
      BY <3>3, <2>0, NewestIs
    <3>5. j \in By(All, "generated", t) /\ j \in All
      BY <3>1, <3>3, <3>4, <2>2 DEF By, Of
    <3>6. Suggestion(t) = log[j]
      BY <3>5, <2>1, OwnSuggestion
    <3> QED BY <3>1, <3>2, <3>4, <3>5, <3>6, <2>0 DEF Dated
  <2> QED BY <2>3, <2>4, <2>5
<1> QED BY <1>1, SuggestInvariance, PTL
=============================================================================
