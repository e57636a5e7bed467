---------------------------- MODULE BudgetPool ----------------------------
(***************************************************************************)
(* The start of a paid batch: `run` of two_stage_batch.py and of           *)
(* two_stage_v3_batch.py from the process lock to the opened ledger.  A     *)
(* batch directory holds one frozen plan and one ledger for each mode; a    *)
(* register outside all of them binds a budget pool and its approval to    *)
(* one directory.  Each is a file of its own, so a process may die between *)
(* any two writes, and operators move files away while nothing runs.       *)
(***************************************************************************)
EXTENDS Naturals, FiniteSets

CONSTANTS
    Dirs,           \* batch directories
    Program,        \* Program[d]: "v2" or "v3", the program that owns d
    Configs,        \* configurations with a live section: [pool, approval, terms]
    Offline,        \* a configuration without one
    Nothing,        \* a file that is not there
    Torn,           \* a plan created but not written
    Blank,          \* a ledger created but without an identity row
    Procs,          \* processes
    MaxCrashes, MaxRepairs

ASSUME ConstantsApart ==
    /\ \A c \in Configs : DOMAIN c = {"pool", "approval", "terms"}
    /\ Offline \notin Configs
    /\ {Nothing, Torn, Blank} \cap (Configs \cup {Offline}) = {}
    /\ Nothing # Torn /\ Nothing # Blank

VARIABLES
    plans,          \* plan.json of each directory
    mocks, lives,   \* mock.sqlite3 and live.sqlite3 of each directory: the pinned plan
    pools,          \* the register two-stage-budget-pools.sqlite3
    procs,          \* what each process is doing
    issued,         \* history: every live ledger ever created, and under which plan
    crashes, repairs

vars == <<plans, mocks, lives, pools, procs, issued, crashes, repairs>>
files == <<plans, mocks, lives, pools, issued>>

Plans == Configs \cup {Offline}
Modes == {"preview", "mock", "live", "report"}
Row(c, d) == [pool |-> c.pool, approval |-> c.approval, dir |-> d, pin |-> c]
Idle == [at |-> "idle"]
Busy(d) == \E p \in Procs : procs[p].at # "idle" /\ procs[p].dir = d
Live(p) == procs[p].mode = "live"

Goto(p, at) == procs' = [procs EXCEPT ![p] = [@ EXCEPT !.at = at]]
Exit(p) == procs' = [procs EXCEPT ![p] = Idle]

Init ==
    /\ plans = [d \in Dirs |-> Nothing]
    /\ mocks = [d \in Dirs |-> Nothing] /\ lives = [d \in Dirs |-> Nothing]
    /\ pools = {} /\ issued = {}
    /\ procs = [p \in Procs |-> Idle]
    /\ crashes = 0 /\ repairs = 0

(* What v2 does first under its locks is to look for its pool; v3 freezes.  *)
FirstStep(d, mode) == IF Program[d] = "v2" /\ mode = "live" THEN "glance" ELSE "freeze"

(* Which modes come as far as the locks: v2's report and v3's preview write  *)
(* nothing here, and the rehearsal of v3 has a directory of its own.        *)
Enters(d, mode) == IF Program[d] = "v2" THEN mode # "report" ELSE mode \in {"live", "report"}

(* configuration, then batch_lock on the directory and, for a live run, on   *)
(* the budget.  Neither waits: who finds a lock taken ends there.           *)
Start(p, d, mode, c) ==
    /\ procs[p].at = "idle" /\ Enters(d, mode)
    /\ mode = "live" => c \in Configs
    /\ ~Busy(d)
    /\ mode = "live" => \A q \in Procs : procs[q].at # "idle" => ~Live(q)
    /\ procs' = [procs EXCEPT ![p] = [at |-> FirstStep(d, mode), dir |-> d, mode |-> mode,
                                      cfg |-> c]]
    /\ UNCHANGED <<files, crashes, repairs>>

(* register_pool: a pool or an approval that is bound is bound to exactly    *)
(* this directory and this plan, and the ledger it was bound for exists.    *)
Bound(c) == {r \in pools : r.pool = c.pool \/ r.approval = c.approval}
PoolAdmitsLost(c, d) == Bound(c) \subseteq {Row(c, d)}
PoolAdmits(c, d) == Bound(c) = {} \/ (Bound(c) = {Row(c, d)} /\ lives[d] # Nothing)

Glance(p) == LET d == procs[p].dir IN
    /\ procs[p].at = "glance"
    /\ IF PoolAdmits(procs[p].cfg, d) THEN Goto(p, "freeze") ELSE Exit(p)
    /\ UNCHANGED <<files, crashes, repairs>>

(* The frozen plan: an existing one must be the one this run would write. *)
AfterFreeze(p) == CASE procs[p].mode = "live" -> "look"
                    [] procs[p].mode = "mock" -> "open"
                    [] OTHER -> "idle"
MayFreezeOverRehearsal(d) == lives[d] = Nothing
MayFreeze(d) == mocks[d] = Nothing /\ lives[d] = Nothing

Keep(p) == LET d == procs[p].dir IN
    /\ procs[p].at = "freeze" /\ plans[d] # Nothing
    /\ IF plans[d] = procs[p].cfg /\ AfterFreeze(p) # "idle"
         THEN Goto(p, AfterFreeze(p)) ELSE Exit(p)
    /\ UNCHANGED <<files, crashes, repairs>>

(* save(new=True): the file is created for this process alone, then written. *)
FreezePlan(p) == LET d == procs[p].dir IN
    /\ procs[p].at = "freeze" /\ plans[d] = Nothing
    /\ IF MayFreeze(d)
         THEN plans' = [plans EXCEPT ![d] = Torn] /\ Goto(p, "write")
         ELSE UNCHANGED plans /\ Exit(p)
    /\ UNCHANGED <<mocks, lives, pools, issued, crashes, repairs>>

Write(p) == LET d == procs[p].dir IN
    /\ procs[p].at = "write"
    /\ plans' = [plans EXCEPT ![d] = procs[p].cfg]
    /\ IF AfterFreeze(p) = "idle" THEN Exit(p) ELSE Goto(p, AfterFreeze(p))
    /\ UNCHANGED <<mocks, lives, pools, issued, crashes, repairs>>

(* register_pool for good: the check, then an INSERT whose keys are unique. *)
Look(p) == LET d == procs[p].dir  c == procs[p].cfg IN
    /\ procs[p].at = "look"
    /\ IF ~PoolAdmits(c, d) THEN Exit(p) ELSE Goto(p, IF Bound(c) = {} THEN "bind" ELSE "open")
    /\ UNCHANGED <<files, crashes, repairs>>

BindBeforeFreeze(p) == LET d == procs[p].dir  c == procs[p].cfg IN
    /\ procs[p].at = "bind" /\ Bound(c) = {}
    /\ pools' = pools \cup {Row(c, d)} /\ Goto(p, "freeze")
    /\ UNCHANGED <<plans, mocks, lives, issued, crashes, repairs>>

Bind(p) == LET d == procs[p].dir  c == procs[p].cfg IN
    /\ procs[p].at = "bind"
    /\ IF Bound(c) = {} THEN pools' = pools \cup {Row(c, d)} /\ Goto(p, "open")
                        ELSE UNCHANGED pools /\ Exit(p)
    /\ UNCHANGED <<plans, mocks, lives, issued, crashes, repairs>>

(* Ledger.__init__: connecting creates the file, the tables commit by        *)
(* themselves, the identity row comes last.                                 *)
LedgerFiles(p) == IF Live(p) THEN lives ELSE mocks
SetFile(p, v) == IF Live(p) THEN lives' = [lives EXCEPT ![procs[p].dir] = v] /\ UNCHANGED mocks
                            ELSE mocks' = [mocks EXCEPT ![procs[p].dir] = v] /\ UNCHANGED lives

Number(d) == Cardinality({x \in issued : x.dir = d}) + 1
Connect(p) == LET d == procs[p].dir IN
    /\ procs[p].at = "open"
    /\ IF LedgerFiles(p)[d] = Nothing
         THEN /\ SetFile(p, Blank)
              /\ issued' = IF Live(p)
                    THEN issued \cup {[cfg |-> procs[p].cfg, dir |-> d, file |-> Number(d)]}
                    ELSE issued
         ELSE UNCHANGED <<mocks, lives, issued>>
    /\ Goto(p, "identify")
    /\ UNCHANGED <<plans, pools, crashes, repairs>>

Identify(p) == LET d == procs[p].dir IN
    /\ procs[p].at = "identify"
    /\ IF LedgerFiles(p)[d] \in {Blank, procs[p].cfg}
         THEN SetFile(p, procs[p].cfg) /\ Goto(p, "running")
         ELSE UNCHANGED <<mocks, lives>> /\ Exit(p)
    /\ UNCHANGED <<plans, pools, issued, crashes, repairs>>

(* The batch itself (BatchProcess) and its export.                          *)
Finish(p) ==
    /\ procs[p].at = "running"
    /\ Exit(p)
    /\ UNCHANGED <<files, crashes, repairs>>

(* The operating system releases the locks of a process that dies.          *)
Crash(p) ==
    /\ procs[p].at # "idle" /\ crashes < MaxCrashes
    /\ Exit(p) /\ crashes' = crashes + 1
    /\ UNCHANGED <<files, repairs>>

(* An operator moves a file of a directory away in which nothing runs.      *)
Remove(d) ==
    /\ ~Busy(d) /\ repairs < MaxRepairs
    /\ \/ plans[d] # Nothing /\ plans' = [plans EXCEPT ![d] = Nothing] /\ UNCHANGED <<mocks, lives>>
       \/ mocks[d] # Nothing /\ mocks' = [mocks EXCEPT ![d] = Nothing] /\ UNCHANGED <<plans, lives>>
       \/ lives[d] # Nothing /\ lives' = [lives EXCEPT ![d] = Nothing] /\ UNCHANGED <<plans, mocks>>
    /\ repairs' = repairs + 1
    /\ UNCHANGED <<pools, issued, procs, crashes>>

Step(p) == \/ Glance(p) \/ Keep(p) \/ FreezePlan(p) \/ Write(p) \/ Look(p) \/ Bind(p)
           \/ Connect(p) \/ Identify(p) \/ Finish(p)
Next ==
    \/ \E p \in Procs : Step(p) \/ Crash(p)
    \/ \E p \in Procs, d \in Dirs, mode \in Modes, c \in Plans : Start(p, d, mode, c)
    \/ \E d \in Dirs : Remove(d)

Spec == Init /\ [][Next]_vars

(* A dedicated pool, and likewise an approval, pays for one ledger in its    *)
(* life: whatever is deleted, renamed, approved again or killed, no second   *)
(* live ledger is ever created under a pool or an approval that had one      *)
(* (register_pool, two_stage_batch.py:611).                                 *)
OneLedgerPerAllowance ==
    \A x, y \in issued : x.cfg.pool = y.cfg.pool \/ x.cfg.approval = y.cfg.approval => x = y

(* A rehearsal and the live run it prepares share one plan: a ledger that    *)
(* names its plan never stands beside another whole plan, so no run spends   *)
(* under terms other than those of the requests already recorded there       *)
(* (run, two_stage_batch.py:1110; v3, two_stage_v3_batch.py:366).            *)
LedgersKeepTheirPlan ==
    \A d \in Dirs : plans[d] \in Plans =>
        /\ mocks[d] \in {Nothing, Blank, plans[d]}
        /\ lives[d] \in {Nothing, Blank, plans[d]}

(* A bound pool without a ledger can never be used again, and no run undoes  *)
(* the binding.  Only a process that dies, or an operator, can bring that    *)
(* about: a run that is refused leaves no pool bound behind it, whatever the *)
(* order of its checks (run: the plan is frozen before the pool is bound).  *)
StrandedOnlyByCrash ==
    crashes = 0 /\ repairs = 0 =>
        \A r \in pools : \/ lives[r.dir] # Nothing
                         \/ \E p \in Procs : /\ procs[p].at # "idle" /\ Live(p)
                                            /\ Row(procs[p].cfg, procs[p].dir) = r
=============================================================================
