--------------------------- MODULE MCBudgetPool ---------------------------
(* Two directories, one of each program; three configurations over two      *)
(* pools and two approvals, one of them the first under other terms.        *)
EXTENDS BudgetPool

CONSTANTS d1, d2, pool1, pool2, app1, app2

MCProgram == [d \in Dirs |-> IF d = d1 THEN "v2" ELSE "v3"]
Config(pool, approval, terms) == [pool |-> pool, approval |-> approval, terms |-> terms]
MCConfigs == {Config(pool1, app1, 1), Config(pool1, app1, 2), Config(pool1, app2, 1),
              Config(pool2, app1, 1)}
=============================================================================
