SPECIFICATION Spec
CONSTANTS
    d1 = d1
    d2 = d2
    pool1 = pool1
    pool2 = pool2
    app1 = app1
    app2 = app2
    Dirs = {d1, d2}
    Program <- MCProgram
    Configs <- MCConfigs
    Offline = offline
    Nothing = nothing
    Torn = torn
    Blank = blank
    Procs = {1, 2}
    MaxCrashes = 1
    MaxRepairs = 2
INVARIANTS
    OneLedgerPerAllowance
    LedgersKeepTheirPlan
    StrandedOnlyByCrash
CHECK_DEADLOCK FALSE
