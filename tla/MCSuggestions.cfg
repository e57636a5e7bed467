SPECIFICATION TabsSpec
CONSTANTS
    Tabs = {t1, t2}
    Reasons = {r1, r2}
    UserOps = {"yes", "close", "manual", "correct", "done"}
    TTL = 2
    MaxNow = 2
    MaxLog = 5
    None = none
SYMMETRY TabsAndReasons
INVARIANTS
    ConfirmedWasShown
    RepliesTellTheLog
    ReportNests
CHECK_DEADLOCK FALSE
