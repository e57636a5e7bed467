\* Two actions on one answer version under three keys with one display, or one of them with two.
SPECIFICATION MCSpec
CONSTANTS
  Reasons = {r1}
  None = None
  EventIds = {e1, e2}
  Targets = {t1}
  ClientKeys = {k1, k2, k3}
  Displays = {d1, d2}
  Signals <- MCSignals
SYMMETRY MCSymmetry
INVARIANT OutboxMirrorsActions
PROPERTIES
  RowsKeepTheirRequest
  ImplementsContract
CHECK_DEADLOCK FALSE
