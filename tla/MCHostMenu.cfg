\* Two callbacks over two actions of one target.  No symmetry, because of the liveness
\* property.
SPECIFICATION MenuSpec
CONSTANTS
  Reasons = {r1}
  None = None
  EventIds = {e1, e2}
  Targets = {t1}
  ClientKeys = {k1, k2}
  Displays = {d1, d2}
  Signals = {}
  Choices <- MCChoices
  Sessions = {s1, s2}
INVARIANTS
  NewestMenuIsAccepted
  OneActivePerTarget
PROPERTIES
  CallbacksEnd
  RepliesSettle
CHECK_DEADLOCK FALSE
