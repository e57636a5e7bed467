\* Two workers, two actions, one of them withdrawn or joined meanwhile.  No symmetry,
\* because of the liveness property.
SPECIFICATION WorkerSpec
CONSTANTS
  Reasons = {r1}
  None = None
  EventIds = {e1, e2}
  Targets = {t1}
  ClientKeys = {k1, k2, k3}
  Displays = {}
  Signals <- MCRaising
  Workers = {w1, w2}
INVARIANTS
  GateDecidesOnce
PROPERTIES
  EveryActionSettles
CHECK_DEADLOCK FALSE
