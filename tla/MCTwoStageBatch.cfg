\* Three targets; a request can cost more than was held for it.  No symmetry,
\* because of the liveness property.
SPECIFICATION Spec
CONSTANTS
  None = None
  Targets = {a, b, c}
  StageNames <- MCStages
  Reserve = 2
  Limit = 8
  Costs = {1, 4}
INVARIANTS
  SentOnceOnRecord
  OvershootIsOneRequest
  OutcomeTellsRequests
PROPERTIES
  OutcomesStand
  BatchSettles
CHECK_DEADLOCK FALSE
