\* Two segments of an exploration with two faults; one replayed sample, three slots.
SPECIFICATION RunsSpec
CONSTANTS
  Slots = {1, 2, 3}
  InputOf <- MCInputs
  Withheld <- MCWithheld
  MaxEdits = 1
  MaxFaults = 2
  None = none
  Torn = torn
  POOL = {"g", "c"}
  LEGACY = {"l", "m"}
  Sentinel = "other"
  TaskTypes <- MCTaskTypes
  Required <- MCRequired
  TASK_TYPES = {"general", "code_rewrite", "mixed"}
  Inputs <- MCReplayInputs
  Schedules <- MCSchedules
  SealedLabels <- MCSealedLabels
  Approved = 1
  Sealed = 1
  Confirmed = 1
  Declared = 2
  Expires = 3
  LastInstant = 3
  Nothing = Nothing
INVARIANTS
  AnswersAccepted
  LossesAddUp
  OneExchangePerSlot
  CompletedIsComplete
PROPERTIES
  MadeInForce
  SegmentEnds
CHECK_DEADLOCK FALSE
