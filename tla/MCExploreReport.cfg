\* The report of a run that was stopped once and died once.
SPECIFICATION Spec
CONSTANTS
  Slots = {1, 2, 3}
  InputOf <- MCInputs
  Withheld <- MCWithheld
  MaxEdits = 0
  MaxFaults = 1
  None = none
  Torn = torn
INVARIANTS
  NotStartedIsUnstarted
CHECK_DEADLOCK FALSE
