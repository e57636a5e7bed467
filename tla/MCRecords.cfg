\* One action's log of up to five events; two workspaces, two desks, one crash.
SPECIFICATION RecordsSpec
CONSTANTS
  Reasons = {r1, r2}
  None = None
  LogSignals <- MCSignals
  MaxLog = 5
  wa = wa  wb = wb  u1 = u1  u2 = u2
  Workspaces = {wa, wb}
  Units = {u1, u2}
  Reviewers = {ra, rb}
  Verdicts = {yes, no}
  Desks = {p1, p2}
  Samples <- MCSamples
  MaxReviews = 3
  MaxDeaths = 1
  Absent = absent
  Broken = broken
SYMMETRY MCSymmetry
INVARIANTS
  ProjectMatchesReference
  StudiedOnce
  LabelsFollowFreeze
CHECK_DEADLOCK FALSE
