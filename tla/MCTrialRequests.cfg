\* Two requests at a time; an edit deletes a message or puts it back as it was.
SPECIFICATION Spec
CONSTANTS
  None = None
  c1 = c1  m1 = m1  m2 = m2  q = q  r = q  s = s  t = s
  Attempts = {a1, a2}
  Chats = {c1}
  Messages = {m1}
  ChatOf <- MCChatOf
  Prior <- MCPrior
  Drafts <- MCRestore
  Prompts = {q}
  Texts = {s}
  Reservation = 2
  Budget = 3
  Costs = {1}
  Pipes = {p1, p2}
  Tracking = {TRUE, FALSE}
INVARIANTS
  LedgerTellsReceipts
PROPERTIES
  ImplementsTrialContract
SYMMETRY MCSymmetry
CHECK_DEADLOCK FALSE
