\* Edits of prompt and text against one pipe.  No symmetry, because of the liveness
\* property.
SPECIFICATION Spec
CONSTANTS
  None = None
  c1 = c1  m1 = m1  m2 = m2  q = q  r = r  s = s  t = t
  Attempts = {a1, a2}
  Chats = {c1}
  Messages = {m1, m2}
  ChatOf <- MCChatOf
  Prior <- MCPrior
  Drafts <- MCDrafts
  Prompts = {q, r}
  Texts = {s, t}
  Reservation = 2
  Budget = 4
  Costs = {}
  Pipes = {p1}
  Tracking = {TRUE}
INVARIANTS
  OnlyGenuineText
PROPERTIES
  FeedbackInForce
  InFlightSettles
CHECK_DEADLOCK FALSE
