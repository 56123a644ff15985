\* The reply of the email service is lost for every recipient.
SPECIFICATION Spec
CONSTANTS
  Newsletters = {n1}
  Requests = {r1, r2}
  Recipients = {a1}
  Projects = {p1}
  Contents = {c1, c2}
  Guesses = {}
  FanoutEnabled = TRUE
  None = None
INVARIANT
  FailedSendMailedNobody
CHECK_DEADLOCK FALSE
