\* A delete that read a draft removes a row that has been sent since.
SPECIFICATION Spec
CONSTANTS
  Newsletters = {n1}
  Requests = {r1, r2}
  Recipients = {a1}
  Projects = {p1}
  Contents = {c1, c2}
  Guesses = {}
  FanoutEnabled = TRUE
  None = None
PROPERTY
  KeepsDocumentedContract
CHECK_DEADLOCK FALSE
