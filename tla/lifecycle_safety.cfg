\* Three requests race on one newsletter; clients are honest, but may send
\* If-Match 0.
SPECIFICATION Spec
CONSTANTS
  Newsletters = {n1}
  Requests = {r1, r2, r3}
  Recipients = {a1}
  Projects = {p1, p2}
  Contents = {c1, c2}
  Guesses = {0}
  FanoutEnabled = TRUE
  None = None
SYMMETRY Symmetry
INVARIANTS
  SentMatchesMail
  OneWriterPerVersion
  OneSendCommits
  WritesStayInProject
  RefusalsAreTrue
PROPERTIES
  KeepsContract
CHECK_DEADLOCK FALSE
