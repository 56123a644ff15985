CONSTANTS
  Hashes = {h1, h2}
  h1 = h1
  h2 = h2
  Paths = {p1, p2}
  Home = p1
  p1 = p1
  p2 = p2
  Hits = {q1, q2, q3}
  q1 = q1
  q2 = q2
  q3 = q3
  Hours = 2
  Shapes = {"constraint", "index"}
  Ids = {1, 2, 3}
  Moments = 3
  Statuses = {"", "draft", "sent", "other"}
  Limits = {0, 1, 3}
  DefaultLimit = 1
  MaxLimit = 2
SPECIFICATION Spec
INVARIANTS TypeOK EveryRowOnce
PROPERTIES PagesRunOut
CHECK_DEADLOCK FALSE
