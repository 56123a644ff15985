CONSTANTS
  Hashes = {h1}
  h1 = h1
  Paths = {p1}
  Home = p1
  p1 = p1
  Hits = {q1, q2}
  q1 = q1
  q2 = q2
  Hours = 2
  Shapes = {"index"}
SPECIFICATION OpensSpec
PROPERTIES InsertsSucceed
CHECK_DEADLOCK FALSE
