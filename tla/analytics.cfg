CONSTANTS
  Recipients = {r1, r2}
  r1 = r1
  r2 = r2
  Projects = {p1, p2}
  Home = p1
  p1 = p1
  p2 = p2
  Days = 2
  MaxEvents = 2
  Wires = {"list", "flat", "last"}
SPECIFICATION Spec
INVARIANTS TypeOK FiguresWereTrue OpenersAreCharted HalfAnswersAddUp RateIsARate
CHECK_DEADLOCK FALSE
