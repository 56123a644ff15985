\* Two committees, one address, two projects; the fairness of FairSpec.
SPECIFICATION FairSpec
CONSTANTS
  Committees = {c1, c2}
  Addresses = {a}
  Projects = {p1, p2}
  Wirings = {TRUE, FALSE}
INVARIANTS
  NobodyForgotten
  NobodyUnasked
  CauseIsReported
  NothingAskedAfterWait
PROPERTY
  ResolutionEnds
CHECK_DEADLOCK FALSE
