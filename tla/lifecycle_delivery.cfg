\* Two requests and two recipients, with the fairness of FairSpec: each send is a
\* Delivery, and every request ends.
SPECIFICATION FairSpec
CONSTANTS
  Newsletters = {n1}
  Requests = {r1, r2}
  Recipients = {a1, a2}
  Projects = {p1}
  Contents = {c1, c2}
  Guesses = {0}
  FanoutEnabled = TRUE
  None = None
PROPERTIES
  SendsDeliver
  EveryRequestEnds
CHECK_DEADLOCK FALSE
