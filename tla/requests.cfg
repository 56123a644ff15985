CONSTANTS
  AuthSettings = {TRUE, FALSE}
  MaxVersion = 2
  Readers = {r1, r2}
  r1 = r1
  r2 = r2
SPECIFICATION Spec
INVARIANTS TypeOK StatusIsTrue SenderIsKnown OwnOptOut OneStyle LinksSurvive
CHECK_DEADLOCK FALSE
