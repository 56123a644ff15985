\* Four recipients on two slots, any request may time out; every wiring of the
\* orchestrator: with a dispatcher, without one, and with fan-out disabled.
SPECIFICATION FairSpec
CONSTANTS
  MaxRecipients = 4
  Concurrency = 2
  Modes = {"dispatch", "no_dispatcher", "disabled"}
INVARIANTS
  InFlightIsBounded
  ResultsAddUp
  NothingRunsAfterReturn
PROPERTIES
  ImplementsDelivery
  FanOutReturns
CHECK_DEADLOCK FALSE
