SPECIFICATION FairSpec
CONSTANTS
  Node = {n1, n2}
  Hits = 2
  Instant = {t1, t2}
  MaxStale = 1
  MaxDisturbances = 3
INVARIANTS ResultsWhole OnlyLossesCount
PROPERTIES TerminalIsFinal Finishes
CHECK_DEADLOCK FALSE
