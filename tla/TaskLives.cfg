CONSTANTS
  t1 = t1 t2 = t2 e1 = e1 o1 = o1 o2 = o2 x1 = x1 x2 = x2
  None = None
  Task <- OneTask
  Entity <- OneEntity
  EntityOf <- OneTaskOf
  Owner <- Owners
  Tx <- Txs
  MaxArms = 2
  MaxClaims = 3
  MaxDisturbances = 2
SPECIFICATION FairSpec
INVARIANTS UnsafeWorkOnce CountedOnce
PROPERTIES ClaimsEnd FirstCommitterWins HeldUntilTheEnd
CHECK_DEADLOCK FALSE
