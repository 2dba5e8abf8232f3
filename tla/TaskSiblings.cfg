CONSTANTS
  t1 = t1 t2 = t2 e1 = e1 o1 = o1 o2 = o2 x1 = x1 x2 = x2
  None = None
  Task <- TwoTasks
  Entity <- OneEntity
  EntityOf <- OneEntityOf
  Owner <- Owners
  Tx <- OneTx
  MaxArms = 1
  MaxClaims = 2
  MaxDisturbances = 2
SYMMETRY SiblingSymmetry
SPECIFICATION Spec
INVARIANTS OneRunningPerEntity
CHECK_DEADLOCK FALSE
