SPECIFICATION Spec
CONSTANTS
  Tx = {t1, t2}
  Entity = {e1, e2}
  Outside = outside
  MaxOutside <- MCMaxOutside
  MaxSavepoints = 1
SYMMETRY TxAndEntitySymmetry
INVARIANTS SerialInCommitOrder NoLostUpdate OneAnswer
PROPERTY LostStaysLost
CHECK_DEADLOCK FALSE
