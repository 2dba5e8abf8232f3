CONSTANTS
  Keys <- MCKeys
  Ids <- MCIds
  MaxRows = 2
SPECIFICATION Spec
INVARIANT OneYieldPerId
