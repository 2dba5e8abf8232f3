SPECIFICATION SpecFields
CONSTANTS
  parent = parent child = child
  Node <- TwoNodes
  Below <- ChildBelow
  Reader = {r1, r2, r3}
  None = none
  MaxRevision = 2
  MinScale <- MCMinScale
  Log10Of2Lo = 1233
  Log10Of2Hi = 1234
  Log10Shift = 12
  IntegerMax = 7
  LongMax = 127
  Int128Max = 2047
  DoublePrecision = 2
  DoubleScale = 3
  BigScale = 1
  BigDigits = 3
  BigExp = 2
  Pools <- MCPools
  MaxStored = 2
SYMMETRY ReaderSymmetry
INVARIANTS OneFlattening OwnBranchesAreCurrent StoredStaysAdmitted NumbersCompareExactly TimesCompareChronologically LikeIsGlob
CHECK_DEADLOCK FALSE
