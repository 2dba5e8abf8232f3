SPECIFICATION Spec
CONSTANTS
  MinScale <- MCMinScale
  Log10Of2Lo = 1233
  Log10Of2Hi = 1234
  Log10Shift = 12
  IntegerMax = 7
  LongMax = 127
  Int128Max = 2047
  DoublePrecision = 2
  DoubleScale = 3
  BigScale = 1
  BigDigits = 3
  BigExp = 2
  DoubleBits = 8
  DoubleLeast = 16
  DoubleTop = 14
  MaxCoeffDigits = 3
  MaxNumExp = 2
  Collections <- MCTextAmongNumbers
  MaxStored = 3
INVARIANT ComparesStrictly
CHECK_DEADLOCK FALSE
