CONSTANTS
  Keys <- MCKeys
  Ids <- MCIds
  MaxRows = 3
  Limits <- MCLimits
SPECIFICATION SpecMerges
INVARIANTS InOrder ErrorAfterFetched BoundedOrFail BoundedFetch
PROPERTIES StreamsTheView
