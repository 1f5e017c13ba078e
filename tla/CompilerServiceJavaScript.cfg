SPECIFICATION ServiceSpec
CONSTANTS
  Lines <- MCLines
  Lengths <- MCLengths
  Cuts <- MCCuts
  Names <- MCNames
  Contains <- MCContains
  Codes <- MCCodes
INVARIANTS
  ExecutedAsNamed
CHECK_DEADLOCK FALSE
