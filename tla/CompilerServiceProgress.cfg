SPECIFICATION ServiceFairSpec
CONSTANTS
  Lines <- MCLines
  Lengths <- MCLengths
  Cuts <- MCCuts
  Names <- MCNames
  Contains <- MCContains
  Codes <- MCCodes
INVARIANTS
  RequestMoves
PROPERTIES
  RequestEndsOrHangs
\* A request is over when it is responded to.
CHECK_DEADLOCK FALSE
