SPECIFICATION ServiceFairSpec
CONSTANTS
  Lines <- MCLines
  Lengths <- MCLengths
  Cuts <- MCCuts
  Names <- MCNames
  Contains <- MCContains
  Codes <- MCCodes
INVARIANTS
  VettedAsExecuted
  FramingIsRight
  SuccessIsGenuine
PROPERTIES
  RequestEndsOrHangs
\* A request is over when it is responded to.
CHECK_DEADLOCK FALSE
