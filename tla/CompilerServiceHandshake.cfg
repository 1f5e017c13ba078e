SPECIFICATION ServiceFairSpec
CONSTANTS
  Lines <- MCLines
  Lengths <- MCLengths
  Cuts <- MCCuts
  Names <- MCNames
  Contains <- MCContains
  Codes <- MCCodes
PROPERTIES
  HandshakeEnds
CHECK_DEADLOCK FALSE
