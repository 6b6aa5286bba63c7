SPECIFICATION ProgramSpec
CONSTANTS
  Workers = 4
  MaxNonce = 7
  Lengths <- MCLengths
  None = none
  Lines <- MCLines
INVARIANTS TypeOK LeastOfItsClass PaddingIsFips DigestIsFips
PROPERTIES MainEnds
