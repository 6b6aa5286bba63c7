SPECIFICATION EchoSpec
CONSTANTS
  Pieces <- MCPieces
  Lines <- MCLines
INVARIANTS EchoInOrder
PROPERTIES EchoedOrEnded
