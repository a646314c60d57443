\* Every answer of up to three pieces or two segments, every way to cut it.
SPECIFICATION MapperSpec
CONSTANTS
  Protocols = {"openai", "anthropic", "gemini"}
  Answers <- PieceAnswers
  MaxPieces = 3
  MaxSegments = 2
  MaxTurns = 2
INVARIANTS MapperTypeOK NothingLost SplitInvariant BlocksWellFormed ResultsReachModel
CHECK_DEADLOCK FALSE
