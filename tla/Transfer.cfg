SPECIFICATION Spec
CONSTANTS
  NoName = ""
  Names <- MCNames
  AnswerNames = {"x", "y"}
  MaxChunks = 2
  MaxFiles = 2
INVARIANTS
  RequestArrivesAsMeant
  AnswerIsWhole
