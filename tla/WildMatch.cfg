SPECIFICATION MatchSpec
CONSTANTS
  NUL = NUL
  Star = "*"
  Question = "?"
  MaxTarget = 4
  MaxPattern = 3
  Letters <- MCLetters
  Lower <- MCLower
  Slash <- MCSlash
INVARIANTS
  InBounds
  MatchMeans
CHECK_DEADLOCK FALSE
