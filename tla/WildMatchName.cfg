SPECIFICATION MatchSpec
CONSTANTS
  NUL = NUL
  Star = "*"
  Question = "?"
  MaxTarget = 3
  MaxPattern = 2
  Letters <- MCLetters
  Lower <- MCLower
  Slash <- MCSlash
INVARIANTS
  NamedFileMatches
CHECK_DEADLOCK FALSE
