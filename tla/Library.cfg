SPECIFICATION Spec
CONSTANTS
  Keys <- MCKeys
  Values = {1}
  MaxABits = 3
  MaxInt = 7
  MaxItems = 2
  Rooms = {0, 1, 3}
  Questions <- MCQuestions
  Answer <- MCAnswer
  Right <- MCRight
  MaxDepth = 6
  NB = 2
  SzInt = 2
  Sizes = 8
  W = 5
  NBits = 4
INVARIANTS KeepsItsMap TraversalIsComplete LengthIsBorder MatchesFirstWay AnswersAreRight
CHECK_DEADLOCK FALSE
