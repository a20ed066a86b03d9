SPECIFICATION ResultsSpec
CONSTANTS
  s1 = s1
  s2 = s2
  r1 = r1
  right = right
  NoSession = NoSession
  NoAnswer = NoAnswer
  NoScore = NoScore
  Idle = Idle
  odd = odd
  even = even
  Sessions = {s1, s2}
  Requests = {r1}
  N = 2
  Choices = {right}
  Right = right
  Odd = odd
  Even = even
  AnswerKey <- MCAnswerKey
  Category <- MCCategory
  Groups <- MCGroups
  RowSets <- SomeRows
  KeepsNone = FALSE
  MaxFaults = 1
  MaxFound = 2
INVARIANTS
  BoardComplete
  BoardWasFinished
  GroupsAddUp
SYMMETRY Symmetry
