SPECIFICATION Spec
CONSTANTS
  s1 = s1
  r1 = r1
  r2 = r2
  right = right
  NoSession = NoSession
  NoAnswer = NoAnswer
  NoScore = NoScore
  Idle = Idle
  Sessions = {s1}
  Requests = {r1, r2}
  N = 2
  Choices = {right}
  Right = right
  AnswerKey <- MCAnswerKey
  RowSets <- AllRows
  KeepsNone = TRUE
  MaxFaults = 1
INVARIANTS
  TypeOK
  CountersMatch
  PointerInRange
  OutcomeRecorded
PROPERTY SubmitFinishes
