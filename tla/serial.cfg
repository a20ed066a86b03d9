SPECIFICATION SerialSpec
CONSTANTS
  s1 = s1
  r1 = r1
  r2 = r2
  right = right
  wrong = wrong
  NoSession = NoSession
  NoAnswer = NoAnswer
  NoScore = NoScore
  Idle = Idle
  Sessions = {s1}
  Requests = {r1, r2}
  N = 3
  Choices = {right, wrong}
  Right = right
  AnswerKey <- MCAnswerKey
  RowSets <- AnyRows
  KeepsNone = FALSE
  MaxFaults = 1
PROPERTIES
  AnswersKept
  NoReopen
  AnswersFrozen
  ImplementsAtomic
