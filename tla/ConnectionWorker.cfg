SPECIFICATION Spec
CONSTANTS
  MaxRequests = 3
  MaxLate = 1
  Nothing = Nothing
INVARIANTS
  TypeOK
  RequestInOnePlace
  AnswersMatch
  AnswerHandedOnce
PROPERTIES
  NothingHangs
CHECK_DEADLOCK FALSE
