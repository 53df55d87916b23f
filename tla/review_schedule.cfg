\* Every history of up to ten answers: enough for the column to overflow.
SPECIFICATION Spec
CONSTANTS
  Options = {"a", "b", "c"}
  Correct = {"a", "b"}
  Assessments = {0, 1, 2, 3, 4, 5}
  MaxInterval <- MCSmallInt
  MaxAnswers = 10
INVARIANTS
  TypeOK
  BetterNeverSooner
  OneDayApart
PROPERTY PassNeverShortens
CHECK_DEADLOCK FALSE
