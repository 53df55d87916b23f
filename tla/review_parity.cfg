\* An open question that is never answered well, on the device and on the server.
SPECIFICATION Spec
CONSTANTS
  Options = {}
  Correct = {}
  Assessments = {0, 1, 2, 3}
  MaxInterval <- MCSmallInt
  MaxAnswers = 10
INVARIANT IntervalsAgree
CHECK_DEADLOCK FALSE
