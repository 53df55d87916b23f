\* Two specializations with shared questions, online and late answers.
SPECIFICATION Spec
CONSTANTS
  s1 = s1
  s2 = s2
  None = None
  Bank <- MCBank
  Weights <- MCWeights
  Aims = {3, 5}
  Qualities = {1, 5}
  Moves <- MCMoves
  Intervals = {1, 6}
  Deadlines = {0, 3, 4}
  CandidateLimit = 1
  MinAnswers = 2
  MaxBackdating = 1
  TopicsPerDay = 1
  MaxPlanDays = 3
  Capacity = 2
  LastDay = 2
  MaxAnswers = 2
INVARIANTS
  EndpointsAgree
  TodayWithinNorm
  AnsweredRests
CHECK_DEADLOCK FALSE
