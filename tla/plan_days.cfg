\* Two specializations, plans of every kind, reviews that fall due, the clocks
\* back on the first day and forward on the seventh.
SPECIFICATION Spec
CONSTANTS
  s1 = s1
  s2 = s2
  q1 = q1
  q2 = q2
  Specializations = {s1, s2}
  Questions = {q1, q2}
  specOf <- MCSpecOf
  Deadlines = {0, 1, 2, 7, 32}
  TopicCounts = {2, 9}
  Intervals = {1}
  Capacity = 1
  MaxPlanDays = 30
  Short = {6}
  Long = {0}
  LastDay = 1
  MaxPlans = 2
  MaxAnswers = 2
INVARIANTS
  TypeOK
  OneActivePlan
  PlannedToTheEve
  FairShares
  CoverageWhenRoom
PROPERTY ProgressNeverFalls
