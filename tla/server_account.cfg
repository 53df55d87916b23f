\* Three requests of any kinds to one account, one process death or Redis failure.
SPECIFICATION FairSpec
CONSTANTS
  r1 = r1
  r2 = r2
  r3 = r3
  u1 = u1
  s1 = s1
  s2 = s2
  t1 = t1
  t2 = t2
  mail = mail
  other = other
  None = None
  Requests = {r1, r2, r3}
  Calls = {r1, r2, r3}
  Keys <- MCKeys
  attempts <- MCAttempts
  Window = 2
  MaxCuts = 1
  Accounts = {u1}
  Specs = {s1, s2}
  Titles = {t1, t2}
  Tasks <- MCTasks
  Workloads <- MCWorkloads
  Beginnings <- MCBeginnings
  keysOf <- MCKeysOf
  emailOf <- MCEmailOf
  Premium = {u1}
  DailyLimit = 1
  MaxCrashes = 1
INVARIANTS
  TypeOK
  OnlyOne
  Integrity
  LimitHolds
PROPERTIES
  WindowNeverProlonged
  RequestsEnd
CHECK_DEADLOCK FALSE
