\* Two users, four overlapping requests, retries, a refused item, a crash.
SPECIFICATION FairSpec
CONSTANTS
  u1 = u1
  u2 = u2
  sp1 = sp1
  sp2 = sp2
  q1 = q1
  q2 = q2
  t1 = t1
  a1 = a1
  a2 = a2
  a3 = a3
  b1 = b1
  b2 = b2
  batch = batch
  retry = retry
  single = single
  other = other
  Submissions = {a1, a2, a3, b1, b2}
  Users = {u1, u2}
  Specializations = {sp1}
  Questions = {q1, q2}
  Topics = {t1}
  userOf <- MCUserOf
  specOf <- MCOneSpec
  questionOf <- MCQuestionOf
  topicOf <- MCTopicOf
  Invalid = {a3}
  Requests = {batch, retry, single, other}
  items <- MCItems
  Batches = {batch, other}
  MaxCrashes = 1
INVARIANTS
  TypeOK
  AtMostOnce
  SerialExactness
  AcknowledgedIsStored
PROPERTY RequestsEnd
CHECK_DEADLOCK FALSE
