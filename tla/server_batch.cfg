\* A batch whose last item was stored by another request meanwhile.
SPECIFICATION Spec
CONSTANTS
  u1 = u1
  u2 = u2
  sp1 = sp1
  sp2 = sp2
  q1 = q1
  q2 = q2
  t1 = t1
  a1 = a1
  a2 = a2
  a3 = a3
  b1 = b1
  b2 = b2
  batch = batch
  retry = retry
  single = single
  other = other
  Submissions = {a1, a2, a3}
  Users = {u1}
  Specializations = {sp1, sp2}
  Questions = {q1, q2}
  Topics = {t1}
  userOf <- MCUserOf
  specOf <- MCTwoSpecs
  questionOf <- MCTwoQuestions
  topicOf <- MCTopicOf
  Invalid = {}
  Requests = {batch, single, other}
  items <- MCPair
  Batches = {batch}
  MaxCrashes = 0
INVARIANT AcceptedIsStored
CHECK_DEADLOCK FALSE
