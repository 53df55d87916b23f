\* A statement fails, the person answers again.
SPECIFICATION Spec
CONSTANTS
  feed = feed
  card = card
  q1 = q1
  q2 = q2
  t1 = t1
  None = None
  Controllers = {feed}
  Feed = feed
  Questions = {q1, q2}
  Topics = {t1}
  topicOf <- MCOneTopic
  fixedQuestion <- MCNoCards
  StaleFrames = FALSE
  MaxAttempts = 2
  MaxTaps = 2
  MaxFailures = 1
  MaxCrashes = 0
  MaxWipes = 0
INVARIANT AttemptCountedOnce
CHECK_DEADLOCK FALSE
