\* The feed alone, nothing fails: the four statements are one step.
SPECIFICATION Spec
CONSTANTS
  feed = feed
  card = card
  q1 = q1
  q2 = q2
  t1 = t1
  None = None
  Controllers = {feed}
  Feed = feed
  Questions = {q1, q2}
  Topics = {t1}
  topicOf <- MCOneTopic
  fixedQuestion <- MCNoCards
  StaleFrames = FALSE
  MaxAttempts = 4
  MaxTaps = 4
  MaxFailures = 0
  MaxCrashes = 0
  MaxWipes = 0
PROPERTY LedgerSpec
CHECK_DEADLOCK FALSE
