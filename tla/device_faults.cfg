\* Two controllers, every fault, taps on stale frames.
SPECIFICATION Spec
CONSTANTS
  feed = feed
  card = card
  q1 = q1
  q2 = q2
  t1 = t1
  None = None
  Controllers <- MCBoth
  Feed = feed
  Questions = {q1, q2}
  Topics = {t1}
  topicOf <- MCOneTopic
  fixedQuestion <- MCCardShowsFirst
  StaleFrames = TRUE
  MaxAttempts = 2
  MaxTaps = 2
  MaxFailures = 1
  MaxCrashes = 1
  MaxWipes = 1
INVARIANTS
  TypeOK
  OneSubmission
  AttemptHasOneQuestion
  EstimatesBackedByLog
  SessionWithinProfile
CHECK_DEADLOCK FALSE
