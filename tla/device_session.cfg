\* Two controllers, taps on the current frame, failures and a crash.
SPECIFICATION FairSpec
CONSTANTS
  feed = feed
  card = card
  q1 = q1
  q2 = q2
  t1 = t1
  None = None
  Controllers <- MCBoth
  Feed = feed
  Questions = {q1, q2}
  Topics = {t1}
  topicOf <- MCOneTopic
  fixedQuestion <- MCCardShowsFirst
  StaleFrames = FALSE
  MaxAttempts = 3
  MaxTaps = 3
  MaxFailures = 1
  MaxCrashes = 1
  MaxWipes = 0
INVARIANT ShownResultIsStored
INVARIANT RecountedOnlyAfterFailure
PROPERTY CallsSettle
CHECK_DEADLOCK FALSE
