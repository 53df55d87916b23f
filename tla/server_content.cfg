\* Eight directories, requests while containers start.
SPECIFICATION FairSpec
CONSTANTS
  s1 = s1
  s2 = s2
  p1 = p1
  p2 = p2
  t1 = t1
  t2 = t2
  u1 = u1
  u2 = u2
  q1 = q1
  q2 = q2
  q3 = q3
  None = None
  Contents <- MCContents
  Released <- MCReleased
  PhoneSpec = s1
  Overlap = TRUE
  MaxDeploys = 1
  MaxActs = 2
  MaxReads = 2
INVARIANTS
  ServingIsContent
  PackageMissesNothing
PROPERTY SeedSparesUsers
PROPERTY EventuallyServes
CHECK_DEADLOCK FALSE
