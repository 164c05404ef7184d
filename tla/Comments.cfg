\* Two old reviews and a new one sent twice, two moderators, one product page.
CONSTANTS
  s1 = s1  s2 = s2  s3 = s3  s4 = s4
  k1 = k1  k2 = k2  k3 = k3
  t1 = t1  t2 = t2
  l1 = l1
  Submission = {s1, s2, s3, s4}
  Old = {s1, s2}
  OldInstant <- Instants
  Key = {k1, k2, k3}
  Text = {t1, t2}
  Line = {l1}
  KeyOf <- Keys
  TextOf <- Texts
  LineOf <- Lines
  RatingOf <- Ratings
  IdRank <- Ids
  m1 = m1  m2 = m2
  Moderator = {m1, m2}
  Precision = 2
  PageSize = 1
  MaxDecisions = 3
  MaxAsks = 3
  NoLine = NoLine
  NoReview = NoReview
  NoCursor = NoCursor
  Idle = Idle
SPECIFICATION Spec
SYMMETRY Operators
CHECK_DEADLOCK FALSE
INVARIANTS
  TypeOK
  AuditTellsTheStory
  PagesAreExact
