SPECIFICATION MCSpec
CONSTANTS
  t1 = t1
  t2 = t2
  anna = anna
  ben = ben
  Users = {anna, ben}
  Tokens = {t1, t2}
  Holder <- MCHolder
  Requests = {q1, q2, q3}
  Lifetime = 2
  DbAhead = 1
  MaxTime = 3
  NoToken = NoToken
  Files = {f1}
  Sizes = {s1, s2}
  UploadTtl = 2
  Undeclared = Undeclared
  NoFile = NoFile
  Clients = {c1, c2}
  FileSizes = {3, 9}
  MinPartSize = 2
  MaxParts = 3
  PageSize = 2
  MaxLosses = 2
  NoObject = NoObject
  Contents = {1, 2}
  Plain = {p1}
  Gets = {g1, g2, g3}
  NoBody = NoBody
INVARIANTS
  LoggedOutIsShutOut
  SizeIsTrueUnlessReplaced
  WholeUnlessPastAPage
  CleanupSettlesWhatItListed
  SameAnswerUnlessRaced
SYMMETRY Alike
CHECK_DEADLOCK FALSE
