SPECIFICATION MCSpec
CONSTANTS
  t1 = t1
  t2 = t2
  anna = anna
  ben = ben
  Users = {anna, ben}
  Tokens = {t1, t2}
  Holder <- MCHolder
  Requests = {q1}
  Lifetime = 2
  DbAhead = 1
  MaxTime = 3
  NoToken = NoToken
  Files = {f1}
  Sizes = {s1, s2}
  UploadTtl = 2
  Undeclared = Undeclared
  NoFile = NoFile
  Clients = {c1}
  FileSizes = {9}
  MinPartSize = 2
  MaxParts = 3
  PageSize = 2
  MaxLosses = 0
  NoObject = NoObject
  Contents = {1, 2}
  Plain = {p1}
  Gets = {g1}
  NoBody = NoBody
INVARIANT CompletedObjectIsWhole
SYMMETRY Alike
CHECK_DEADLOCK FALSE
