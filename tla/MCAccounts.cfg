CONSTANTS
  None = None
  Unusable = Unusable
  a = a
  b = b
  i1 = i1
  i2 = i2
  p1 = p1
  p2 = p2
  p3 = p3
  r1 = r1
  r2 = r2
  User <- TwoUsers
  Id <- TwoIds
  Password <- TwoPasswords
  Request <- TwoRequests
  AdminName = a
  Proxied <- OnlyB
  Failing <- OnlyB
  Enrolling <- OnlyB
  Threshold = 2
  MaxStep = 2
  Codes = 1
SPECIFICATION Spec
INVARIANTS AdminRemains RowsAreCurrent LockHolds
PROPERTY CodesCountOnce
CONSTRAINT FewAtOnce
SYMMETRY Symmetry
CHECK_DEADLOCK FALSE
