\* A host is deleted between the review of a Docker scan and its import, a
\* definition between the parsing of a form and its save.
CONSTANTS
  None = None
  e1 = e1
  e2 = e2
  d1 = d1
  v1 = v1
  v2 = v2
  r1 = r1
  r2 = r2
  Entity <- TwoEntities
  Def <- OneDef
  Value <- TwoValues
  Kind = {"tag"}
  Request <- OneRequest
  Files <- NoFiles
  MaxLog = 3
  MaxHung = 1
SPECIFICATION Spec
INVARIANT NothingDangles
CHECK_DEADLOCK FALSE
