\* Two requests that write, fail and dispatch, over two entities with all the
\* rows that hang on them.
CONSTANTS
  None = None
  e1 = e1
  e2 = e2
  d1 = d1
  v1 = v1
  v2 = v2
  r1 = r1
  r2 = r2
  Entity <- TwoEntities
  Def <- OneDef
  Value <- TwoValues
  Kind = {"tag", "attachment"}
  Request <- TwoRequests
  Files <- SideFiles
  MaxLog = 3
  MaxHung = 1
SPECIFICATION Spec
INVARIANTS ChildrenHaveEntities HistoryIsTrue
PROPERTY HistoryIsKept
SYMMETRY Symmetry
CHECK_DEADLOCK FALSE
