SPECIFICATION MCSpec

CONSTANTS
  d1 = d1
  d2 = d2
  x1 = x1
  x2 = x2
  g1 = g1
  Papers = {d1, d2}
  Elsewhere = {d2}
  Leaves = {x1, x2}
  Hashes = {g1}
  PaperOf <- MCPaperOf
  HashOf <- MCHashOf
  Name = Name
  Rebuilt = Rebuilt
  NoPlace = NoPlace
  MaxRestarts = 1

INVARIANT OriginalThere
INVARIANT RowsHaveContent
INVARIANT DropLeavesNothing
PROPERTY OrphansReclaimed
CHECK_DEADLOCK FALSE
