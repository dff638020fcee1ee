SPECIFICATION Spec
CONSTANTS
  split = split
  merge = merge
  Scheds = {s1, s2}
  First = s1
  Ops = {split, merge}
  Legal <- MCLegal
  Allowed = {}
  Loops = 2
  MaxDepth = 2
  MaxItems = 3
INVARIANTS
  TypeOK
  SameLogsSameAst
  
  AbortRestores
PROPERTIES
  AppliesToOwn
CHECK_DEADLOCK FALSE
