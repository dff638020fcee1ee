SPECIFICATION FairSpec
CONSTANTS
  split = split
  merge = merge
  Scheds = {s1, s2, s3}
  First = s1
  Ops = {merge}
  Legal <- MCLegal
  Allowed = {"permute", "stale"}
  Loops = 1
  MaxDepth = 1
  MaxItems = 2
INVARIANTS
  OwnerWaits
PROPERTIES
  CallsEnd
CHECK_DEADLOCK FALSE
