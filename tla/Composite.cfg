CONSTANTS
  Programs <- MCPrograms
  Gaps = {}
  Computes <- Meaning
  Swap <- SwapOf
  Fission <- FissionOf
  Fuse <- FuseOf
  Reorder <- ReorderOf
  Merge <- MergeOf
  Parallelize <- ParallelizeOf
  Statements <- StatementIDs
  AllLoops <- LoopIDs
  Exists <- Has
  IsLoop <- IsFor
  IsParallel <- InParallel
  Suffix <- NewSuffix
  NextTo <- Neighbor
  Around <- ParentCtrlFlow
  LoopAfter <- NextLoop
  Above <- IsAncestorOf
  Precedes <- IsBefore
  InnerLoops <- LoopsIn
  Parts <- PartsOf
  SubNest <- PerfectNest
  Levels <- DepLevel
  Odd <- Uneven
SPECIFICATION Spec

  
  
  
PROPERTY Ends
