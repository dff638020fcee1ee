CONSTANTS
  Cases <- MCCases
  Lowered <- LaunchesOf
  Gaps = {}
  Machine <- MCWarps
  Holds <- Held
  Does <- Perform
  Plus <- Sums
  Result <- Outcome
  WarpAt <- WarpOf
SPECIFICATION LaunchSpec
INVARIANTS
  Synchronized
  SameResult
  BarriersPlaced
PROPERTY Completes
