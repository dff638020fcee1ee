CONSTANTS
  Cases <- MCCases
  Lowered <- LaunchesOf
  Gaps = {"both"}
  Machine <- MCWarps
  Holds <- Held
  Does <- Perform
  Plus <- Sums
  Result <- Outcome
  WarpAt <- WarpOf
SPECIFICATION LaunchSpec
CHECK_DEADLOCK FALSE
PROPERTY Completes
