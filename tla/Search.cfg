CONSTANTS
  NumThreads = 2
  Inputs <- MCInputs
  Population = 2
  InitExplore = 2
  InitExploit = 1
  Iters = 1
  MaxUnchanged = 1
  Durations = {1, 2}
  Forever = 9
  Scores = {1, 2}
SPECIFICATION Spec
INVARIANTS
  OneGenerator
  MeasuredWell
  TopKept
PROPERTIES
  BestStays
  
