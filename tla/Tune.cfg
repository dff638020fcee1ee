SPECIFICATION Spec
CONSTANTS
  ca = ca
  cb = cb
  cc = cc
  p1 = p1
  p2 = p2
  t1 = t1
  t2 = t2
  Contexts = {ca, cb, cc}
  Addresses <- MCAddresses
  DepDiff <- MCDepDiff
  Programs = {p1, p2}
  Asks <- MCAsks
  Threads = {t1, t2}
  Master = t1
  BatchSize = 2
  MaxBatches = 2
  Owner <- MCOwner
  Draws = {1, 3}
  Unit = 4
  Times <- MCTimes
  MaxTraces = 4
INVARIANTS
  PairwiseCounts
  
  AllMade
  InferOutside
