SPECIFICATION Spec
CONSTANTS
  fwd = fwd
  bwd = bwd
  cx = cx
  ct = ct
  cpu = cpu
  gpu = gpu
  Drivers <- MCDrivers
  Devices <- MCDevices
  Closures <- MCClosures
  Params <- MixedPars
  Removable <- XRemovable
  Returns <- MCReturns
  Dev <- OnBoth
  HostCPU = cpu
  Arrays = {a1, a2, a3}
  Bufs = {b1, b2, b3}
  UserBufs = {u1, u2}
  NoArray = NoArray
  NoBuf = NoBuf
  NoClosure = NoClosure
  NoCall = NoCall
  Allowed <- Contracts
CONSTRAINT OneLent
SYMMETRY Symmetry
INVARIANTS
  AliveAtRun
  
  ReturnsOwnedOnce
CHECK_DEADLOCK FALSE
