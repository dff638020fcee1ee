SPECIFICATION Spec
CONSTANTS
  Arrays = {a1, a2}
  Devices = {cpu, gpu0, gpu1}
  CPUs = {cpu}
  HostCPU = cpu
  Bufs = {b1, b2, b3, b4, b5}
  UserBufs = {u1}
  Values = {v1, v2}
  Undef = Undef
  NoBuf = NoBuf
  MaxFailures = 1
SYMMETRY Symmetry
INVARIANTS
  TypeOK
  Coherent
  Ownership
PROPERTY ImplementsTensor
CHECK_DEADLOCK FALSE
