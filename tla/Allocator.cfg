SPECIFICATION Spec
CONSTANTS
  Threads = {t1, t2}
  PerBlock = 3
  MaxBlocks = 3
  Overlap = FALSE
SYMMETRY Symmetry
INVARIANTS
  TypeOK
  
  
PROPERTIES
  GrowsIfFull
