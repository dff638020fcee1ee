CONSTANTS
  Node = {n1, n2, n3}
  Null = Null
  Arity = 2
  Thread = {t1, t2}
  NoThread = NoThread
  Hash <- MCHash
  Gaps = {}
SPECIFICATION FairSpec
INVARIANTS
  OneParent
  HashRight
PROPERTY Hashes
