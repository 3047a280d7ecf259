SPECIFICATION MCSpec
CONSTANTS
  Threads = {t1, t2}
  Names = {n1, n2}
  Handles = {h1, h2}
  LockIds = {l1, l2, l3}
  Shares <- TwoShares
  Dispositions <- OpenOnly
  Moves <- NoMoves
  NoLock = NoLock
  NoThread = NoThread
  NoName = NoName
  NoHandle = NoHandle
SYMMETRY Symmetric
INVARIANTS
  NoDangling
