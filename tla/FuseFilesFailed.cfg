SPECIFICATION MCSpec
CONSTANTS
  Threads = {t1}
  Names = {n1, n2}
  Handles = {h1, h2}
  LockIds = {l1, l2, l3}
  Shares <- MCShares
  Dispositions <- AllDispositions
  Moves <- AllMoves
  NoLock = NoLock
  NoThread = NoThread
  NoName = NoName
  NoHandle = NoHandle
SYMMETRY Symmetric
INVARIANTS
  FailedCreateKeepsData
