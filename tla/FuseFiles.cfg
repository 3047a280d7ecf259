SPECIFICATION MCSpec
CONSTANTS
  Threads = {t1, t2}
  Names = {n1, n2}
  Handles = {h1, h2, h3}
  LockIds = {l1, l2, l3, l4}
  Shares <- MCShares
  Dispositions <- AllDispositions
  Moves <- AllMoves
  NoLock = NoLock
  NoThread = NoThread
  NoName = NoName
  NoHandle = NoHandle
SYMMETRY Symmetric
INVARIANTS
  TypeOK
  ListsAgree
  ShareRespected
  LockOrder
  AloneAgrees
