SPECIFICATION MCSpec
CONSTANTS
  Threads = {t1, t2}
  Names = {a, b}
  Holders = {h1, h2}
  Nodes = {d1, d2, d3, d4}
  Files = {f1, f2}
  NoThread = NoThread
  NoName = NoName
  NoNode = NoNode
  NoFile = NoFile
  NoHolder = NoHolder
  Renames <- AllRenames
  MaySetNameFail = FALSE
SYMMETRY Symmetric
INVARIANTS
  ReleaseFinds
