SPECIFICATION MCCSpec
CONSTANTS
  Procs = {p1, p2}
  Words = {w1, w2}
  Keys = {k1, k2}
  NoKey = NoKey
  Options <- MCOptions
  Absent = Absent
  Broken = Broken
  Unsupported = Unsupported
  Missing = Missing
  a = a
  b = b
  Alien = Alien
  Garbage = Garbage
  Sep = Sep
  Dot = Dot
SYMMETRY Symmetric
INVARIANTS
  TypeOK
  KeyKept
  CalmPasswordOpens
  NamesFollowTree
  CodesInvert
  ConfigComesBack
PROPERTIES
  CreationSpares
