SPECIFICATION MCSpec
CONSTANTS
  Procs = {p1, p2}
  Words = {w1, w2}
  Keys = {k1, k2}
  NoKey = NoKey
  Options <- MCOptions
  Absent = Absent
  Broken = Broken
  Unsupported = Unsupported
  Missing = Missing
SYMMETRY Symmetric
INVARIANTS
  PasswordOpens
