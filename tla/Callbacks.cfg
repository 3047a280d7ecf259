SPECIFICATION MCSpec
CONSTANTS
  Handles = {h1, h2, h3}
  Threads = {t1, t2}
  Offsets <- MCOffsets
  Lengths <- MCLengths
  MaxRead = 1
  MaxSize = 2
  NoHandle = NoHandle
  Unsafe <- Nothing
  lister = lister
  changer = changer
  d1 = d1
  d2 = d2
  k1 = k1
  k2 = k2
  top = top
  sub = sub
  f1 = f1
  f2 = f2
  f3 = f3
  n1 = n1
  n2 = n2
  NoNode = NoNode
SYMMETRY Symmetric
INVARIANTS
  TypeOK
  TypesOK
  Disjoint
  AccessExact
  LockedReadWhole
  
  
  AllOrNothing
  HeadersFollow
  FailsForCause

  
