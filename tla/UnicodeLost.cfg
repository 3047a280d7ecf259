SPECIFICATION Spec
CONSTANTS
  Units = {97, 233, 2325, 8364, 55357, 56832}
  MaxUnits = 3
  Leftovers = {0, 65, 224}
  Second = 10
  Epoch = 1000
  IntBits = 8
INVARIANTS
  NamesComeBack
