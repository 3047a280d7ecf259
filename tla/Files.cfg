SPECIFICATION MCSpec
CONSTANTS
  BS = 2
  MaxSize = 5
  Data <- MCData
  Sizes = {1, 4}
  Exts = {e1, e2}
  Volumes <- AllVolumes
  NoHdr = NoHdr
  Unsafe <- Nothing
  LayerSize = 4
  LayerSizes = {1, 3}
INVARIANTS
  TypesOK
  
  CacheCoherent
  
  
PROPERTIES
  
  LayersArePlain
SYMMETRY Symmetric
VIEW WithoutRet
