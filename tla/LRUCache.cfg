CONSTANTS
  Keys = {k1, k2, k3, k4}
  Data = {d1, d2}
  MaxSize = 2
SPECIFICATION Spec
INVARIANTS LRUInv KeepsMostRecent
PROPERTIES ImplementsLossyCache
