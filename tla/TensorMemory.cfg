\* Three ranks; the third tensor is dense.
CONSTANTS
  Ranks = {r1, r2, r3}
  Tensors = {t1, t2, t3}
  Dense = {t3}
  Addresses = {1, 2}
  nullptr = nullptr
SPECIFICATION Spec
INVARIANTS FlushSeesRegions InUse SameMemory
PROPERTIES OnlyUnreferenced ReclaimsAll
