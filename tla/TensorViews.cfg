\* One view, of any of two tensors; one rank is enough for what happens.
CONSTANTS
  Ranks = {r1}
  Tensors = {t1, t2}
  Views = {v1}
  Dense = {}
  Addresses = {1, 2}
  nullptr = nullptr
SPECIFICATION ViewSpec
PROPERTY OnlyUnreferenced
