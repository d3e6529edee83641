CONSTANTS
  Buffers = {a, b, c, d}
  Sizes = {0, 1, 3, 4, 6}
  PoolSize = 15
  Align = 2
SPECIFICATION PoolSpec
INVARIANTS NothingLost Joined
PROPERTY HeapSpec
CHECK_DEADLOCK FALSE
