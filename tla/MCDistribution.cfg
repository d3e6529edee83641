\* Twelve processes have repeated and different prime divisors, and are more than the blocks.
CONSTANTS
  Tensors <- MCTensors
  BlockCounts = {1, 2, 3, 4, 5, 6, 7, 8, 9}
  ProcCounts = {1, 2, 3, 4, 12}
  Sizes = {1, 2, 3, 4, 5, 6, 8, 9, 12}
SPECIFICATION DistSpec
INVARIANTS BlocksApart GridIsWhole OneAddress
