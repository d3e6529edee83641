\* Every program of four operations drawn from eight.
CONSTANTS
  A = A
  B = B
  C = C
  First = 1
  Last = 4
  Tensors <- MCTensors
  Op <- MCOp
  Start <- MCStart
SPECIFICATION Spec
INVARIANTS LevelsCorrect RisesByOne SameMeaning
