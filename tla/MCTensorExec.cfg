CONSTANTS
  A = A
  B = B
  E = E
  r1 = r1
  r2 = r2
  r3 = r3
  b1 = b1
  b2 = b2
  b3 = b3
  Ranks <- MCRanks
  Owner <- MCOwner
  Shape <- MCShape
  Dynamic <- MCDynamic
  Junk = 7
  Program <- MCAll
  Batches <- MCAllCalls
  Level <- MCAllLevel
  Orders <- MCAllOrders
SPECIFICATION ExecSpec
INVARIANTS NoConflict CollectivesMatch ReadsInOrder FinalMemory
PROPERTIES FlowSpec AllExecuted
