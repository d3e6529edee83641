\* Three ranks share four tasks, through a counter of the scheduler or of their own.
CONSTANTS
  Ranks = {r1, r2, r3}
  Root = r1
  NTasks = 4
SPECIFICATION FairSpec
INVARIANTS ExactlyOnce NoUseAfterFree
PROPERTIES PoolSpec AllReturn
