\* Three ranks, two barriers, up to two calls a rank, sent at any time to any rank.
CONSTANTS
  Ranks = {r1, r2, r3}
  MaxAdds = 2
  MaxPhases = 2
SPECIFICATION FairSpec
INVARIANTS NeverAborts
PROPERTIES AppliedBefore AllReturn
