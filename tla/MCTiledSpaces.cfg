\* Four spaces: two made from the root, and two steps of the algebra on them, or three.
CONSTANTS
  Tilings <- MCTilings
  DependentTilings <- MCDependentTilings
  Relations <- MCRelations
  Sublists <- MCSublists
  Extended <- MCExtended
  MaxMade = 4
  Whole = FALSE
SPECIFICATION TilesSpec
INVARIANTS TilesFit SpacesAreRelations TranslationKeepsTile
\* The program may stop making spaces.
CHECK_DEADLOCK FALSE
