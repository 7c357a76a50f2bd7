SPECIFICATION Spec
CONSTANTS
  OldSchemas <- MCOldSchemas
  OldRows = {0, 1}
  Replies <- MCReplies
  WallLimit = 2
  MaxFaults = 3
  None = None
INVARIANTS
  ServingStoreIsWhole
  KingDecides
  NothingLost
  UndecidedStaysPrivate
PROPERTY UpgradeCompletes
CHECK_DEADLOCK FALSE
