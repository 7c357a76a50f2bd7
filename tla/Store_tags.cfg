SPECIFICATION Spec
CONSTANTS
  OldSchemas <- MCOldSchemas
  OldRows = {0}
  Replies <- MCReplies
  WallLimit = 2
  MaxFaults = 1
  None = None
INVARIANT TagsStripped
CHECK_DEADLOCK FALSE
