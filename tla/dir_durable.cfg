SPECIFICATION Spec
CONSTANTS
  INodeCount = 2
  INodesPerBlock = 1
  DataBlocks = 2
  Names = {a}
  UserCommands = {"cd .", "Ctrl+C", "when full", "read error", "write error", "allocBlock", "allocINode", "freeINode"}
  MaxEntries = 2
  MaxNodes = 5
INVARIANTS
  FlushIsComplete
  CommittedIsDurable
PROPERTIES
  OnlyWritingSaves
