SPECIFICATION Spec
CONSTANTS
  INodeCount = 4
  INodesPerBlock = 2
  DataBlocks = 2
  Names = {"a", "b"}
  UserCommands = {"when full"}
  MaxEntries = 3
  MaxNodes = 9
INVARIANT
  UnmountSavesAll
