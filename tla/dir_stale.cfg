SPECIFICATION Spec
CONSTANTS
  INodeCount = 4
  INodesPerBlock = 2
  DataBlocks = 8
  Names = {"a", "b"}
  UserCommands = {"cd .", "cd .."}
  MaxEntries = 3
  MaxNodes = 9
INVARIANT
  UnmountSavesAll
