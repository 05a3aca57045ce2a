SPECIFICATION Spec
CONSTANTS
  INodeCount = 2
  INodesPerBlock = 2
  DataBlocks = 8
  Names = {"a", "b"}
  UserCommands = {"when full"}
  MaxEntries = 2
  MaxNodes = 7
INVARIANT
  NewDirectoriesAreNew
