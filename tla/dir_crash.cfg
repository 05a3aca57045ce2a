SPECIFICATION Spec
CONSTANTS
  INodeCount = 4
  INodesPerBlock = 2
  DataBlocks = 8
  Names = {"a", "b"}
  UserCommands = {"Ctrl+C"}
  MaxEntries = 3
  MaxNodes = 7
INVARIANT
  EntriesAreDirectories
