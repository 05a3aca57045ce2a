SPECIFICATION Spec
CONSTANTS
  INodeCount = 5
  INodesPerBlock = 2
  DataBlocks = 6
  Names = {a, b}
  UserCommands = {"cd ..", "allocBlock"}
  MaxEntries = 4
  MaxNodes = 10
SYMMETRY NamesAreAlike
INVARIANTS
  TypeOK
  AccurateContents
  OnlyCwdUnwritten
  UnmountSavesAll
  DotDotLeadsUp
  DeviceIsATree
