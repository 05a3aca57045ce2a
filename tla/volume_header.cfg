SPECIFICATION Spec
CONSTANTS
  BlockCount = 8
  InodeCount = 2
  PtrsPerInode = 1
  BitsPerBlock = 8
  HeaderBits = 1
  INodesPerBlock = 2
  MapBlocks <- CodeMapBlocks
  InodeBlocks <- CodeInodeBlocks
  MapBlockOf <- CodeMapBlockOf
  InodeBlockOf <- CodeInodeBlockOf
  FreedBlocks = {}
INVARIANT
  HeldBlocksKept
