SPECIFICATION Spec
CONSTANTS
  BlockCount = 4
  InodeCount = 2
  PtrsPerInode = 1
  BitsPerBlock = 6
  HeaderBits = 1
  INodesPerBlock = 2
  MapBlocks <- CodeMapBlocks
  InodeBlocks <- CodeInodeBlocks
  MapBlockOf <- CodeMapBlockOf
  InodeBlockOf <- CodeInodeBlockOf
  FreedBlocks = {0, 1, 3}
INVARIANT
  MetadataUntouched
