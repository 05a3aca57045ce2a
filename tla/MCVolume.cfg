SPECIFICATION FairSpec
CONSTANTS
  BlockCount = 7
  InodeCount = 2
  PtrsPerInode = 2
  BitsPerBlock = 6
  HeaderBits = 1
  INodesPerBlock = 1
  MapBlocks <- CodeMapBlocks
  InodeBlocks <- CodeInodeBlocks
  MapBlockOf <- CodeMapBlockOf
  InodeBlockOf <- CodeInodeBlockOf
  FreedBlocks = {5, 6}
INVARIANTS
  TypeOK
  PointersReserved
  NoSharedBlock
  HeldBlocksKept
  SuccessMeansSaved
PROPERTIES
  PointerPermanent
  PromiseKept
  WritesEnd
