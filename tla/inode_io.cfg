CONSTANTS
  BlockCount = 6
  InodeCount = 2
  PtrsPerInode = 2
  MapBlocks = 1
  InodeBlocks = 2
  MapBlockOf <- OneMapBlock
  InodeBlockOf <- OneINodeABlock
  FreedBlocks = {}
  BytesPerBlock = 2
  Starts = {0, 1}
  Lengths = {1, 2, 3}
  Texts = {"text"}
SPECIFICATION IOSpec
INVARIANTS
  IOTypeOK
  FilesAreKept
  ReadsTheFile
  NothingCutShort
  LengthHasBlocks
