SPECIFICATION Spec
CONSTANTS
  BytesPerBlock = 10
  BlockCount = 12
  CharBit = 1
  SizeOfINode = 5
  MaxINodes = 3
  LastBlock = 5
  Chosen = {2}
INVARIANT SavedIsReadBack
