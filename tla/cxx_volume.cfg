SPECIFICATION Spec
CONSTANTS
  BytesPerBlock = 10
  BlockCount = 10
  CharBit = 1
  SizeOfINode = 5
  MaxINodes = 3
  LastBlock = 4
  Chosen = {2, 4}
INVARIANTS
  TypeOK
  SavedIsReadBack
  PromisesKept
