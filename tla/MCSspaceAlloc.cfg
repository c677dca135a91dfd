CONSTANTS
  BITS_PER_WORD = 8
  COLOR_BITS_PER_OBJ = 4
  SLOT_NUM = 3
  MAX_SLOT_INDEX = 255
  Chunks <- MCChunks
  Mutators <- MCMutators
  NULL = NULL
  PAD_LAST_WORD = TRUE

SPECIFICATION Spec
CHECK_DEADLOCK FALSE

INVARIANT TypeOK
INVARIANT CursorIsLeastFree
INVARIANT ExhaustedMeansFull
INVARIANT AllocateBlack
INVARIANT ScanMatchesReference
PROPERTY AllocBitsStable
PROPERTY AllocRefinesSlotAlloc
