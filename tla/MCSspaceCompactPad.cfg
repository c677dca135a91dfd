CONSTANTS
  BITS_PER_WORD = 8
  COLOR_BITS_PER_OBJ = 4
  SLOT_NUM = 5
  MAX_SLOT_INDEX = 255
  PAD_LAST_WORD = TRUE

SPECIFICATION Spec
CHECK_DEADLOCK FALSE

INVARIANT IterationVisitsLive
