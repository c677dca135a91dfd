CONSTANTS
  Threads = {t1, t2}
  ArrayIds = {a1, a2}
  Blocks = {b1, b2}
  Vals = {0, 1}
  Objs = {"str", "obj"}
  Classes = {"String", "Object"}
  ClassOf <- MCClassOf
  Subclass <- MCSubclass
  JSIZE_BITS = 8
  ARRAY_LENGTH_LIMIT = 2
  JArgs <- MCJArgs
  LengthArgs <- MCLengthArgs
  NULL = NULL

SPECIFICATION Spec
CHECK_DEADLOCK FALSE
SYMMETRY MCSymmetry
INVARIANTS TypeOK AccessInBounds MallocAccounting
