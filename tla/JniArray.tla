----------------------------- MODULE JniArray -----------------------------
(***************************************************************************)
(* The JNI array functions of vmcore (jni_array.cpp) as native threads     *)
(* call them.                                                              *)
(*                                                                         *)
(* Every call is one step.  The calls leave and re-enter the suspend-      *)
(* disabled state (tmn_suspend_disable/enable) between their heap reads,  *)
(* and a collection may move an unpinned array in such a gap; but every    *)
(* section re-reads h->object, and what a call carries across a gap (the   *)
(* length, the pin state) does not change, so the call has the effect of   *)
(* one atomic step.  Array addresses are therefore left out: an element    *)
(* pointer is "direct" (into a pinned array) or a malloc'd block.          *)
(*                                                                         *)
(* The eight typed variants of New<Type>Array, Get/Release<Type>Array-     *)
(* Elements and Get/Set<Type>ArrayRegion are identical up to the element   *)
(* type, so one action stands for each family; element values are the     *)
(* small set Vals.  jsize keeps a width, JSIZE_BITS, because the region    *)
(* calls compute start + len in it.                                        *)
(***************************************************************************)
EXTENDS Integers, FiniteSets, TLC

CONSTANTS
  Threads,           \* native threads calling JNI
  ArrayIds,          \* heap cells an array can be allocated at
  Blocks,            \* blocks STD_MALLOC can return
  Vals,              \* primitive element values (0 is the zeroed value)
  Objs,              \* objects that can be stored in object arrays
  Classes,           \* classes of objects and element classes
  ClassOf,           \* the class of each object
  Subclass,          \* pairs <<c, d>>: c is_instanceof d (reflexive)
  JSIZE_BITS,        \* width of jsize
  ARRAY_LENGTH_LIMIT,  \* longest primitive array calculate_array_size sizes
  JArgs,             \* the index, start and len arguments native code passes
  LengthArgs,        \* the lengths native code passes to the constructors
  NULL               \* the null reference / pointer

ASSUME JniAssumption ==
  /\ JSIZE_BITS \in Nat \ {0, 1, 2}
  /\ JArgs \cup LengthArgs \subseteq -(2^(JSIZE_BITS - 1)) .. 2^(JSIZE_BITS - 1) - 1
  /\ 0 \in Vals
  /\ ClassOf \in [Objs -> Classes]
  /\ Subclass \subseteq Classes \X Classes
  /\ NULL \notin Objs \cup ArrayIds \cup Blocks
  /\ "direct" \notin Blocks
  /\ ARRAY_LENGTH_LIMIT \in Nat

\* jint/jsize addition as the build computes it: two's complement wrap.
JSIZE_MIN == -(2^(JSIZE_BITS - 1))
JsizeWrap(x) == ((x - JSIZE_MIN) % 2^JSIZE_BITS) + JSIZE_MIN

\* TWO_HIGHEST_BITS_SET_MASK: the top two bits of a jsize.
TwoHighestBitsSet(length) == length < 0 \/ length >= 2^(JSIZE_BITS - 2)

JNI_COMMIT == 1
JNI_ABORT == 2
Modes == {0, JNI_COMMIT, JNI_ABORT}

\* Exceptions a JNI call raises (exn_raise_by_name / ThrowNew_Quick).
NoExn == "none"
Exceptions == {"ArrayIndexOutOfBoundsException", "ArrayStoreException",
               "NegativeArraySizeException", "OutOfMemoryError"}

NoArray == [kind |-> "none"]
NoElems == [arr |-> NULL]
NoAccess == [arr |-> NULL]
NoResult == [thread |-> NULL]

VARIABLES
  heap,        \* every heap cell: NoArray or an array record
  exn,         \* the exception pending on each thread (exn_raised())
  elems,       \* the element pointer a thread holds from Get..Elements
  mallocd,     \* the blocks STD_MALLOC handed out and STD_FREE did not free
  access,      \* the element range the last step copied, if it copied
  new_result,  \* the thread and result of the last step, if a constructor
  free_error,  \* history: STD_FREE was given a pointer it did not hand out
  null_write   \* a memcpy wrote through a NULL that STD_MALLOC returned

vars == <<heap, exn, elems, mallocd, access, new_result, free_error, null_write>>

Allocated == {a \in ArrayIds : heap[a] # NoArray}

\* GetArrayLength: get_vector_length of the array.
GetArrayLength(a) == heap[a].length

Indices(a) == 0 .. GetArrayLength(a) - 1

\* The objects is_instanceof accepts for class cls.
InstancesOf(cls) == {o \in Objs : <<ClassOf[o], cls>> \in Subclass}

\* A thread raises an exception: exn_raise_by_name / ThrowNew_Quick.
Raise(t, e) == exn' = [exn EXCEPT ![t] = e]

Init ==
  /\ heap = [a \in ArrayIds |-> NoArray]
  /\ exn = [t \in Threads |-> NoExn]
  /\ elems = [t \in Threads |-> NoElems]
  /\ mallocd = {}
  /\ access = NoAccess
  /\ new_result = NoResult
  /\ free_error = FALSE
  /\ null_write = FALSE

-----------------------------------------------------------------------------
(* Constructors.                                                           *)

\* calculate_array_size (class support code outside this repository): 0
\* for a length it cannot size; only whether it is 0 matters here.
calculate_array_size(length) ==
  IF length < 0 \/ length > ARRAY_LENGTH_LIMIT THEN 0 ELSE 1

\* Fault variant: one element more than set_vector_length records.
NewArray_extra_element(t, length) ==
  /\ exn[t] = NoExn
  /\ calculate_array_size(length) # 0
  /\ \E a \in ArrayIds \ Allocated, pinned \in BOOLEAN :
       /\ heap' = [heap EXCEPT ![a] =
                     [kind |-> "prim", length |-> length, pinned |-> pinned,
                      elem_class |-> NULL,
                      data |-> [i \in 0 .. length |-> 0]]]
       /\ new_result' = [thread |-> t, res |-> a]
  /\ access' = NoAccess
  /\ UNCHANGED <<exn, elems, mallocd, free_error, null_write>>

\* New<Type>Array: a pending exception or a zero size returns NULL; gc_alloc
\* may return NULL when the heap is full; otherwise the zeroed array gets
\* its length.  Whether the GC places it pinned is the GC's choice.
NewArray(t, length) ==
  /\ \/ /\ exn[t] # NoExn \/ calculate_array_size(length) = 0
        /\ new_result' = [thread |-> t, res |-> NULL]
        /\ UNCHANGED heap
     \/ /\ exn[t] = NoExn
        /\ calculate_array_size(length) # 0
        /\ \/ /\ Allocated = ArrayIds
              /\ new_result' = [thread |-> t, res |-> NULL]
              /\ UNCHANGED heap
           \/ \E a \in ArrayIds \ Allocated, pinned \in BOOLEAN :
                /\ heap' = [heap EXCEPT ![a] =
                              [kind |-> "prim", length |-> length, pinned |-> pinned,
                               elem_class |-> NULL,
                               data |-> [i \in 0 .. length - 1 |-> 0]]]
                /\ new_result' = [thread |-> t, res |-> a]
  /\ UNCHANGED <<exn, elems, mallocd, free_error, null_write>>
  /\ access' = NoAccess

\* NewObjectArray: a length with either of the two highest bits set raises
\* NegativeArraySizeException or OutOfMemoryError before vm_new_vector is
\* called; vm_new_vector raises OutOfMemoryError when the heap is full;
\* every element is initialElement (the GC's nulls when it is NULL).
NewObjectArray(t, length, cls, init) ==
  /\ \/ /\ exn[t] # NoExn
        /\ new_result' = [thread |-> t, res |-> NULL]
        /\ UNCHANGED <<heap, exn>>
     \/ /\ exn[t] = NoExn
        /\ TwoHighestBitsSet(length)
        /\ Raise(t, IF length < 0 THEN "NegativeArraySizeException"
                    ELSE "OutOfMemoryError")
        /\ new_result' = [thread |-> t, res |-> NULL]
        /\ UNCHANGED heap
     \/ /\ exn[t] = NoExn
        /\ ~TwoHighestBitsSet(length)
        /\ Allocated = ArrayIds
        /\ Raise(t, "OutOfMemoryError")
        /\ new_result' = [thread |-> t, res |-> NULL]
        /\ UNCHANGED heap
     \/ /\ exn[t] = NoExn
        /\ ~TwoHighestBitsSet(length)
        /\ \E a \in ArrayIds \ Allocated :
             /\ heap' = [heap EXCEPT ![a] =
                           [kind |-> "obj", length |-> length, pinned |-> FALSE,
                            elem_class |-> cls,
                            data |-> [i \in 0 .. length - 1 |-> init]]]
             /\ new_result' = [thread |-> t, res |-> a]
        /\ UNCHANGED exn
  /\ UNCHANGED <<elems, mallocd, free_error, null_write>>
  /\ access' = NoAccess

-----------------------------------------------------------------------------
(* Single elements of object arrays.                                       *)

\* GetObjectArrayElement: an index outside 0 .. length-1 raises
\* ArrayIndexOutOfBoundsException; otherwise the element is read (into a
\* new local handle, which the model leaves out).
GetObjectArrayElement(t, a, index) ==
  /\ heap[a].kind = "obj"
  /\ exn[t] = NoExn
  /\ \/ /\ index < 0 \/ index >= GetArrayLength(a)
        /\ Raise(t, "ArrayIndexOutOfBoundsException")
        /\ access' = NoAccess
     \/ /\ ~(index < 0 \/ index >= GetArrayLength(a))
        /\ access' = [arr |-> a, lo |-> index, n |-> 1]
        /\ UNCHANGED exn
  /\ UNCHANGED <<heap, elems, mallocd, free_error, null_write>>
  /\ new_result' = NoResult

\* SetObjectArrayElement: the index check, then for a non-null value the
\* is_instanceof check against the element class, raising
\* ArrayStoreException; otherwise STORE_REFERENCE of the value.
SetObjectArrayElement(t, a, index, value) ==
  /\ heap[a].kind = "obj"
  /\ exn[t] = NoExn
  /\ \/ /\ index < 0 \/ index >= GetArrayLength(a)
        /\ Raise(t, "ArrayIndexOutOfBoundsException")
        /\ UNCHANGED heap
        /\ access' = NoAccess
     \/ /\ ~(index < 0 \/ index >= GetArrayLength(a))
        /\ value \notin {NULL} \cup InstancesOf(heap[a].elem_class)
        /\ Raise(t, "ArrayStoreException")
        /\ UNCHANGED heap
        /\ access' = NoAccess
     \/ /\ ~(index < 0 \/ index >= GetArrayLength(a))
        /\ value \in {NULL} \cup InstancesOf(heap[a].elem_class)
        /\ heap' = [heap EXCEPT ![a].data[index] = value]
        /\ access' = [arr |-> a, lo |-> index, n |-> 1]
        /\ UNCHANGED exn
  /\ UNCHANGED <<elems, mallocd, free_error, null_write>>
  /\ new_result' = NoResult

-----------------------------------------------------------------------------
(* Element pointers: Get<Type>ArrayElements / Release<Type>ArrayElements.  *)

\* Get<Type>ArrayElements: a pinned array gives a pointer into the array
\* (*isCopy = JNI_FALSE); otherwise STD_MALLOC(length) receives a memcpy of
\* the elements (*isCopy = JNI_TRUE).  STD_MALLOC may return NULL, always
\* when no block is left; its result is not tested, and the memcpy writes
\* through it.  A thread holds one pointer at a time here.
GetArrayElements(t, a) ==
  /\ heap[a].kind = "prim"
  /\ exn[t] = NoExn
  /\ elems[t] = NoElems
  /\ \/ /\ heap[a].pinned
        /\ elems' = [elems EXCEPT ![t] = [arr |-> a, ptr |-> "direct", buf |-> <<>>]]
        /\ UNCHANGED <<mallocd, null_write>>
     \/ /\ ~heap[a].pinned
        /\ \E b \in Blocks \ mallocd :
             /\ mallocd' = mallocd \cup {b}
             /\ elems' = [elems EXCEPT ![t] = [arr |-> a, ptr |-> b, buf |-> heap[a].data]]
        /\ UNCHANGED null_write
     \/ /\ ~heap[a].pinned
        /\ null_write' = TRUE
        /\ UNCHANGED <<elems, mallocd>>
  /\ access' = [arr |-> a, lo |-> 0, n |-> GetArrayLength(a)]
  /\ UNCHANGED <<heap, exn, free_error>>
  /\ new_result' = NoResult

\* The native code writes element i through the pointer it holds: into the
\* array when the pointer is direct, into the copy otherwise.
NativeWrite(t, i, v) ==
  LET h == elems[t]
  IN  /\ h # NoElems
      /\ i \in Indices(h.arr)
      /\ IF h.ptr = "direct"
         THEN /\ heap' = [heap EXCEPT ![h.arr].data[i] = v]
              /\ UNCHANGED elems
         ELSE /\ elems' = [elems EXCEPT ![t].buf[i] = v]
              /\ UNCHANGED heap
      /\ UNCHANGED <<exn, mallocd, free_error, null_write>>
      /\ access' = NoAccess
      /\ new_result' = NoResult

\* The elements an element pointer points at.
PointedElements(h) == IF h.ptr = "direct" THEN heap[h.arr].data ELSE h.buf

\* STD_FREE of a pointer; a pointer that is not a live block is an error
\* of the C heap, which free_error records.
STD_FREE(p) ==
  /\ mallocd' = mallocd \ {p}
  /\ free_error' = (free_error \/ p \notin mallocd)

\* Fault variant: no no_copy test; a pointer into the array is freed.
ReleaseArrayElements_no_copy_test(t, mode) ==
  LET h == elems[t]
  IN  /\ h # NoElems
      /\ heap' = IF mode \in {0, JNI_COMMIT}
                 THEN [heap EXCEPT ![h.arr].data = PointedElements(h)]
                 ELSE heap
      /\ IF mode \in {0, JNI_ABORT}
         THEN STD_FREE(h.ptr)
         ELSE UNCHANGED <<mallocd, free_error>>
      /\ access' = NoAccess
      /\ elems' = IF mode = JNI_COMMIT THEN elems
                  ELSE [elems EXCEPT ![t] = NoElems]
      /\ new_result' = NoResult
      /\ UNCHANGED <<exn, null_write>>

\* Release<Type>ArrayElements: no_copy is the compare of elems with the
\* address of element 0; a pointer into the array needs nothing.  For a
\* copy, modes 0 and JNI_COMMIT memcpy it back, and modes 0 and JNI_ABORT
\* STD_FREE it.  The native code drops its pointer unless it committed.
ReleaseArrayElements(t, mode) ==
  LET h == elems[t]
      no_copy == h.ptr = "direct"
  IN  /\ h # NoElems
      /\ heap' = IF ~no_copy /\ mode \in {0, JNI_COMMIT}
                 THEN [heap EXCEPT ![h.arr].data = PointedElements(h)]
                 ELSE heap
      /\ IF ~no_copy /\ mode \in {0, JNI_ABORT}
         THEN STD_FREE(h.ptr)
         ELSE UNCHANGED <<mallocd, free_error>>
      /\ access' = IF ~no_copy /\ mode \in {0, JNI_COMMIT}
                   THEN [arr |-> h.arr, lo |-> 0, n |-> GetArrayLength(h.arr)]
                   ELSE NoAccess
      /\ elems' = IF mode = JNI_COMMIT THEN elems
                  ELSE [elems EXCEPT ![t] = NoElems]
      /\ UNCHANGED <<exn, null_write>>
      /\ new_result' = NoResult

-----------------------------------------------------------------------------
(* Regions: Get<Type>ArrayRegion / Set<Type>ArrayRegion.                   *)

\* The bounds check of both region calls: end = start + len in jsize.
\* Signed overflow is undefined in C; the build either wraps or keeps the
\* exact sum, so end is either.
\* Fault variant: the check without len < 0.
RegionRejected_no_len_check(a, start, len, end) ==
  start < 0 \/ end > GetArrayLength(a)

RegionRejected(a, start, len, end) ==
  start < 0 \/ len < 0 \/ end > GetArrayLength(a)

RegionEnds(start, len) == {JsizeWrap(start + len), start + len}

\* Get<Type>ArrayRegion: memcpy of len elements from element start into
\* the native buffer, unless the check raises
\* ArrayIndexOutOfBoundsException.
GetArrayRegion(t, a, start, len) ==
  /\ heap[a].kind = "prim"
  /\ exn[t] = NoExn
  /\ \E end \in RegionEnds(start, len) :
       \/ /\ RegionRejected(a, start, len, end)
          /\ Raise(t, "ArrayIndexOutOfBoundsException")
          /\ access' = NoAccess
       \/ /\ ~RegionRejected(a, start, len, end)
          /\ access' = [arr |-> a, lo |-> start, n |-> len]
          /\ UNCHANGED exn
  /\ UNCHANGED <<heap, elems, mallocd, free_error, null_write>>
  /\ new_result' = NoResult

\* Set<Type>ArrayRegion: the same check, then memcpy of len native values
\* into the array from element start (and gc_heap_wrote_object).
SetArrayRegion(t, a, start, len) ==
  /\ heap[a].kind = "prim"
  /\ exn[t] = NoExn
  /\ \E end \in RegionEnds(start, len) :
       \/ /\ RegionRejected(a, start, len, end)
          /\ Raise(t, "ArrayIndexOutOfBoundsException")
          /\ UNCHANGED heap
          /\ access' = NoAccess
       \/ /\ ~RegionRejected(a, start, len, end)
          /\ \E v \in Vals :
               heap' = [heap EXCEPT ![a].data =
                          [i \in DOMAIN @ |-> IF i \in start .. start + len - 1
                                              THEN v ELSE @[i]]]
          /\ access' = [arr |-> a, lo |-> start, n |-> len]
          /\ UNCHANGED exn
  /\ UNCHANGED <<elems, mallocd, free_error, null_write>>
  /\ new_result' = NoResult

\* The native code handles a pending exception (ExceptionClear).
ExceptionClear(t) ==
  /\ exn[t] # NoExn
  /\ exn' = [exn EXCEPT ![t] = NoExn]
  /\ UNCHANGED <<heap, elems, mallocd, free_error, null_write>>
  /\ access' = NoAccess
  /\ new_result' = NoResult

\* A write through NULL faults and ends the process: no thread takes a
\* step after it.
Next ==
  /\ ~null_write
  /\ \E t \in Threads :
    \/ \E length \in LengthArgs : NewArray(t, length)
    \/ \E length \in LengthArgs, cls \in Classes, init \in Objs \cup {NULL} :
         NewObjectArray(t, length, cls, init)
    \/ \E a \in Allocated, index \in JArgs :
         \/ GetObjectArrayElement(t, a, index)
         \/ \E value \in Objs \cup {NULL} : SetObjectArrayElement(t, a, index, value)
    \/ \E a \in Allocated : GetArrayElements(t, a)
    \/ \E i \in JArgs, v \in Vals : NativeWrite(t, i, v)
    \/ \E mode \in Modes : ReleaseArrayElements(t, mode)
    \/ \E a \in Allocated, start, len \in JArgs :
         GetArrayRegion(t, a, start, len) \/ SetArrayRegion(t, a, start, len)
    \/ ExceptionClear(t)

Spec == Init /\ [][Next]_vars
-----------------------------------------------------------------------------
(* Properties.                                                             *)

\* An array record: its data has exactly length elements of its kind.
IsArrayRec(r) ==
  /\ r.kind \in {"prim", "obj"}
  /\ r.length \in Nat
  /\ r.pinned \in BOOLEAN
  /\ r.data \in [0 .. r.length - 1 ->
                   IF r.kind = "prim" THEN Vals ELSE Objs \cup {NULL}]
  /\ r.elem_class \in IF r.kind = "prim" THEN {NULL} ELSE Classes

TypeOK ==
  /\ \A a \in ArrayIds : heap[a] = NoArray \/ IsArrayRec(heap[a])
  /\ exn \in [Threads -> Exceptions \cup {NoExn}]
  /\ \A t \in Threads : elems[t] = NoElems \/
       /\ elems[t].arr \in Allocated
       /\ heap[elems[t].arr].kind = "prim"
       /\ elems[t].ptr \in Blocks \cup {"direct"}
       /\ elems[t].buf \in IF elems[t].ptr = "direct" THEN {<<>>}
                           ELSE [Indices(elems[t].arr) -> Vals]
  /\ mallocd \subseteq Blocks
  /\ access = NoAccess \/ access \in [arr : Allocated, lo : Int, n : Int]
  /\ new_result = NoResult \/
       new_result \in [thread : Threads, res : ArrayIds \cup {NULL}]
  /\ free_error \in BOOLEAN
  /\ null_write \in BOOLEAN

\* Every element range a call copies (memcpy of a region, of the whole
\* array for Get/Release..Elements, one element for Get/SetObjectArray-
\* Element) lies inside the array: the checks of start, len and
\* end = start + len, and of index, keep memcpy in bounds.
AccessInBounds ==
  access # NoAccess =>
    /\ access.lo >= 0
    /\ access.n >= 0
    /\ access.lo + access.n <= GetArrayLength(access.arr)

\* The malloc'd blocks some thread holds as its element pointer.
HeldBlocks ==
  {b \in Blocks : \E t \in Threads : elems[t] # NoElems /\ elems[t].ptr = b}

\* The C heap stays balanced across Get/Release..Elements of any threads in
\* any order: STD_FREE only ever frees a block STD_MALLOC returned and that
\* is still live (never a pointer into a pinned array, never twice), and
\* the live blocks are exactly the copies some thread still holds.
MallocAccounting ==
  /\ ~free_error
  /\ mallocd = HeldBlocks

\* No memcpy of Get<Type>ArrayElements writes through a NULL that
\* STD_MALLOC returned: the copy is made only into memory it obtained.
MallocResultChecked == ~null_write

\* An array constructor that returns NULL leaves an exception pending, as
\* NewObjectArray does (NegativeArraySizeException, OutOfMemoryError).
NullResultRaises ==
  new_result # NoResult /\ new_result.res = NULL =>
    exn[new_result.thread] # NoExn

=============================================================================
