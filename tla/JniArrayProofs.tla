-------------------------- MODULE JniArrayProofs --------------------------
(***************************************************************************)
(* Proof that the C-heap accounting of Get/Release<Type>ArrayElements     *)
(* holds for every number of threads, arrays and blocks: STD_FREE is never *)
(* given a pointer that is not a live block, and the live blocks are       *)
(* exactly the copies threads hold.                                        *)
(*                                                                         *)
(* MallocAccounting is not inductive by itself: a Release frees the block  *)
(* its thread holds, and the accounting survives only if no other thread   *)
(* holds the same block (UniqueHolders) and every held pointer is a block  *)
(* or "direct" in a well-formed element record (ElemsOK).                  *)
(***************************************************************************)
EXTENDS JniArray, TLAPS

\* Every thread's element pointer is NoElems or a record with an array, a
\* block or "direct", and a buffer.
ElemsOK ==
  /\ DOMAIN elems = Threads
  /\ \A t \in Threads : elems[t] = NoElems \/
       /\ elems[t] = [arr |-> elems[t].arr, ptr |-> elems[t].ptr, buf |-> elems[t].buf]
       /\ elems[t].arr \in ArrayIds
       /\ elems[t].ptr \in Blocks \cup {"direct"}

\* No two threads hold the same malloc'd block.
UniqueHolders ==
  \A t, u \in Threads :
    /\ elems[t] # NoElems /\ elems[u] # NoElems
    /\ elems[t].ptr = elems[u].ptr /\ elems[t].ptr \in Blocks
    => t = u

MInv == ElemsOK /\ MallocAccounting /\ UniqueHolders

\* The variables the accounting reads.
acct == <<elems, mallocd, free_error>>

USE JniAssumption

-----------------------------------------------------------------------------

LEMMA NoElemsDistinct ==
  ASSUME NEW a \in ArrayIds, NEW p, NEW bf
  PROVE  [arr |-> a, ptr |-> p, buf |-> bf] # NoElems
BY DEF NoElems

THEOREM MInvInit == Init => MInv
<1> SUFFICES ASSUME Init PROVE MInv
  OBVIOUS
<1>1. ElemsOK
  BY DEF Init, ElemsOK
<1>2. MallocAccounting
  BY DEF Init, MallocAccounting, HeldBlocks
<1>3. UniqueHolders
  BY DEF Init, UniqueHolders
<1>4. QED
  BY <1>1, <1>2, <1>3 DEF MInv

\* A step that leaves the element pointers and the C heap alone.
LEMMA AcctUnchanged ==
  ASSUME MInv, UNCHANGED acct
  PROVE  MInv'
BY DEF MInv, ElemsOK, MallocAccounting, HeldBlocks, UniqueHolders, acct

LEMMA GetArrayElementsInv ==
  ASSUME MInv, NEW t \in Threads, NEW a \in ArrayIds, GetArrayElements(t, a)
  PROVE  MInv'
<1> USE DEF GetArrayElements
<1>1. CASE /\ heap[a].pinned
           /\ elems' = [elems EXCEPT ![t] = [arr |-> a, ptr |-> "direct", buf |-> <<>>]]
           /\ UNCHANGED <<mallocd, null_write>>
  <2>1. ElemsOK'
    BY <1>1 DEF MInv, ElemsOK
  <2>2. HeldBlocks' = HeldBlocks
    BY <1>1 DEF MInv, ElemsOK, HeldBlocks
  <2>3. MallocAccounting'
    BY <1>1, <2>2 DEF MInv, MallocAccounting
  <2>4. UniqueHolders'
    BY <1>1 DEF MInv, ElemsOK, UniqueHolders
  <2>5. QED
    BY <2>1, <2>3, <2>4 DEF MInv
<1>2. CASE /\ ~heap[a].pinned
           /\ \E b \in Blocks \ mallocd :
                /\ mallocd' = mallocd \cup {b}
                /\ elems' = [elems EXCEPT ![t] = [arr |-> a, ptr |-> b, buf |-> heap[a].data]]
           /\ UNCHANGED null_write
  <2>1. PICK b \in Blocks \ mallocd :
               /\ mallocd' = mallocd \cup {b}
               /\ elems' = [elems EXCEPT ![t] = [arr |-> a, ptr |-> b, buf |-> heap[a].data]]
    BY <1>2
  <2>2. elems[t] = NoElems
    OBVIOUS
  <2>3. ElemsOK'
    BY <2>1 DEF MInv, ElemsOK
  <2>4. HeldBlocks' = HeldBlocks \cup {b}
    BY <2>1, <2>2, NoElemsDistinct DEF MInv, ElemsOK, HeldBlocks
  <2>5. MallocAccounting'
    BY <2>1, <2>4 DEF MInv, MallocAccounting
  <2>6. UniqueHolders'
    BY <2>1, <2>2, NoElemsDistinct DEF MInv, ElemsOK, UniqueHolders, MallocAccounting, HeldBlocks
  <2>7. QED
    BY <2>3, <2>5, <2>6 DEF MInv
<1>3. CASE /\ ~heap[a].pinned
           /\ null_write' = TRUE
           /\ UNCHANGED <<elems, mallocd>>
  BY <1>3, AcctUnchanged DEF acct
<1>4. QED
  BY <1>1, <1>2, <1>3

LEMMA NativeWriteInv ==
  ASSUME MInv, NEW t \in Threads, NEW i, NEW v, NativeWrite(t, i, v)
  PROVE  MInv'
<1> USE DEF NativeWrite
<1>1. CASE elems[t].ptr = "direct"
  BY <1>1, AcctUnchanged DEF acct
<1>2. CASE elems[t].ptr # "direct"
  <2> DEFINE h == elems[t]
  <2>1. elems' = [elems EXCEPT ![t] = [arr |-> h.arr, ptr |-> h.ptr,
                                        buf |-> [h.buf EXCEPT ![i] = v]]]
    BY <1>2 DEF MInv, ElemsOK
  <2>2. UNCHANGED <<mallocd, free_error>>
    BY <1>2
  <2>3. \A u \in Threads : /\ elems'[u] # NoElems <=> elems[u] # NoElems
                           /\ elems'[u].ptr = elems[u].ptr
    BY <2>1, NoElemsDistinct DEF MInv, ElemsOK
  <2>4. ElemsOK'
    BY <2>1 DEF MInv, ElemsOK
  <2>5. HeldBlocks' = HeldBlocks
    BY <2>3 DEF HeldBlocks
  <2>6. QED
    BY <2>2, <2>3, <2>4, <2>5 DEF MInv, MallocAccounting, UniqueHolders
<1>3. QED
  BY <1>1, <1>2

LEMMA ReleaseInv ==
  ASSUME MInv, NEW t \in Threads, NEW mode \in Modes, ReleaseArrayElements(t, mode)
  PROVE  MInv'
<1> DEFINE h == elems[t]
<1> USE DEF ReleaseArrayElements
<1>1. h # NoElems /\ h.arr \in ArrayIds /\ h.ptr \in Blocks \cup {"direct"}
  BY DEF MInv, ElemsOK
<1>2. CASE mode = JNI_COMMIT
  BY <1>2, AcctUnchanged DEF acct, JNI_COMMIT, JNI_ABORT
<1>3. CASE mode \in {0, JNI_ABORT} /\ h.ptr = "direct"
  <2>1. elems' = [elems EXCEPT ![t] = NoElems] /\ UNCHANGED <<mallocd, free_error>>
    BY <1>3 DEF JNI_COMMIT, JNI_ABORT
  <2>2. ElemsOK'
    BY <2>1 DEF MInv, ElemsOK
  <2>3. HeldBlocks' = HeldBlocks
    BY <1>1, <1>3, <2>1 DEF MInv, ElemsOK, HeldBlocks
  <2>4. QED
    BY <2>1, <2>2, <2>3 DEF MInv, MallocAccounting, UniqueHolders
<1>4. CASE mode \in {0, JNI_ABORT} /\ h.ptr # "direct"
  <2>1. h.ptr \in Blocks
    BY <1>1, <1>4
  <2>2. elems' = [elems EXCEPT ![t] = NoElems]
    BY <1>4 DEF JNI_COMMIT, JNI_ABORT
  <2>3. mallocd' = mallocd \ {h.ptr} /\ free_error' = (free_error \/ h.ptr \notin mallocd)
    BY <1>4 DEF STD_FREE, JNI_COMMIT, JNI_ABORT
  <2>4. h.ptr \in mallocd
    BY <1>1, <2>1 DEF MInv, MallocAccounting, HeldBlocks
  <2>5. ~free_error'
    BY <2>3, <2>4 DEF MInv, MallocAccounting
  <2>6. ElemsOK'
    BY <2>2 DEF MInv, ElemsOK
  <2>7. HeldBlocks' = HeldBlocks \ {h.ptr}
    BY <1>1, <2>1, <2>2 DEF MInv, ElemsOK, HeldBlocks, UniqueHolders
  <2>8. MallocAccounting'
    BY <2>3, <2>5, <2>7 DEF MInv, MallocAccounting
  <2>9. UniqueHolders'
    BY <2>2 DEF MInv, ElemsOK, UniqueHolders
  <2>10. QED
    BY <2>6, <2>8, <2>9 DEF MInv
<1>5. QED
  BY <1>2, <1>3, <1>4 DEF Modes, JNI_COMMIT, JNI_ABORT

THEOREM MInvNext == MInv /\ [Next]_vars => MInv'
<1> SUFFICES ASSUME MInv, [Next]_vars PROVE MInv'
  OBVIOUS
<1>1. CASE UNCHANGED vars
  BY <1>1, AcctUnchanged DEF vars, acct
<1>2. CASE Next
  <2>1. PICK t \in Threads :
          \/ \E length \in LengthArgs : NewArray(t, length)
          \/ \E length \in LengthArgs, cls \in Classes, init \in Objs \cup {NULL} :
               NewObjectArray(t, length, cls, init)
          \/ \E a \in Allocated, index \in JArgs :
               \/ GetObjectArrayElement(t, a, index)
               \/ \E value \in Objs \cup {NULL} : SetObjectArrayElement(t, a, index, value)
          \/ \E a \in Allocated : GetArrayElements(t, a)
          \/ \E i \in JArgs, v \in Vals : NativeWrite(t, i, v)
          \/ \E mode \in Modes : ReleaseArrayElements(t, mode)
          \/ \E a \in Allocated, start, len \in JArgs :
               GetArrayRegion(t, a, start, len) \/ SetArrayRegion(t, a, start, len)
          \/ ExceptionClear(t)
    BY <1>2 DEF Next
  <2>2. CASE \E length \in LengthArgs : NewArray(t, length)
    BY <2>2, AcctUnchanged DEF NewArray, acct
  <2>3. CASE \E length \in LengthArgs, cls \in Classes, init \in Objs \cup {NULL} :
               NewObjectArray(t, length, cls, init)
    BY <2>3, AcctUnchanged DEF NewObjectArray, acct
  <2>4. CASE \E a \in Allocated, index \in JArgs :
               \/ GetObjectArrayElement(t, a, index)
               \/ \E value \in Objs \cup {NULL} : SetObjectArrayElement(t, a, index, value)
    BY <2>4, AcctUnchanged DEF GetObjectArrayElement, SetObjectArrayElement, acct
  <2>5. CASE \E a \in Allocated : GetArrayElements(t, a)
    BY <2>5, GetArrayElementsInv DEF Allocated
  <2>6. CASE \E i \in JArgs, v \in Vals : NativeWrite(t, i, v)
    BY <2>6, NativeWriteInv
  <2>7. CASE \E mode \in Modes : ReleaseArrayElements(t, mode)
    BY <2>7, ReleaseInv
  <2>8. CASE \E a \in Allocated, start, len \in JArgs :
               GetArrayRegion(t, a, start, len) \/ SetArrayRegion(t, a, start, len)
    BY <2>8, AcctUnchanged DEF GetArrayRegion, SetArrayRegion, acct
  <2>9. CASE ExceptionClear(t)
    BY <2>9, AcctUnchanged DEF ExceptionClear, acct
  <2>10. QED
    BY <2>1, <2>2, <2>3, <2>4, <2>5, <2>6, <2>7, <2>8, <2>9
<1>3. QED
  BY <1>1, <1>2

\* For every instance, in every reachable state the live STD_MALLOC blocks
\* are exactly the copies threads hold from Get<Type>ArrayElements and no
\* Release<Type>ArrayElements has freed a pointer that is not a live block
\* (no double free, no free of a pointer into a pinned array).
THEOREM MallocAccountingInvariant == Spec => []MallocAccounting
<1>1. MInv => MallocAccounting
  BY DEF MInv
<1>2. QED
  BY <1>1, MInvInit, MInvNext, PTL DEF Spec

-----------------------------------------------------------------------------
(* Bounds of the copies.                                                   *)
(*                                                                         *)
(* The region calls test end = start + len, and a build may wrap the sum   *)
(* (run jni_array_overflow).  The theorem is therefore stated for argument *)
(* sets whose sums do not leave jsize: it shows that under that condition  *)
(* the index, start, len and end tests are exactly what keeps every copy   *)
(* inside its array.                                                       *)

\* No start + len that native code passes wraps in jsize.
RegionArgsFit == \A s, l \in JArgs : JsizeWrap(s + l) = s + l

\* Every heap cell is NoArray or an array record of a known kind whose
\* length is a natural number.
HeapOK ==
  /\ DOMAIN heap = ArrayIds
  /\ \A a \in ArrayIds : heap[a] = NoArray \/
       /\ heap[a] = [kind |-> heap[a].kind, length |-> heap[a].length,
                     pinned |-> heap[a].pinned, elem_class |-> heap[a].elem_class,
                     data |-> heap[a].data]
       /\ heap[a].kind \in {"prim", "obj"}
       /\ heap[a].length \in Nat

\* Every element pointer a thread holds is into an allocated array.
ElemsAllocated ==
  \A t \in Threads : elems[t] = NoElems \/ elems[t].arr \in Allocated

AInv == HeapOK /\ ElemsOK /\ ElemsAllocated /\ AccessInBounds

LEMMA JArgsInt == JArgs \cup LengthArgs \subseteq Int
BY DEF JSIZE_MIN

\* A step that rewrites the data of an allocated array keeps every cell's
\* record shape, kind and length.
LEMMA DataUpdate ==
  ASSUME HeapOK, NEW a \in Allocated, NEW d,
         heap' = [heap EXCEPT ![a].data = d]
  PROVE  /\ HeapOK'
         /\ \A x \in ArrayIds : /\ heap'[x] = NoArray <=> heap[x] = NoArray
                                /\ heap'[x].length = heap[x].length
                                /\ heap'[x].kind = heap[x].kind
BY DEF HeapOK, Allocated, NoArray

\* A step that allocates a fresh cell keeps every other cell, and the new
\* record has a natural length.
LEMMA FreshCell ==
  ASSUME HeapOK, NEW a \in ArrayIds, heap[a] = NoArray,
         NEW k \in {"prim", "obj"}, NEW len \in Nat, NEW p, NEW ec, NEW d,
         heap' = [heap EXCEPT ![a] = [kind |-> k, length |-> len, pinned |-> p,
                                      elem_class |-> ec, data |-> d]]
  PROVE  /\ HeapOK'
         /\ \A x \in ArrayIds : heap[x] # NoArray =>
              /\ heap'[x] = heap[x]
         /\ heap'[a] # NoArray
BY DEF HeapOK, NoArray

LEMMA AInvInit == Init => AInv
<1> SUFFICES ASSUME Init PROVE AInv
  OBVIOUS
<1>1. HeapOK /\ ElemsOK /\ ElemsAllocated
  BY DEF Init, HeapOK, ElemsOK, ElemsAllocated
<1>2. AccessInBounds
  BY DEF Init, AccessInBounds
<1>3. QED
  BY <1>1, <1>2 DEF AInv

LEMMA AInvNext ==
  ASSUME RegionArgsFit
  PROVE  AInv /\ [Next]_vars => AInv'
<1> SUFFICES ASSUME AInv, [Next]_vars PROVE AInv'
  OBVIOUS
<1> USE DEF AInv
<1>1. CASE UNCHANGED vars
  BY <1>1 DEF vars, HeapOK, ElemsOK, ElemsAllocated, AccessInBounds, Allocated,
              GetArrayLength
<1>2. CASE Next
  <2>1. PICK t \in Threads :
          \/ \E length \in LengthArgs : NewArray(t, length)
          \/ \E length \in LengthArgs, cls \in Classes, init \in Objs \cup {NULL} :
               NewObjectArray(t, length, cls, init)
          \/ \E a \in Allocated, index \in JArgs :
               \/ GetObjectArrayElement(t, a, index)
               \/ \E value \in Objs \cup {NULL} : SetObjectArrayElement(t, a, index, value)
          \/ \E a \in Allocated : GetArrayElements(t, a)
          \/ \E i \in JArgs, v \in Vals : NativeWrite(t, i, v)
          \/ \E mode \in Modes : ReleaseArrayElements(t, mode)
          \/ \E a \in Allocated, start, len \in JArgs :
               GetArrayRegion(t, a, start, len) \/ SetArrayRegion(t, a, start, len)
          \/ ExceptionClear(t)
    BY <1>2 DEF Next
  <2>2. CASE \E length \in LengthArgs : NewArray(t, length)
    <3>1. PICK length \in LengthArgs : NewArray(t, length)
      BY <2>2
    <3>2. access' = NoAccess /\ UNCHANGED elems
      BY <3>1 DEF NewArray
    <3>3. CASE UNCHANGED heap
      BY <3>2, <3>3 DEF HeapOK, ElemsOK, ElemsAllocated, AccessInBounds, Allocated
    <3>4. CASE /\ calculate_array_size(length) # 0
               /\ \E a \in ArrayIds \ Allocated, pinned \in BOOLEAN :
                    heap' = [heap EXCEPT ![a] =
                               [kind |-> "prim", length |-> length, pinned |-> pinned,
                                elem_class |-> NULL,
                                data |-> [i \in 0 .. length - 1 |-> 0]]]
      <4>1. length \in Nat
        BY <3>4, JArgsInt DEF calculate_array_size
      <4>2. PICK a \in ArrayIds \ Allocated, pinned \in BOOLEAN :
                 heap' = [heap EXCEPT ![a] =
                            [kind |-> "prim", length |-> length, pinned |-> pinned,
                             elem_class |-> NULL,
                             data |-> [i \in 0 .. length - 1 |-> 0]]]
        BY <3>4
      <4>3. HeapOK' /\ \A x \in Allocated : heap'[x] = heap[x]
        BY <4>1, <4>2, FreshCell DEF Allocated
      <4>4. Allocated \subseteq Allocated'
        BY <4>3, <4>2 DEF Allocated, HeapOK
      <4>5. QED
        BY <3>2, <4>3, <4>4 DEF ElemsOK, ElemsAllocated, AccessInBounds
    <3>5. QED
      BY <3>1, <3>3, <3>4 DEF NewArray
  <2>3. CASE \E length \in LengthArgs, cls \in Classes, init \in Objs \cup {NULL} :
               NewObjectArray(t, length, cls, init)
    <3>1. PICK length \in LengthArgs, cls \in Classes, init \in Objs \cup {NULL} :
                 NewObjectArray(t, length, cls, init)
      BY <2>3
    <3>2. access' = NoAccess /\ UNCHANGED elems
      BY <3>1 DEF NewObjectArray
    <3>3. CASE UNCHANGED heap
      BY <3>2, <3>3 DEF HeapOK, ElemsOK, ElemsAllocated, AccessInBounds, Allocated
    <3>4. CASE /\ ~TwoHighestBitsSet(length)
               /\ \E a \in ArrayIds \ Allocated :
                    heap' = [heap EXCEPT ![a] =
                              [kind |-> "obj", length |-> length, pinned |-> FALSE,
                               elem_class |-> cls,
                               data |-> [i \in 0 .. length - 1 |-> init]]]
      <4>1. length \in Nat
        BY <3>4, JArgsInt DEF TwoHighestBitsSet
      <4>2. PICK a \in ArrayIds \ Allocated :
                 heap' = [heap EXCEPT ![a] =
                           [kind |-> "obj", length |-> length, pinned |-> FALSE,
                            elem_class |-> cls,
                            data |-> [i \in 0 .. length - 1 |-> init]]]
        BY <3>4
      <4>3. HeapOK' /\ \A x \in Allocated : heap'[x] = heap[x]
        BY <4>1, <4>2, FreshCell DEF Allocated
      <4>4. Allocated \subseteq Allocated'
        BY <4>3, <4>2 DEF Allocated, HeapOK
      <4>5. QED
        BY <3>2, <4>3, <4>4 DEF ElemsOK, ElemsAllocated, AccessInBounds
    <3>5. QED
      BY <3>1, <3>3, <3>4 DEF NewObjectArray
  <2>4. CASE \E a \in Allocated, index \in JArgs :
               \/ GetObjectArrayElement(t, a, index)
               \/ \E value \in Objs \cup {NULL} : SetObjectArrayElement(t, a, index, value)
    <3>1. PICK a \in Allocated, index \in JArgs :
               \/ GetObjectArrayElement(t, a, index)
               \/ \E value \in Objs \cup {NULL} : SetObjectArrayElement(t, a, index, value)
      BY <2>4
    <3>2. index \in Int
      BY JArgsInt
    <3>3. CASE GetObjectArrayElement(t, a, index)
      <4>1. UNCHANGED <<heap, elems>>
        BY <3>3 DEF GetObjectArrayElement
      <4>2. AccessInBounds'
        BY <3>2, <3>3, <4>1 DEF GetObjectArrayElement, AccessInBounds, GetArrayLength,
                                 NoAccess, Allocated, HeapOK
      <4>3. QED
        BY <4>1, <4>2 DEF HeapOK, ElemsOK, ElemsAllocated, Allocated
    <3>4. CASE \E value \in Objs \cup {NULL} : SetObjectArrayElement(t, a, index, value)
      <4>1. PICK value \in Objs \cup {NULL} : SetObjectArrayElement(t, a, index, value)
        BY <3>4
      <4>2. UNCHANGED elems
        BY <4>1 DEF SetObjectArrayElement
      <4>3. CASE UNCHANGED heap /\ access' = NoAccess
        BY <4>2, <4>3 DEF HeapOK, ElemsOK, ElemsAllocated, AccessInBounds, Allocated
      <4>4. CASE /\ ~(index < 0 \/ index >= GetArrayLength(a))
                 /\ heap' = [heap EXCEPT ![a].data[index] = value]
                 /\ access' = [arr |-> a, lo |-> index, n |-> 1]
        <5>1. heap' = [heap EXCEPT ![a].data = [heap[a].data EXCEPT ![index] = value]]
          BY <4>4
        <5>2. HeapOK' /\ \A x \in ArrayIds : /\ heap'[x] = NoArray <=> heap[x] = NoArray
                                             /\ heap'[x].length = heap[x].length
          BY <5>1, DataUpdate
        <5>3. Allocated' = Allocated
          BY <5>2 DEF Allocated
        <5>4. AccessInBounds'
          BY <3>2, <4>4, <5>2 DEF AccessInBounds, GetArrayLength, NoAccess, Allocated,
                                  HeapOK
        <5>5. QED
          BY <4>2, <5>2, <5>3, <5>4 DEF ElemsOK, ElemsAllocated
      <4>5. QED
        BY <4>1, <4>3, <4>4 DEF SetObjectArrayElement
    <3>5. QED
      BY <3>1, <3>3, <3>4
  <2>5. CASE \E a \in Allocated : GetArrayElements(t, a)
    <3>1. PICK a \in Allocated : GetArrayElements(t, a)
      BY <2>5
    <3>2. UNCHANGED heap /\ access' = [arr |-> a, lo |-> 0, n |-> GetArrayLength(a)]
      BY <3>1 DEF GetArrayElements
    <3>3. ElemsOK' /\ ElemsAllocated'
      BY <3>1, <3>2 DEF GetArrayElements, ElemsOK, ElemsAllocated, Allocated
    <3>4. AccessInBounds'
      BY <3>2 DEF AccessInBounds, GetArrayLength, NoAccess, Allocated, HeapOK
    <3>5. QED
      BY <3>2, <3>3, <3>4 DEF HeapOK
  <2>6. CASE \E i \in JArgs, v \in Vals : NativeWrite(t, i, v)
    <3>1. PICK i \in JArgs, v \in Vals : NativeWrite(t, i, v)
      BY <2>6
    <3> DEFINE h == elems[t]
    <3>2. h # NoElems /\ h.arr \in Allocated /\ access' = NoAccess
      BY <3>1 DEF NativeWrite, ElemsAllocated
    <3>3. CASE h.ptr = "direct"
      <4>1. heap' = [heap EXCEPT ![h.arr].data = [heap[h.arr].data EXCEPT ![i] = v]]
            /\ UNCHANGED elems
        BY <3>1, <3>3 DEF NativeWrite
      <4>2. HeapOK' /\ \A x \in ArrayIds : heap'[x] = NoArray <=> heap[x] = NoArray
        BY <3>2, <4>1, DataUpdate
      <4>3. QED
        BY <3>2, <4>1, <4>2 DEF ElemsOK, ElemsAllocated, AccessInBounds, Allocated
    <3>4. CASE h.ptr # "direct"
      <4>1. elems' = [elems EXCEPT ![t] = [arr |-> h.arr, ptr |-> h.ptr,
                                            buf |-> [h.buf EXCEPT ![i] = v]]]
            /\ UNCHANGED heap
        BY <3>1, <3>4 DEF NativeWrite, ElemsOK
      <4>2. QED
        BY <3>2, <4>1, NoElemsDistinct DEF HeapOK, ElemsOK, ElemsAllocated,
                                           AccessInBounds, Allocated
    <3>5. QED
      BY <3>3, <3>4
  <2>7. CASE \E mode \in Modes : ReleaseArrayElements(t, mode)
    <3>1. PICK mode \in Modes : ReleaseArrayElements(t, mode)
      BY <2>7
    <3> DEFINE h == elems[t]
    <3>2. h # NoElems /\ h.arr \in Allocated
      BY <3>1 DEF ReleaseArrayElements, ElemsAllocated
    <3>3. elems' = elems \/ elems' = [elems EXCEPT ![t] = NoElems]
      BY <3>1 DEF ReleaseArrayElements
    <3>4. /\ HeapOK'
          /\ \A x \in ArrayIds : /\ heap'[x] = NoArray <=> heap[x] = NoArray
                                 /\ heap'[x].length = heap[x].length
      <4>1. CASE heap' = [heap EXCEPT ![h.arr].data = PointedElements(h)]
        BY <3>2, <4>1, DataUpdate
      <4>2. CASE heap' = heap
        BY <4>2 DEF HeapOK
      <4>3. QED
        BY <3>1, <4>1, <4>2 DEF ReleaseArrayElements
    <3>5. Allocated' = Allocated
      BY <3>4 DEF Allocated
    <3>6. ElemsOK' /\ ElemsAllocated'
      BY <3>3, <3>5 DEF ElemsOK, ElemsAllocated
    <3>7. access' = NoAccess \/ access' = [arr |-> h.arr, lo |-> 0, n |-> GetArrayLength(h.arr)]
      BY <3>1 DEF ReleaseArrayElements
    <3>8. AccessInBounds'
      BY <3>2, <3>4, <3>7 DEF AccessInBounds, GetArrayLength, NoAccess, Allocated, HeapOK
    <3>9. QED
      BY <3>4, <3>6, <3>8
  <2>8. CASE \E a \in Allocated, start, len \in JArgs :
               GetArrayRegion(t, a, start, len) \/ SetArrayRegion(t, a, start, len)
    <3>1. PICK a \in Allocated, start, len \in JArgs :
               GetArrayRegion(t, a, start, len) \/ SetArrayRegion(t, a, start, len)
      BY <2>8
    <3>2. start \in Int /\ len \in Int /\ RegionEnds(start, len) = {start + len}
      BY JArgsInt DEF RegionEnds, RegionArgsFit
    <3>3. UNCHANGED elems
      BY <3>1 DEF GetArrayRegion, SetArrayRegion
    <3>4. /\ HeapOK'
          /\ \A x \in ArrayIds : /\ heap'[x] = NoArray <=> heap[x] = NoArray
                                 /\ heap'[x].length = heap[x].length
      <4>1. CASE GetArrayRegion(t, a, start, len)
        BY <4>1 DEF GetArrayRegion, HeapOK
      <4>2. CASE SetArrayRegion(t, a, start, len) /\ heap' = heap
        BY <4>2 DEF HeapOK
      <4>3. CASE SetArrayRegion(t, a, start, len) /\ heap' # heap
        <5>1. PICK v \in Vals :
                heap' = [heap EXCEPT ![a].data =
                           [i \in DOMAIN heap[a].data |-> IF i \in start .. start + len - 1
                                                          THEN v ELSE heap[a].data[i]]]
          BY <4>3 DEF SetArrayRegion
        <5>2. QED
          BY <5>1, DataUpdate
      <4>4. QED
        BY <3>1, <4>1, <4>2, <4>3
    <3>5. Allocated' = Allocated
      BY <3>4 DEF Allocated
    <3>6. access' = NoAccess \/
          /\ ~RegionRejected(a, start, len, start + len)
          /\ access' = [arr |-> a, lo |-> start, n |-> len]
      BY <3>1, <3>2 DEF GetArrayRegion, SetArrayRegion
    <3>7. AccessInBounds'
      BY <3>2, <3>4, <3>6 DEF AccessInBounds, GetArrayLength, NoAccess, Allocated,
                              RegionRejected, HeapOK
    <3>8. QED
      BY <3>3, <3>4, <3>5, <3>7 DEF ElemsOK, ElemsAllocated
  <2>9. CASE ExceptionClear(t)
    BY <2>9 DEF ExceptionClear, HeapOK, ElemsOK, ElemsAllocated, AccessInBounds,
                Allocated, NoAccess
  <2>10. QED
    BY <2>1, <2>2, <2>3, <2>4, <2>5, <2>6, <2>7, <2>8, <2>9
<1>3. QED
  BY <1>1, <1>2

\* For every instance whose region arguments do not wrap jsize, every copy
\* the JNI array functions make (the memcpy of Get/Set<Type>ArrayRegion
\* and of Get/Release<Type>ArrayElements, and the element access of
\* Get/SetObjectArrayElement) stays inside its array: the index, start,
\* len and end checks are sufficient once start + len is exact.
THEOREM AccessInBoundsInvariant == RegionArgsFit => (Spec => []AccessInBounds)
<1> SUFFICES ASSUME RegionArgsFit PROVE Spec => []AccessInBounds
  OBVIOUS
<1>1. AInv => AccessInBounds
  BY DEF AInv
<1>2. AInv /\ [Next]_vars => AInv'
  BY AInvNext
<1>3. QED
  BY <1>1, <1>2, AInvInit, PTL DEF Spec


-----------------------------------------------------------------------------
(* Type correctness.  TypeOK says what every heap cell, element pointer    *)
(* and result is, but not that heap and elems are functions on ArrayIds    *)
(* and Threads with records of a fixed shape, which the EXCEPT updates of  *)
(* the actions need: TInv adds HeapOK and ElemsOK.  Its parts are named    *)
(* so that each action's step can say which of them it disturbs.          *)

\* The element type of an array record.
ElemType(r) == IF r.kind = "prim" THEN Vals ELSE Objs \cup {NULL}

HeapTyped == \A a \in ArrayIds : heap[a] = NoArray \/ IsArrayRec(heap[a])

ElemsTyped ==
  \A t \in Threads : elems[t] = NoElems \/
    /\ elems[t].arr \in Allocated
    /\ heap[elems[t].arr].kind = "prim"
    /\ elems[t].ptr \in Blocks \cup {"direct"}
    /\ elems[t].buf \in IF elems[t].ptr = "direct" THEN {<<>>}
                        ELSE [Indices(elems[t].arr) -> Vals]

ExnTyped == exn \in [Threads -> Exceptions \cup {NoExn}]

AccessTyped == access = NoAccess \/ access \in [arr : Allocated, lo : Int, n : Int]

ResultTyped ==
  new_result = NoResult \/ new_result \in [thread : Threads, res : ArrayIds \cup {NULL}]

TInv == HeapOK /\ ElemsOK /\ TypeOK


\* Rewriting the data of an allocated array with elements of its type
\* keeps every cell an array record, of the same kind and length.
LEMMA DataTyped ==
  ASSUME HeapOK, HeapTyped, NEW a \in Allocated,
         NEW d \in [0 .. heap[a].length - 1 -> ElemType(heap[a])],
         heap' = [heap EXCEPT ![a].data = d]
  PROVE  /\ HeapOK' /\ HeapTyped'
         /\ \A x \in Allocated : /\ heap'[x] # NoArray
                                 /\ heap'[x].kind = heap[x].kind
                                 /\ heap'[x].length = heap[x].length
<1>1. HeapOK' /\ \A x \in ArrayIds : (heap'[x] = NoArray <=> heap[x] = NoArray)
                                      /\ heap'[x].length = heap[x].length
                                      /\ heap'[x].kind = heap[x].kind
  <2>1. a \in ArrayIds /\ heap[a] # NoArray
    BY DEF Allocated
  <2>2. HeapOK'
    BY <2>1 DEF HeapOK, NoArray
  <2>3. \A x \in ArrayIds : (heap'[x] = NoArray <=> heap[x] = NoArray)
                            /\ heap'[x].length = heap[x].length
                            /\ heap'[x].kind = heap[x].kind
    BY <2>1 DEF HeapOK, NoArray
  <2>4. QED
    BY <2>2, <2>3
<1>2. heap[a] # NoArray /\ IsArrayRec(heap[a])
  BY DEF HeapTyped, Allocated
<1>3. heap'[a] = [kind |-> heap[a].kind, length |-> heap[a].length,
                  pinned |-> heap[a].pinned, elem_class |-> heap[a].elem_class,
                  data |-> d]
  BY <1>2 DEF HeapOK, Allocated
<1>4. IsArrayRec(heap'[a])
  BY <1>2, <1>3 DEF IsArrayRec, ElemType
<1>5. QED
  BY <1>1, <1>4 DEF HeapTyped, HeapOK, Allocated

\* Allocating a fresh cell with an array record keeps every allocated
\* cell and allocates the new one.
LEMMA FreshTyped ==
  ASSUME HeapOK, HeapTyped, NEW a \in ArrayIds, heap[a] = NoArray,
         NEW k \in {"prim", "obj"}, NEW len \in Nat, NEW p, NEW ec, NEW d,
         IsArrayRec([kind |-> k, length |-> len, pinned |-> p, elem_class |-> ec, data |-> d]),
         heap' = [heap EXCEPT ![a] = [kind |-> k, length |-> len, pinned |-> p,
                                      elem_class |-> ec, data |-> d]]
  PROVE  /\ HeapOK' /\ HeapTyped'
         /\ \A x \in Allocated : heap'[x] = heap[x]
         /\ a \in Allocated'
<1>1. HeapOK' /\ \A x \in ArrayIds : heap[x] # NoArray => heap'[x] = heap[x]
  BY DEF HeapOK, NoArray
<1>2. \A x \in ArrayIds \ {a} : heap'[x] = heap[x]
  BY DEF HeapOK
<1>3. HeapTyped'
  BY <1>2 DEF HeapTyped, HeapOK
<1>4. a \in Allocated'
  BY DEF HeapOK, Allocated, NoArray
<1>5. QED
  BY <1>1, <1>3, <1>4 DEF Allocated

\* A step that keeps every allocated cell's kind and length keeps the
\* element pointers and the access record typed when it leaves them alone.
LEMMA ElemsFrame ==
  ASSUME ElemsTyped, UNCHANGED elems,
         \A x \in Allocated : /\ heap'[x] # NoArray
                              /\ heap'[x].kind = heap[x].kind
                              /\ heap'[x].length = heap[x].length
  PROVE  ElemsTyped'
<1> SUFFICES ASSUME NEW t \in Threads, elems'[t] # NoElems
             PROVE  /\ elems'[t].arr \in Allocated'
                    /\ heap'[elems'[t].arr].kind = "prim"
                    /\ elems'[t].ptr \in Blocks \cup {"direct"}
                    /\ elems'[t].buf \in IF elems'[t].ptr = "direct" THEN {<<>>}
                                         ELSE [0 .. heap'[elems'[t].arr].length - 1 -> Vals]
  BY Zenon DEF ElemsTyped, Indices, GetArrayLength
<1>1. PICK e : e = elems[t] /\ e = elems'[t]
  OBVIOUS
<1>2. /\ e.arr \in Allocated
      /\ heap[e.arr].kind = "prim"
      /\ e.ptr \in Blocks \cup {"direct"}
      /\ e.buf \in IF e.ptr = "direct" THEN {<<>>}
                   ELSE [0 .. heap[e.arr].length - 1 -> Vals]
  <2>1. elems[t] # NoElems
    BY <1>1
  <2>2. QED
    BY <1>1, <2>1, Zenon DEF ElemsTyped, Indices, GetArrayLength
<1>3. e.arr \in Allocated' /\ heap'[e.arr].kind = "prim"
      /\ heap'[e.arr].length = heap[e.arr].length
  BY <1>2 DEF Allocated
<1>4. QED
  BY <1>1, <1>2, <1>3

\* A step that gives thread t a new element pointer r, typed in the heap
\* before the step, and keeps every allocated cell's kind and length, keeps
\* the element pointers well-formed and typed.
LEMMA ElemsSetTyped ==
  ASSUME ElemsOK, ElemsTyped, NEW t \in Threads, NEW r,
         \/ r = NoElems
         \/ /\ r = [arr |-> r.arr, ptr |-> r.ptr, buf |-> r.buf]
            /\ r.arr \in Allocated
            /\ heap[r.arr].kind = "prim"
            /\ r.ptr \in Blocks \cup {"direct"}
            /\ r.buf \in IF r.ptr = "direct" THEN {<<>>} ELSE [Indices(r.arr) -> Vals],
         elems' = [elems EXCEPT ![t] = r],
         \A x \in Allocated : /\ heap'[x] # NoArray
                              /\ heap'[x].kind = heap[x].kind
                              /\ heap'[x].length = heap[x].length
  PROVE  ElemsOK' /\ ElemsTyped'
<1>1. ElemsOK'
  <2>1. DOMAIN elems' = Threads
        /\ \A u \in Threads : elems'[u] = IF u = t THEN r ELSE elems[u]
    BY DEF ElemsOK
  <2>2. \/ r = NoElems
        \/ /\ r = [arr |-> r.arr, ptr |-> r.ptr, buf |-> r.buf]
           /\ r.arr \in ArrayIds
           /\ r.ptr \in Blocks \cup {"direct"}
    BY DEF Allocated
  <2>3. QED
    BY <2>1, <2>2 DEF ElemsOK
<1>2. SUFFICES ASSUME NEW u \in Threads, elems'[u] # NoElems
               PROVE  /\ elems'[u].arr \in Allocated'
                      /\ heap'[elems'[u].arr].kind = "prim"
                      /\ elems'[u].ptr \in Blocks \cup {"direct"}
                      /\ elems'[u].buf \in IF elems'[u].ptr = "direct" THEN {<<>>}
                                           ELSE [0 .. heap'[elems'[u].arr].length - 1 -> Vals]
  BY <1>1, Zenon DEF ElemsTyped, Indices, GetArrayLength
<1>3. PICK e : e = elems'[u] /\ (u = t => e = r) /\ (u # t => e = elems[u])
  BY DEF ElemsOK
<1>4. /\ e.arr \in Allocated
      /\ heap[e.arr].kind = "prim"
      /\ e.ptr \in Blocks \cup {"direct"}
      /\ e.buf \in IF e.ptr = "direct" THEN {<<>>} ELSE [Indices(e.arr) -> Vals]
  <2>1. CASE u = t
    BY <1>2, <1>3, <2>1
  <2>2. CASE u # t
    BY <1>2, <1>3, <2>2, Zenon DEF ElemsTyped
  <2>3. QED
    BY <2>1, <2>2
<1>5. e.arr \in Allocated' /\ heap'[e.arr].kind = "prim"
      /\ heap'[e.arr].length = heap[e.arr].length
  BY <1>4 DEF Allocated
<1>6. QED
  BY <1>3, <1>4, <1>5 DEF Indices, GetArrayLength

LEMMA AllocatedGrows ==
  ASSUME \A x \in Allocated : heap'[x] # NoArray
  PROVE  Allocated \subseteq Allocated'
BY DEF Allocated


\* TInv and its parts.
LEMMA TInvUnfold ==
  ASSUME TInv
  PROVE  /\ HeapOK /\ ElemsOK /\ HeapTyped /\ ExnTyped /\ ElemsTyped
         /\ mallocd \subseteq Blocks /\ AccessTyped /\ ResultTyped
         /\ free_error \in BOOLEAN /\ null_write \in BOOLEAN
BY Zenon DEF TInv, TypeOK, HeapTyped, ExnTyped, ElemsTyped, AccessTyped, ResultTyped

LEMMA TInvFold ==
  ASSUME HeapOK', ElemsOK', HeapTyped', ExnTyped', ElemsTyped',
         mallocd' \subseteq Blocks, AccessTyped', ResultTyped',
         free_error' \in BOOLEAN, null_write' \in BOOLEAN
  PROVE  TInv'
BY Zenon DEF TInv, TypeOK, HeapTyped, ExnTyped, ElemsTyped, AccessTyped, ResultTyped

\* A step that leaves the heap and the element pointers alone.
LEMMA HeapElemsFrame ==
  ASSUME TInv, UNCHANGED <<heap, elems>>
  PROVE  HeapOK' /\ HeapTyped' /\ ElemsOK' /\ ElemsTyped'
<1>1. HeapOK /\ HeapTyped /\ ElemsOK /\ ElemsTyped
  BY TInvUnfold
<1>2. HeapOK' /\ HeapTyped' /\ ElemsOK'
  BY <1>1 DEF HeapOK, HeapTyped, ElemsOK
<1>3. ElemsTyped'
  BY <1>1, ElemsFrame DEF Allocated
<1>4. QED
  BY <1>2, <1>3

\* Raise(t, e) of one of the JNI exceptions keeps exn typed.
LEMMA RaiseTyped ==
  ASSUME ExnTyped, NEW t \in Threads, NEW e \in Exceptions, Raise(t, e)
  PROVE  ExnTyped'
BY DEF ExnTyped, Raise

LEMMA NewArrayTyped ==
  ASSUME TInv, NEW t \in Threads, NEW length \in LengthArgs, NewArray(t, length)
  PROVE  TInv'
<1>0. /\ HeapOK /\ ElemsOK /\ HeapTyped /\ ExnTyped /\ ElemsTyped
      /\ mallocd \subseteq Blocks /\ AccessTyped /\ ResultTyped
      /\ free_error \in BOOLEAN /\ null_write \in BOOLEAN
  BY TInvUnfold
<1>1. UNCHANGED <<exn, elems, mallocd, free_error, null_write>> /\ access' = NoAccess
  BY DEF NewArray
<1>2. ResultTyped'
  BY DEF NewArray, ResultTyped, Allocated
<1>3. /\ HeapOK' /\ HeapTyped'
      /\ \A x \in Allocated : /\ heap'[x] # NoArray
                              /\ heap'[x].kind = heap[x].kind
                              /\ heap'[x].length = heap[x].length
  <2>1. CASE UNCHANGED heap
    BY <1>0, <2>1 DEF HeapOK, HeapTyped, Allocated
  <2>2. CASE /\ calculate_array_size(length) # 0
             /\ \E a \in ArrayIds \ Allocated, pinned \in BOOLEAN :
                  heap' = [heap EXCEPT ![a] =
                             [kind |-> "prim", length |-> length, pinned |-> pinned,
                              elem_class |-> NULL,
                              data |-> [i \in 0 .. length - 1 |-> 0]]]
    <3>1. length \in Nat
      BY <2>2, JArgsInt DEF calculate_array_size
    <3>2. PICK a \in ArrayIds \ Allocated, pinned \in BOOLEAN :
               heap' = [heap EXCEPT ![a] =
                          [kind |-> "prim", length |-> length, pinned |-> pinned,
                           elem_class |-> NULL,
                           data |-> [i \in 0 .. length - 1 |-> 0]]]
      BY <2>2, Zenon
    <3>3. IsArrayRec([kind |-> "prim", length |-> length, pinned |-> pinned,
                      elem_class |-> NULL, data |-> [i \in 0 .. length - 1 |-> 0]])
      BY <3>1 DEF IsArrayRec
    <3>4. heap[a] = NoArray
      BY <3>2 DEF Allocated
    <3>5. HeapOK' /\ HeapTyped' /\ \A x \in Allocated : heap'[x] = heap[x]
      BY <1>0, <3>1, <3>2, <3>3, <3>4, FreshTyped, Zenon
    <3>6. QED
      BY <3>5 DEF Allocated
  <2>3. QED
    BY <2>1, <2>2 DEF NewArray
<1>4. ElemsTyped' /\ ElemsOK'
  BY <1>0, <1>1, <1>3, ElemsFrame DEF ElemsOK
<1>5. QED
  BY <1>0, <1>1, <1>2, <1>3, <1>4, TInvFold DEF ExnTyped, AccessTyped

LEMMA NewObjectArrayTyped ==
  ASSUME TInv, NEW t \in Threads, NEW length \in LengthArgs, NEW cls \in Classes,
         NEW init \in Objs \cup {NULL}, NewObjectArray(t, length, cls, init)
  PROVE  TInv'
<1>0. /\ HeapOK /\ ElemsOK /\ HeapTyped /\ ExnTyped /\ ElemsTyped
      /\ mallocd \subseteq Blocks /\ AccessTyped /\ ResultTyped
      /\ free_error \in BOOLEAN /\ null_write \in BOOLEAN
  BY TInvUnfold
<1>1. UNCHANGED <<elems, mallocd, free_error, null_write>> /\ access' = NoAccess
  BY DEF NewObjectArray
<1>2. ResultTyped'
  BY DEF NewObjectArray, ResultTyped, Allocated
<1>3. ExnTyped'
  <2>1. UNCHANGED exn \/ \E e \in Exceptions : Raise(t, e)
    BY DEF NewObjectArray, Exceptions
  <2>2. QED
    BY <1>0, <2>1, RaiseTyped DEF ExnTyped
<1>4. /\ HeapOK' /\ HeapTyped'
      /\ \A x \in Allocated : /\ heap'[x] # NoArray
                              /\ heap'[x].kind = heap[x].kind
                              /\ heap'[x].length = heap[x].length
  <2>1. CASE UNCHANGED heap
    BY <1>0, <2>1 DEF HeapOK, HeapTyped, Allocated
  <2>2. CASE /\ ~TwoHighestBitsSet(length)
             /\ \E a \in ArrayIds \ Allocated :
                  heap' = [heap EXCEPT ![a] =
                            [kind |-> "obj", length |-> length, pinned |-> FALSE,
                             elem_class |-> cls,
                             data |-> [i \in 0 .. length - 1 |-> init]]]
    <3>1. length \in Nat
      BY <2>2, JArgsInt DEF TwoHighestBitsSet
    <3>2. PICK a \in ArrayIds \ Allocated :
               heap' = [heap EXCEPT ![a] =
                         [kind |-> "obj", length |-> length, pinned |-> FALSE,
                          elem_class |-> cls,
                          data |-> [i \in 0 .. length - 1 |-> init]]]
      BY <2>2, Zenon
    <3>3. IsArrayRec([kind |-> "obj", length |-> length, pinned |-> FALSE,
                      elem_class |-> cls, data |-> [i \in 0 .. length - 1 |-> init]])
      BY <3>1 DEF IsArrayRec
    <3>4. heap[a] = NoArray
      BY <3>2 DEF Allocated
    <3>5. HeapOK' /\ HeapTyped' /\ \A x \in Allocated : heap'[x] = heap[x]
      BY <1>0, <3>1, <3>2, <3>3, <3>4, FreshTyped, Zenon
    <3>6. QED
      BY <3>5 DEF Allocated
  <2>3. QED
    BY <2>1, <2>2 DEF NewObjectArray
<1>5. ElemsTyped' /\ ElemsOK'
  BY <1>0, <1>1, <1>4, ElemsFrame DEF ElemsOK
<1>6. QED
  BY <1>0, <1>1, <1>2, <1>3, <1>4, <1>5, TInvFold DEF AccessTyped


LEMMA GetObjectArrayElementTyped ==
  ASSUME TInv, NEW t \in Threads, NEW a \in Allocated, NEW index \in JArgs,
         GetObjectArrayElement(t, a, index)
  PROVE  TInv'
<1>0. /\ HeapOK /\ ElemsOK /\ HeapTyped /\ ExnTyped /\ ElemsTyped
      /\ mallocd \subseteq Blocks /\ AccessTyped /\ ResultTyped
      /\ free_error \in BOOLEAN /\ null_write \in BOOLEAN
  BY TInvUnfold
<1>1. UNCHANGED <<heap, elems, mallocd, free_error, null_write>> /\ new_result' = NoResult
  BY DEF GetObjectArrayElement
<1>2. HeapOK' /\ HeapTyped' /\ ElemsOK' /\ ElemsTyped'
  BY <1>1, HeapElemsFrame
<1>3. ExnTyped'
  <2>1. UNCHANGED exn \/ Raise(t, "ArrayIndexOutOfBoundsException")
    BY DEF GetObjectArrayElement
  <2>2. QED
    BY <1>0, <2>1, RaiseTyped DEF ExnTyped, Exceptions
<1>4. AccessTyped'
  <2>1. access' = NoAccess \/ access' = [arr |-> a, lo |-> index, n |-> 1]
    BY DEF GetObjectArrayElement
  <2>2. QED
    BY <1>1, <2>1, JArgsInt DEF AccessTyped, Allocated
<1>5. QED
  BY <1>0, <1>1, <1>2, <1>3, <1>4, TInvFold DEF ResultTyped

LEMMA SetObjectArrayElementTyped ==
  ASSUME TInv, NEW t \in Threads, NEW a \in Allocated, NEW index \in JArgs,
         NEW value \in Objs \cup {NULL}, SetObjectArrayElement(t, a, index, value)
  PROVE  TInv'
<1>0. /\ HeapOK /\ ElemsOK /\ HeapTyped /\ ExnTyped /\ ElemsTyped
      /\ mallocd \subseteq Blocks /\ AccessTyped /\ ResultTyped
      /\ free_error \in BOOLEAN /\ null_write \in BOOLEAN
  BY TInvUnfold
<1>1. UNCHANGED <<elems, mallocd, free_error, null_write>> /\ new_result' = NoResult
  BY DEF SetObjectArrayElement
<1>2. CASE /\ \E e \in Exceptions : Raise(t, e)
           /\ UNCHANGED heap /\ access' = NoAccess
  <2>1. HeapOK' /\ HeapTyped' /\ ElemsOK' /\ ElemsTyped'
    BY <1>1, <1>2, HeapElemsFrame
  <2>2. ExnTyped'
    BY <1>0, <1>2, RaiseTyped
  <2>3. QED
    BY <1>0, <1>1, <1>2, <2>1, <2>2, TInvFold DEF ResultTyped, AccessTyped
<1>3. CASE /\ ~(index < 0 \/ index >= GetArrayLength(a))
           /\ heap[a].kind = "obj"
           /\ heap' = [heap EXCEPT ![a].data[index] = value]
           /\ access' = [arr |-> a, lo |-> index, n |-> 1]
           /\ UNCHANGED exn
  <2>1. index \in 0 .. heap[a].length - 1
    BY <1>0, <1>3, JArgsInt DEF GetArrayLength, HeapOK, Allocated
  <2>2. IsArrayRec(heap[a])
    BY <1>0 DEF HeapTyped, Allocated
  <2>3. [heap[a].data EXCEPT ![index] = value]
          \in [0 .. heap[a].length - 1 -> ElemType(heap[a])]
    BY <1>3, <2>1, <2>2 DEF IsArrayRec, ElemType
  <2>4. heap' = [heap EXCEPT ![a].data = [heap[a].data EXCEPT ![index] = value]]
    BY <1>3
  <2>5. /\ HeapOK' /\ HeapTyped'
        /\ \A x \in Allocated : /\ heap'[x] # NoArray
                                /\ heap'[x].kind = heap[x].kind
                                /\ heap'[x].length = heap[x].length
    BY <1>0, <2>3, <2>4, DataTyped, Zenon
  <2>6. ElemsTyped' /\ ElemsOK'
    BY <1>0, <1>1, <2>5, ElemsFrame DEF ElemsOK
  <2>7. AccessTyped'
    BY <1>3, <2>5, JArgsInt DEF AccessTyped, Allocated
  <2>8. QED
    BY <1>0, <1>1, <1>3, <2>5, <2>6, <2>7, TInvFold DEF ResultTyped, ExnTyped
<1>4. QED
  BY <1>2, <1>3, Zenon DEF SetObjectArrayElement, Exceptions

LEMMA GetArrayElementsTyped ==
  ASSUME TInv, NEW t \in Threads, NEW a \in Allocated, GetArrayElements(t, a)
  PROVE  TInv'
<1>0. /\ HeapOK /\ ElemsOK /\ HeapTyped /\ ExnTyped /\ ElemsTyped
      /\ mallocd \subseteq Blocks /\ AccessTyped /\ ResultTyped
      /\ free_error \in BOOLEAN /\ null_write \in BOOLEAN
  BY TInvUnfold
<1>1. /\ UNCHANGED <<heap, exn, free_error>> /\ new_result' = NoResult
      /\ access' = [arr |-> a, lo |-> 0, n |-> GetArrayLength(a)]
      /\ heap[a].kind = "prim"
  BY DEF GetArrayElements
<1>2. HeapOK' /\ HeapTyped' /\ AccessTyped'
  BY <1>0, <1>1 DEF HeapOK, HeapTyped, AccessTyped, Allocated, GetArrayLength
<1>3. heap[a].data \in [Indices(a) -> Vals]
  BY <1>0, <1>1 DEF HeapTyped, IsArrayRec, Allocated, Indices, GetArrayLength
<1>4. \A u \in Threads : elems[u] # NoElems =>
        /\ elems[u].arr \in Allocated
        /\ heap[elems[u].arr].kind = "prim"
        /\ elems[u].ptr \in Blocks \cup {"direct"}
        /\ elems[u].buf \in IF elems[u].ptr = "direct" THEN {<<>>}
                            ELSE [Indices(elems[u].arr) -> Vals]
  BY <1>0, Zenon DEF ElemsTyped
<1>5. CASE /\ elems' = [elems EXCEPT ![t] = [arr |-> a, ptr |-> "direct", buf |-> <<>>]]
           /\ UNCHANGED <<mallocd, null_write>>
  <2>1. ElemsOK' /\ ElemsTyped'
    <3> DEFINE r == [arr |-> a, ptr |-> "direct", buf |-> <<>>]
    <3>1. /\ r = [arr |-> r.arr, ptr |-> r.ptr, buf |-> r.buf]
          /\ r.arr \in Allocated
          /\ heap[r.arr].kind = "prim"
          /\ r.ptr \in Blocks \cup {"direct"}
          /\ r.buf \in IF r.ptr = "direct" THEN {<<>>} ELSE [Indices(r.arr) -> Vals]
      BY <1>1
    <3>2. \A x \in Allocated : /\ heap'[x] # NoArray
                               /\ heap'[x].kind = heap[x].kind
                               /\ heap'[x].length = heap[x].length
      BY <1>1 DEF Allocated
    <3>3. elems' = [elems EXCEPT ![t] = r]
      BY <1>5
    <3> HIDE DEF r
    <3>4. QED
      BY <1>0, <3>1, <3>2, <3>3, ElemsSetTyped, Zenon
  <2>2. QED
    BY <1>0, <1>1, <1>2, <1>5, <2>1, TInvFold DEF ResultTyped, ExnTyped
<1>6. CASE \E b \in Blocks \ mallocd :
             /\ mallocd' = mallocd \cup {b}
             /\ elems' = [elems EXCEPT ![t] = [arr |-> a, ptr |-> b, buf |-> heap[a].data]]
             /\ UNCHANGED null_write
  <2>1. PICK b \in Blocks \ mallocd :
             /\ mallocd' = mallocd \cup {b}
             /\ elems' = [elems EXCEPT ![t] = [arr |-> a, ptr |-> b, buf |-> heap[a].data]]
             /\ UNCHANGED null_write
    BY <1>6, Zenon
  <2>2. b # "direct"
    BY JniAssumption
  <2>3. ElemsOK' /\ ElemsTyped'
    <3> DEFINE r == [arr |-> a, ptr |-> b, buf |-> heap[a].data]
    <3>1. /\ r = [arr |-> r.arr, ptr |-> r.ptr, buf |-> r.buf]
          /\ r.arr \in Allocated
          /\ heap[r.arr].kind = "prim"
          /\ r.ptr \in Blocks \cup {"direct"}
          /\ r.buf \in IF r.ptr = "direct" THEN {<<>>} ELSE [Indices(r.arr) -> Vals]
      BY <1>1, <1>3, <2>2
    <3>2. \A x \in Allocated : /\ heap'[x] # NoArray
                               /\ heap'[x].kind = heap[x].kind
                               /\ heap'[x].length = heap[x].length
      BY <1>1 DEF Allocated
    <3>3. elems' = [elems EXCEPT ![t] = r]
      BY <2>1
    <3> HIDE DEF r
    <3>4. QED
      BY <1>0, <3>1, <3>2, <3>3, ElemsSetTyped, Zenon
  <2>4. QED
    BY <1>0, <1>1, <1>2, <2>1, <2>3, TInvFold DEF ResultTyped, ExnTyped
<1>7. CASE null_write' = TRUE /\ UNCHANGED <<elems, mallocd>>
  <2>1. ElemsOK' /\ ElemsTyped'
    BY <1>1, <1>7, HeapElemsFrame
  <2>2. QED
    BY <1>0, <1>1, <1>2, <1>7, <2>1, TInvFold DEF ResultTyped, ExnTyped
<1>8. QED
  BY <1>5, <1>6, <1>7, Zenon DEF GetArrayElements


\* The element pointer a thread holds, when it holds one, is a typed record.
LEMMA HeldTyped ==
  ASSUME ElemsOK, ElemsTyped, NEW t \in Threads, elems[t] # NoElems
  PROVE  /\ elems[t] = [arr |-> elems[t].arr, ptr |-> elems[t].ptr, buf |-> elems[t].buf]
         /\ elems[t].arr \in Allocated
         /\ heap[elems[t].arr].kind = "prim"
         /\ elems[t].ptr \in Blocks \cup {"direct"}
         /\ elems[t].buf \in IF elems[t].ptr = "direct" THEN {<<>>}
                             ELSE [Indices(elems[t].arr) -> Vals]
BY Zenon DEF ElemsOK, ElemsTyped

LEMMA NativeWriteTyped ==
  ASSUME TInv, NEW t \in Threads, NEW i \in JArgs, NEW v \in Vals, NativeWrite(t, i, v)
  PROVE  TInv'
<1>0. /\ HeapOK /\ ElemsOK /\ HeapTyped /\ ExnTyped /\ ElemsTyped
      /\ mallocd \subseteq Blocks /\ AccessTyped /\ ResultTyped
      /\ free_error \in BOOLEAN /\ null_write \in BOOLEAN
  BY TInvUnfold
<1>1. PICK h : h = elems[t]
  OBVIOUS
<1>2. /\ UNCHANGED <<exn, mallocd, free_error, null_write>>
      /\ access' = NoAccess /\ new_result' = NoResult
      /\ h # NoElems /\ i \in Indices(h.arr)
  BY <1>1 DEF NativeWrite
<1>3. /\ h = [arr |-> h.arr, ptr |-> h.ptr, buf |-> h.buf]
      /\ h.arr \in Allocated
      /\ heap[h.arr].kind = "prim"
      /\ h.ptr \in Blocks \cup {"direct"}
      /\ h.buf \in IF h.ptr = "direct" THEN {<<>>} ELSE [Indices(h.arr) -> Vals]
  BY <1>0, <1>1, <1>2, HeldTyped, Zenon
<1>4. CASE h.ptr = "direct"
  <2>1. heap' = [heap EXCEPT ![h.arr].data = [heap[h.arr].data EXCEPT ![i] = v]]
        /\ UNCHANGED elems
    BY <1>1, <1>4 DEF NativeWrite
  <2>2. [heap[h.arr].data EXCEPT ![i] = v]
          \in [0 .. heap[h.arr].length - 1 -> ElemType(heap[h.arr])]
    BY <1>0, <1>2, <1>3 DEF HeapTyped, IsArrayRec, ElemType, Indices, GetArrayLength,
                            Allocated
  <2>3. /\ HeapOK' /\ HeapTyped'
        /\ \A x \in Allocated : /\ heap'[x] # NoArray
                                /\ heap'[x].kind = heap[x].kind
                                /\ heap'[x].length = heap[x].length
    BY <1>0, <1>3, <2>1, <2>2, DataTyped, Zenon
  <2>4. ElemsTyped' /\ ElemsOK'
    BY <1>0, <2>1, <2>3, ElemsFrame DEF ElemsOK
  <2>5. QED
    BY <1>0, <1>2, <2>3, <2>4, TInvFold DEF ExnTyped, AccessTyped, ResultTyped
<1>5. CASE h.ptr # "direct"
  <2> DEFINE r == [arr |-> h.arr, ptr |-> h.ptr, buf |-> [h.buf EXCEPT ![i] = v]]
  <2>1. elems' = [elems EXCEPT ![t] = r] /\ UNCHANGED heap
    BY <1>1, <1>3, <1>5 DEF NativeWrite
  <2>2. /\ r = [arr |-> r.arr, ptr |-> r.ptr, buf |-> r.buf]
        /\ r.arr \in Allocated
        /\ heap[r.arr].kind = "prim"
        /\ r.ptr \in Blocks \cup {"direct"}
        /\ r.buf \in IF r.ptr = "direct" THEN {<<>>} ELSE [Indices(r.arr) -> Vals]
    BY <1>2, <1>3, <1>5
  <2>3. \A x \in Allocated : /\ heap'[x] # NoArray
                             /\ heap'[x].kind = heap[x].kind
                             /\ heap'[x].length = heap[x].length
    BY <2>1 DEF Allocated
  <2> HIDE DEF r
  <2>4. ElemsOK' /\ ElemsTyped'
    BY <1>0, <2>1, <2>2, <2>3, ElemsSetTyped, Zenon
  <2>5. HeapOK' /\ HeapTyped'
    BY <1>0, <2>1 DEF HeapOK, HeapTyped
  <2>6. QED
    BY <1>0, <1>2, <2>4, <2>5, TInvFold DEF ExnTyped, AccessTyped, ResultTyped
<1>6. QED
  BY <1>4, <1>5


LEMMA ReleaseTyped ==
  ASSUME TInv, NEW t \in Threads, NEW mode \in Modes, ReleaseArrayElements(t, mode)
  PROVE  TInv'
<1>0. /\ HeapOK /\ ElemsOK /\ HeapTyped /\ ExnTyped /\ ElemsTyped
      /\ mallocd \subseteq Blocks /\ AccessTyped /\ ResultTyped
      /\ free_error \in BOOLEAN /\ null_write \in BOOLEAN
  BY TInvUnfold
<1>1. PICK h : h = elems[t]
  OBVIOUS
<1>2. /\ UNCHANGED <<exn, null_write>> /\ new_result' = NoResult
      /\ h # NoElems
  BY <1>1 DEF ReleaseArrayElements
<1>3. /\ h.arr \in Allocated
      /\ heap[h.arr].kind = "prim"
      /\ h.buf \in IF h.ptr = "direct" THEN {<<>>} ELSE [Indices(h.arr) -> Vals]
  BY <1>0, <1>1, <1>2, HeldTyped, Zenon
<1>4. /\ HeapOK' /\ HeapTyped'
      /\ \A x \in Allocated : /\ heap'[x] # NoArray
                              /\ heap'[x].kind = heap[x].kind
                              /\ heap'[x].length = heap[x].length
  <2>1. CASE heap' = [heap EXCEPT ![h.arr].data = h.buf] /\ h.ptr # "direct"
    <3>1. h.buf \in [0 .. heap[h.arr].length - 1 -> ElemType(heap[h.arr])]
      BY <1>3, <2>1 DEF ElemType, Indices, GetArrayLength
    <3>2. QED
      BY <1>0, <1>3, <2>1, <3>1, DataTyped, Zenon
  <2>2. CASE heap' = heap
    BY <1>0, <2>2 DEF HeapOK, HeapTyped, Allocated
  <2>3. \/ heap' = [heap EXCEPT ![h.arr].data = h.buf] /\ h.ptr # "direct"
        \/ heap' = heap
    <3>1. CASE h.ptr # "direct" /\ mode \in {0, JNI_COMMIT}
      <4>1. heap' = [heap EXCEPT ![h.arr].data = PointedElements(h)]
        BY <1>1, <3>1 DEF ReleaseArrayElements
      <4>2. QED
        BY <3>1, <4>1 DEF PointedElements
    <3>2. CASE ~(h.ptr # "direct" /\ mode \in {0, JNI_COMMIT})
      BY <1>1, <3>2 DEF ReleaseArrayElements
    <3>3. QED
      BY <3>1, <3>2
  <2>4. QED
    BY <2>1, <2>2, <2>3
<1>5. ElemsOK' /\ ElemsTyped'
  <2>1. CASE elems' = elems
    BY <1>0, <1>4, <2>1, ElemsFrame DEF ElemsOK
  <2>2. CASE elems' = [elems EXCEPT ![t] = NoElems]
    BY <1>0, <1>4, <2>2, ElemsSetTyped, Zenon
  <2>3. QED
    BY <1>1, <2>1, <2>2 DEF ReleaseArrayElements
<1>6. mallocd' \subseteq Blocks /\ free_error' \in BOOLEAN
  <2>1. \/ mallocd' = mallocd \ {h.ptr} /\ free_error' = (free_error \/ h.ptr \notin mallocd)
        \/ UNCHANGED <<mallocd, free_error>>
    BY <1>1 DEF ReleaseArrayElements, STD_FREE
  <2>2. QED
    BY <1>0, <2>1, Zenon
<1>7. AccessTyped'
  <2>1. access' = NoAccess \/ access' = [arr |-> h.arr, lo |-> 0, n |-> GetArrayLength(h.arr)]
    BY <1>1 DEF ReleaseArrayElements
  <2>2. h.arr \in Allocated'
    BY <1>3, <1>4 DEF Allocated
  <2>3. GetArrayLength(h.arr) \in Int
    BY <1>0, <1>3 DEF GetArrayLength, HeapOK, Allocated
  <2>4. QED
    BY <2>1, <2>2, <2>3 DEF AccessTyped
<1>8. QED
  BY <1>0, <1>2, <1>4, <1>5, <1>6, <1>7, TInvFold DEF ExnTyped, ResultTyped

\* The data a successful Set<Type>ArrayRegion writes: v over the region.
LEMMA RegionDataTyped ==
  ASSUME HeapTyped, NEW a \in Allocated, heap[a].kind = "prim",
         NEW start \in Int, NEW len \in Int, NEW v \in Vals
  PROVE  [i \in DOMAIN heap[a].data |-> IF i \in start .. start + len - 1
                                      THEN v ELSE heap[a].data[i]]
           \in [0 .. heap[a].length - 1 -> ElemType(heap[a])]
BY DEF HeapTyped, IsArrayRec, ElemType, Allocated

LEMMA RegionTyped ==
  ASSUME TInv, NEW t \in Threads, NEW a \in Allocated, NEW start \in JArgs,
         NEW len \in JArgs,
         GetArrayRegion(t, a, start, len) \/ SetArrayRegion(t, a, start, len)
  PROVE  TInv'
<1>0. /\ HeapOK /\ ElemsOK /\ HeapTyped /\ ExnTyped /\ ElemsTyped
      /\ mallocd \subseteq Blocks /\ AccessTyped /\ ResultTyped
      /\ free_error \in BOOLEAN /\ null_write \in BOOLEAN
  BY TInvUnfold
<1>1. /\ UNCHANGED <<elems, mallocd, free_error, null_write>> /\ new_result' = NoResult
      /\ heap[a].kind = "prim"
      /\ start \in Int /\ len \in Int
  BY JArgsInt DEF GetArrayRegion, SetArrayRegion
<1>2. ExnTyped'
  <2>1. UNCHANGED exn \/ Raise(t, "ArrayIndexOutOfBoundsException")
    BY DEF GetArrayRegion, SetArrayRegion
  <2>2. QED
    BY <1>0, <2>1, RaiseTyped DEF ExnTyped, Exceptions
<1>4. /\ HeapOK' /\ HeapTyped'
      /\ \A x \in Allocated : /\ heap'[x] # NoArray
                              /\ heap'[x].kind = heap[x].kind
                              /\ heap'[x].length = heap[x].length
  <2>1. CASE heap' = heap
    BY <1>0, <2>1 DEF HeapOK, HeapTyped, Allocated
  <2>2. CASE \E v \in Vals :
               heap' = [heap EXCEPT ![a].data =
                          [i \in DOMAIN heap[a].data |-> IF i \in start .. start + len - 1
                                                         THEN v ELSE heap[a].data[i]]]
    <3>1. PICK v \in Vals :
               heap' = [heap EXCEPT ![a].data =
                          [i \in DOMAIN heap[a].data |-> IF i \in start .. start + len - 1
                                                         THEN v ELSE heap[a].data[i]]]
      BY <2>2, Zenon
    <3>2. [i \in DOMAIN heap[a].data |-> IF i \in start .. start + len - 1
                                        THEN v ELSE heap[a].data[i]]
            \in [0 .. heap[a].length - 1 -> ElemType(heap[a])]
      BY <1>0, <1>1, <3>1, RegionDataTyped
    <3>3. QED
      BY <1>0, <3>1, <3>2, DataTyped, Zenon
  <2>3. QED
    BY <2>1, <2>2 DEF GetArrayRegion, SetArrayRegion
<1>5. ElemsOK' /\ ElemsTyped'
  BY <1>0, <1>1, <1>4, ElemsFrame DEF ElemsOK
<1>6. AccessTyped'
  <2>1. access' = NoAccess \/ access' = [arr |-> a, lo |-> start, n |-> len]
    BY DEF GetArrayRegion, SetArrayRegion
  <2>2. QED
    BY <1>1, <1>4, <2>1 DEF AccessTyped, Allocated
<1>7. QED
  BY <1>0, <1>1, <1>2, <1>4, <1>5, <1>6, TInvFold DEF ResultTyped

LEMMA ExceptionClearTyped ==
  ASSUME TInv, NEW t \in Threads, ExceptionClear(t)
  PROVE  TInv'
<1>0. /\ HeapOK /\ ElemsOK /\ HeapTyped /\ ExnTyped /\ ElemsTyped
      /\ mallocd \subseteq Blocks /\ AccessTyped /\ ResultTyped
      /\ free_error \in BOOLEAN /\ null_write \in BOOLEAN
  BY TInvUnfold
<1>1. /\ UNCHANGED <<heap, elems, mallocd, free_error, null_write>>
      /\ access' = NoAccess /\ new_result' = NoResult
      /\ exn' = [exn EXCEPT ![t] = NoExn]
  BY DEF ExceptionClear
<1>2. HeapOK' /\ HeapTyped' /\ ElemsOK' /\ ElemsTyped'
  BY <1>1, HeapElemsFrame
<1>3. QED
  BY <1>0, <1>1, <1>2, TInvFold DEF ExnTyped, AccessTyped, ResultTyped


LEMMA TInvInit == Init => TInv
<1> SUFFICES ASSUME Init PROVE TInv
  OBVIOUS
<1>1. HeapOK /\ ElemsOK /\ HeapTyped /\ ElemsTyped
  BY DEF Init, HeapOK, ElemsOK, HeapTyped, ElemsTyped
<1>2. ExnTyped /\ AccessTyped /\ ResultTyped
  BY DEF Init, ExnTyped, AccessTyped, ResultTyped
<1>3. mallocd \subseteq Blocks /\ free_error \in BOOLEAN /\ null_write \in BOOLEAN
  BY DEF Init
<1>4. QED
  BY <1>1, <1>2, <1>3, Zenon DEF TInv, TypeOK, HeapTyped, ExnTyped, ElemsTyped,
                                 AccessTyped, ResultTyped

LEMMA TInvNext == TInv /\ [Next]_vars => TInv'
<1> SUFFICES ASSUME TInv, [Next]_vars PROVE TInv'
  OBVIOUS
<1>1. CASE UNCHANGED vars
  <2>1. UNCHANGED <<heap, elems>>
    BY <1>1 DEF vars
  <2>2. QED
    BY <1>1, <2>1, TInvUnfold, HeapElemsFrame, TInvFold
       DEF vars, ExnTyped, AccessTyped, ResultTyped, Allocated
<1>2. CASE Next
  <2>1. PICK t \in Threads :
          \/ \E length \in LengthArgs : NewArray(t, length)
          \/ \E length \in LengthArgs, cls \in Classes, init \in Objs \cup {NULL} :
               NewObjectArray(t, length, cls, init)
          \/ \E a \in Allocated, index \in JArgs :
               \/ GetObjectArrayElement(t, a, index)
               \/ \E value \in Objs \cup {NULL} : SetObjectArrayElement(t, a, index, value)
          \/ \E a \in Allocated : GetArrayElements(t, a)
          \/ \E i \in JArgs, v \in Vals : NativeWrite(t, i, v)
          \/ \E mode \in Modes : ReleaseArrayElements(t, mode)
          \/ \E a \in Allocated, start, len \in JArgs :
               GetArrayRegion(t, a, start, len) \/ SetArrayRegion(t, a, start, len)
          \/ ExceptionClear(t)
    BY <1>2 DEF Next
  <2>2. QED
    BY <2>1, NewArrayTyped, NewObjectArrayTyped, GetObjectArrayElementTyped,
       SetObjectArrayElementTyped, GetArrayElementsTyped, NativeWriteTyped,
       ReleaseTyped, RegionTyped, ExceptionClearTyped
<1>3. QED
  BY <1>1, <1>2

\* Every state the JNI array functions reach is well typed, for every
\* number of threads, heap cells and blocks and every jsize width: each
\* constructor stores a record whose data has exactly length elements of
\* its kind, every write (SetObjectArrayElement, NativeWrite, Release's
\* copy-back, SetArrayRegion) keeps an array's length and element type,
\* and Get<Type>ArrayElements hands out only pointers into allocated
\* primitive arrays.  No bound on start + len is needed.
THEOREM JniTypeCorrect == Spec => []TypeOK
<1>1. TInv => TypeOK
  BY DEF TInv
<1>2. QED
  BY <1>1, TInvInit, TInvNext, PTL DEF Spec

=============================================================================
