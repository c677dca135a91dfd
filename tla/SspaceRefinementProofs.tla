----------------------- MODULE SspaceRefinementProofs -----------------------
(***************************************************************************)
(* The slot allocator implements SlotAlloc, for every geometry and every   *)
(* set of mutators and chunks, when chunk set-up makes the padding fields  *)
(* of the last word look allocated: an initial state maps to an initial    *)
(* state, AcquireChunk to Acquire, the write-back of alloc_in_chunk to     *)
(* Alloc, and every other step to a stutter.  The argument rests on KInv  *)
(* of SspaceCursorProofs in the states before and after the step.          *)
(***************************************************************************)
EXTENDS SspaceCursorProofs

\* The refinement mapping of SlotAllocAbs, named.
AllocatedBar ==
  [c \in Chunks |-> {s \in Slots : slot_is_alloc_in_table(table[c], s)}]
UsedBar == {c \in Chunks : status[c] = CHUNK_USED_NORMAL}
LeastFreeBar(c) ==
  CHOOSE s \in Slots \ AllocatedBar[c] :
    \A t \in Slots \ AllocatedBar[c] : s <= t

LEMMA BarIsView ==
  ASSUME NEW c \in Chunks
  PROVE  AllocatedBar[c] = AllocView(table[c]) \cap Slots
BY SlotsInTable DEF AllocatedBar, AllocView

-----------------------------------------------------------------------------
(* Initial states.                                                         *)

LEMMA RefInit ==
  ASSUME Init, PAD_LAST_WORD
  PROVE  SlotAllocAbs!Init
<1>1. PICK survivors \in [Chunks -> (SUBSET Slots) \ {Slots}] :
        table = [c \in Chunks |-> InitTable(survivors[c])]
  BY DEF Init
<1>2. cur_alloc_color = 0
  BY DEF Init
<1>3. \A c \in Chunks : AllocatedBar[c] = survivors[c]
  <2> SUFFICES ASSUME NEW c \in Chunks PROVE AllocatedBar[c] = survivors[c]
    OBVIOUS
  <2>1. AllocView(table[c]) = survivors[c] \cup (TableSlots \ Slots)
    BY <1>1, <1>2, InitView
  <2>2. QED
    BY <2>1, BarIsView
<1>4. AllocatedBar \in [Chunks -> (SUBSET Slots) \ {Slots}]
  BY <1>1, <1>3 DEF AllocatedBar
<1>5. UsedBar = {}
  BY DEF Init, UsedBar, CHUNK_FREE, CHUNK_USED_NORMAL
<1>6. local_chunk = [m \in Mutators |-> NULL]
  BY DEF Init
<1>7. SlotAllocAbs!Init <=>
        /\ AllocatedBar \in [Chunks -> (SUBSET Slots) \ {Slots}]
        /\ local_chunk = [m \in Mutators |-> NULL]
        /\ UsedBar = {}
  BY DEF SlotAllocAbs!Init, SlotAllocAbs!Slots, Slots, AllocatedBar, UsedBar
<1> HIDE DEF AllocatedBar, UsedBar
<1>8. QED
  BY <1>4, <1>5, <1>6, <1>7

-----------------------------------------------------------------------------
(* SlotAlloc's actions under the mapping.                                  *)

LEMMA AbsAcquire ==
  ASSUME NEW m \in Mutators, NEW c \in Chunks
  PROVE  SlotAllocAbs!Acquire(m, c) <=>
           /\ local_chunk[m] = NULL
           /\ c \notin UsedBar
           /\ \A n \in Mutators : local_chunk[n] # c
           /\ local_chunk' = [local_chunk EXCEPT ![m] = c]
           /\ AllocatedBar' = AllocatedBar
           /\ UsedBar' = UsedBar
BY DEF SlotAllocAbs!Acquire, AllocatedBar, UsedBar

LEMMA AbsAlloc ==
  ASSUME NEW m \in Mutators
  PROVE  SlotAllocAbs!Alloc(m) <=>
           LET c == local_chunk[m]
               now == AllocatedBar[c] \cup {LeastFreeBar(c)}
           IN  /\ c # NULL
               /\ AllocatedBar' = [AllocatedBar EXCEPT ![c] = now]
               /\ IF now = Slots
                  THEN /\ local_chunk' = [local_chunk EXCEPT ![m] = NULL]
                       /\ UsedBar' = UsedBar \cup {c}
                  ELSE /\ local_chunk' = local_chunk
                       /\ UsedBar' = UsedBar
BY DEF SlotAllocAbs!Alloc, SlotAllocAbs!LeastFree, SlotAllocAbs!Slots, Slots,
       AllocatedBar, UsedBar, LeastFreeBar

LEMMA AbsUnchanged ==
  ASSUME AllocatedBar' = AllocatedBar, local_chunk' = local_chunk,
         UsedBar' = UsedBar
  PROVE  UNCHANGED SlotAllocAbs!vars
BY DEF SlotAllocAbs!vars, AllocatedBar, UsedBar

\* A step that keeps every chunk's alloc view keeps the mapped allocation.
LEMMA BarSame ==
  ASSUME \A c \in Chunks : AllocView(table[c])' = AllocView(table[c])
  PROVE  AllocatedBar' = AllocatedBar
BY SlotsInTable DEF AllocatedBar, AllocView

-----------------------------------------------------------------------------
(* Steps.                                                                  *)

\* Taking a free chunk is SlotAlloc's Acquire: nobody holds a free chunk
\* (Ownership) and it was not handed back.
LEMMA RefAcquire ==
  ASSUME KInv, NEW m \in Mutators, NEW c0 \in Chunks, AcquireChunk(m, c0)
  PROVE  SlotAllocAbs!Acquire(m, c0)
<1>0. TypeOK /\ Ownership
  BY DEF KInv, IInv
<1>1. /\ local_chunk[m] = NULL /\ status[c0] = CHUNK_FREE
      /\ local_chunk' = [local_chunk EXCEPT ![m] = c0]
      /\ status' = [status EXCEPT ![c0] = CHUNK_NORMAL]
      /\ UNCHANGED <<table, cur_alloc_color>>
  BY DEF AcquireChunk
<1>2. c0 \notin UsedBar
  BY <1>1 DEF UsedBar, CHUNK_FREE, CHUNK_USED_NORMAL
<1>3. \A n \in Mutators : local_chunk[n] # c0
  BY <1>0, <1>1, ChunkAssumption DEF Ownership, CHUNK_FREE, CHUNK_NORMAL
<1>4. AllocatedBar' = AllocatedBar
  BY <1>1, ViewSame, BarSame
<1>5. UsedBar' = UsedBar
  <2>1. \A c \in Chunks : status'[c] = CHUNK_USED_NORMAL <=> status[c] = CHUNK_USED_NORMAL
    BY <1>0, <1>1 DEF TypeOK, CHUNK_FREE, CHUNK_NORMAL, CHUNK_USED_NORMAL
  <2>2. QED
    BY <2>1 DEF UsedBar
<1>6. QED
  BY <1>1, <1>2, <1>3, <1>4, <1>5, AbsAcquire

\* The write-back of alloc_in_chunk is SlotAlloc's Alloc: the slot set is
\* the cursor, the least free slot of the chunk (CursorOK), and the chunk
\* is handed back exactly when it is now full (ChunkOK after the step).
LEMMA RefWrite ==
  ASSUME KInv, KInv', NEW m \in Mutators, AllocWrite(m)
  PROVE  SlotAllocAbs!Alloc(m)
<1>0. /\ TypeOK /\ Ownership /\ PInv /\ NULL \notin Chunks
      /\ \A c \in Chunks : ChunkOK(c)
      /\ \A c \in Chunks : ChunkOK(c)'
  BY ChunkAssumption DEF KInv, IInv, PInv
<1>1. alloc_pc[m] = "write" /\ cur_alloc_color' = cur_alloc_color
  BY DEF AllocWrite
<1>2. PICK c0 \in Chunks : c0 = local_chunk[m]
  BY <1>0, <1>1 DEF Ownership, TypeOK
<1> DEFINE s == slot_index[c0]
           now == AllocatedBar[c0] \cup {LeastFreeBar(c0)}
<1>3. status[c0] = CHUNK_NORMAL
  BY <1>0, <1>1, <1>2 DEF Ownership, TypeOK
<1>4. /\ s \in Slots /\ s \notin AllocView(table[c0])
      /\ 0 .. s - 1 \subseteq AllocView(table[c0])
  BY <1>0, <1>3 DEF ChunkOK, CursorOK, CHUNK_NORMAL, CHUNK_USED_NORMAL
\* The cursor is the least free slot SlotAlloc chooses.
<1>5. LeastFreeBar(c0) = s
  <2>1. /\ s \in Slots \ AllocatedBar[c0]
        /\ \A t \in Slots \ AllocatedBar[c0] : s <= t
    BY <1>4, BarIsView, SlotAssumption DEF Slots
  <2>2. /\ LeastFreeBar(c0) \in Slots \ AllocatedBar[c0]
        /\ \A t \in Slots \ AllocatedBar[c0] : LeastFreeBar(c0) <= t
    BY <2>1 DEF LeastFreeBar
  <2>3. QED
    BY <2>1, <2>2, SlotAssumption DEF Slots
\* The store adds exactly the cursor to the chunk's allocated slots.
<1>6. /\ \A c \in Chunks \ {c0} : table'[c] = table[c]
      /\ AllocView(table'[c0]) = AllocView(table[c0]) \cup {s}
  BY <1>0, <1>2, WriteTable
<1>7. \A c \in Chunks : AllocatedBar'[c] = AllocView(table'[c]) \cap Slots
  BY <1>1, SlotsInTable DEF AllocatedBar, AllocView, slot_is_alloc_in_table
<1>8. AllocatedBar' = [AllocatedBar EXCEPT ![c0] = now]
  <2>1. AllocatedBar'[c0] = now
    BY <1>4, <1>5, <1>6, <1>7, BarIsView
  <2>2. \A c \in Chunks \ {c0} : AllocatedBar'[c] = AllocatedBar[c]
    BY <1>6, <1>7, BarIsView
  <2>3. AllocatedBar' = [c \in Chunks |-> AllocatedBar'[c]]
        /\ AllocatedBar = [c \in Chunks |-> AllocatedBar[c]]
    BY DEF AllocatedBar
  <2> HIDE DEF AllocatedBar, now
  <2>4. QED
    BY <2>1, <2>2, <2>3
\* The view after the step, as ChunkOK' reads it.
<1>9. AllocView(table[c0])' = AllocView(table'[c0])
  BY <1>1 DEF AllocView, slot_is_alloc_in_table
<1>10. now = AllocatedBar'[c0]
  BY <1>8 DEF AllocatedBar
\* What SlotAlloc's Alloc requires, for the chunk held.
<1> DEFINE AbsStep ==
      LET c == local_chunk[m]
          nw == AllocatedBar[c] \cup {LeastFreeBar(c)}
      IN  /\ c # NULL
          /\ AllocatedBar' = [AllocatedBar EXCEPT ![c] = nw]
          /\ IF nw = Slots
             THEN /\ local_chunk' = [local_chunk EXCEPT ![m] = NULL]
                  /\ UsedBar' = UsedBar \cup {c}
             ELSE /\ local_chunk' = local_chunk
                  /\ UsedBar' = UsedBar
<1>11. AbsStep => SlotAllocAbs!Alloc(m)
  BY AbsAlloc
<1>12. c0 # NULL
  BY ChunkAssumption
<1>13. CASE /\ status' = [status EXCEPT ![c0] = CHUNK_USED_NORMAL]
            /\ local_chunk' = [local_chunk EXCEPT ![m] = NULL]
  <2>0. status'[c0] = CHUNK_USED_NORMAL
    BY <1>0, <1>13 DEF TypeOK
  <2>1. Slots \subseteq AllocView(table'[c0])
    <3>1. ChunkOK(c0)'
      BY <1>0
    <3>2. Slots \subseteq AllocView(table[c0])'
      BY <3>1, <2>0 DEF ChunkOK
    <3>3. QED
      BY <3>2, <1>9
  <2>2. now = Slots
    BY <1>7, <1>10, <2>1
  <2>3. UsedBar' = UsedBar \cup {c0}
    <3>1. \A c \in Chunks : status'[c] = CHUNK_USED_NORMAL <=>
                             (status[c] = CHUNK_USED_NORMAL \/ c = c0)
      BY <1>0, <1>13 DEF TypeOK
    <3>2. QED
      BY <3>1 DEF UsedBar
  <2>4. AbsStep
    BY <1>2, <1>8, <1>13, <1>12, <2>2, <2>3
  <2>5. QED
    BY <1>11, <2>4
<1>14. CASE UNCHANGED <<status, local_chunk>>
  <2>1. slot_index'[c0] \in Slots /\ slot_index'[c0] \notin AllocView(table'[c0])
    BY <1>0, <1>3, <1>9, <1>14 DEF ChunkOK, CursorOK, CHUNK_NORMAL, CHUNK_USED_NORMAL
  <2>2. now # Slots
    BY <1>7, <1>10, <2>1
  <2>3. UsedBar' = UsedBar
    BY <1>14 DEF UsedBar
  <2>4. AbsStep
    BY <1>2, <1>8, <1>14, <1>12, <2>2, <2>3
  <2>5. QED
    BY <1>11, <2>4
<1>15. \/ /\ status' = [status EXCEPT ![c0] = CHUNK_USED_NORMAL]
          /\ local_chunk' = [local_chunk EXCEPT ![m] = NULL]
       \/ UNCHANGED <<status, local_chunk>>
  BY <1>2 DEF AllocWrite
<1>16. QED
  BY <1>13, <1>14, <1>15

\* Every other step leaves the mapped state alone.
LEMMA RefStutter ==
  ASSUME KInv,
         \/ \E m \in Mutators : AllocRead(m)
         \/ \E c \in Chunks, t \in Slots : MarkSlot(c, t)
         \/ StartConcurrentMark \/ FinishConcurrentMark \/ UNCHANGED vars
  PROVE  UNCHANGED SlotAllocAbs!vars
<1>0. TypeOK /\ cur_alloc_color = 0 /\ cur_mark_color = 2
  BY DEF KInv, IInv, ColorsFixed
<1>1. UNCHANGED <<local_chunk, status, cur_alloc_color>>
  BY DEF AllocRead, MarkSlot, StartConcurrentMark, FinishConcurrentMark, vars
<1>2. \A c \in Chunks : AllocView(table[c])' = AllocView(table[c])
  <2>1. CASE \E c0 \in Chunks, t \in Slots : MarkSlot(c0, t)
    <3>1. PICK c0 \in Chunks, t \in Slots : MarkSlot(c0, t)
      BY <2>1
    <3>2. table' = [table EXCEPT ![c0] = obj_mark_black_in_table(table[c0], t)]
      BY <3>1 DEF MarkSlot
    <3>3. AllocView(obj_mark_black_in_table(table[c0], t)) = AllocView(table[c0])
      BY <1>0, MarkView, SlotsInTable DEF TypeOK
    <3>4. \A c \in Chunks : AllocView(table[c])' = AllocView(table'[c])
      BY <1>1 DEF AllocView, slot_is_alloc_in_table
    <3>5. QED
      BY <1>0, <3>2, <3>3, <3>4 DEF TypeOK
  <2>2. CASE ~\E c0 \in Chunks, t \in Slots : MarkSlot(c0, t)
    <3>1. UNCHANGED table
      BY <2>2 DEF AllocRead, StartConcurrentMark, FinishConcurrentMark, vars
    <3>2. QED
      BY <1>1, <3>1, ViewSame
  <2>3. QED
    BY <2>1, <2>2
<1>3. QED
  BY <1>1, <1>2, BarSame, AbsUnchanged DEF UsedBar

LEMMA RefStep ==
  ASSUME KInv, KInv', [Next]_vars
  PROVE  [SlotAllocAbs!Next]_SlotAllocAbs!vars
<1>1. CASE \E m \in Mutators, c \in Chunks : AcquireChunk(m, c)
  BY <1>1, RefAcquire DEF SlotAllocAbs!Next
<1>2. CASE \E m \in Mutators : AllocWrite(m)
  BY <1>2, RefWrite DEF SlotAllocAbs!Next
<1>3. CASE \/ \E m \in Mutators : AllocRead(m)
           \/ \E c \in Chunks, t \in Slots : MarkSlot(c, t)
           \/ StartConcurrentMark \/ FinishConcurrentMark \/ UNCHANGED vars
  BY <1>3, RefStutter
<1>4. QED
  BY <1>1, <1>2, <1>3 DEF Next

\* When chunk set-up makes the padding fields look allocated, the colour
\* table allocator with its split load and store of the table word and a
\* concurrent marker implements SlotAlloc: alloc_in_chunk hands out exactly
\* the least free slot of its chunk and nulls the chunk pointer on exactly
\* the allocation that fills the chunk.
THEOREM AllocRefinement == PAD_LAST_WORD => (Spec => AllocRefinesSlotAlloc)
<1> SUFFICES ASSUME PAD_LAST_WORD PROVE Spec => AllocRefinesSlotAlloc
  OBVIOUS
<1>1. Spec => []KInv
  <2>1. Init => KInv
    BY KInvInit
  <2>2. KInv /\ [Next]_vars => KInv'
    BY KInvNext
  <2>3. QED
    BY <2>1, <2>2, PTL DEF Spec
<1>2. Init => SlotAllocAbs!Init
  BY RefInit
<1>3. KInv /\ KInv' /\ [Next]_vars => [SlotAllocAbs!Next]_SlotAllocAbs!vars
  BY RefStep
<1>4. QED
  BY <1>1, <1>2, <1>3, PTL DEF Spec, AllocRefinesSlotAlloc, SlotAllocAbs!Spec

=============================================================================
