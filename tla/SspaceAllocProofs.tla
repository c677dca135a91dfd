------------------------- MODULE SspaceAllocProofs -------------------------
(***************************************************************************)
(* Proofs about SspaceAlloc for every value of the constants: type         *)
(* correctness and allocate-black.                                         *)
(*                                                                         *)
(* Allocate-black is not inductive by itself: the write-back of            *)
(* alloc_slot_in_table stores a word the mutator read one step earlier,    *)
(* so the proof needs (a) that a chunk has at most one owner, so no other  *)
(* thread writes alloc bits or black slots of it, and (b) that the word a  *)
(* mutator holds between its read and its write already carries the mark  *)
(* of every black slot of that word.                                       *)
(***************************************************************************)
EXTENDS SspaceAlloc, SspaceTableLemmas, FiniteSetTheorems, TLAPS

\* The colours stay those of Init (no flip is modelled yet).
ColorsFixed == cur_alloc_color = 0 /\ cur_mark_color = 2

\* A chunk pointer held by a mutator is a CHUNK_NORMAL chunk, a chunk not
\* yet exhausted has a cursor inside its table, no two mutators hold the
\* same chunk, and only a mutator holding a chunk is between the read and
\* the write of an allocation.
Ownership ==
  /\ \A m \in Mutators : local_chunk[m] # NULL =>
        status[local_chunk[m]] = CHUNK_NORMAL
  /\ \A c \in Chunks : status[c] \in {CHUNK_FREE, CHUNK_NORMAL} =>
        slot_index[c] \in TableSlots
  /\ \A m1, m2 \in Mutators :
        local_chunk[m1] = local_chunk[m2] /\ local_chunk[m1] # NULL => m1 = m2
  /\ \A m \in Mutators : alloc_pc[m] = "write" => local_chunk[m] # NULL

\* The word read by a mutator that has still to write it back carries the
\* mark bit of every black slot of that word.
PendingWordHasMarks ==
  \A m \in Mutators : alloc_pc[m] = "write" =>
    \A s \in black[local_chunk[m]] :
      WordOf(s) = WordOf(slot_index[local_chunk[m]]) =>
        word_read[m][IndexInWord(s) + cur_mark_color] = 1

IInv ==
  /\ TypeOK
  /\ ColorsFixed
  /\ Ownership
  /\ AllocateBlack
  /\ PendingWordHasMarks

-----------------------------------------------------------------------------
(* The inductive invariant.                                                *)

\* Chunk set-up and thread start give states of the invariant.
THEOREM IInvInit == Init => IInv
<1> SUFFICES ASSUME Init PROVE IInv
  OBVIOUS
<1>1. PICK survivors \in [Chunks -> (SUBSET Slots) \ {Slots}] :
        /\ table = [c \in Chunks |-> InitTable(survivors[c])]
        /\ alloc_num = [c \in Chunks |-> Cardinality(survivors[c])]
        /\ slot_index \in [Chunks -> Slots]
  BY DEF Init
<1>2. table \in [Chunks -> Table]
  BY <1>1 DEF InitTable, Table, Word
<1>3. slot_index \in [Chunks -> TableSlots \cup {MAX_SLOT_INDEX}]
  BY <1>1, SlotsInTable
<1>4. alloc_num \in [Chunks -> Nat]
  <2>1. SUFFICES ASSUME NEW c \in Chunks PROVE Cardinality(survivors[c]) \in Nat
    BY <1>1
  <2>2. IsFiniteSet(Slots)
    BY SlotAssumption, FS_Interval DEF Slots
  <2>3. IsFiniteSet(survivors[c])
    BY <1>1, <2>2, FS_Subset
  <2>4. QED
    BY <2>3, FS_CardinalityType
<1>5. TypeOK
  BY <1>2, <1>3, <1>4, WordAssumption DEF Init, TypeOK, Word, BitIndex
<1>6. \A c \in Chunks : slot_index[c] \in TableSlots
  BY <1>1, SlotsInTable
<1>7. QED
  BY <1>5, <1>6, ChunkAssumption
     DEF Init, IInv, ColorsFixed, Ownership, AllocateBlack, PendingWordHasMarks

\* Taking a free chunk keeps the invariant: the chunk had no holder.
LEMMA AcquireChunkInv ==
  ASSUME IInv, NEW m \in Mutators, NEW c \in Chunks, AcquireChunk(m, c)
  PROVE  IInv'
<1>0. /\ TypeOK /\ Ownership /\ NULL \notin Chunks
      /\ local_chunk' = [local_chunk EXCEPT ![m] = c]
      /\ status' = [status EXCEPT ![c] = CHUNK_NORMAL]
      /\ local_chunk[m] = NULL /\ status[c] = CHUNK_FREE
  BY ChunkAssumption DEF IInv, AcquireChunk
<1>1. alloc_pc[m] = "idle"
  BY <1>0 DEF Ownership, TypeOK
<1>2. \A m2 \in Mutators : local_chunk[m2] # c
  BY <1>0 DEF Ownership, TypeOK, CHUNK_FREE, CHUNK_NORMAL
<1>3. TypeOK'
  BY <1>0 DEF TypeOK, AcquireChunk
<1>4. Ownership'
  <2>1. (\A m1 \in Mutators : local_chunk[m1] # NULL =>
           status[local_chunk[m1]] = CHUNK_NORMAL)'
    BY <1>0, <1>2 DEF Ownership, TypeOK
  <2>2. (\A c1 \in Chunks : status[c1] \in {CHUNK_FREE, CHUNK_NORMAL} =>
           slot_index[c1] \in TableSlots)'
    BY <1>0 DEF Ownership, TypeOK, AcquireChunk
  <2>3. (\A m1, m2 \in Mutators :
           local_chunk[m1] = local_chunk[m2] /\ local_chunk[m1] # NULL => m1 = m2)'
    BY <1>0, <1>2 DEF Ownership, TypeOK
  <2>4. (\A m1 \in Mutators : alloc_pc[m1] = "write" => local_chunk[m1] # NULL)'
    BY <1>0, <1>1 DEF Ownership, TypeOK, AcquireChunk
  <2>5. QED
    BY <2>1, <2>2, <2>3, <2>4 DEF Ownership
<1>5. (ColorsFixed /\ AllocateBlack)'
  BY DEF IInv, AcquireChunk, ColorsFixed, AllocateBlack, SlotIsMarked
<1>6. PendingWordHasMarks'
  BY <1>0, <1>1 DEF IInv, TypeOK, AcquireChunk, PendingWordHasMarks
<1>7. QED
  BY <1>3, <1>4, <1>5, <1>6 DEF IInv

\* The read half of the |= loads a word in which every black slot already
\* carries its mark (allocate-black holds of the table it reads).
LEMMA AllocReadInv ==
  ASSUME IInv, NEW m \in Mutators, AllocRead(m)
  PROVE  IInv'
<1> DEFINE c == local_chunk[m]
           w == WordOf(slot_index[c])
<1>0. /\ TypeOK /\ Ownership /\ AllocateBlack /\ ColorsFixed
      /\ PendingWordHasMarks /\ NULL \notin Chunks
  BY ChunkAssumption DEF IInv
<1>1. /\ c # NULL /\ alloc_pc[m] = "idle"
      /\ alloc_num' = [alloc_num EXCEPT ![c] = @ + 1]
      /\ word_read' = [word_read EXCEPT ![m] = table[c][w]]
      /\ alloc_pc' = [alloc_pc EXCEPT ![m] = "write"]
      /\ UNCHANGED <<table, slot_index, status, local_chunk, phase,
                     cur_alloc_color, cur_mark_color, black>>
  BY DEF AllocRead
<1>2. c \in Chunks /\ slot_index[c] \in TableSlots
  BY <1>0, <1>1 DEF TypeOK, Ownership, CHUNK_NORMAL
<1>3. w \in WordIndex
  BY <1>2, WordOfTableSlot
<1>4. TypeOK'
  BY <1>0, <1>1, <1>2, <1>3 DEF TypeOK, Table
<1>5. Ownership'
  BY <1>0, <1>1 DEF Ownership, TypeOK
<1>6. (ColorsFixed /\ AllocateBlack)'
  BY <1>0, <1>1 DEF ColorsFixed, AllocateBlack, SlotIsMarked
<1>7. PendingWordHasMarks'
  <2> SUFFICES ASSUME NEW m2 \in Mutators, alloc_pc'[m2] = "write",
                      NEW s \in black[local_chunk[m2]],
                      WordOf(s) = WordOf(slot_index[local_chunk[m2]])
               PROVE  word_read'[m2][IndexInWord(s) + cur_mark_color] = 1
    BY <1>1 DEF PendingWordHasMarks
  <2>1. CASE m2 = m
    <3>1. table[c][WordOf(s)][IndexInWord(s) + cur_mark_color] = 1
      BY <1>0, <1>2, <2>1 DEF AllocateBlack, SlotIsMarked
    <3>2. QED
      BY <1>0, <1>1, <2>1, <3>1 DEF TypeOK
  <2>4. CASE m2 # m
    BY <1>0, <1>1, <2>4 DEF PendingWordHasMarks, TypeOK
  <2>5. QED
    BY <2>1, <2>4
<1>8. QED
  BY <1>4, <1>5, <1>6, <1>7 DEF IInv

\* The write-back stores the word read earlier with the alloc bit of the
\* slot set.  A black slot of another word is untouched; a black slot of
\* the same word had its mark in the word read (PendingWordHasMarks), and
\* its mark bit is not the alloc bit written (MarkBitApart).
LEMMA AllocWriteInv ==
  ASSUME IInv, NEW m \in Mutators, AllocWrite(m)
  PROVE  IInv'
<1> DEFINE c == local_chunk[m]
           s == slot_index[c]
           written == alloc_slot_in_table(table[c], s, word_read[m])
           tbl == IF phase = "Mark" THEN obj_mark_black_in_table(written, s)
                  ELSE written
           nxt == next_free_slot_index_in_table(tbl, s)
<1>0. /\ TypeOK /\ Ownership /\ AllocateBlack /\ ColorsFixed
      /\ PendingWordHasMarks /\ NULL \notin Chunks
  BY ChunkAssumption DEF IInv
<1>1. /\ alloc_pc[m] = "write"
      /\ table' = [table EXCEPT ![c] = tbl]
      /\ slot_index' = [slot_index EXCEPT ![c] = nxt]
      /\ black' = IF phase = "Mark" THEN [black EXCEPT ![c] = @ \cup {s}]
                  ELSE black
      /\ IF nxt = MAX_SLOT_INDEX
         THEN /\ status' = [status EXCEPT ![c] = CHUNK_USED_NORMAL]
              /\ local_chunk' = [local_chunk EXCEPT ![m] = NULL]
         ELSE UNCHANGED <<status, local_chunk>>
      /\ alloc_pc' = [alloc_pc EXCEPT ![m] = "idle"]
      /\ UNCHANGED <<alloc_num, word_read, phase, cur_alloc_color, cur_mark_color>>
  BY DEF AllocWrite
<1>2. /\ c \in Chunks /\ c # NULL
      /\ status[c] = CHUNK_NORMAL
      /\ s \in TableSlots /\ s \in Nat
  BY <1>0, <1>1 DEF TypeOK, Ownership, TableSlots
<1>3. /\ WordOf(s) \in WordIndex
      /\ IndexInWord(s) \in BitIndex
      /\ IndexInWord(s) + 2 \in BitIndex
  BY <1>2, WordOfTableSlot, MarkBitApart
<1>4. written \in Table /\ tbl \in Table
  BY <1>0, <1>2, <1>3 DEF TypeOK, ColorsFixed, Table, Word,
                         alloc_slot_in_table, obj_mark_black_in_table
<1>5. nxt \in TableSlots \cup {MAX_SLOT_INDEX}
  BY <1>2, NextFreeType
<1>6. \A m2 \in Mutators : m2 # m /\ local_chunk[m2] # NULL =>
        local_chunk[m2] # c
  BY <1>0, <1>2 DEF Ownership
<1>7. TypeOK'
  BY <1>0, <1>1, <1>2, <1>4, <1>5 DEF TypeOK
<1>8. Ownership'
  <2>1. CASE nxt = MAX_SLOT_INDEX
    BY <1>0, <1>1, <1>2, <1>6, <2>1
       DEF Ownership, TypeOK, CHUNK_NORMAL, CHUNK_USED_NORMAL, CHUNK_FREE
  <2>2. CASE nxt # MAX_SLOT_INDEX
    BY <1>0, <1>1, <1>2, <1>5, <1>6, <2>2 DEF Ownership, TypeOK
  <2>3. QED
    BY <2>1, <2>2
<1>9. AllocateBlack'
  <2> SUFFICES ASSUME NEW c1 \in Chunks, NEW t \in black'[c1]
               PROVE  table'[c1][WordOf(t)][IndexInWord(t) + 2] = 1
    BY <1>0, <1>1 DEF AllocateBlack, SlotIsMarked, ColorsFixed
  <2>1. CASE c1 # c
    BY <1>0, <1>1, <2>1 DEF AllocateBlack, SlotIsMarked, ColorsFixed, TypeOK
  <2>2. CASE c1 = c
    <3>1. t \in TableSlots /\ t \in Nat
      BY <1>7 DEF TypeOK, TableSlots
    <3>2. /\ WordOf(t) \in WordIndex
          /\ IndexInWord(t) + 2 \in BitIndex
          /\ IndexInWord(t) + 2 # IndexInWord(s)
      BY <1>2, <3>1, WordOfTableSlot, MarkBitApart
    <3>3. table'[c1] = tbl
      BY <1>0, <1>1, <1>2, <2>2 DEF TypeOK
    <3>4. CASE phase = "Mark" /\ t = s
      <4>1. tbl = obj_mark_black_in_table(written, s)
        BY <3>4
      <4>2. obj_mark_black_in_table(written, s)[WordOf(s)][IndexInWord(s) + 2] = 1
        BY <1>0, <1>3, <1>4 DEF ColorsFixed, obj_mark_black_in_table, Table, Word
      <4>3. QED
        BY <3>3, <3>4, <4>1, <4>2
    <3>5. CASE ~(phase = "Mark" /\ t = s)
      <4>1. t \in black[c]
        BY <1>0, <1>1, <1>2, <2>2, <3>5 DEF TypeOK
      <4>2. written[WordOf(t)][IndexInWord(t) + 2] = 1
        <5>1. CASE WordOf(t) = WordOf(s)
          <6>1. word_read[m][IndexInWord(t) + 2] = 1
            BY <1>0, <1>1, <4>1, <5>1 DEF PendingWordHasMarks, ColorsFixed
          <6>2. QED
            BY <1>0, <1>2, <1>3, <3>2, <5>1, <6>1
               DEF alloc_slot_in_table, ColorsFixed, TypeOK, Table, Word
        <5>2. CASE WordOf(t) # WordOf(s)
          <6>1. table[c][WordOf(t)][IndexInWord(t) + 2] = 1
            BY <1>0, <1>2, <4>1 DEF AllocateBlack, SlotIsMarked, ColorsFixed
          <6>2. QED
            BY <1>0, <1>2, <5>2, <6>1 DEF alloc_slot_in_table, TypeOK
        <5>3. QED
          BY <5>1, <5>2
      <4>3. QED
        BY <1>0, <1>3, <1>4, <3>2, <3>3, <4>2
           DEF ColorsFixed, obj_mark_black_in_table, Table
    <3>6. QED
      BY <3>4, <3>5
  <2>3. QED
    BY <2>1, <2>2
<1>10. ColorsFixed'
  BY <1>0, <1>1 DEF ColorsFixed
<1>11. PendingWordHasMarks'
  <2> SUFFICES ASSUME NEW m2 \in Mutators, alloc_pc'[m2] = "write"
               PROVE  \A t \in black'[local_chunk'[m2]] :
                        WordOf(t) = WordOf(slot_index'[local_chunk'[m2]]) =>
                          word_read'[m2][IndexInWord(t) + cur_mark_color'] = 1
    BY DEF PendingWordHasMarks
  <2>1. m2 # m /\ alloc_pc[m2] = "write"
    BY <1>0, <1>1 DEF TypeOK
  <2>2. local_chunk'[m2] = local_chunk[m2] /\ local_chunk[m2] # c
    BY <1>0, <1>1, <1>6, <2>1 DEF Ownership, TypeOK
  <2>3. /\ black'[local_chunk[m2]] = black[local_chunk[m2]]
        /\ slot_index'[local_chunk[m2]] = slot_index[local_chunk[m2]]
    BY <1>0, <1>1, <2>2 DEF TypeOK
  <2>4. \A t \in black[local_chunk[m2]] :
          WordOf(t) = WordOf(slot_index[local_chunk[m2]]) =>
            word_read[m2][IndexInWord(t) + cur_mark_color] = 1
    BY <1>0, <2>1 DEF PendingWordHasMarks
  <2>5. QED
    BY <1>1, <2>2, <2>3, <2>4
<1>12. QED
  BY <1>7, <1>8, <1>9, <1>10, <1>11 DEF IInv

\* The collector's CAS only sets a bit, so no mark is lost by it.
LEMMA MarkSlotInv ==
  ASSUME IInv, NEW c \in Chunks, NEW s \in Slots, MarkSlot(c, s)
  PROVE  IInv'
<1>0. /\ TypeOK /\ Ownership /\ AllocateBlack /\ ColorsFixed
      /\ PendingWordHasMarks
      /\ table' = [table EXCEPT ![c] = obj_mark_black_in_table(@, s)]
      /\ UNCHANGED <<slot_index, alloc_num, status, local_chunk, alloc_pc,
                     word_read, phase, cur_alloc_color, cur_mark_color, black>>
  BY DEF IInv, MarkSlot
<1>1. /\ s \in Nat
      /\ WordOf(s) \in WordIndex
      /\ IndexInWord(s) + 2 \in BitIndex
  BY SlotsInTable, WordOfTableSlot, MarkBitApart DEF Slots
<1>2. TypeOK'
  BY <1>0, <1>1 DEF TypeOK, ColorsFixed, obj_mark_black_in_table, Table, Word
<1>3. AllocateBlack'
  <2> SUFFICES ASSUME NEW c1 \in Chunks, NEW t \in black[c1]
               PROVE  table'[c1][WordOf(t)][IndexInWord(t) + 2] = 1
    BY <1>0 DEF AllocateBlack, SlotIsMarked, ColorsFixed
  <2>1. t \in Nat /\ WordOf(t) \in WordIndex /\ IndexInWord(t) + 2 \in BitIndex
    BY <1>0, WordOfTableSlot, MarkBitApart DEF TypeOK, TableSlots
  <2>2. table[c1][WordOf(t)][IndexInWord(t) + 2] = 1
    BY <1>0 DEF AllocateBlack, SlotIsMarked, ColorsFixed
  <2>3. QED
    BY <1>0, <1>1, <2>1, <2>2
       DEF TypeOK, ColorsFixed, obj_mark_black_in_table, Table, Word
<1>4. QED
  BY <1>0, <1>2, <1>3 DEF IInv, Ownership, ColorsFixed, PendingWordHasMarks

\* Starting or finishing the concurrent mark changes the phase only.
LEMMA PhaseInv ==
  ASSUME IInv, StartConcurrentMark \/ FinishConcurrentMark
  PROVE  IInv'
BY DEF IInv, StartConcurrentMark, FinishConcurrentMark, TypeOK, Ownership,
       ColorsFixed, AllocateBlack, SlotIsMarked, PendingWordHasMarks

\* A stuttering step keeps every variable.
LEMMA StutterInv ==
  ASSUME IInv, UNCHANGED vars
  PROVE  IInv'
BY DEF vars, IInv, TypeOK, Ownership, ColorsFixed, AllocateBlack,
       SlotIsMarked, PendingWordHasMarks

\* IInv is inductive: every step of Next, and every stutter, keeps it.
THEOREM IInvNext == IInv /\ [Next]_vars => IInv'
<1> SUFFICES ASSUME IInv, [Next]_vars PROVE IInv'
  OBVIOUS
<1>1. CASE \E m \in Mutators, c \in Chunks : AcquireChunk(m, c)
  BY <1>1, AcquireChunkInv
<1>2. CASE \E m \in Mutators : AllocRead(m) \/ AllocWrite(m)
  BY <1>2, AllocReadInv, AllocWriteInv
<1>3. CASE \E c \in Chunks, s \in Slots : MarkSlot(c, s)
  BY <1>3, MarkSlotInv
<1>4. CASE StartConcurrentMark \/ FinishConcurrentMark
  BY <1>4, PhaseInv
<1>5. CASE UNCHANGED vars
  BY <1>5, StutterInv
<1>6. QED
  BY <1>1, <1>2, <1>3, <1>4, <1>5 DEF Next

\* Type correctness of the allocator model for every value of the constants.
THEOREM TypeCorrect == Spec => []TypeOK
<1>1. IInv => TypeOK
  BY DEF IInv
<1>2. QED
  BY <1>1, IInvInit, IInvNext, PTL DEF Spec

\* Allocate-black (AllocateBlack) for every size of chunk, word and colour
\* field: an object alloc_in_chunk hands out during a concurrent mark keeps
\* its mark although the mark is written by the non-atomic |= write-back.
THEOREM AllocateBlackInvariant == Spec => []AllocateBlack
<1>1. IInv => AllocateBlack
  BY DEF IInv
<1>2. QED
  BY <1>1, IInvInit, IInvNext, PTL DEF Spec

=============================================================================
