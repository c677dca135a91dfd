------------------------- MODULE SspaceCursorProofs -------------------------
(***************************************************************************)
(* Proofs that alloc_in_chunk keeps the allocation cursor on the least     *)
(* free slot of its chunk and hands a chunk back only when it is full, for *)
(* every table geometry and every set of chunks and mutators, when chunk   *)
(* set-up gives the padding fields of the last word the alloc colour.      *)
(*                                                                         *)
(* The argument: the word-skipping scan next_free_slot_index_in_table      *)
(* returns the least free slot after the cursor (FreeScanCorrect, which    *)
(* needs the padding to look allocated); the write-back of                 *)
(* alloc_slot_in_table, although it stores a word read one step earlier,  *)
(* adds exactly the cursor slot to the allocated slots, because only the   *)
(* chunk's owner writes alloc bits and a concurrent mark only sets mark    *)
(* bits; and alloc_num counts the allocated slots plus the one allocation  *)
(* in flight.                                                              *)
(***************************************************************************)
EXTENDS SspaceAllocProofs, TLAPS

\* The slots of a table, padding fields included, that carry the alloc
\* colour.
AllocView(tbl) == {t \in TableSlots : slot_is_alloc_in_table(tbl, t)}

\* Every padding field of the table carries the alloc colour.
PaddingFull(tbl) == TableSlots \ Slots \subseteq AllocView(tbl)

\* The cursor of chunk c is a free slot and every slot below it is taken.
CursorOK(c) ==
  /\ slot_index[c] \in Slots
  /\ slot_index[c] \notin AllocView(table[c])
  /\ 0 .. slot_index[c] - 1 \subseteq AllocView(table[c])

\* A mutator holding chunk c is between the read and the write-back.
Pending(c) == \E m \in Mutators : local_chunk[m] = c /\ alloc_pc[m] = "write"

\* The word a mutator read and will write back has the alloc bits of the
\* table word it was read from: only the owner writes alloc bits.
PendingAllocBits ==
  \A m \in Mutators : alloc_pc[m] = "write" =>
    \A k \in 0 .. SLOT_NUM_PER_WORD_IN_TABLE - 1 :
      LET i == COLOR_BITS_PER_OBJ * k + cur_alloc_color
      IN  word_read[m][i] =
            table[local_chunk[m]][WordOf(slot_index[local_chunk[m]])][i]

\* What the allocator keeps true of one chunk: the padding looks
\* allocated; a chunk not handed back has its cursor on its least free
\* slot; a chunk handed back is full; and alloc_num counts the allocated
\* slots, plus the allocation whose ++alloc_num is done and whose
\* write-back is not.
ChunkOK(c) ==
  /\ PaddingFull(table[c])
  /\ status[c] # CHUNK_USED_NORMAL => CursorOK(c)
  /\ status[c] = CHUNK_USED_NORMAL => Slots \subseteq AllocView(table[c])
  /\ alloc_num[c] = Cardinality(AllocView(table[c]) \cap Slots)
                      + (IF Pending(c) THEN 1 ELSE 0)

\* The invariant behind AllocBitsStable, for either padding set-up.
PInv == IInv /\ PendingAllocBits

KInv ==
  /\ IInv
  /\ \A c \in Chunks : ChunkOK(c)
  /\ PendingAllocBits

-----------------------------------------------------------------------------
(* The alloc bits under the table writes of alloc_in_chunk and the mark.   *)

\* A chunk has SLOT_NUM slots.
LEMMA SlotsFinite == IsFiniteSet(Slots) /\ Cardinality(Slots) = SLOT_NUM
<1>1. 0 \in Int /\ SLOT_NUM - 1 \in Int /\ ~(0 > SLOT_NUM - 1)
  BY SlotAssumption
<1>2. /\ IsFiniteSet(0 .. SLOT_NUM - 1)
      /\ Cardinality(0 .. SLOT_NUM - 1) =
           IF 0 > SLOT_NUM - 1 THEN 0 ELSE (SLOT_NUM - 1) - 0 + 1
  BY <1>1, FS_Interval
<1>3. QED
  BY <1>1, <1>2, SlotAssumption DEF Slots

\* A slot of the table, padding included, lies in a word of the table at
\* the start of one of its fields.
LEMMA SlotField ==
  ASSUME NEW t \in TableSlots
  PROVE  LET k == t % SLOT_NUM_PER_WORD_IN_TABLE
         IN  /\ t \in Nat
             /\ WordOf(t) \in WordIndex
             /\ k \in 0 .. SLOT_NUM_PER_WORD_IN_TABLE - 1
             /\ IndexInWord(t) = COLOR_BITS_PER_OBJ * k
             /\ COLOR_BITS_PER_OBJ * k \in BitIndex
<1>1. t \in Nat
  BY WordSplit, WordIndexBelowMax DEF TableSlots
<1>2. QED
  BY <1>1, SlotSplit, WordOfTableSlot, FieldSlot

\* Two slots with the same word and the same field are the same slot.
LEMMA FieldDetermines ==
  ASSUME NEW t \in Nat, NEW u \in Nat,
         WordOf(t) = WordOf(u), IndexInWord(t) = IndexInWord(u)
  PROVE  t = u
<1> DEFINE C == COLOR_BITS_PER_OBJ
           q == SLOT_NUM_PER_WORD_IN_TABLE
<1>1. /\ t = q * WordOf(t) + (t % q) /\ IndexInWord(t) = C * (t % q)
      /\ u = q * WordOf(u) + (u % q) /\ IndexInWord(u) = C * (u % q)
      /\ t % q \in Nat /\ u % q \in Nat
  BY SlotSplit
<1>2. C \in Nat \ {0}
  BY WordAssumption
<1>3. t % q = u % q
  <2>1. C * (t % q) = C * (u % q)
    BY <1>1
  <2>2. ~(t % q < u % q) /\ ~(u % q < t % q)
    BY <2>1, <1>1, <1>2, MulMono
  <2>3. QED
    BY <2>2, <1>1
<1>4. QED
  BY <1>1, <1>3

\* obj_mark_black_in_table sets a mark bit: no alloc colour bit of a field
\* changes (the mark bit is two bits past a field start, MarkBitApart).
LEMMA MarkKeepsField ==
  ASSUME NEW tbl \in Table, NEW s \in TableSlots, NEW w \in WordIndex,
         NEW k \in 0 .. SLOT_NUM_PER_WORD_IN_TABLE - 1,
         cur_mark_color = 2
  PROVE  /\ obj_mark_black_in_table(tbl, s) \in Table
         /\ obj_mark_black_in_table(tbl, s)[w][COLOR_BITS_PER_OBJ * k] =
              tbl[w][COLOR_BITS_PER_OBJ * k]
<1> DEFINE C == COLOR_BITS_PER_OBJ
           q == SLOT_NUM_PER_WORD_IN_TABLE
<1>1. s \in Nat /\ w \in Nat
  BY SlotField, WordIndexBelowMax DEF WordIndex
<1>2. /\ C * k \in BitIndex
      /\ IndexInWord(w * q + k) = C * k
  BY <1>1, FieldSlot
<1>3. w * q + k \in Nat
  BY <1>1, WordSplit
<1>4. /\ IndexInWord(s) + 2 \in BitIndex
      /\ IndexInWord(s) + 2 # C * k
  BY <1>1, <1>2, <1>3, MarkBitApart
<1>5. WordOf(s) \in WordIndex
  BY WordOfTableSlot
<1>6. QED
  BY <1>2, <1>4, <1>5 DEF obj_mark_black_in_table, Table, Word

\* So the mark leaves the alloc view of the table alone.
LEMMA MarkView ==
  ASSUME NEW tbl \in Table, NEW s \in TableSlots,
         cur_alloc_color = 0, cur_mark_color = 2
  PROVE  AllocView(obj_mark_black_in_table(tbl, s)) = AllocView(tbl)
<1> SUFFICES ASSUME NEW t \in TableSlots
             PROVE  slot_is_alloc_in_table(obj_mark_black_in_table(tbl, s), t)
                    <=> slot_is_alloc_in_table(tbl, t)
  BY DEF AllocView
<1>1. /\ WordOf(t) \in WordIndex
      /\ t % SLOT_NUM_PER_WORD_IN_TABLE \in 0 .. SLOT_NUM_PER_WORD_IN_TABLE - 1
      /\ IndexInWord(t) = COLOR_BITS_PER_OBJ * (t % SLOT_NUM_PER_WORD_IN_TABLE)
      /\ COLOR_BITS_PER_OBJ * (t % SLOT_NUM_PER_WORD_IN_TABLE) \in BitIndex
  BY SlotField
<1>2. IndexInWord(t) + cur_alloc_color = IndexInWord(t)
  BY <1>1 DEF BitIndex
<1>3. QED
  BY <1>1, <1>2, MarkKeepsField DEF slot_is_alloc_in_table


\* The write-back of alloc_slot_in_table stores the word read earlier with
\* the slot's alloc bit set.  When that word has the alloc bits of the
\* table word, the allocated slots grow by exactly the slot.
LEMMA WriteView ==
  ASSUME NEW tbl \in Table, NEW s \in TableSlots, NEW word \in Word,
         cur_alloc_color = 0,
         \A k \in 0 .. SLOT_NUM_PER_WORD_IN_TABLE - 1 :
           word[COLOR_BITS_PER_OBJ * k + cur_alloc_color] =
             tbl[WordOf(s)][COLOR_BITS_PER_OBJ * k + cur_alloc_color]
  PROVE  /\ alloc_slot_in_table(tbl, s, word) \in Table
         /\ AllocView(alloc_slot_in_table(tbl, s, word)) = AllocView(tbl) \cup {s}
<1> DEFINE C == COLOR_BITS_PER_OBJ
           q == SLOT_NUM_PER_WORD_IN_TABLE
           w0 == WordOf(s)
           wr == alloc_slot_in_table(tbl, s, word)
<1>1. /\ s \in TableSlots /\ s \in Nat /\ w0 \in WordIndex
      /\ IndexInWord(s) \in BitIndex
  BY SlotField
<1>2. wr = [tbl EXCEPT ![w0] = [word EXCEPT ![IndexInWord(s)] = 1]]
  <2>1. IndexInWord(s) + cur_alloc_color = IndexInWord(s)
    BY <1>1 DEF BitIndex
  <2>2. QED
    BY <2>1 DEF alloc_slot_in_table
<1>3. wr \in Table
  BY <1>1, <1>2 DEF Table, Word
<1>4. ASSUME NEW t \in TableSlots
      PROVE  slot_is_alloc_in_table(wr, t) <=> slot_is_alloc_in_table(tbl, t) \/ t = s
  <2> DEFINE kt == t % q
  <2>1. /\ t \in Nat /\ WordOf(t) \in WordIndex /\ kt \in 0 .. q - 1
        /\ IndexInWord(t) = C * kt /\ C * kt \in BitIndex
    BY SlotField
  <2>2. /\ slot_is_alloc_in_table(wr, t) <=> wr[WordOf(t)][IndexInWord(t)] = 1
        /\ slot_is_alloc_in_table(tbl, t) <=> tbl[WordOf(t)][IndexInWord(t)] = 1
    BY <2>1 DEF slot_is_alloc_in_table, BitIndex
  <2>3. CASE WordOf(t) # w0
    BY <2>1, <2>2, <2>3, <1>2
  <2>4. CASE WordOf(t) = w0 /\ IndexInWord(t) = IndexInWord(s)
    <3>1. t = s
      BY <2>1, <1>1, <2>4, FieldDetermines
    <3>2. wr[WordOf(t)][IndexInWord(t)] = 1
      BY <1>1, <1>2, <2>1, <2>4 DEF Table, Word
    <3>3. QED
      BY <3>1, <3>2, <2>2
  <2>5. CASE WordOf(t) = w0 /\ IndexInWord(t) # IndexInWord(s)
    <3>1. wr[WordOf(t)][IndexInWord(t)] = word[C * kt]
      BY <1>1, <1>2, <2>1, <2>5 DEF Table, Word
    <3>2. word[C * kt] = tbl[w0][C * kt]
      <4>1. C * kt + cur_alloc_color = C * kt
        BY <2>1 DEF BitIndex
      <4>2. QED
        BY <2>1, <4>1
    <3>3. t # s
      BY <2>5
    <3>4. QED
      BY <2>1, <2>2, <2>5, <3>1, <3>2, <3>3
  <2>6. QED
    BY <2>3, <2>4, <2>5
<1>5. QED
  BY <1>1, <1>3, <1>4 DEF AllocView


\* Chunk set-up with PAD_LAST_WORD: the allocated slots are the survivors
\* and the padding fields.
LEMMA InitView ==
  ASSUME NEW S \in SUBSET Slots, cur_alloc_color = 0, PAD_LAST_WORD
  PROVE  AllocView(InitTable(S)) = S \cup (TableSlots \ Slots)
<1> DEFINE C == COLOR_BITS_PER_OBJ
           q == SLOT_NUM_PER_WORD_IN_TABLE
<1> SUFFICES ASSUME NEW t \in TableSlots
             PROVE  slot_is_alloc_in_table(InitTable(S), t) <=> t \in S \/ t \notin Slots
  BY SlotsInTable DEF AllocView
<1> DEFINE w == WordOf(t)
           kt == t % q
<1>1. /\ t \in Nat /\ w \in WordIndex /\ kt \in 0 .. q - 1
      /\ IndexInWord(t) = C * kt /\ C * kt \in BitIndex
  BY SlotField
<1>2. t = q * w + kt /\ w \in Nat
  BY <1>1, SlotSplit
<1>3. (C * kt) % C = 0 /\ C * kt - ((C * kt) % C) = C * kt
  <2>1. 0 \in 0 .. C - 1 /\ C * kt + 0 = C * kt
    BY <1>1, WordAssumption DEF BitIndex
  <2>2. QED
    BY <2>1, <1>1, FieldColour DEF BitIndex
<1>4. composed_slot_index(w, C * kt - ((C * kt) % C)) = t
  <2>1. composed_slot_index(w, C * kt) = w * q + kt
    BY <1>1, <1>2, FieldSlot
  <2>2. QED
    BY <2>1, <1>2, <1>3, WordSplit
<1>5. InitTable(S)[w][C * kt] = IF t \in S \/ t \notin Slots THEN 1 ELSE 0
  BY <1>1, <1>3, <1>4 DEF InitTable
<1>6. IndexInWord(t) + cur_alloc_color = C * kt
  BY <1>1 DEF BitIndex
<1>7. QED
  BY <1>5, <1>6 DEF slot_is_alloc_in_table

-----------------------------------------------------------------------------
(* The inductive invariant.                                                *)

LEMMA KInvInit ==
  ASSUME Init, PAD_LAST_WORD
  PROVE  KInv
<1>1. IInv
  BY IInvInit
<1>2. PICK survivors \in [Chunks -> (SUBSET Slots) \ {Slots}] :
        /\ table = [c \in Chunks |-> InitTable(survivors[c])]
        /\ alloc_num = [c \in Chunks |-> Cardinality(survivors[c])]
        /\ slot_index \in [Chunks -> Slots]
        /\ \A c \in Chunks :
             /\ slot_index[c] \notin survivors[c]
             /\ \A t \in 0 .. slot_index[c] - 1 : t \in survivors[c]
  BY DEF Init
<1>3. \A c \in Chunks : AllocView(table[c]) = survivors[c] \cup (TableSlots \ Slots)
  BY <1>2, InitView DEF Init
<1>4. \A c \in Chunks : PaddingFull(table[c])
  BY <1>3 DEF PaddingFull
<1>5. \A c \in Chunks : CursorOK(c)
  BY <1>2, <1>3 DEF CursorOK
<1>6. \A c \in Chunks : status[c] # CHUNK_USED_NORMAL
  BY DEF Init, CHUNK_FREE, CHUNK_USED_NORMAL
<1>7. \A c \in Chunks : ~Pending(c)
  BY DEF Init, Pending
<1>8. PendingAllocBits
  BY DEF Init, PendingAllocBits
<1>9. \A c \in Chunks : alloc_num[c] = Cardinality(AllocView(table[c]) \cap Slots)
                                       + (IF Pending(c) THEN 1 ELSE 0)
  <2>1. \A c \in Chunks : AllocView(table[c]) \cap Slots = survivors[c]
    BY <1>2, <1>3
  <2> SUFFICES ASSUME NEW c \in Chunks
               PROVE  alloc_num[c] = Cardinality(AllocView(table[c]) \cap Slots)
                                       + (IF Pending(c) THEN 1 ELSE 0)
    OBVIOUS
  <2>2. Cardinality(survivors[c]) \in Nat
    <3>1. IsFiniteSet(Slots)
      BY SlotsFinite
    <3>2. survivors[c] \subseteq Slots
      BY <1>2
    <3>3. IsFiniteSet(survivors[c])
      BY <3>1, <3>2, FS_Subset
    <3>4. QED
      BY <3>3, FS_CardinalityType
  <2>3. alloc_num[c] = Cardinality(survivors[c])
    BY <1>2
  <2>4. Cardinality(AllocView(table[c]) \cap Slots) = Cardinality(survivors[c])
    BY <2>1
  <2>5. ~Pending(c)
    BY <1>7
  <2>6. QED
    BY <2>2, <2>3, <2>4, <2>5
<1>10. QED
  BY <1>1, <1>4, <1>5, <1>6, <1>8, <1>9 DEF KInv, ChunkOK


\* The allocated slots of a chunk are finitely many.
LEMMA ViewFinite ==
  ASSUME NEW tbl
  PROVE  /\ IsFiniteSet(AllocView(tbl) \cap Slots)
         /\ Cardinality(AllocView(tbl) \cap Slots) \in Nat
<1>1. IsFiniteSet(AllocView(tbl) \cap Slots)
  BY SlotsFinite, FS_Subset
<1>2. QED
  BY <1>1, FS_CardinalityType

\* A step that keeps a chunk's table and the alloc colour keeps its
\* allocated slots.
LEMMA ViewSame ==
  ASSUME NEW c, table'[c] = table[c], cur_alloc_color' = cur_alloc_color
  PROVE  AllocView(table[c])' = AllocView(table[c])
BY DEF AllocView, slot_is_alloc_in_table

\* A step that keeps what ChunkOK reads of a chunk keeps ChunkOK.
LEMMA ChunkStable ==
  ASSUME NEW c, ChunkOK(c),
         AllocView(table[c])' = AllocView(table[c]),
         slot_index'[c] = slot_index[c],
         status'[c] = CHUNK_USED_NORMAL <=> status[c] = CHUNK_USED_NORMAL,
         alloc_num'[c] = alloc_num[c],
         Pending(c)' <=> Pending(c)
  PROVE  ChunkOK(c)'
BY DEF ChunkOK, PaddingFull, CursorOK

\* The word a mutator has loaded keeps the table word's alloc bits across
\* every step, whatever the padding: only the owner of a chunk writes its
\* alloc bits, and a mark writes only mark bits.
LEMMA PAcquire ==
  ASSUME IInv, PendingAllocBits, NEW m \in Mutators, NEW c0 \in Chunks,
         AcquireChunk(m, c0)
  PROVE  PendingAllocBits'
<1>1. /\ local_chunk[m] = NULL
      /\ local_chunk' = [local_chunk EXCEPT ![m] = c0]
      /\ UNCHANGED <<table, slot_index, alloc_pc, word_read, cur_alloc_color>>
  BY DEF AcquireChunk
<1>2. alloc_pc[m] = "idle"
  BY <1>1 DEF IInv, Ownership, TypeOK
<1>3. QED
  BY <1>1, <1>2 DEF PendingAllocBits, IInv, TypeOK

LEMMA PRead ==
  ASSUME IInv, PendingAllocBits, NEW m \in Mutators, AllocRead(m)
  PROVE  PendingAllocBits'
<1> DEFINE c0 == local_chunk[m]
<1>1. /\ word_read' = [word_read EXCEPT ![m] = table[c0][WordOf(slot_index[c0])]]
      /\ alloc_pc' = [alloc_pc EXCEPT ![m] = "write"]
      /\ UNCHANGED <<table, slot_index, local_chunk, cur_alloc_color>>
  BY DEF AllocRead
<1> SUFFICES ASSUME NEW m2 \in Mutators, alloc_pc'[m2] = "write",
                    NEW k \in 0 .. SLOT_NUM_PER_WORD_IN_TABLE - 1
             PROVE  LET i == COLOR_BITS_PER_OBJ * k + cur_alloc_color'
                    IN  word_read'[m2][i] =
                          table'[local_chunk'[m2]][WordOf(slot_index'[local_chunk'[m2]])][i]
  BY DEF PendingAllocBits
<1>2. CASE m2 = m
  BY <1>1, <1>2 DEF IInv, TypeOK
<1>3. CASE m2 # m
  BY <1>1, <1>3 DEF IInv, TypeOK, PendingAllocBits
<1>4. QED
  BY <1>2, <1>3

LEMMA PMark ==
  ASSUME IInv, PendingAllocBits, NEW c0 \in Chunks, NEW s \in Slots,
         MarkSlot(c0, s)
  PROVE  PendingAllocBits'
<1>0. /\ TypeOK /\ Ownership /\ NULL \notin Chunks
      /\ cur_alloc_color = 0 /\ cur_mark_color = 2
  BY ChunkAssumption DEF IInv, ColorsFixed
<1>1. /\ table' = [table EXCEPT ![c0] = obj_mark_black_in_table(@, s)]
      /\ UNCHANGED <<slot_index, local_chunk, alloc_pc, word_read,
                     cur_alloc_color, cur_mark_color>>
  BY DEF MarkSlot
<1> SUFFICES ASSUME NEW m \in Mutators, alloc_pc'[m] = "write",
                    NEW k \in 0 .. SLOT_NUM_PER_WORD_IN_TABLE - 1
             PROVE  LET i == COLOR_BITS_PER_OBJ * k + cur_alloc_color'
                    IN  word_read'[m][i] =
                          table'[local_chunk'[m]][WordOf(slot_index'[local_chunk'[m]])][i]
  BY DEF PendingAllocBits
<1> DEFINE c == local_chunk[m]
           w == WordOf(slot_index[c])
<1>2. c \in Chunks /\ status[c] = CHUNK_NORMAL
  BY <1>0, <1>1 DEF Ownership, TypeOK
<1>3. w \in WordIndex
  BY <1>0, <1>2, WordOfTableSlot DEF Ownership, CHUNK_NORMAL, CHUNK_FREE
<1>4. /\ COLOR_BITS_PER_OBJ * k + cur_alloc_color = COLOR_BITS_PER_OBJ * k
      /\ cur_alloc_color' = cur_alloc_color
  BY <1>0, <1>1, WordSplit, WordAssumption
<1>5. table'[c][w][COLOR_BITS_PER_OBJ * k] = table[c][w][COLOR_BITS_PER_OBJ * k]
  <2>1. CASE c = c0
    BY <1>0, <1>1, <1>3, <2>1, MarkKeepsField, SlotsInTable DEF TypeOK
  <2>2. CASE c # c0
    BY <1>0, <1>1, <1>2, <2>2 DEF TypeOK
  <2>3. QED
    BY <2>1, <2>2
<1>6. QED
  BY <1>0, <1>1, <1>4, <1>5 DEF PendingAllocBits

LEMMA PWrite ==
  ASSUME IInv, PendingAllocBits, NEW m \in Mutators, AllocWrite(m)
  PROVE  PendingAllocBits'
<1>0. /\ TypeOK /\ Ownership /\ NULL \notin Chunks
  BY ChunkAssumption DEF IInv
<1> DEFINE c0 == local_chunk[m]
<1>1. /\ alloc_pc[m] = "write"
      /\ \E tbl : table' = [table EXCEPT ![c0] = tbl]
      /\ \E next : slot_index' = [slot_index EXCEPT ![c0] = next]
      /\ \/ local_chunk' = [local_chunk EXCEPT ![m] = NULL]
         \/ local_chunk' = local_chunk
      /\ alloc_pc' = [alloc_pc EXCEPT ![m] = "idle"]
      /\ UNCHANGED <<word_read, cur_alloc_color>>
  BY DEF AllocWrite
<1> SUFFICES ASSUME NEW m2 \in Mutators, alloc_pc'[m2] = "write",
                    NEW k \in 0 .. SLOT_NUM_PER_WORD_IN_TABLE - 1
             PROVE  LET i == COLOR_BITS_PER_OBJ * k + cur_alloc_color'
                    IN  word_read'[m2][i] =
                          table'[local_chunk'[m2]][WordOf(slot_index'[local_chunk'[m2]])][i]
  BY DEF PendingAllocBits
<1>2. m2 # m /\ alloc_pc[m2] = "write"
  BY <1>0, <1>1 DEF TypeOK
<1>3. local_chunk'[m2] = local_chunk[m2]
  BY <1>0, <1>1, <1>2 DEF TypeOK
<1>4. local_chunk[m2] \in Chunks /\ local_chunk[m2] # c0
  BY <1>0, <1>1, <1>2 DEF Ownership, TypeOK
<1>5. /\ table'[local_chunk[m2]] = table[local_chunk[m2]]
      /\ slot_index'[local_chunk[m2]] = slot_index[local_chunk[m2]]
  BY <1>0, <1>1, <1>4 DEF TypeOK
<1>6. QED
  BY <1>1, <1>2, <1>3, <1>5 DEF PendingAllocBits

LEMMA PPhase ==
  ASSUME PendingAllocBits,
         StartConcurrentMark \/ FinishConcurrentMark \/ UNCHANGED vars
  PROVE  PendingAllocBits'
BY DEF StartConcurrentMark, FinishConcurrentMark, vars, PendingAllocBits

LEMMA PInvNext ==
  ASSUME PInv, [Next]_vars
  PROVE  PInv'
<1>1. IInv'
  BY IInvNext DEF PInv
<1>2. PendingAllocBits'
  <2>1. CASE \E m \in Mutators, c \in Chunks : AcquireChunk(m, c)
    BY <2>1, PAcquire DEF PInv
  <2>2. CASE \E m \in Mutators : AllocRead(m)
    BY <2>2, PRead DEF PInv
  <2>3. CASE \E m \in Mutators : AllocWrite(m)
    BY <2>3, PWrite DEF PInv
  <2>4. CASE \E c \in Chunks, t \in Slots : MarkSlot(c, t)
    BY <2>4, PMark DEF PInv
  <2>5. CASE StartConcurrentMark \/ FinishConcurrentMark \/ UNCHANGED vars
    BY <2>5, PPhase DEF PInv
  <2>6. QED
    BY <2>1, <2>2, <2>3, <2>4, <2>5 DEF Next
<1>3. QED
  BY <1>1, <1>2 DEF PInv

\* Taking a free chunk changes its status from CHUNK_FREE to CHUNK_NORMAL,
\* neither of them CHUNK_USED | CHUNK_NORMAL, and a mutator without a
\* chunk has no allocation in flight.
LEMMA KAcquire ==
  ASSUME KInv, NEW m \in Mutators, NEW c0 \in Chunks, AcquireChunk(m, c0)
  PROVE  (\A c \in Chunks : ChunkOK(c))' /\ PendingAllocBits'
<1>0. /\ TypeOK /\ Ownership /\ NULL \notin Chunks
      /\ \A c \in Chunks : ChunkOK(c)
      /\ PendingAllocBits
  BY ChunkAssumption DEF KInv, IInv
<1>1. /\ local_chunk[m] = NULL /\ status[c0] = CHUNK_FREE
      /\ local_chunk' = [local_chunk EXCEPT ![m] = c0]
      /\ status' = [status EXCEPT ![c0] = CHUNK_NORMAL]
      /\ UNCHANGED <<table, slot_index, alloc_num, alloc_pc, word_read,
                     cur_alloc_color>>
  BY DEF AcquireChunk
<1>2. alloc_pc[m] = "idle"
  BY <1>0, <1>1 DEF Ownership, TypeOK
<1>3. \A c \in Chunks : Pending(c)' <=> Pending(c)
  BY <1>0, <1>1, <1>2 DEF Pending, TypeOK
<1>4. \A c \in Chunks : ChunkOK(c)'
  <2> SUFFICES ASSUME NEW c \in Chunks PROVE ChunkOK(c)'
    OBVIOUS
  <2>1. AllocView(table[c])' = AllocView(table[c])
    BY <1>1, ViewSame
  <2>2. status'[c] = CHUNK_USED_NORMAL <=> status[c] = CHUNK_USED_NORMAL
    BY <1>0, <1>1 DEF TypeOK, CHUNK_FREE, CHUNK_NORMAL, CHUNK_USED_NORMAL
  <2>3. QED
    BY <1>0, <1>1, <1>3, <2>1, <2>2, ChunkStable
<1>5. PendingAllocBits'
  BY PAcquire DEF KInv
<1>6. QED
  BY <1>4, <1>5

\* The read half of an allocation: ++alloc_num and the load of the word.
\* The chunk's allocation is now in flight, and the word read has the
\* table word's alloc bits.
LEMMA KRead ==
  ASSUME KInv, NEW m \in Mutators, AllocRead(m)
  PROVE  (\A c \in Chunks : ChunkOK(c))' /\ PendingAllocBits'
<1> DEFINE c0 == local_chunk[m]
<1>0. /\ TypeOK /\ Ownership /\ NULL \notin Chunks
      /\ \A c \in Chunks : ChunkOK(c)
      /\ PendingAllocBits
  BY ChunkAssumption DEF KInv, IInv
<1>1. /\ c0 # NULL /\ alloc_pc[m] = "idle"
      /\ alloc_num' = [alloc_num EXCEPT ![c0] = @ + 1]
      /\ word_read' = [word_read EXCEPT ![m] = table[c0][WordOf(slot_index[c0])]]
      /\ alloc_pc' = [alloc_pc EXCEPT ![m] = "write"]
      /\ UNCHANGED <<table, slot_index, status, local_chunk, cur_alloc_color>>
  BY DEF AllocRead
<1>2. c0 \in Chunks
  BY <1>0, <1>1 DEF TypeOK
<1>3. ~Pending(c0) /\ Pending(c0)'
  BY <1>0, <1>1, <1>2 DEF Pending, Ownership, TypeOK
<1>4. \A c \in Chunks \ {c0} : Pending(c)' <=> Pending(c)
  BY <1>0, <1>1 DEF Pending, TypeOK
<1>5. \A c \in Chunks : ChunkOK(c)'
  <2> SUFFICES ASSUME NEW c \in Chunks PROVE ChunkOK(c)'
    OBVIOUS
  <2>1. AllocView(table[c])' = AllocView(table[c])
    BY <1>1, ViewSame
  <2>2. CASE c # c0
    BY <1>0, <1>1, <1>4, <2>1, <2>2, ChunkStable DEF TypeOK
  <2>3. CASE c = c0
    <3>1. Cardinality(AllocView(table[c]) \cap Slots) \in Nat
      BY ViewFinite
    <3>2. alloc_num[c] = Cardinality(AllocView(table[c]) \cap Slots)
      <4>1. ChunkOK(c0)
        BY <1>0, <1>2
      <4>2. QED
        BY <4>1, <1>3, <2>3, <3>1 DEF ChunkOK
    <3>3. alloc_num'[c] = Cardinality(AllocView(table[c]) \cap Slots) + 1
      BY <1>0, <1>1, <1>2, <2>3, <3>2 DEF TypeOK
    <3>4. QED
      BY <1>0, <1>1, <1>3, <2>1, <2>3, <3>3 DEF ChunkOK, PaddingFull, CursorOK
  <2>4. QED
    BY <2>2, <2>3
<1>6. PendingAllocBits'
  BY PRead DEF KInv
<1>7. QED
  BY <1>5, <1>6

\* A collector's mark sets only a mark bit: no chunk's allocated slots
\* change, and the word a mutator holds still has the table word's alloc
\* bits.
LEMMA KMark ==
  ASSUME KInv, NEW c0 \in Chunks, NEW s \in Slots, MarkSlot(c0, s)
  PROVE  (\A c \in Chunks : ChunkOK(c))' /\ PendingAllocBits'
<1>0. /\ TypeOK /\ Ownership /\ ColorsFixed /\ NULL \notin Chunks
      /\ \A c \in Chunks : ChunkOK(c)
      /\ PendingAllocBits
  BY ChunkAssumption DEF KInv, IInv
<1>1. /\ table' = [table EXCEPT ![c0] = obj_mark_black_in_table(@, s)]
      /\ UNCHANGED <<slot_index, alloc_num, status, local_chunk, alloc_pc,
                     word_read, cur_alloc_color, cur_mark_color>>
  BY DEF MarkSlot
<1>2. table[c0] \in Table /\ cur_alloc_color = 0 /\ cur_mark_color = 2
  BY <1>0 DEF TypeOK, ColorsFixed
<1>3. \A c \in Chunks : AllocView(table[c])' = AllocView(table[c])
  <2> SUFFICES ASSUME NEW c \in Chunks
               PROVE  AllocView(table[c])' = AllocView(table[c])
    OBVIOUS
  <2>1. CASE c # c0
    BY <1>1, <2>1, ViewSame
  <2>2. CASE c = c0
    <3>1. AllocView(table[c])' = AllocView(obj_mark_black_in_table(table[c0], s))
      BY <1>0, <1>1, <2>2 DEF AllocView, slot_is_alloc_in_table, TypeOK
    <3>2. QED
      BY <1>2, <2>2, <3>1, MarkView, SlotsInTable
  <2>3. QED
    BY <2>1, <2>2
<1>4. \A c \in Chunks : ChunkOK(c)'
  BY <1>0, <1>1, <1>3, ChunkStable DEF Pending
<1>5. PendingAllocBits'
  BY PMark DEF KInv
<1>6. QED
  BY <1>4, <1>5

\* A phase change at a safepoint touches no chunk.
LEMMA KPhase ==
  ASSUME KInv, StartConcurrentMark \/ FinishConcurrentMark \/ UNCHANGED vars
  PROVE  (\A c \in Chunks : ChunkOK(c))' /\ PendingAllocBits'
<1>1. UNCHANGED <<table, slot_index, alloc_num, status, local_chunk, alloc_pc,
                  word_read, cur_alloc_color>>
  BY DEF StartConcurrentMark, FinishConcurrentMark, vars
<1>2. \A c \in Chunks : ChunkOK(c)'
  BY <1>1, ViewSame, ChunkStable DEF KInv, Pending
<1>3. QED
  BY <1>2, PPhase DEF KInv


\* obj_mark_black_in_table keeps a colour table a colour table.
LEMMA MarkTable ==
  ASSUME NEW tbl \in Table, NEW s \in TableSlots, cur_mark_color = 2
  PROVE  obj_mark_black_in_table(tbl, s) \in Table
<1>1. s \in Nat /\ WordOf(s) \in WordIndex
  BY SlotField
<1>2. IndexInWord(s) + 2 \in BitIndex
  BY <1>1, MarkBitApart
<1>3. QED
  BY <1>1, <1>2 DEF obj_mark_black_in_table, Table, Word

\* The write-back of alloc_in_chunk.  The table word stored is the word
\* read with the cursor slot's alloc bit set, so the allocated slots grow
\* by exactly the cursor slot (WriteView); the scan then returns the least
\* free slot above it (FreeScanCorrect), which is the least free slot of
\* the chunk, or MAX_SLOT_INDEX when the chunk is now full, and the chunk
\* is handed back exactly then.  alloc_num was counted at the read.
LEMMA KWrite ==
  ASSUME KInv, PAD_LAST_WORD, NEW m \in Mutators, AllocWrite(m)
  PROVE  (\A c \in Chunks : ChunkOK(c))' /\ PendingAllocBits'
<1>0. /\ TypeOK /\ Ownership /\ ColorsFixed /\ NULL \notin Chunks
      /\ \A c \in Chunks : ChunkOK(c)
      /\ PendingAllocBits
  BY ChunkAssumption DEF KInv, IInv
<1>00. alloc_pc[m] = "write"
  BY DEF AllocWrite
<1> PICK c0 \in Chunks : c0 = local_chunk[m]
  BY <1>0, <1>00 DEF Ownership, TypeOK
<1> DEFINE s == slot_index[c0]
           written == alloc_slot_in_table(table[c0], s, word_read[m])
           tbl == IF phase = "Mark" THEN obj_mark_black_in_table(written, s)
                  ELSE written
           next == next_free_slot_index_in_table(tbl, s)
           Old == AllocView(table[c0])
           New == AllocView(tbl)
<1>1. /\ alloc_pc[m] = "write"
      /\ table' = [table EXCEPT ![c0] = tbl]
      /\ slot_index' = [slot_index EXCEPT ![c0] = next]
      /\ IF next = MAX_SLOT_INDEX
         THEN /\ status' = [status EXCEPT ![c0] = CHUNK_USED_NORMAL]
              /\ local_chunk' = [local_chunk EXCEPT ![m] = NULL]
         ELSE UNCHANGED <<status, local_chunk>>
      /\ alloc_pc' = [alloc_pc EXCEPT ![m] = "idle"]
      /\ UNCHANGED <<alloc_num, word_read, cur_alloc_color>>
  BY DEF AllocWrite
<1>2. c0 \in Chunks /\ status[c0] = CHUNK_NORMAL
  BY <1>0, <1>1 DEF Ownership, TypeOK
<1>3. /\ PaddingFull(table[c0])
      /\ s \in Slots /\ s \notin Old /\ 0 .. s - 1 \subseteq Old
      /\ alloc_num[c0] = Cardinality(Old \cap Slots) + (IF Pending(c0) THEN 1 ELSE 0)
  BY <1>0, <1>2 DEF ChunkOK, CursorOK, CHUNK_NORMAL, CHUNK_USED_NORMAL
<1>4. \A m2 \in Mutators : local_chunk[m2] = c0 => m2 = m
  BY <1>0, <1>1, <1>2 DEF Ownership
<1>5. /\ alloc_pc'[m] = "idle"
      /\ \A m2 \in Mutators \ {m} :
           local_chunk'[m2] = local_chunk[m2] /\ alloc_pc'[m2] = alloc_pc[m2]
  <2>1. CASE next = MAX_SLOT_INDEX
    BY <1>0, <1>1, <2>1 DEF TypeOK
  <2>2. CASE next # MAX_SLOT_INDEX
    BY <1>0, <1>1, <2>2 DEF TypeOK
  <2>3. QED
    BY <2>1, <2>2
<1>6. /\ Pending(c0) /\ ~Pending(c0)'
      /\ \A c \in Chunks \ {c0} : Pending(c)' <=> Pending(c)
  <2>1. Pending(c0)
    BY <1>1 DEF Pending
  <2>2. ~Pending(c0)'
    BY <1>4, <1>5 DEF Pending
  <2>3. \A c \in Chunks \ {c0} : Pending(c)' <=> Pending(c)
    BY <1>5 DEF Pending
  <2>4. QED
    BY <2>1, <2>2, <2>3
<1>7. table[c0] \in Table /\ s \in Nat /\ cur_alloc_color = 0 /\ cur_mark_color = 2
  BY <1>0, <1>2, <1>3, SlotAssumption DEF TypeOK, ColorsFixed, Slots
\* The stored word adds exactly the cursor slot.
<1>8. tbl \in Table /\ New = Old \cup {s}
  <2>1. /\ word_read[m] \in Word
        /\ \A k \in 0 .. SLOT_NUM_PER_WORD_IN_TABLE - 1 :
             word_read[m][COLOR_BITS_PER_OBJ * k + cur_alloc_color] =
               table[c0][WordOf(s)][COLOR_BITS_PER_OBJ * k + cur_alloc_color]
    BY <1>0, <1>1 DEF TypeOK, PendingAllocBits
  <2>2. written \in Table /\ AllocView(written) = Old \cup {s}
    BY <1>3, <1>7, <2>1, WriteView, SlotsInTable
  <2>3. CASE phase = "Mark"
    <3>1. tbl = obj_mark_black_in_table(written, s)
      BY <2>3
    <3>2. QED
      BY <1>3, <1>7, <2>2, <3>1, MarkTable, MarkView, SlotsInTable
  <2>4. CASE phase # "Mark"
    BY <2>2, <2>4
  <2>5. QED
    BY <2>3, <2>4
<1>9. AllocView(table[c0])' = New
  <2>1. table'[c0] = tbl /\ cur_alloc_color' = cur_alloc_color
    BY <1>0, <1>1 DEF TypeOK
  <2> HIDE DEF tbl, written, s
  <2>2. AllocView(table[c0])' = AllocView(table'[c0])
    BY <2>1 DEF AllocView, slot_is_alloc_in_table
  <2>3. QED
    BY <2>1, <2>2
<1>10. PaddingFull(tbl)
  BY <1>3, <1>8 DEF PaddingFull
\* The scan after the cursor returns the least free slot above it.
<1> DEFINE R == {t \in s + 1 .. SLOT_NUM - 1 : ~slot_is_alloc_in_table(tbl, t)}
<1>11. next = Least(R)
  <2>1. \A t \in TableSlots \ Slots : slot_is_alloc_in_table(tbl, t)
    BY <1>10 DEF PaddingFull, AllocView
  <2>2. cur_alloc_color \in 0 .. COLOR_BITS_PER_OBJ - 1
    BY <1>7, WordAssumption
  <2>3. QED
    BY <1>7, <1>8, <2>1, <2>2, FreeScanCorrect DEF NaiveNextFree
<1>12. /\ R \subseteq Slots
       /\ \A t \in Slots : t \in R <=> t > s /\ t \notin New
  BY <1>7, SlotsInTable DEF AllocView, Slots
\* alloc_num counts the slot just allocated.
<1>13. alloc_num'[c0] = Cardinality(New \cap Slots)
        + (IF Pending(c0)' THEN 1 ELSE 0)
  <2>1. IsFiniteSet(Old \cap Slots) /\ Cardinality(Old \cap Slots) \in Nat
    BY ViewFinite
  <2>2. New \cap Slots = (Old \cap Slots) \cup {s} /\ s \notin Old \cap Slots
    BY <1>3, <1>8
  <2>3. Cardinality(New \cap Slots) = Cardinality(Old \cap Slots) + 1
    BY <2>1, <2>2, FS_AddElement
  <2>4. alloc_num'[c0] = alloc_num[c0]
    BY <1>1
  <2>5. QED
    BY <1>3, <1>6, <2>1, <2>3, <2>4
<1>135. PaddingFull(table[c0])'
  BY <1>9, <1>10 DEF PaddingFull
<1>14. ChunkOK(c0)'
  <2>1. CASE next = MAX_SLOT_INDEX
    <3>1. R = {}
      <4> SUFFICES ASSUME R # {} PROVE FALSE
        OBVIOUS
      <4>1. Least(R) \in Slots
        <5>1. R \in SUBSET Nat
          BY <1>12, SlotAssumption DEF Slots
        <5> HIDE DEF R
        <5>2. QED
          BY <1>12, <5>1, LeastIsMin
      <4>2. QED
        BY <4>1, <1>11, <2>1, SlotAssumption, WordAssumption DEF Slots
    <3>2. Slots \subseteq New
      BY <3>1, <1>3, <1>8, <1>12, <1>7 DEF Slots
    <3>3. status'[c0] = CHUNK_USED_NORMAL
      BY <1>0, <1>1, <1>2, <2>1 DEF TypeOK
    <3>4. QED
      <4> HIDE DEF New, tbl, written, s, next, R
      <4>1. QED
        BY <1>9, <1>135, <1>13, <3>2, <3>3 DEF ChunkOK
  <2>2. CASE next # MAX_SLOT_INDEX
    <3>1. R # {}
      BY <1>11, <2>2, LeastEmpty
    <3>2. next \in R /\ \A y \in R : next <= y
      <4>1. R \in SUBSET Nat
        BY <1>12, SlotAssumption DEF Slots
      <4> HIDE DEF R
      <4>2. QED
        BY <1>11, <3>1, <4>1, LeastIsMin
    <3>3. status'[c0] = status[c0] /\ slot_index'[c0] = next
      BY <1>0, <1>1, <1>2, <2>2 DEF TypeOK
    <3>4. next \in Slots /\ next \notin New
      BY <3>2, <1>12
    <3>5. 0 .. next - 1 \subseteq New
      <4> SUFFICES ASSUME NEW t \in 0 .. next - 1 PROVE t \in New
        OBVIOUS
      <4>1. t \in Slots
        BY <3>4, SlotAssumption DEF Slots
      <4>2. CASE t < s
        BY <4>2, <1>3, <1>8, <1>7
      <4>3. CASE t = s
        BY <4>3, <1>8
      <4>4. CASE t > s
        <5>1. t \notin R
          BY <3>2, <3>4, <4>1, SlotAssumption DEF Slots
        <5>2. QED
          BY <4>1, <4>4, <5>1, <1>12
      <4>5. QED
        BY <4>1, <4>2, <4>3, <4>4, <1>7 DEF Slots
    <3>6. status'[c0] # CHUNK_USED_NORMAL
      BY <1>2, <3>3 DEF CHUNK_NORMAL, CHUNK_USED_NORMAL
    <3>7. QED
      <4> HIDE DEF New, tbl, written, s, R
      <4>1. QED
        BY <1>9, <1>135, <1>13, <3>3, <3>4, <3>5, <3>6
           DEF ChunkOK, CursorOK
  <2>3. QED
    BY <2>1, <2>2
<1>15. \A c \in Chunks : ChunkOK(c)'
  <2> SUFFICES ASSUME NEW c \in Chunks, c # c0 PROVE ChunkOK(c)'
    BY <1>14
  <2>1. AllocView(table[c])' = AllocView(table[c])
    BY <1>1, ViewSame DEF TypeOK
  <2>2. /\ slot_index'[c] = slot_index[c]
        /\ status'[c] = status[c]
        /\ alloc_num'[c] = alloc_num[c]
    BY <1>0, <1>1 DEF TypeOK
  <2>3. QED
    BY <1>0, <1>6, <2>1, <2>2, ChunkStable
<1>16. PendingAllocBits'
  BY PWrite DEF KInv
<1>17. QED
  BY <1>15, <1>16

-----------------------------------------------------------------------------
(* The invariant and the two properties.                                   *)

\* Every step of Next keeps KInv: the step lemmas above, one per action,
\* and IInvNext for the conjuncts of IInv.
LEMMA KInvNext ==
  ASSUME KInv, [Next]_vars, PAD_LAST_WORD
  PROVE  KInv'
<1>1. IInv'
  BY IInvNext DEF KInv
<1>2. (\A c \in Chunks : ChunkOK(c))' /\ PendingAllocBits'
  <2>1. CASE \E m \in Mutators, c \in Chunks : AcquireChunk(m, c)
    BY <2>1, KAcquire
  <2>2. CASE \E m \in Mutators : AllocRead(m)
    BY <2>2, KRead
  <2>3. CASE \E m \in Mutators : AllocWrite(m)
    BY <2>3, KWrite
  <2>4. CASE \E c \in Chunks, t \in Slots : MarkSlot(c, t)
    BY <2>4, KMark
  <2>5. CASE StartConcurrentMark \/ FinishConcurrentMark \/ UNCHANGED vars
    BY <2>5, KPhase
  <2>6. QED
    BY <2>1, <2>2, <2>3, <2>4, <2>5 DEF Next
<1>3. QED
  BY <1>1, <1>2 DEF KInv

LEMMA KInvCursor ==
  ASSUME KInv
  PROVE  CursorIsLeastFree
<1> SUFFICES ASSUME NEW c \in Chunks, status[c] = CHUNK_NORMAL
             PROVE  /\ slot_index[c] \in Slots
                    /\ ~slot_is_alloc_in_table(table[c], slot_index[c])
                    /\ \A t \in 0 .. slot_index[c] - 1 :
                         slot_is_alloc_in_table(table[c], t)
  BY DEF CursorIsLeastFree
<1>1. CursorOK(c)
  BY DEF KInv, ChunkOK, CHUNK_NORMAL, CHUNK_USED_NORMAL
<1>2. slot_index[c] \in TableSlots
  BY <1>1, SlotsInTable DEF CursorOK
<1>3. QED
  BY <1>1, <1>2 DEF CursorOK, AllocView

LEMMA KInvFull ==
  ASSUME KInv
  PROVE  ExhaustedMeansFull
<1> SUFFICES ASSUME NEW c \in Chunks, status[c] = CHUNK_USED_NORMAL
             PROVE  /\ \A t \in Slots : slot_is_alloc_in_table(table[c], t)
                    /\ alloc_num[c] = SLOT_NUM
  BY DEF ExhaustedMeansFull
<1>1. Slots \subseteq AllocView(table[c])
  BY DEF KInv, ChunkOK
<1>2. ~Pending(c)
  BY DEF KInv, IInv, Ownership, Pending, CHUNK_NORMAL, CHUNK_USED_NORMAL
<1>3. alloc_num[c] = Cardinality(AllocView(table[c]) \cap Slots) + 0
  BY <1>2 DEF KInv, ChunkOK
<1>4. AllocView(table[c]) \cap Slots = Slots
  BY <1>1
<1>5. alloc_num[c] = SLOT_NUM
  <2>1. Cardinality(AllocView(table[c]) \cap Slots) = SLOT_NUM
    BY <1>4, SlotsFinite
  <2>2. SLOT_NUM \in Nat
    BY SlotAssumption
  <2> HIDE DEF Slots
  <2>3. QED
    BY <1>3, <2>1, <2>2
<1>6. QED
  BY <1>1, <1>5 DEF AllocView

LEMMA KInvScan ==
  ASSUME KInv
  PROVE  ScanMatchesReference
<1> SUFFICES ASSUME NEW c \in Chunks, NEW s \in Slots
             PROVE  next_free_slot_index_in_table(table[c], s)
                      = NaiveNextFree(table[c], s)
  BY DEF ScanMatchesReference
<1>1. table[c] \in Table /\ cur_alloc_color \in 0 .. COLOR_BITS_PER_OBJ - 1
  BY DEF KInv, IInv, TypeOK
<1>2. \A t \in TableSlots \ Slots : slot_is_alloc_in_table(table[c], t)
  BY DEF KInv, ChunkOK, PaddingFull, AllocView
<1>3. s \in Nat
  BY SlotAssumption DEF Slots
<1>4. QED
  BY <1>1, <1>2, <1>3, FreeScanCorrect

\* When chunk set-up makes the padding fields of the last word look
\* allocated, the cursor of every chunk an allocator holds is, after every
\* interleaving of alloc_in_chunk's read and write-back with the marker's
\* writes, the least free slot of the chunk: the word-skipping scan of
\* next_free_slot_index_in_table never skips a free slot.
THEOREM CursorIsLeastFreeInvariant ==
  PAD_LAST_WORD => (Spec => []CursorIsLeastFree)
<1> SUFFICES ASSUME PAD_LAST_WORD PROVE Spec => []CursorIsLeastFree
  OBVIOUS
<1>1. Init => KInv
  BY KInvInit
<1>2. KInv /\ [Next]_vars => KInv'
  BY KInvNext
<1>3. KInv => CursorIsLeastFree
  BY KInvCursor
<1>4. QED
  BY <1>1, <1>2, <1>3, PTL DEF Spec

\* Under the same set-up, alloc_in_chunk hands a chunk back as
\* CHUNK_USED | CHUNK_NORMAL only when all slot_num of its slots are
\* allocated and alloc_num has counted each of them exactly once.
THEOREM ExhaustedMeansFullInvariant ==
  PAD_LAST_WORD => (Spec => []ExhaustedMeansFull)
<1> SUFFICES ASSUME PAD_LAST_WORD PROVE Spec => []ExhaustedMeansFull
  OBVIOUS
<1>1. Init => KInv
  BY KInvInit
<1>2. KInv /\ [Next]_vars => KInv'
  BY KInvNext
<1>3. KInv => ExhaustedMeansFull
  BY KInvFull
<1>4. QED
  BY <1>1, <1>2, <1>3, PTL DEF Spec

\* When chunk set-up makes the padding fields look allocated, the
\* word-at-a-time scan next_free_slot_index_in_table, skipping words equal
\* to cur_alloc_mask, returns on every table alloc_in_chunk reaches what a
\* slot-by-slot scan returns.  Without that set-up it returns a padding
\* slot already in the initial tables.
THEOREM ScanMatchesReferenceInvariant ==
  PAD_LAST_WORD => (Spec => []ScanMatchesReference)
<1> SUFFICES ASSUME PAD_LAST_WORD PROVE Spec => []ScanMatchesReference
  OBVIOUS
<1>1. Init => KInv
  BY KInvInit
<1>2. KInv /\ [Next]_vars => KInv'
  BY KInvNext
<1>3. KInv => ScanMatchesReference
  BY KInvScan
<1>4. QED
  BY <1>1, <1>2, <1>3, PTL DEF Spec

-----------------------------------------------------------------------------
(* No step loses an allocation.                                            *)

\* The step predicate of AllocBitsStable.
AllocGrows ==
  \A c \in Chunks : \A s \in TableSlots :
    slot_is_alloc_in_table(table[c], s) => slot_is_alloc_in_table(table'[c], s)

LEMMA PInvInit ==
  ASSUME Init
  PROVE  PInv
BY IInvInit DEF Init, PInv, PendingAllocBits

\* A table that only grows in alloc view satisfies the step predicate.
LEMMA GrowsFromView ==
  ASSUME \A c \in Chunks : AllocView(table[c]) \subseteq AllocView(table'[c])
  PROVE  AllocGrows
BY DEF AllocGrows, AllocView

\* The write-back of alloc_in_chunk changes only the owner's table, and
\* adds to its alloc view exactly the cursor slot: the word stored is the
\* loaded word, whose alloc bits are the table word's (PendingAllocBits),
\* with the cursor's alloc bit set (WriteView), and in a mark phase its
\* mark bit too (MarkView).
LEMMA WriteTable ==
  ASSUME PInv, NEW m \in Mutators, AllocWrite(m),
         NEW c0 \in Chunks, c0 = local_chunk[m]
  PROVE  /\ \A c \in Chunks \ {c0} : table'[c] = table[c]
         /\ table'[c0] \in Table
         /\ AllocView(table'[c0]) = AllocView(table[c0]) \cup {slot_index[c0]}
<1>0. /\ TypeOK /\ Ownership
      /\ cur_alloc_color = 0 /\ cur_mark_color = 2
      /\ PendingAllocBits
  BY DEF PInv, IInv, ColorsFixed
<1>1. alloc_pc[m] = "write"
  BY DEF AllocWrite
<1> DEFINE s == slot_index[c0]
           written == alloc_slot_in_table(table[c0], s, word_read[m])
           tbl == IF phase = "Mark" THEN obj_mark_black_in_table(written, s)
                  ELSE written
<1>2. table' = [table EXCEPT ![c0] = tbl]
  BY DEF AllocWrite
<1>3. table[c0] \in Table /\ s \in TableSlots /\ word_read[m] \in Word
  BY <1>0, <1>1 DEF Ownership, TypeOK, CHUNK_NORMAL, CHUNK_FREE
<1>4. \A k \in 0 .. SLOT_NUM_PER_WORD_IN_TABLE - 1 :
        word_read[m][COLOR_BITS_PER_OBJ * k + cur_alloc_color] =
          table[c0][WordOf(s)][COLOR_BITS_PER_OBJ * k + cur_alloc_color]
  BY <1>0, <1>1 DEF PendingAllocBits
<1>5. written \in Table /\ AllocView(written) = AllocView(table[c0]) \cup {s}
  BY <1>0, <1>3, <1>4, WriteView
<1>6. tbl \in Table /\ AllocView(tbl) = AllocView(table[c0]) \cup {s}
  <2>1. CASE phase = "Mark"
    BY <1>0, <1>3, <1>5, <2>1, MarkView, MarkTable
  <2>2. CASE phase # "Mark"
    BY <1>5, <2>2
  <2>3. QED
    BY <2>1, <2>2
<1> HIDE DEF tbl, written, s
<1>7. /\ table'[c0] = tbl /\ s = slot_index[c0]
      /\ \A c \in Chunks \ {c0} : table'[c] = table[c]
  BY <1>0, <1>2 DEF TypeOK, s
<1>8. QED
  BY <1>6, <1>7

LEMMA GrowsStep ==
  ASSUME PInv, [Next]_vars
  PROVE  AllocGrows
<1>0. /\ TypeOK /\ Ownership /\ NULL \notin Chunks
      /\ cur_alloc_color = 0 /\ cur_mark_color = 2
      /\ PendingAllocBits
  BY ChunkAssumption DEF PInv, IInv, ColorsFixed
<1>1. CASE UNCHANGED table
  BY <1>1, GrowsFromView
<1>2. ASSUME NEW c0 \in Chunks, NEW s \in Slots, MarkSlot(c0, s)
      PROVE  AllocGrows
  <2>1. table' = [table EXCEPT ![c0] = obj_mark_black_in_table(table[c0], s)]
    BY <1>2 DEF MarkSlot
  <2>2. AllocView(obj_mark_black_in_table(table[c0], s)) = AllocView(table[c0])
    BY <1>0, MarkView, SlotsInTable DEF TypeOK
  <2>3. QED
    BY <1>0, <2>1, <2>2, GrowsFromView DEF TypeOK
<1>3. ASSUME NEW m \in Mutators, AllocWrite(m)
      PROVE  AllocGrows
  <2>1. PICK c0 \in Chunks : c0 = local_chunk[m]
    BY <1>0, <1>3 DEF AllocWrite, Ownership, TypeOK
  <2>2. /\ \A c \in Chunks \ {c0} : table'[c] = table[c]
        /\ AllocView(table'[c0]) = AllocView(table[c0]) \cup {slot_index[c0]}
    BY <1>3, <2>1, WriteTable
  <2>3. QED
    BY <2>2, GrowsFromView
<1>4. QED
  <2>1. CASE \E m \in Mutators, c \in Chunks : AcquireChunk(m, c)
    BY <2>1, <1>1 DEF AcquireChunk
  <2>2. CASE \E m \in Mutators : AllocRead(m)
    BY <2>2, <1>1 DEF AllocRead
  <2>3. CASE \E m \in Mutators : AllocWrite(m)
    BY <2>3, <1>3
  <2>4. CASE \E c \in Chunks, t \in Slots : MarkSlot(c, t)
    BY <2>4, <1>2
  <2>5. CASE StartConcurrentMark \/ FinishConcurrentMark \/ UNCHANGED vars
    BY <2>5, <1>1 DEF StartConcurrentMark, FinishConcurrentMark, vars
  <2>6. QED
    BY <2>1, <2>2, <2>3, <2>4, <2>5 DEF Next

\* Whatever the padding set-up, no step clears an alloc colour bit: the
\* split read and write-back of alloc_in_chunk stores a word whose alloc
\* bits are still the table word's (PendingAllocBits), because only the
\* chunk's owner writes them and the collector's mark writes mark bits.
THEOREM AllocBitsStableTheorem == Spec => AllocBitsStable
<1>1. Init => PInv
  BY PInvInit
<1>2. PInv /\ [Next]_vars => PInv'
  BY PInvNext
<1>3. PInv /\ [Next]_vars => AllocGrows
  BY GrowsStep
<1>4. QED
  BY <1>1, <1>2, <1>3, PTL DEF Spec, AllocBitsStable, AllocGrows

=============================================================================
