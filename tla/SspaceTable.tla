----------------------------- MODULE SspaceTable -----------------------------
(***************************************************************************)
(* The colour table of a mark-sweep chunk and its operations               *)
(* (sspace_alloc.h), shared by the allocator (SspaceAlloc) and the         *)
(* compaction iterator (SspaceCompact).                                    *)
(*                                                                         *)
(* Every normal chunk of one size class has SLOT_NUM slots and a colour    *)
(* table: a sequence of words, each holding the COLOR_BITS_PER_OBJ-bit     *)
(* colour fields of BITS_PER_WORD \div COLOR_BITS_PER_OBJ slots.  A word   *)
(* is modelled as a function from bit positions to {0, 1}, so the word     *)
(* compares of the scans' fast paths and the read-modify-write of          *)
(* alloc_slot_in_table act on whole words as the code does.  The current  *)
(* colours are the globals cur_alloc_color and cur_mark_color.             *)
(***************************************************************************)
EXTENDS Naturals, FiniteSets

CONSTANTS
  BITS_PER_WORD,       \* bits of a POINTER_SIZE_INT table word
  COLOR_BITS_PER_OBJ,  \* bits of one slot's colour field
  SLOT_NUM,            \* chunk->slot_num of the size class
  MAX_SLOT_INDEX,      \* the sentinel 0xFFFFffff: no slot / no bit index
  PAD_LAST_WORD        \* chunk set-up gives the unused fields of the last
                       \* table word the alloc colour

ASSUME WordAssumption ==
  /\ BITS_PER_WORD \in Nat \ {0}
  /\ COLOR_BITS_PER_OBJ \in Nat \ {0, 1, 2}
  /\ BITS_PER_WORD % COLOR_BITS_PER_OBJ = 0
ASSUME SlotAssumption ==
  /\ SLOT_NUM \in Nat \ {0}
  /\ MAX_SLOT_INDEX \in Nat
  /\ MAX_SLOT_INDEX >= BITS_PER_WORD
  /\ MAX_SLOT_INDEX >= SLOT_NUM * COLOR_BITS_PER_OBJ + BITS_PER_WORD

-----------------------------------------------------------------------------
(* Geometry of a colour table.                                             *)

SLOT_NUM_PER_WORD_IN_TABLE == BITS_PER_WORD \div COLOR_BITS_PER_OBJ

\* max_word_index of the scans: the last word holding a field of a slot.
MaxWordIndex == ((SLOT_NUM - 1) * COLOR_BITS_PER_OBJ) \div BITS_PER_WORD

WordIndex == 0 .. MaxWordIndex
BitIndex == 0 .. BITS_PER_WORD - 1
Word == [BitIndex -> {0, 1}]
Table == [WordIndex -> Word]

Slots == 0 .. SLOT_NUM - 1
\* every field of the table, the padding fields of the last word included
TableSlots == 0 .. (MaxWordIndex + 1) * SLOT_NUM_PER_WORD_IN_TABLE - 1

WordOf(slot_index) == (slot_index * COLOR_BITS_PER_OBJ) \div BITS_PER_WORD
IndexInWord(slot_index) == (slot_index * COLOR_BITS_PER_OBJ) % BITS_PER_WORD

\* The least element of a set of naturals, MAX_SLOT_INDEX for none.
Least(S) ==
  IF \E x \in S : \A y \in S : x <= y
  THEN CHOOSE x \in S : \A y \in S : x <= y
  ELSE MAX_SLOT_INDEX

-----------------------------------------------------------------------------
VARIABLES
  cur_alloc_color,  \* bit offset in a field of the current alloc colour
  cur_mark_color    \* bit offset in a field of the current mark colour

\* cur_alloc_mask: a word whose every field has exactly the alloc colour.
CurAllocMask ==
  [i \in BitIndex |-> IF i % COLOR_BITS_PER_OBJ = cur_alloc_color THEN 1 ELSE 0]

-----------------------------------------------------------------------------
(* The table operations of sspace_alloc.h.                                 *)

slot_is_alloc_in_table(tbl, s) ==
  tbl[WordOf(s)][IndexInWord(s) + cur_alloc_color] = 1

SlotIsMarked(tbl, s) ==
  tbl[WordOf(s)][IndexInWord(s) + cur_mark_color] = 1

composed_slot_index(word_index, index_in_word) ==
  (word_index * BITS_PER_WORD + index_in_word) \div COLOR_BITS_PER_OBJ

\* Fault variant: a do-while loop that steps past the first field first.
next_free_index_in_color_word_skip_first(word, index) ==
  Least({i \in index + COLOR_BITS_PER_OBJ .. BITS_PER_WORD - 1 :
           /\ (i - index) % COLOR_BITS_PER_OBJ = 0
           /\ word[i + cur_alloc_color] = 0})

\* The loop steps index by COLOR_BITS_PER_OBJ until BITS_PER_WORD and
\* returns the first field start whose alloc colour bit is clear.
next_free_index_in_color_word(word, index) ==
  Least({i \in index .. BITS_PER_WORD - 1 :
           /\ (i - index) % COLOR_BITS_PER_OBJ = 0
           /\ word[i + cur_alloc_color] = 0})

\* Fault variant: the word loop stops before max_word_index (< for <=).
next_free_slot_index_in_table_short(tbl, slot_index0) ==
  LET from == slot_index0 + 1
      StartIn(w) == IF w = WordOf(from) THEN IndexInWord(from) ELSE 0
      Hit(w) == /\ tbl[w] # CurAllocMask
                /\ next_free_index_in_color_word(tbl[w], StartIn(w)) # MAX_SLOT_INDEX
      w == Least({v \in WordOf(from) .. MaxWordIndex - 1 : Hit(v)})
  IN  IF w = MAX_SLOT_INDEX THEN MAX_SLOT_INDEX
      ELSE composed_slot_index(w, next_free_index_in_color_word(tbl[w], StartIn(w)))

\* The word loop: words equal to cur_alloc_mask are skipped whole; in the
\* first word the search starts at the field after slot_index, in the
\* following ones at bit 0.  The result is the first word that is not
\* skipped and holds a free field.
next_free_slot_index_in_table(tbl, slot_index0) ==
  LET from == slot_index0 + 1
      StartIn(w) == IF w = WordOf(from) THEN IndexInWord(from) ELSE 0
      Hit(w) == /\ tbl[w] # CurAllocMask
                /\ next_free_index_in_color_word(tbl[w], StartIn(w)) # MAX_SLOT_INDEX
      w == Least({v \in WordOf(from) .. MaxWordIndex : Hit(v)})
  IN  IF w = MAX_SLOT_INDEX THEN MAX_SLOT_INDEX
      ELSE composed_slot_index(w, next_free_index_in_color_word(tbl[w], StartIn(w)))

\* Fault variant: a plain store of the colour instead of |=.
alloc_slot_in_table_store(tbl, s, word) ==
  [tbl EXCEPT ![WordOf(s)] =
     [i \in BitIndex |-> IF i = IndexInWord(s) + cur_alloc_color THEN 1 ELSE 0]]

\* table[word_index] |= cur_alloc_color << index_in_word, written back
\* from the word read earlier.
alloc_slot_in_table(tbl, s, word) ==
  [tbl EXCEPT ![WordOf(s)] = [word EXCEPT ![IndexInWord(s) + cur_alloc_color] = 1]]

\* obj_mark_black_in_table: a CAS loop that sets the mark colour bit.
obj_mark_black_in_table(tbl, s) ==
  [tbl EXCEPT ![WordOf(s)][IndexInWord(s) + cur_mark_color] = 1]

\* The reference the scan must agree with: the least free slot above s.
NaiveNextFree(tbl, s) ==
  Least({t \in s + 1 .. SLOT_NUM - 1 : ~slot_is_alloc_in_table(tbl, t)})

-----------------------------------------------------------------------------
(* The table operations of sweep-time compaction.                          *)

ZeroWord == [i \in BitIndex |-> 0]

\* The loop of next_free_index_in_color_word with the test inverted: the
\* first field start from index on whose alloc colour bit is set.
next_alloc_index_in_color_word(word, index) ==
  Least({i \in index .. BITS_PER_WORD - 1 :
           /\ (i - index) % COLOR_BITS_PER_OBJ = 0
           /\ word[i + cur_alloc_color] = 1})

\* Fault variant: the search starts after slot_index, as the free scan's
\* ++slot_index does.
next_alloc_slot_index_in_table_from_next(tbl, slot_index0) ==
  LET from == slot_index0 + 1
      StartIn(w) == IF w = WordOf(from) THEN IndexInWord(from) ELSE 0
      Hit(w) == /\ tbl[w] # ZeroWord
                /\ next_alloc_index_in_color_word(tbl[w], StartIn(w)) # MAX_SLOT_INDEX
      w == Least({v \in WordOf(from) .. MaxWordIndex : Hit(v)})
  IN  IF w = MAX_SLOT_INDEX THEN MAX_SLOT_INDEX
      ELSE composed_slot_index(w, next_alloc_index_in_color_word(tbl[w], StartIn(w)))

\* The word loop from slot_index itself: all-zero words are skipped whole,
\* the first word is searched from slot_index's field, the others from
\* bit 0; the result is the first field found with the alloc colour.
next_alloc_slot_index_in_table(tbl, slot_index0) ==
  LET StartIn(w) == IF w = WordOf(slot_index0) THEN IndexInWord(slot_index0) ELSE 0
      Hit(w) == /\ tbl[w] # ZeroWord
                /\ next_alloc_index_in_color_word(tbl[w], StartIn(w)) # MAX_SLOT_INDEX
      w == Least({v \in WordOf(slot_index0) .. MaxWordIndex : Hit(v)})
  IN  IF w = MAX_SLOT_INDEX THEN MAX_SLOT_INDEX
      ELSE composed_slot_index(w, next_alloc_index_in_color_word(tbl[w], StartIn(w)))

\* Fault variant: the mask keeps bits_need_clear bits, not that many fields.
clear_free_slot_in_table_unscaled(tbl, ceiling_slot_index) ==
  LET index_word_num == ceiling_slot_index \div SLOT_NUM_PER_WORD_IN_TABLE
      bits_need_clear == ceiling_slot_index % SLOT_NUM_PER_WORD_IN_TABLE
  IN  [w \in WordIndex |->
         IF w < index_word_num THEN ZeroWord
         ELSE IF w = index_word_num /\ bits_need_clear # 0
         THEN [i \in BitIndex |-> IF i < bits_need_clear THEN 0 ELSE tbl[w][i]]
         ELSE tbl[w]]

\* memset of the index_word_num whole words below the ceiling, then the
\* and with a mask that clears the low bits_need_clear fields of the word
\* holding the ceiling.
clear_free_slot_in_table(tbl, ceiling_slot_index) ==
  LET index_word_num == ceiling_slot_index \div SLOT_NUM_PER_WORD_IN_TABLE
      bits_need_clear == ceiling_slot_index % SLOT_NUM_PER_WORD_IN_TABLE
  IN  [w \in WordIndex |->
         IF w < index_word_num THEN ZeroWord
         ELSE IF w = index_word_num /\ bits_need_clear # 0
         THEN [i \in BitIndex |->
                 IF i < bits_need_clear * COLOR_BITS_PER_OBJ THEN 0 ELSE tbl[w][i]]
         ELSE tbl[w]]

\* The references: the allocated slots of the chunk in order, and the
\* table with every colour field of a slot below the ceiling cleared.
NaiveNextAlloc(tbl, s) ==
  Least({t \in s .. SLOT_NUM - 1 : slot_is_alloc_in_table(tbl, t)})

NaiveClear(tbl, ceiling) ==
  [w \in WordIndex |-> [i \in BitIndex |->
     IF composed_slot_index(w, i) < ceiling THEN 0 ELSE tbl[w][i]]]

-----------------------------------------------------------------------------
(* Chunk set-up by the chunk supplier (not in this file): the survivors    *)
(* of the last sweep keep the alloc colour, the other slots are clear, the *)
(* padding fields get the alloc colour when PAD_LAST_WORD holds, and the   *)
(* cursor is the least free slot.                                          *)

InitTable(survivors) ==
  [w \in WordIndex |-> [i \in BitIndex |->
     LET s == composed_slot_index(w, i - (i % COLOR_BITS_PER_OBJ))
     IN  IF /\ i % COLOR_BITS_PER_OBJ = cur_alloc_color
            /\ \/ s \in survivors
               \/ s \notin Slots /\ PAD_LAST_WORD
         THEN 1 ELSE 0]]

=============================================================================
