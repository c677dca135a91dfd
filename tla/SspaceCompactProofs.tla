------------------------ MODULE SspaceCompactProofs ------------------------
(***************************************************************************)
(* Proofs about the compaction iterator of SspaceCompact, for every table  *)
(* geometry: clear_free_slot_in_table agrees with its reference on every   *)
(* table the compactor reaches, and, when chunk set-up leaves the padding  *)
(* fields of the last word without the alloc colour, the iterator returns *)
(* exactly the live slots below its cursor (all of them once it returns    *)
(* NULL).  Both rest on the scan lemmas of SspaceTableLemmas.              *)
(***************************************************************************)
EXTENDS SspaceCompact, SspaceTableLemmas, FiniteSetTheorems, TLAPS

\* The live slots at or after a cursor: the set whose least element
\* NaiveNextAlloc returns.
LiveFrom(tbl, c) == {t \in c .. SLOT_NUM - 1 : slot_is_alloc_in_table(tbl, t)}

\* No padding field of the table carries the alloc colour.
PaddingClear(tbl) == \A t \in TableSlots \ Slots : ~slot_is_alloc_in_table(tbl, t)

\* The inductive invariant of the iteration: the table and the colours are
\* those set up, the returned slots are the live slots below the cursor,
\* and NULL was returned only when no live slot was left.
CInv ==
  /\ table \in Table
  /\ cur_alloc_color = 0
  /\ slot_index \in Nat
  /\ PaddingClear(table)
  /\ visited = {t \in Slots : t < slot_index /\ slot_is_alloc_in_table(table, t)}
  /\ iter_done => LiveFrom(table, slot_index) = {}

-----------------------------------------------------------------------------
(* The table the compactor starts from.                                    *)

\* The swept table of Init is a colour table.
LEMMA InitTableType ==
  ASSUME Init
  PROVE  table \in Table
<1>1. PICK survivors, stale \in SUBSET Slots :
        table = [w \in WordIndex |-> [i \in BitIndex |->
                   IF /\ i % COLOR_BITS_PER_OBJ = cur_mark_color
                      /\ composed_slot_index(w, i) \in stale
                   THEN 1 ELSE InitTable(survivors)[w][i]]]
  BY DEF Init
<1>2. QED
  BY <1>1 DEF Table, Word, InitTable

\* Without PAD_LAST_WORD no padding field of the swept table is allocated.
LEMMA InitPaddingClear ==
  ASSUME Init, ~PAD_LAST_WORD
  PROVE  PaddingClear(table)
<1> DEFINE C == COLOR_BITS_PER_OBJ
           q == SLOT_NUM_PER_WORD_IN_TABLE
<1>1. PICK survivors, stale \in SUBSET Slots :
        table = [w \in WordIndex |-> [i \in BitIndex |->
                   IF /\ i % C = cur_mark_color
                      /\ composed_slot_index(w, i) \in stale
                   THEN 1 ELSE InitTable(survivors)[w][i]]]
  BY DEF Init
<1>2. cur_alloc_color = 0 /\ cur_mark_color = 2
  BY DEF Init
<1>3. C \in Nat \ {0, 1, 2} /\ q \in Nat \ {0} /\ MaxWordIndex \in Nat
  BY WordAssumption, WordSplit, WordIndexBelowMax
<1> SUFFICES ASSUME NEW t \in TableSlots \ Slots
             PROVE  ~slot_is_alloc_in_table(table, t)
  BY DEF PaddingClear
<1>4. t \in Nat
  BY <1>3 DEF TableSlots
<1> DEFINE w == WordOf(t)
           k == t % q
<1>5. w \in Nat /\ k \in 0 .. q - 1 /\ t = q * w + k /\ IndexInWord(t) = C * k
  BY <1>4, SlotSplit
<1>6. w \in WordIndex
  BY WordOfTableSlot
<1>7. C * k \in BitIndex /\ composed_slot_index(w, C * k) = w * q + k
  BY <1>5, FieldSlot
<1>8. (C * k) % C = 0
  <2>1. (k * C) % C = 0
    BY <1>3, <1>5, MulMod
  <2>2. QED
    BY <2>1, <1>3, <1>5
<1>9. composed_slot_index(w, C * k - ((C * k) % C)) = t
  BY <1>5, <1>7, <1>8, <1>3
<1>10. t \notin survivors /\ t \notin Slots
  OBVIOUS
<1>11. table[w][C * k] = 0
  BY <1>1, <1>2, <1>6, <1>7, <1>8, <1>9, <1>10, ~PAD_LAST_WORD DEF InitTable
<1>12. C * k \in Nat /\ IndexInWord(t) + cur_alloc_color = C * k
  BY <1>2, <1>3, <1>5
<1>13. QED
  BY <1>11, <1>12 DEF slot_is_alloc_in_table

-----------------------------------------------------------------------------
(* clear_free_slot_in_table.                                               *)

\* The table is a colour table in every state of the iteration.
TableOK == table \in Table

LEMMA TableTyped == Spec => []TableOK
<1>1. Init => TableOK
  BY InitTableType DEF TableOK
<1>2. TableOK /\ [Next]_vars => TableOK'
  BY DEF TableOK, Next, next_alloc_slot_in_chunk, vars
<1>3. QED
  BY <1>1, <1>2, PTL DEF Spec

\* On every table the compactor reaches, clear_free_slot_in_table, with
\* its word-wise clearing and its partial last word, clears exactly the
\* colour fields of the slots below every ceiling it accepts.
THEOREM ClearInvariant == Spec => []ClearMatchesReference
<1>1. TableOK => ClearMatchesReference
  BY ClearCorrect, SlotAssumption DEF TableOK, ClearMatchesReference
<1>2. QED
  BY <1>1, TableTyped, PTL

-----------------------------------------------------------------------------
(* Types.                                                                  *)

\* The table has (MaxWordIndex + 1) * SLOT_NUM_PER_WORD_IN_TABLE fields.
LEMMA TableSlotsCard ==
  /\ TableSlots \subseteq Nat
  /\ Cardinality(TableSlots) = (MaxWordIndex + 1) * SLOT_NUM_PER_WORD_IN_TABLE
<1> DEFINE N == (MaxWordIndex + 1) * SLOT_NUM_PER_WORD_IN_TABLE
<1>1. N \in Nat /\ N - 1 \in Int /\ 0 \in Int
  BY WordSplit, WordIndexBelowMax
<1>2. Cardinality(0 .. N - 1) = IF 0 > N - 1 THEN 0 ELSE (N - 1) - 0 + 1
  BY <1>1, FS_Interval
<1>3. QED
  BY <1>1, <1>2 DEF TableSlots

\* The iterator's state keeps its type: each call returns a field of the
\* table or NULL (NextAllocType), and the cursor moves just past it.
THEOREM CompactTypeCorrect == Spec => []TypeOK
<1>1. Init => TypeOK
  <2> SUFFICES ASSUME Init PROVE TypeOK
    OBVIOUS
  <2>1. table \in Table
    BY InitTableType
  <2>2. Cardinality(TableSlots) \in Nat
    BY TableSlotsCard, WordSplit, WordIndexBelowMax
  <2>3. slot_index = 0 /\ visited = {} /\ iter_done = FALSE
    BY DEF Init
  <2>4. 0 \in 0 .. Cardinality(TableSlots)
    BY <2>2
  <2>5. QED
    BY <2>1, <2>3, <2>4, Zenon DEF TypeOK
<1>2. TypeOK /\ [Next]_vars => TypeOK'
  <2> SUFFICES ASSUME TypeOK, [Next]_vars PROVE TypeOK'
    OBVIOUS
  <2>1. CASE UNCHANGED vars
    BY <2>1 DEF TypeOK, vars
  <2>2. CASE next_alloc_slot_in_chunk
    <3> DEFINE s == next_alloc_slot_index_in_table(table, slot_index)
    <3>1. slot_index \in Nat
      BY TableSlotsCard, FS_CardinalityType DEF TypeOK
    <3>2. s \in TableSlots \cup {MAX_SLOT_INDEX}
      BY <3>1, NextAllocType
    <3>3. UNCHANGED table
      BY <2>2 DEF next_alloc_slot_in_chunk
    <3>4. CASE s = MAX_SLOT_INDEX
      BY <2>2, <3>3, <3>4 DEF next_alloc_slot_in_chunk, TypeOK
    <3>5. CASE s # MAX_SLOT_INDEX
      <4>1. s \in TableSlots
        BY <3>2, <3>5
      <4>2. visited' = visited \cup {s} /\ slot_index' = s + 1 /\ iter_done' = iter_done
        BY <2>2, <3>5 DEF next_alloc_slot_in_chunk
      <4> HIDE DEF s
      <4>3. s + 1 \in 0 .. Cardinality(TableSlots)
        BY <4>1, TableSlotsCard, WordSplit, WordIndexBelowMax DEF TableSlots
      <4>4. QED
        BY <3>3, <4>1, <4>2, <4>3 DEF TypeOK
    <3>6. QED
      BY <3>4, <3>5
  <2>3. QED
    BY <2>1, <2>2 DEF Next
<1>3. QED
  BY <1>1, <1>2, PTL DEF Spec

-----------------------------------------------------------------------------
(* next_alloc_slot_in_chunk.                                               *)

LEMMA CInvInit ==
  ASSUME Init, ~PAD_LAST_WORD
  PROVE  CInv
<1>1. table \in Table /\ PaddingClear(table)
  BY InitTableType, InitPaddingClear
<1>2. QED
  BY <1>1, SlotAssumption DEF Init, CInv, Slots

\* One call of next_alloc_slot_in_chunk keeps CInv: the word-skipping scan
\* returns the least live slot at or after the cursor (AllocScanCorrect),
\* so the slot returned is the only live slot between the old and the new
\* cursor, and NULL comes only when no live slot is left.
LEMMA CInvNext ==
  ASSUME CInv, [Next]_vars
  PROVE  CInv'
<1>1. CASE UNCHANGED vars
  BY <1>1 DEF CInv, vars, LiveFrom, PaddingClear, slot_is_alloc_in_table
<1>2. CASE next_alloc_slot_in_chunk
  <2> DEFINE s == next_alloc_slot_index_in_table(table, slot_index)
             L == LiveFrom(table, slot_index)
  <2>1. /\ ~iter_done
        /\ UNCHANGED <<table, cur_alloc_color, cur_mark_color>>
    BY <1>2 DEF next_alloc_slot_in_chunk
  <2>2. s = Least(L)
    <3>1. cur_alloc_color \in 0 .. COLOR_BITS_PER_OBJ - 1
      BY WordAssumption DEF CInv
    <3>2. QED
      BY <3>1, AllocScanCorrect DEF CInv, PaddingClear, NaiveNextAlloc, LiveFrom
  <2>3. L \subseteq Slots /\ Slots \subseteq Nat
    BY SlotAssumption DEF CInv, LiveFrom, Slots
  <2>4. \A t : slot_is_alloc_in_table(table, t)' = slot_is_alloc_in_table(table, t)
    BY <2>1 DEF slot_is_alloc_in_table
  <2>5. CASE s = MAX_SLOT_INDEX
    <3>1. L = {}
      <4> SUFFICES ASSUME L # {} PROVE FALSE
        OBVIOUS
      <4>1. Least(L) \in Slots
        BY <2>3, LeastIsMin
      <4>2. QED
        BY <4>1, <2>2, <2>5, SlotAssumption, WordAssumption DEF Slots
    <3>2. iter_done' = TRUE /\ UNCHANGED <<slot_index, visited>>
      BY <1>2, <2>5 DEF next_alloc_slot_in_chunk
    <3>3. QED
      BY <3>1, <3>2, <2>1, <2>4 DEF CInv, LiveFrom, PaddingClear
  <2>6. CASE s # MAX_SLOT_INDEX
    <3>1. L # {}
      BY <2>2, <2>6, LeastEmpty
    <3>2. s \in L /\ \A y \in L : s <= y
      BY <3>1, <2>2, <2>3, LeastIsMin
    <3>3. visited' = visited \cup {s} /\ slot_index' = s + 1 /\ iter_done' = iter_done
      BY <1>2, <2>6 DEF next_alloc_slot_in_chunk
    <3>4. s \in Slots /\ s >= slot_index /\ slot_is_alloc_in_table(table, s)
      BY <3>2 DEF CInv, LiveFrom, Slots
    <3>5. visited \cup {s} =
            {t \in Slots : t < s + 1 /\ slot_is_alloc_in_table(table, t)}
      BY <3>2, <3>4, <2>3 DEF CInv, LiveFrom, Slots
    <3>6. table' \in Table /\ cur_alloc_color' = 0 /\ slot_index' \in Nat
      <4>1. s \in Nat
        BY <3>4, <2>3
      <4> HIDE DEF s
      <4>2. slot_index' \in Nat
        BY <4>1, <3>3
      <4>3. QED
        BY <4>2, <2>1 DEF CInv
    <3>7. PaddingClear(table)'
      BY <2>1 DEF CInv, PaddingClear, slot_is_alloc_in_table
    <3>8. visited' =
            {t \in Slots : t < slot_index' /\ slot_is_alloc_in_table(table, t)'}
      BY <3>3, <3>5, <2>1 DEF slot_is_alloc_in_table
    <3>9. ~iter_done'
      BY <3>3, <2>1
    <3>10. QED
      BY <3>6, <3>7, <3>8, <3>9 DEF CInv
  <2>7. QED
    BY <2>5, <2>6
<1>3. QED
  BY <1>1, <1>2 DEF Next

LEMMA CInvLive ==
  ASSUME CInv
  PROVE  IterationVisitsLive
<1>1. CASE ~iter_done
  BY <1>1 DEF CInv, IterationVisitsLive
<1>2. CASE iter_done
  <2>1. LiveFrom(table, slot_index) = {}
    BY <1>2 DEF CInv
  <2>2. {t \in Slots : t < slot_index /\ slot_is_alloc_in_table(table, t)}
        = {t \in Slots : t < SLOT_NUM /\ slot_is_alloc_in_table(table, t)}
    BY <2>1, SlotAssumption DEF CInv, LiveFrom, Slots
  <2>3. QED
    BY <1>2, <2>2 DEF CInv, IterationVisitsLive
<1>3. QED
  BY <1>1, <1>2

\* When chunk set-up leaves the padding fields of the last word without
\* the alloc colour, next_alloc_slot_in_chunk, skipping all-zero words,
\* returns exactly the live slots below its cursor and, once it returned
\* NULL, every live slot of the chunk.
THEOREM IterationVisitsLiveInvariant ==
  ~PAD_LAST_WORD => (Spec => []IterationVisitsLive)
<1> SUFFICES ASSUME ~PAD_LAST_WORD PROVE Spec => []IterationVisitsLive
  OBVIOUS
<1>1. Init => CInv
  BY CInvInit
<1>2. CInv /\ [Next]_vars => CInv'
  BY CInvNext
<1>3. CInv => IterationVisitsLive
  BY CInvLive
<1>4. QED
  BY <1>1, <1>2, <1>3, PTL DEF Spec
=============================================================================
