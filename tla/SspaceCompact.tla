--------------------------- MODULE SspaceCompact ---------------------------
(***************************************************************************)
(* The iterator over the live objects of a chunk that sweep-time           *)
(* compaction uses (next_alloc_slot_in_chunk of sspace_alloc.h), and the   *)
(* clearing of the colour fields below a ceiling slot                      *)
(* (clear_free_slot_in_table).                                             *)
(*                                                                         *)
(* The compactor runs in a stop-the-world phase on a chunk no mutator      *)
(* holds, so the iteration is a sequential loop: every call returns the    *)
(* next slot with the alloc colour at or after chunk->slot_index and moves *)
(* the cursor past it, and NULL ends the loop.  The table is one the sweep *)
(* left: the survivors carry the alloc colour, the other colour bit of any *)
(* field may be set, and the padding fields of the last word carry the     *)
(* alloc colour exactly when PAD_LAST_WORD holds.                          *)
(***************************************************************************)
EXTENDS SspaceTable

VARIABLES
  table,        \* chunk->table
  slot_index,   \* chunk->slot_index, the iterator's cursor
  visited,      \* history: the slots next_alloc_slot_in_chunk returned
  iter_done     \* the iterator returned NULL

vars == <<table, slot_index, visited, iter_done, cur_alloc_color, cur_mark_color>>

\* The compactor starts the iteration at slot 0 of a swept chunk.
Init ==
  /\ cur_alloc_color = 0
  /\ cur_mark_color = 2
  /\ \E survivors, stale \in SUBSET Slots :
       table = [w \in WordIndex |-> [i \in BitIndex |->
                  IF /\ i % COLOR_BITS_PER_OBJ = cur_mark_color
                     /\ composed_slot_index(w, i) \in stale
                  THEN 1 ELSE InitTable(survivors)[w][i]]]
  /\ slot_index = 0
  /\ visited = {}
  /\ iter_done = FALSE

\* Fault variant: the cursor is left on the slot returned.
next_alloc_slot_in_chunk_no_advance ==
  LET s == next_alloc_slot_index_in_table(table, slot_index)
  IN  /\ ~iter_done
      /\ IF s = MAX_SLOT_INDEX
         THEN /\ iter_done' = TRUE
              /\ UNCHANGED <<slot_index, visited>>
         ELSE /\ visited' = visited \cup {s}
              /\ UNCHANGED <<slot_index, iter_done>>
      /\ UNCHANGED <<table, cur_alloc_color, cur_mark_color>>

\* Fault variant: the cursor is moved before the MAX_SLOT_INDEX test.
next_alloc_slot_in_chunk_advance_first ==
  LET s == next_alloc_slot_index_in_table(table, slot_index)
  IN  /\ ~iter_done
      /\ slot_index' = s + 1
      /\ IF s = MAX_SLOT_INDEX
         THEN /\ iter_done' = TRUE
              /\ UNCHANGED visited
         ELSE /\ visited' = visited \cup {s}
              /\ UNCHANGED iter_done
      /\ UNCHANGED <<table, cur_alloc_color, cur_mark_color>>

\* next_alloc_slot_in_chunk: MAX_SLOT_INDEX returns NULL, which ends the
\* compactor's loop; otherwise the slot's object is returned and
\* chunk->slot_index becomes the slot after it.
next_alloc_slot_in_chunk ==
  LET s == next_alloc_slot_index_in_table(table, slot_index)
  IN  /\ ~iter_done
      /\ IF s = MAX_SLOT_INDEX
         THEN /\ iter_done' = TRUE
              /\ UNCHANGED <<slot_index, visited>>
         ELSE /\ visited' = visited \cup {s}
              /\ slot_index' = s + 1
              /\ UNCHANGED iter_done
      /\ UNCHANGED <<table, cur_alloc_color, cur_mark_color>>

Next == next_alloc_slot_in_chunk

\* The compactor is a running collector thread: its loop is weakly fair.
Spec == Init /\ [][Next]_vars /\ WF_vars(next_alloc_slot_in_chunk)

-----------------------------------------------------------------------------
(* Properties.                                                             *)

TypeOK ==
  /\ table \in Table
  /\ slot_index \in 0 .. Cardinality(TableSlots)
  /\ visited \subseteq TableSlots
  /\ iter_done \in BOOLEAN

\* The slots the iterator has returned are exactly the live slots of the
\* chunk below the cursor, and all of them once it returned NULL:
\* next_alloc_slot_in_chunk asserts each is below slot_num and allocated,
\* and the skip of all-zero words must drop no live slot.
IterationVisitsLive ==
  LET upto == IF iter_done THEN SLOT_NUM ELSE slot_index
  IN  visited = {t \in Slots : t < upto /\ slot_is_alloc_in_table(table, t)}

\* clear_free_slot_in_table clears exactly the colour fields of the slots
\* below the ceiling, for every ceiling it accepts and every table reached.
ClearMatchesReference ==
  \A ceiling \in 1 .. SLOT_NUM :
    clear_free_slot_in_table(table, ceiling) = NaiveClear(table, ceiling)

\* The compactor's loop over a chunk terminates.
IterationEnds == <>iter_done

=============================================================================
