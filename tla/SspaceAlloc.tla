---------------------------- MODULE SspaceAlloc ----------------------------
(***************************************************************************)
(* The mark-sweep space slot allocator of gc_gen (sspace_alloc.h).         *)
(*                                                                         *)
(* The colour table and its operations are in SspaceTable.               *)
(*                                                                         *)
(* Mutators own at most one chunk each (their allocator-local chunk) and   *)
(* allocate from it with alloc_in_chunk; a collector marks allocated       *)
(* slots concurrently during the concurrent mark phase.  The non-atomic    *)
(* "table[word_index] |= ..." of alloc_slot_in_table is split into its     *)
(* read (AllocRead) and its write-back (AllocWrite), since the collector   *)
(* may write the same word in between.                                     *)
(***************************************************************************)
EXTENDS SspaceTable

CONSTANTS
  Chunks,              \* the normal chunks of the size class
  Mutators,            \* allocating threads
  NULL                 \* the nulled allocator-local chunk pointer

ASSUME ChunkAssumption ==
  /\ NULL \notin Chunks
  /\ PAD_LAST_WORD \in BOOLEAN

-----------------------------------------------------------------------------
VARIABLES
  table,            \* chunk->table of every chunk
  slot_index,       \* chunk->slot_index: the allocation cursor
  alloc_num,        \* chunk->alloc_num
  status,           \* chunk->status, reduced to the three states used here
  local_chunk,      \* the allocator-local chunk pointer of every mutator
  alloc_pc,         \* "idle", or "write" between the read and the
                    \* write-back of alloc_slot_in_table
  word_read,        \* the table word a mutator read and will write back
  phase,            \* "Idle", "Mark" (concurrent mark), "Done"
  black             \* history: slots handed out during concurrent mark

vars == <<table, slot_index, alloc_num, status, local_chunk, alloc_pc,
          word_read, phase, cur_alloc_color, cur_mark_color, black>>

CHUNK_FREE == "CHUNK_FREE"            \* with the chunk supplier
CHUNK_NORMAL == "CHUNK_NORMAL"        \* owned by one allocator
CHUNK_USED_NORMAL == "CHUNK_USED_NORMAL"  \* CHUNK_USED | CHUNK_NORMAL

Init ==
  /\ cur_alloc_color = 0           \* OBJ_COLOR_WHITE == 0x1
  /\ cur_mark_color = 2            \* OBJ_COLOR_BLACK == 0x4
  /\ \E survivors \in [Chunks -> (SUBSET Slots) \ {Slots}] :
       /\ table = [c \in Chunks |-> InitTable(survivors[c])]
       /\ alloc_num = [c \in Chunks |-> Cardinality(survivors[c])]
       /\ slot_index \in [Chunks -> Slots]
       /\ \A c \in Chunks :
            /\ slot_index[c] \notin survivors[c]
            /\ \A t \in 0 .. slot_index[c] - 1 : t \in survivors[c]
  /\ status = [c \in Chunks |-> CHUNK_FREE]
  /\ local_chunk = [m \in Mutators |-> NULL]
  /\ alloc_pc = [m \in Mutators |-> "idle"]
  /\ word_read = [m \in Mutators |-> [i \in BitIndex |-> 0]]
  /\ phase = "Idle"
  /\ black = [c \in Chunks |-> {}]

-----------------------------------------------------------------------------
(* Actions.                                                                *)

\* A mutator whose local chunk pointer was nulled takes a free chunk.
AcquireChunk(m, c) ==
  /\ local_chunk[m] = NULL
  /\ status[c] = CHUNK_FREE
  /\ local_chunk' = [local_chunk EXCEPT ![m] = c]
  /\ status' = [status EXCEPT ![c] = CHUNK_NORMAL]
  /\ UNCHANGED <<table, slot_index, alloc_num, alloc_pc, word_read, phase,
                 cur_alloc_color, cur_mark_color, black>>

\* alloc_in_chunk up to the load of the table word: ++alloc_num, the slot
\* address from the cursor, and the read half of alloc_slot_in_table.
AllocRead(m) ==
  LET c == local_chunk[m]
  IN  /\ c # NULL
      /\ alloc_pc[m] = "idle"
      /\ alloc_num' = [alloc_num EXCEPT ![c] = @ + 1]
      /\ word_read' = [word_read EXCEPT ![m] = table[c][WordOf(slot_index[c])]]
      /\ alloc_pc' = [alloc_pc EXCEPT ![m] = "write"]
      /\ UNCHANGED <<table, slot_index, status, local_chunk, phase,
                     cur_alloc_color, cur_mark_color, black>>

\* Fault variant: the new object is not marked black in a concurrent mark.
AllocWriteNoBlack(m) ==
  LET c == local_chunk[m]
      s == slot_index[c]
      tbl == alloc_slot_in_table(table[c], s, word_read[m])
      next == next_free_slot_index_in_table(tbl, s)
  IN  /\ alloc_pc[m] = "write"
      /\ table' = [table EXCEPT ![c] = tbl]
      /\ slot_index' = [slot_index EXCEPT ![c] = next]
      /\ black' = IF phase = "Mark" THEN [black EXCEPT ![c] = @ \cup {s}]
                  ELSE black
      /\ IF next = MAX_SLOT_INDEX
         THEN /\ status' = [status EXCEPT ![c] = CHUNK_USED_NORMAL]
              /\ local_chunk' = [local_chunk EXCEPT ![m] = NULL]
         ELSE UNCHANGED <<status, local_chunk>>
      /\ alloc_pc' = [alloc_pc EXCEPT ![m] = "idle"]
      /\ UNCHANGED <<alloc_num, word_read, phase, cur_alloc_color, cur_mark_color>>

\* Fault variant: the ENABLE_FRESH_CHUNK_ALLOC cursor step (++slot_index)
\* taken for a chunk that is not fresh.
AllocWriteFresh(m) ==
  LET c == local_chunk[m]
      s == slot_index[c]
      written == alloc_slot_in_table(table[c], s, word_read[m])
      tbl == IF phase = "Mark" THEN obj_mark_black_in_table(written, s)
             ELSE written
      next == IF s + 1 < SLOT_NUM THEN s + 1 ELSE MAX_SLOT_INDEX
  IN  /\ alloc_pc[m] = "write"
      /\ table' = [table EXCEPT ![c] = tbl]
      /\ slot_index' = [slot_index EXCEPT ![c] = next]
      /\ black' = IF phase = "Mark" THEN [black EXCEPT ![c] = @ \cup {s}]
                  ELSE black
      /\ IF next = MAX_SLOT_INDEX
         THEN /\ status' = [status EXCEPT ![c] = CHUNK_USED_NORMAL]
              /\ local_chunk' = [local_chunk EXCEPT ![m] = NULL]
         ELSE UNCHANGED <<status, local_chunk>>
      /\ alloc_pc' = [alloc_pc EXCEPT ![m] = "idle"]
      /\ UNCHANGED <<alloc_num, word_read, phase, cur_alloc_color, cur_mark_color>>

\* Fault variant: the exhausted chunk gets CHUNK_USED alone, the
\* CHUNK_NORMAL flag dropped from the status word.
AllocWriteUsedOnly(m) ==
  LET c == local_chunk[m]
      s == slot_index[c]
      written == alloc_slot_in_table(table[c], s, word_read[m])
      tbl == IF phase = "Mark" THEN obj_mark_black_in_table(written, s)
             ELSE written
      next == next_free_slot_index_in_table(tbl, s)
  IN  /\ alloc_pc[m] = "write"
      /\ table' = [table EXCEPT ![c] = tbl]
      /\ slot_index' = [slot_index EXCEPT ![c] = next]
      /\ black' = IF phase = "Mark" THEN [black EXCEPT ![c] = @ \cup {s}]
                  ELSE black
      /\ IF next = MAX_SLOT_INDEX
         THEN /\ status' = [status EXCEPT ![c] = "CHUNK_USED"]
              /\ local_chunk' = [local_chunk EXCEPT ![m] = NULL]
         ELSE UNCHANGED <<status, local_chunk>>
      /\ alloc_pc' = [alloc_pc EXCEPT ![m] = "idle"]
      /\ UNCHANGED <<alloc_num, word_read, phase, cur_alloc_color, cur_mark_color>>

\* Fault variant: on exhaustion the status is set but the allocator-local
\* chunk pointer is not nulled.
AllocWriteKeepChunk(m) ==
  LET c == local_chunk[m]
      s == slot_index[c]
      written == alloc_slot_in_table(table[c], s, word_read[m])
      tbl == IF phase = "Mark" THEN obj_mark_black_in_table(written, s)
             ELSE written
      next == next_free_slot_index_in_table(tbl, s)
  IN  /\ alloc_pc[m] = "write"
      /\ table' = [table EXCEPT ![c] = tbl]
      /\ slot_index' = [slot_index EXCEPT ![c] = next]
      /\ black' = IF phase = "Mark" THEN [black EXCEPT ![c] = @ \cup {s}]
                  ELSE black
      /\ status' = IF next = MAX_SLOT_INDEX
                   THEN [status EXCEPT ![c] = CHUNK_USED_NORMAL] ELSE status
      /\ alloc_pc' = [alloc_pc EXCEPT ![m] = "idle"]
      /\ UNCHANGED <<local_chunk, alloc_num, word_read, phase, cur_alloc_color, cur_mark_color>>

\* The rest of alloc_in_chunk: the store of the word, the black mark in a
\* concurrent mark phase, the cursor advance, and on exhaustion the status
\* CHUNK_USED | CHUNK_NORMAL and the nulled chunk pointer.
AllocWrite(m) ==
  LET c == local_chunk[m]
      s == slot_index[c]
      written == alloc_slot_in_table(table[c], s, word_read[m])
      tbl == IF phase = "Mark" THEN obj_mark_black_in_table(written, s)
             ELSE written
      next == next_free_slot_index_in_table(tbl, s)
  IN  /\ alloc_pc[m] = "write"
      /\ table' = [table EXCEPT ![c] = tbl]
      /\ slot_index' = [slot_index EXCEPT ![c] = next]
      /\ black' = IF phase = "Mark" THEN [black EXCEPT ![c] = @ \cup {s}]
                  ELSE black
      /\ IF next = MAX_SLOT_INDEX
         THEN /\ status' = [status EXCEPT ![c] = CHUNK_USED_NORMAL]
              /\ local_chunk' = [local_chunk EXCEPT ![m] = NULL]
         ELSE UNCHANGED <<status, local_chunk>>
      /\ alloc_pc' = [alloc_pc EXCEPT ![m] = "idle"]
      /\ UNCHANGED <<alloc_num, word_read, phase, cur_alloc_color, cur_mark_color>>

\* A collector marks an allocated slot it reached (atomic CAS).
MarkSlot(c, s) ==
  /\ phase = "Mark"
  /\ slot_is_alloc_in_table(table[c], s)
  /\ ~SlotIsMarked(table[c], s)
  /\ table' = [table EXCEPT ![c] = obj_mark_black_in_table(@, s)]
  /\ UNCHANGED <<slot_index, alloc_num, status, local_chunk, alloc_pc,
                 word_read, phase, cur_alloc_color, cur_mark_color, black>>

\* Phase transitions happen at a safepoint: no mutator is inside gc_alloc.
StartConcurrentMark ==
  /\ phase = "Idle"
  /\ \A m \in Mutators : alloc_pc[m] = "idle"
  /\ phase' = "Mark"
  /\ UNCHANGED <<table, slot_index, alloc_num, status, local_chunk, alloc_pc,
                 word_read, cur_alloc_color, cur_mark_color, black>>

FinishConcurrentMark ==
  /\ phase = "Mark"
  /\ \A m \in Mutators : alloc_pc[m] = "idle"
  /\ phase' = "Done"
  /\ UNCHANGED <<table, slot_index, alloc_num, status, local_chunk, alloc_pc,
                 word_read, cur_alloc_color, cur_mark_color, black>>

Next ==
  \/ \E m \in Mutators, c \in Chunks : AcquireChunk(m, c)
  \/ \E m \in Mutators : AllocRead(m) \/ AllocWrite(m)
  \/ \E c \in Chunks, s \in Slots : MarkSlot(c, s)
  \/ StartConcurrentMark
  \/ FinishConcurrentMark

Spec == Init /\ [][Next]_vars

-----------------------------------------------------------------------------
(* Properties.                                                             *)

TypeOK ==
  /\ table \in [Chunks -> Table]
  /\ slot_index \in [Chunks -> TableSlots \cup {MAX_SLOT_INDEX}]
  /\ alloc_num \in [Chunks -> Nat]
  /\ status \in [Chunks -> {CHUNK_FREE, CHUNK_NORMAL, CHUNK_USED_NORMAL}]
  /\ local_chunk \in [Mutators -> Chunks \cup {NULL}]
  /\ alloc_pc \in [Mutators -> {"idle", "write"}]
  /\ word_read \in [Mutators -> Word]
  /\ phase \in {"Idle", "Mark", "Done"}
  /\ cur_alloc_color \in 0 .. COLOR_BITS_PER_OBJ - 1
  /\ cur_mark_color \in 0 .. COLOR_BITS_PER_OBJ - 1
  /\ black \in [Chunks -> SUBSET TableSlots]

\* The cursor of a chunk an allocator holds is the least free slot of the
\* chunk: alloc_in_chunk asserts it is below slot_num and free, and no free
\* slot below it is ever skipped by the word-skipping scan.
CursorIsLeastFree ==
  \A c \in Chunks : status[c] = CHUNK_NORMAL =>
    /\ slot_index[c] \in Slots
    /\ ~slot_is_alloc_in_table(table[c], slot_index[c])
    /\ \A t \in 0 .. slot_index[c] - 1 : slot_is_alloc_in_table(table[c], t)

\* A chunk is handed back (status CHUNK_USED | CHUNK_NORMAL, pointer nulled)
\* only when every one of its slot_num slots is allocated and alloc_num
\* counts them all: the (n+1)-th allocation is the first to see exhaustion.
ExhaustedMeansFull ==
  \A c \in Chunks : status[c] = CHUNK_USED_NORMAL =>
    /\ \A s \in Slots : slot_is_alloc_in_table(table[c], s)
    /\ alloc_num[c] = SLOT_NUM

\* Allocate-black: every slot alloc_in_chunk handed out during a concurrent
\* mark phase carries the mark colour from then on.
AllocateBlack ==
  \A c \in Chunks : \A s \in black[c] : SlotIsMarked(table[c], s)

\* The word-at-a-time scan next_free_slot_index_in_table, with its skip of
\* words equal to cur_alloc_mask, returns what a slot-by-slot scan returns,
\* for every table reached and every allocated start slot.
ScanMatchesReference ==
  \A c \in Chunks : \A s \in Slots :
    slot_is_alloc_in_table(table[c], s) =>
      next_free_slot_index_in_table(table[c], s) = NaiveNextFree(table[c], s)

\* No step clears an alloc colour bit: the write-back of alloc_slot_in_table
\* never loses another slot's allocation (only the owner writes them).
AllocBitsStable ==
  [][\A c \in Chunks : \A s \in TableSlots :
       slot_is_alloc_in_table(table[c], s) => slot_is_alloc_in_table(table'[c], s)]_vars

\* The allocator implements SlotAlloc: the alloc colour bits of the slots
\* are the allocated slots, the allocator-local chunk pointers the holders,
\* and the CHUNK_USED | CHUNK_NORMAL chunks the handed-back ones.  So
\* alloc_in_chunk hands out exactly the least free slot of its chunk, and
\* nulls the chunk pointer on exactly the allocation that fills the chunk.
SlotAllocAbs == INSTANCE SlotAlloc WITH
  allocated <- [c \in Chunks |->
                  {s \in Slots : slot_is_alloc_in_table(table[c], s)}],
  holder <- local_chunk,
  used <- {c \in Chunks : status[c] = CHUNK_USED_NORMAL}

AllocRefinesSlotAlloc == SlotAllocAbs!Spec

\* No step clears a mark set by the collector's CAS: a marked object stays
\* marked until the cycle ends.
MarkNotLost ==
  [][\A c \in Chunks : \A s \in Slots :
       SlotIsMarked(table[c], s) => SlotIsMarked(table'[c], s)]_vars

=============================================================================
