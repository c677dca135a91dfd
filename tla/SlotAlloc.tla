----------------------------- MODULE SlotAlloc -----------------------------
(***************************************************************************)
(* What the slot allocator of a size class promises, without colour        *)
(* tables, cursors or the split store: a mutator takes a chunk nobody      *)
(* holds and that was not handed back, each allocation from it takes the   *)
(* least free slot, and the allocation that fills the chunk hands it back  *)
(* and leaves the mutator without a chunk.                                 *)
(***************************************************************************)
EXTENDS Naturals

CONSTANTS SLOT_NUM, Chunks, Mutators, NULL

Slots == 0 .. SLOT_NUM - 1

VARIABLES
  allocated,  \* the allocated slots of every chunk
  holder,     \* the chunk every mutator allocates from, or NULL
  used        \* the chunks handed back full

vars == <<allocated, holder, used>>

\* Chunks start with the survivors of the last collection, never full.
Init ==
  /\ allocated \in [Chunks -> (SUBSET Slots) \ {Slots}]
  /\ holder = [m \in Mutators |-> NULL]
  /\ used = {}

Acquire(m, c) ==
  /\ holder[m] = NULL
  /\ c \notin used
  /\ \A n \in Mutators : holder[n] # c
  /\ holder' = [holder EXCEPT ![m] = c]
  /\ UNCHANGED <<allocated, used>>

LeastFree(c) ==
  CHOOSE s \in Slots \ allocated[c] : \A t \in Slots \ allocated[c] : s <= t

Alloc(m) ==
  LET c == holder[m]
      now == allocated[c] \cup {LeastFree(c)}
  IN  /\ c # NULL
      /\ allocated' = [allocated EXCEPT ![c] = now]
      /\ IF now = Slots
         THEN /\ holder' = [holder EXCEPT ![m] = NULL]
              /\ used' = used \cup {c}
         ELSE UNCHANGED <<holder, used>>

Next ==
  \/ \E m \in Mutators, c \in Chunks : Acquire(m, c)
  \/ \E m \in Mutators : Alloc(m)

Spec == Init /\ [][Next]_vars

=============================================================================
