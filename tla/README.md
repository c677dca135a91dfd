# TLA+ verification of the DRLVM array and slot-allocation code

This directory holds TLA+ models of two parts of this repository, the TLC
configurations that model-check them, and TLAPS proofs about both.
The parts are:

* the mark-sweep slot allocator, `src/vm/gc_gen/src/mark_sweep/sspace_alloc.h`;
* the JNI array functions, `src/vm/vmcore/src/jni/jni_array.cpp`.

`PROJECT.json` lists every component, run, mutant, finding, hazard and
theorem. Its `map` gives the source lines each definition translates.

## The parts and how they interact

The two parts meet only through the heap. A JNI array constructor ends in
`gc_alloc`. For small objects in the mark-sweep space, `gc_alloc` ends in
`alloc_in_chunk`. Each part is modelled on its own: the JNI model treats the
heap as a set of cells that may be full, and the allocator model does not
know what the slots hold.

### Slot allocator (`SspaceTable.tla`, `SspaceAlloc.tla`, `SlotAlloc.tla`, `SspaceCompact.tla`)

`SspaceTable` holds the colour-table geometry and the pure table helpers of
`sspace_alloc.h`, each under the name it has in the code. `SspaceAlloc`
(allocation) and `SspaceCompact` (the compaction iterator) both extend it.

A chunk has `slot_num` slots. Its *colour table* gives each slot a
`COLOR_BITS_PER_OBJ`-bit field, packed into `POINTER_SIZE_INT` words. One bit
of the field is the alloc colour and another is the mark colour.

A mutator allocates from its own chunk with `alloc_in_chunk`, which:

* sets the slot's alloc bit with a plain `|=` (`alloc_slot_in_table`);
* marks the new object black if concurrent marking is running;
* moves the cursor `slot_index` to the next free slot with a scan that skips
  words equal to `cur_alloc_mask` (`next_free_slot_index_in_table`);
* on exhaustion, sets the status to `CHUNK_USED | CHUNK_NORMAL` and nulls the
  chunk pointer.

A concurrent collector sets mark bits in the same words with a CAS.

Correspondence with the code:

| model | code |
|---|---|
| `table`, `slot_index`, `alloc_num`, `status` | the `Chunk_Header` fields |
| `local_chunk[m]` | the allocator's chunk pointer (`Chunk_Header* &chunk`) |
| `cur_alloc_color`, `cur_mark_color` | bit offsets of the colour bits (0 and 2: white `0x1`, black `0x4`) |
| `phase` | `gc_is_concurrent_mark_phase()` |
| `black` (ghost) | the slots handed out during the mark phase |
| helpers of the same name | `slot_is_alloc_in_table`, `composed_slot_index`, `next_free_index_in_color_word`, `next_free_slot_index_in_table`, `alloc_slot_in_table` |

`alloc_in_chunk` is split into two actions, because the `|=` at line 159 is
a load and a store that a collector can come between:

* `AllocRead` covers lines 171–183 up to the load of the table word.
* `AllocWrite` covers the store and everything after it to line 207: the
  black mark, the scan and the exhaustion.

The other actions:

* `MarkSlot`: the collector's atomic CAS.
* `AcquireChunk`: a mutator takes a free chunk.
* `StartConcurrentMark`, `FinishConcurrentMark`: the phase changes, which
  happen at safepoints when no mutator is inside the allocator.

The code for these four is not in this repository. They are modelled from
the comments and marked `spec_modelled`. So is the chunk set-up `InitTable`:
the sweep's survivors keep the alloc colour, and the fields past `slot_num`
in the last word get the alloc colour when `PAD_LAST_WORD` holds.

`SlotAlloc` is the abstract allocator: each chunk is a set of allocated
slots, a mutator takes a chunk nobody holds and that was not handed back, an
allocation takes the least free slot, and the allocation that fills the
chunk hands it back. `SspaceAlloc` implements it under the refinement
mapping

* `allocated[c]` = the slots whose alloc bit is set in `table[c]`;
* `holder` = `local_chunk`;
* `used` = the chunks whose status is `CHUNK_USED | CHUNK_NORMAL`.

`AcquireChunk` maps to `Acquire` and `AllocWrite` to `Alloc`. `AllocRead`,
`MarkSlot` and the phase changes map to stutters: they change no alloc bit,
holder or status. The property
`AllocRefinesSlotAlloc` (the abstract `Spec`) is checked by the
`sspace_alloc` run and proved in `SspaceRefinementProofs`.
`SlotAlloc`'s `Init` reads `(SUBSET Slots) \ {Slots}`: without the
parentheses TLA+ parses `SUBSET (Slots \ {Slots})`, which is every subset
of `Slots`.

`SspaceCompact` models the compaction side of the same file. After a sweep,
the compactor walks the live objects of a chunk by calling
`next_alloc_slot_in_chunk` until it returns NULL. Each call:

* scans from `chunk->slot_index` with `next_alloc_slot_index_in_table`,
  skipping words that are 0;
* returns the first slot with the alloc colour;
* moves the cursor past it.

The chunk is not held by a mutator at that time, so the loop is sequential
and one call is one action. The history variable `visited` records the slots
returned. The initial table is any swept table: any set of survivors with
the alloc colour, and any stale mark bits.

`clear_free_slot_in_table(table, ceiling)` zeroes whole words below the
ceiling and masks the boundary word. Its caller is not in this repository,
so it is an operator, checked against a slot-by-slot reference `NaiveClear`
for every ceiling on every table of the run.

### JNI array functions (`JniArray.tla`)

Native threads call the functions on arrays in a heap of `ArrayIds` cells.
The eight typed variants of each family (`New<Type>Array`,
`Get/Release<Type>ArrayElements`, `Get/Set<Type>ArrayRegion`) differ only in
the element type, so one action models each family.

Each call is one step. The calls leave the suspend-disabled state between
their heap accesses, but every section re-reads `h->object`, and what a call
carries across the gap (the length and the pin state) does not change.

The state:

* `heap`: the array records (kind, length, pinned, element class, data).
* `exn`: each thread's pending exception.
* `elems`: the element pointer a thread holds. It is `"direct"` into a
  pinned array, or a malloc'd block with its copy.
* `mallocd`: the live `STD_MALLOC` blocks.
* `free_error`: set if `STD_FREE` is given a pointer that is not a live
  block.
* `null_write`: set when `Get<Type>ArrayElements` copies through a NULL from
  `STD_MALLOC`. The malloc may return NULL at any time, and must when no
  block is left. A write through NULL is a fault that ends the process, so
  `Next` is disabled after it. The JNI runs therefore set
  `CHECK_DEADLOCK FALSE`.
* `access` and `new_result`: per-step records, for the properties. `access`
  is the element range the step copied. `new_result` is the result of a
  constructor.

`jsize` arithmetic keeps its width `JSIZE_BITS`. `end = start + len` is
undefined behaviour in C when it overflows, so the model lets it be either
the wrapped or the exact sum.

## Runs

| run | cfg | expect | what it shows |
|---|---|---|---|
| sspace_alloc | `MCSspaceAlloc.cfg` | pass | `TypeOK`, `CursorIsLeastFree`, `ExhaustedMeansFull`, `AllocateBlack`, `ScanMatchesReference`, `AllocBitsStable` and the refinement `AllocRefinesSlotAlloc` hold with two mutators, two chunks and a concurrent marker |
| sspace_alloc_no_pad | `MCSspaceAllocNoPad.cfg` | violation | without padding of the last table word, the scan returns a slot past `slot_num` (the assert at line 205) |
| sspace_alloc_mark_race | `MCSspaceAllocMarkRace.cfg` | violation | `MarkNotLost`: the non-atomic `\|=` of line 159 overwrites a mark the collector set in the same word |
| sspace_compact | `MCSspaceCompact.cfg` | pass | `TypeOK`, `IterationVisitsLive`, `ClearMatchesReference` and the liveness property `IterationEnds` hold on every unpadded swept table |
| sspace_compact_pad | `MCSspaceCompactPad.cfg` | violation | `IterationVisitsLive`: with the padding the allocator needs, the iterator returns a slot past `slot_num` (the assert at line 131) |
| jni_array | `MCJniArray.cfg` | pass | `TypeOK`, `AccessInBounds`, `MallocAccounting` hold for every interleaving of two threads over arguments that do not overflow |
| jni_array_overflow | `MCJniArrayOverflow.cfg` | violation | `AccessInBounds`: `start = 127, len = 1` on a 1-element array wraps `end` to -128, passes the check and copies past the array (lines 1341 and 1605) |
| jni_array_malloc_null | `MCJniArrayMallocNull.cfg` | violation | `MallocResultChecked`: `Get<Type>ArrayElements` copies through a NULL from `STD_MALLOC` (lines 558 and 563) |
| jni_array_null_result | `MCJniArrayNullResult.cfg` | violation | `NullResultRaises`: `New<Type>Array(-1)` returns NULL with no exception pending (line 238; also a NULL from `gc_alloc`, line 244), unlike `NewObjectArray` |

The properties that deserve a closer look:

* **`ScanMatchesReference`** compares the word-skipping scan with a
  slot-by-slot reference `NaiveNextFree`, on every table the allocator
  reaches.
* **`CursorIsLeastFree`** is the assert at line 205, strengthened so that
  no free slot lies below the cursor.
* **`AllocateBlack`** relates the ghost set of slots handed out during
  marking to the mark bits. Its danger is the race of line 159.
* **`MallocAccounting`** says the live malloc'd blocks are exactly the
  copies that threads still hold, and that no free was wrong. It covers
  every order of Get and Release, with modes 0, `JNI_COMMIT` and
  `JNI_ABORT`, over pinned and copied arrays.
* **`AllocRefinesSlotAlloc`** says the split, racy store and the
  word-skipping scan still give the abstract behaviour: the least free slot,
  and a chunk that leaves its holder exactly when it becomes full.
* **`IterationVisitsLive`** says the slots the iterator has returned are
  exactly the allocated slots below its cursor, and all of them once it has
  returned NULL. It is the assert at line 131, strengthened.
* **`ClearMatchesReference`** compares the word-and-mask clearing with
  clearing slot by slot, for every ceiling.

Every property of a passing run has a mutant in `PROJECT.json`: a plausible
bug in the mapped code, such as a dropped guard or the wrong status, under
which TLC finds the property violated.

### Bounds

`MCSspaceAlloc` uses 8-bit words, 4-bit colour fields and `SLOT_NUM = 3`,
which gives two table words. The second word is half padding, so the
boundary case of the scan and of the padding happens. Two mutators and two
chunks exercise refill, exhaustion and hand-back. Any slot may be marked
concurrently. The space has 89 088 distinct states.

`MCJniArray` uses:

* an 8-bit `jsize`;
* two threads, two heap cells (so the heap can be full) and two malloc
  blocks;
* element values {0, 1} and two classes, one a subclass of the other, so
  both accepted and rejected stores happen;
* lengths {-1, 1, 64}: negative, normal, and with the second-highest bit
  set;
* index arguments {-1, 0, 1, 2}, around the bounds of a 1-element array.

`MCSspaceCompact` uses 8-bit words, 4-bit fields and `SLOT_NUM = 5`: three
words, the last one half padding, so both the word skip and the padding
boundary happen. Every set of survivors and every set of stale marks is an
initial state (4 608 distinct states).

The overflow run widens the index arguments to include 127. Threads, cells
and blocks are symmetric. The run has about 18 000 distinct states.

### Fairness

Only `SspaceCompact` assumes fairness: `WF_vars(next_alloc_slot_in_chunk)`.
The compactor is a collector thread that calls the iterator in a loop until
it returns NULL, and nothing else touches the chunk, so the call stays
enabled until it is made. Under that assumption `IterationEnds`
(`<>iter_done`) checks that the loop ends. The run sets
`CHECK_DEADLOCK FALSE` because the iteration really stops.

The other models assume no fairness and check only safety. The allocator is
a wait-free fast path and the JNI calls return in one step. A liveness
question there would be about the collector and the chunk supplier, and
their code is not here.

## Proofs (checked by TLAPS)

### `SspaceAllocProofs.tla`

Two theorems are proved for every instance that satisfies `WordAssumption`,
`SlotAssumption` and `ChunkAssumption`:

* `TypeCorrect`: `Spec => []TypeOK`.
* `AllocateBlackInvariant`: `Spec => []AllocateBlack`.

Neither invariant is inductive as stated. Both follow from the inductive
invariant `IInv`, which is the conjunction of:

* `TypeOK`;
* `ColorsFixed`: the colour offsets are 0 and 2, since no flip is modelled;
* `Ownership`:
  * a held chunk is `CHUNK_NORMAL`;
  * a chunk not yet exhausted has its cursor inside its table;
  * no two mutators hold the same chunk;
  * only a holder can be between the load and the store;
* `AllocateBlack`;
* `PendingWordHasMarks`: the word a mutator has loaded and not yet stored
  already carries the mark bit of every black slot in that word.

The last conjunct is why `AllocateBlack` survives the non-atomic store:

* Marks are set only by the collector's `MarkSlot` or by the allocator's own
  black mark.
* A black slot sharing the word was marked by an earlier allocation of the
  same mutator, before this load, because mark phases start only when no
  mutator is between a load and a store.
* So the store writes those mark bits back.

The mark that is lost (`MarkNotLost`) is a collector mark of a slot that is
not black. That is exactly what TLC's race run finds.

The proof has one lemma per action (`AcquireChunkInv`, `AllocReadInv`,
`AllocWriteInv`, `MarkSlotInv`, `PhaseInv`, `StutterInv`). `IInvNext`
combines them. Arithmetic lemmas about `\div` and `%` place a slot's field
in its word (`WordSplit`, `FieldInWord`, `MarkBitApart`), and the scan's
result is typed (`NextFreeType`). `IInv` was also checked by TLC on the MC
instance.

### `JniArrayProofs.tla`

`MallocAccountingInvariant`: `Spec => []MallocAccounting`, for every set of
threads, arrays and blocks that satisfies `JniAssumption`. The inductive
invariant `MInv` is the conjunction of:

* `ElemsOK`: every element pointer is `NoElems` or a record whose pointer is
  a block or `"direct"`;
* `MallocAccounting`;
* `UniqueHolders`: no two threads hold the same block.

`UniqueHolders` is what makes a Release safe: it frees its own block, and
only one thread held it, so the held blocks and the live blocks stay equal.
There is one lemma per action that touches the C heap
(`GetArrayElementsInv`, `NativeWriteInv`, `ReleaseInv`). Every other action
leaves the element pointers and the heap alone (`AcctUnchanged`). `MInv`
was checked by TLC on the MC instance before it was proved.

`AccessInBoundsInvariant`: `RegionArgsFit => (Spec => []AccessInBounds)`.
`RegionArgsFit` says that no `start + len` of two JNI arguments leaves
`jsize`. Without it `AccessInBounds` is false, and the `jni_array_overflow` run
finds the wrapped bounds check. The inductive invariant `AInv` is the
conjunction of:

* `HeapOK`: every heap cell is `NoArray` or an array record with a kind and
  a natural length;
* `ElemsOK`;
* `ElemsAllocated`: an element pointer refers to an allocated array;
* `AccessInBounds`.

`HeapOK` is needed because the bounds checks compare with the cell's
`length`, which must be a number. `ElemsAllocated` is needed because a
Release copies back into the array its pointer came from. `FreshCell` is
the lemma that a `New*Array` only writes a cell that was `NoArray`.

`JniTypeCorrect`: `Spec => []TypeOK`. Unlike `AccessInBounds`, it has no
hypothesis on `start + len`: a wrapped end can let a region call through,
but its copy keeps the array's domain and element type. `TypeOK` is not
inductive, because it does not say that `heap` and `elems` are functions on
`ArrayIds` and `Threads` with records of a fixed shape. The `EXCEPT` updates
of the actions need that. So the inductive invariant is
`TInv == HeapOK /\ ElemsOK /\ TypeOK`. TLC checked it on the wide-argument
instance, where `start + len` wraps. The lemmas are:

* `DataTyped`: a write of data of the array's element type keeps every
  cell's kind and length;
* `FreshTyped`: a constructor writes only a free cell;
* `ElemsFrame`, `ElemsSetTyped`: element pointers stay typed when the heap
  keeps kinds and lengths and one thread's pointer changes;
* `HeldTyped`: a held pointer is a record into an allocated primitive array;
* one lemma per action (`NewArrayTyped` ... `ExceptionClearTyped`).

### `SspaceTableLemmas.tla`

Lemmas about the colour table, for every geometry that satisfies
`WordAssumption` and `SlotAssumption`:

* the `\div`/`%` arithmetic that places slot `t` in word `WordOf(t)` at
  field `t % q` (`SlotSplit`, `FieldSlot`, `SlotOrder`, `FieldStep`);
* that `Least` is the minimum of a non-empty set of naturals (`NatMin`,
  `LeastIsMin`, `LeastUnique`), proved from the well-foundedness of `<` on
  `Nat`;
* `ClearCorrect`: `clear_free_slot_in_table` equals its reference
  `NaiveClear` on every table and every ceiling;
* `AllocScanCorrect`: on a table whose padding fields carry no alloc colour,
  `next_alloc_slot_index_in_table` equals its reference `NaiveNextAlloc`.
  The argument takes the least live slot `m` at or after the cursor. Its
  word is the least word the scan accepts, because any accepted word holds
  a live slot at or after the cursor. Within that word the least accepted
  field is `m`'s field. Without the padding hypothesis the lemma is false,
  which the `sspace_compact_pad` run shows.
* `FreeScanCorrect`: on a table whose padding fields all look allocated,
  `next_free_slot_index_in_table` equals its reference `NaiveNextFree`,
  the least free slot after the cursor. The argument is the same, with
  free fields in place of live ones. Without the hypothesis the scan can
  return a padding slot, which the `sspace_alloc_no_pad` run shows.

### `SspaceCompactProofs.tla`

* `CompactTypeCorrect`: `Spec => []TypeOK`. `TypeOK` is inductive once
  `TableSlotsCard` counts the slots of a table and `NextAllocType` (in
  `SspaceTableLemmas`) types the scan's result.
* `ClearInvariant`: `Spec => []ClearMatchesReference`. The table stays a
  colour table (`TableTyped`), and `ClearCorrect` does the rest.
* `IterationVisitsLiveInvariant`:
  `~PAD_LAST_WORD => (Spec => []IterationVisitsLive)`. The inductive
  invariant `CInv` says:
  * the table is a colour table and its padding is clear;
  * the returned slots are the live slots below the cursor;
  * `iter_done` holds only when no live slot is left at or after the cursor.

  By `AllocScanCorrect`, one call returns the least live slot at or after
  the cursor. That slot is therefore the only live slot between the old and
  the new cursor.

### `SspaceCursorProofs.tla`

Two theorems are proved for every geometry and every set of mutators and
chunks, when chunk set-up makes the padding look allocated:

* `CursorIsLeastFreeInvariant`:
  `PAD_LAST_WORD => (Spec => []CursorIsLeastFree)`.
* `ExhaustedMeansFullInvariant`:
  `PAD_LAST_WORD => (Spec => []ExhaustedMeansFull)`.

Both follow from the inductive invariant `KInv`, which is `IInv` and:

* `ChunkOK(c)` for every chunk:
  * the padding of the chunk's table looks allocated (`PaddingFull`), so
    `FreeScanCorrect` applies to every scan;
  * a chunk that is not exhausted has its cursor on a free slot, with every
    slot below it allocated (`CursorOK`);
  * an exhausted chunk has every slot allocated;
  * `alloc_num` equals the number of allocated slots, plus one while the
    holder is between the load and the store (`Pending`). The counter is
    bumped at the load and the bit is set at the store.
* `PendingAllocBits`: the word a mutator has loaded still has the alloc
  bits of the table's word. The store writes back the loaded word with one
  more alloc bit. So the store sets exactly the cursor's bit
  (`WriteView`), and no allocation is lost.

`PendingAllocBits` survives the collector's `MarkSlot` because a mark
writes only mark-colour fields (`MarkKeepsField`, `MarkView`). There is one
lemma per action (`KAcquire`, `KRead`, `KWrite`, `KMark`, `KPhase`), and
`KInvNext` combines them. `KWrite` is the heart of the proof:

* the store adds the cursor slot to the allocated set;
* `FreeScanCorrect` gives the new cursor as the least free slot above it;
* if there is none, every slot is allocated and the chunk is handed back.

`KInv` was checked by TLC on the MC instance before it was proved.

* `ScanMatchesReferenceInvariant`:
  `PAD_LAST_WORD => (Spec => []ScanMatchesReference)`. By `KInv` every table
  has its padding allocated and no live slot in the padding. So
  `FreeScanCorrect` and `AllocScanCorrect` apply from every slot
  (`KInvScan`). TLC finds the property false without padding, already in
  an initial state.
* `AllocBitsStableTheorem`: `Spec => AllocBitsStable`, with no padding
  hypothesis. It needs only `PInv == IInv /\ PendingAllocBits`, which holds
  without padding (lemmas `PAcquire` ... `PPhase`, `PInvNext`).
  `WriteTable` shows that the store of `AllocWrite` adds the cursor's alloc
  bit to the table's word and changes no other alloc bit. `MarkTable`
  shows the same of a mark. The view lemmas (`MarkView`, `WriteView`) are
  stated for every slot of the table, padding included, because the
  property quantifies over `TableSlots`.

### `SspaceRefinementProofs.tla`

`AllocRefinement`: `PAD_LAST_WORD => (Spec => AllocRefinesSlotAlloc)`.
The mapping is named: `AllocatedBar`, `UsedBar`, and `LeastFreeBar` for the
abstract choice. The proof follows the step-by-step pattern:

* `RefInit`: an initial table maps to an initial abstract state. The sweep
  survivors are a proper subset of the slots, so the chunk is not full.
* `AbsAcquire`, `AbsAlloc`, `AbsUnchanged`: the abstract actions restated
  over the mapping.
* `RefAcquire`: `AcquireChunk` is an abstract `Acquire`.
* `RefWrite`: `AllocWrite` is an abstract `Alloc`. By `KInv`, the cursor is
  the least free slot before the step. `WriteTable` gives the new
  allocated set. `KInv` in the state after the step shows that the chunk
  is handed back exactly when it becomes full.
* `RefStutter`: every other step is a stutter.
* `RefStep`: the four lemmas combined.

The last step combines `Init => Abs!Init` and
`KInv /\ KInv' /\ [Next]_vars => [Abs!Next]_Abs!vars` by PTL. TLC finds
the refinement false without padding: the scan can hand out a padding slot.

### What stays with TLC

Every invariant and action property of the passing runs is proved by a
theorem above, except:

* The liveness property `IterationEnds`. TLAPS does not reach liveness
  under fairness, nor `ENABLED`.
* The instances the theorems exclude by hypothesis. The hypotheses are
  `PAD_LAST_WORD` for the cursor, scan and refinement theorems,
  `~PAD_LAST_WORD` for `IterationVisitsLive`, and `RegionArgsFit` for
  `AccessInBounds`. The violation runs show each property false without
  its hypothesis.
* What the violation runs find: the lost mark of `MarkNotLost`, the
  unchecked malloc result, and the constructor that returns NULL with no
  exception pending.

## Not modelled

* The callers of `clear_free_slot_in_table` (sweep and compaction), which
  are not in this repository.
* `set_super_obj_mask`, which sets a bit in an object header.
* The colour flip between cycles, and zeroing of slots
  (`CHUNK_NEED_ZEROING`, a memset of the object).
* A collection changing the pin state between the sections of
  `Get<Type>ArrayElements` (`is_pinned` read at line 547, used at 550). The
  pinning code is outside this repository, so the pin state is fixed per
  array here.
* `class_get_array_of_class` failing in `NewObjectArray` (line 73). That
  code is outside this repository.
* `gc_metadata.h` and `object_generic.h`, which hold declarations only.
* `inline_info.cpp`, an append-only list under one lock.
* The two kernel VM natives, which delegate to code that is not here.
