------------------------- MODULE SspaceTableLemmas -------------------------
(***************************************************************************)
(* Facts about the colour-table geometry and the table operations of      *)
(* sspace_alloc.h, for every word size, colour width and slot count that   *)
(* satisfy WordAssumption and SlotAssumption.  SspaceAllocProofs and       *)
(* SspaceCompactProofs cite them.                                          *)
(***************************************************************************)
EXTENDS SspaceTable, WellFoundedInduction, TLAPS

(* Facts of natural-number division the backends need spelled out: the    *)
(* SMT encoding proves the bounds of \div and the definition of %, and     *)
(* the rest of the table geometry is derived from them.                    *)

LEMMA DivBounds ==
  \A a \in Nat, b \in Nat \ {0} : b * (a \div b) <= a /\ a < b * (a \div b + 1)
BY SMTT(30)

LEMMA ModDef == \A a \in Nat, b \in Nat \ {0} : a % b = a - b * (a \div b)
BY SMTT(30)

LEMMA DivUnique ==
  \A a \in Nat, b \in Nat \ {0}, d \in Nat :
    b * d <= a /\ a < b * (d + 1) => a \div b = d
BY SMTT(30)

LEMMA MulMono ==
  \A a, b \in Nat, c \in Nat \ {0} :
    /\ a <= b => c * a <= c * b
    /\ a < b => c * a < c * b
    /\ c * a < c * b => a < b
BY SMTT(30)

LEMMA MulMod == \A a \in Nat, b \in Nat \ {0} : (a * b) % b = 0
BY SMTT(30)

\* Scaling a number and a divisor by the same factor scales the remainder.
LEMMA ModScale ==
  \A x \in Nat, C \in Nat \ {0}, q \in Nat \ {0} :
    /\ (x * C) \div (C * q) = x \div q
    /\ (x * C) % (C * q) = C * (x % q)
<1> TAKE x \in Nat, C \in Nat \ {0}, q \in Nat \ {0}
<1> DEFINE d == x \div q
<1>1. d \in Nat /\ q * d <= x /\ x < q * (d + 1)
  BY DivBounds
<1>2. C * (q * d) <= C * x /\ C * x < C * (q * (d + 1))
  BY <1>1, MulMono
<1>3. (C * q) * d <= x * C /\ x * C < (C * q) * (d + 1)
  BY <1>2
<1>4. (x * C) \div (C * q) = d
  BY <1>3, DivUnique
<1>5. x * C \in Nat /\ C * q \in Nat \ {0}
  OBVIOUS
<1>6. (x * C) % (C * q) = x * C - (C * q) * d
  <2> DEFINE a == x * C
             b == C * q
  <2>1. a % b = a - b * (a \div b)
    BY <1>5, ModDef
  <2>2. QED
    BY <2>1, <1>4
<1>7. x % q = x - q * d
  BY ModDef
<1>8. C * (x - q * d) = x * C - (C * q) * d
  OBVIOUS
<1>9. QED
  BY <1>4, <1>6, <1>7, <1>8

-----------------------------------------------------------------------------
(* The table geometry.                                                     *)

LEMMA WordSplit ==
  /\ SLOT_NUM_PER_WORD_IN_TABLE \in Nat \ {0}
  /\ BITS_PER_WORD = COLOR_BITS_PER_OBJ * SLOT_NUM_PER_WORD_IN_TABLE
<1> DEFINE W == BITS_PER_WORD
           C == COLOR_BITS_PER_OBJ
<1>1. W % C = W - C * (W \div C)
  BY WordAssumption, ModDef
<1>2. W \div C \in Nat /\ C * (W \div C) <= W /\ W < C * (W \div C + 1)
  BY WordAssumption, DivBounds
<1>3. W \div C # 0
  BY <1>1, <1>2, WordAssumption
<1>4. QED
  BY <1>1, <1>2, <1>3, WordAssumption DEF SLOT_NUM_PER_WORD_IN_TABLE

\* The field of a slot starts at a multiple of COLOR_BITS_PER_OBJ and lies
\* inside its word.
LEMMA FieldInWord ==
  ASSUME NEW x \in Nat
  PROVE  /\ IndexInWord(x) \in Nat
         /\ IndexInWord(x) % COLOR_BITS_PER_OBJ = 0
         /\ IndexInWord(x) + COLOR_BITS_PER_OBJ <= BITS_PER_WORD
<1> DEFINE C == COLOR_BITS_PER_OBJ
           q == SLOT_NUM_PER_WORD_IN_TABLE
           r == x % q
<1>0. C \in Nat \ {0} /\ q \in Nat \ {0} /\ BITS_PER_WORD = C * q
  BY WordSplit, WordAssumption
<1>1. IndexInWord(x) = C * r
  <2>1. (x * C) % (C * q) = C * (x % q)
    BY <1>0, ModScale
  <2>2. QED
    BY <1>0, <2>1 DEF IndexInWord
<1>2. r \in Nat /\ r + 1 <= q
  BY <1>0
<1>3. (r * C) % C = 0
  BY <1>0, <1>2, MulMod
<1>4. C * (r + 1) <= C * q
  BY <1>0, <1>2
<1>5. QED
  BY <1>0, <1>1, <1>2, <1>3, <1>4

LEMMA SlotsInTable == Slots \subseteq TableSlots
<1> DEFINE q == SLOT_NUM_PER_WORD_IN_TABLE
           k == SLOT_NUM - 1
<1>0. COLOR_BITS_PER_OBJ \in Nat \ {0} /\ q \in Nat \ {0}
      /\ BITS_PER_WORD = COLOR_BITS_PER_OBJ * q /\ k \in Nat
  BY WordSplit, WordAssumption, SlotAssumption
<1>1. MaxWordIndex = k \div q
  <2>1. (k * COLOR_BITS_PER_OBJ) \div (COLOR_BITS_PER_OBJ * q) = k \div q
    BY <1>0, ModScale
  <2>2. QED
    BY <1>0, <2>1 DEF MaxWordIndex
<1>2. PICK d \in Nat : d = k \div q /\ k < q * (d + 1)
  BY <1>0, DivBounds
<1>3. QED
  BY <1>0, <1>1, <1>2 DEF Slots, TableSlots

LEMMA WordOfTableSlot ==
  ASSUME NEW x \in TableSlots
  PROVE  WordOf(x) \in WordIndex
<1> DEFINE C == COLOR_BITS_PER_OBJ
           q == SLOT_NUM_PER_WORD_IN_TABLE
           M == MaxWordIndex
<1>1. C \in Nat \ {0} /\ q \in Nat \ {0} /\ BITS_PER_WORD = C * q /\ M \in Nat
  BY WordSplit, WordAssumption, SlotAssumption DEF MaxWordIndex
<1>2. x \in Nat /\ x < q * (M + 1)
  BY <1>1 DEF TableSlots
<1>3. PICK d \in Nat : d = x \div q /\ q * d <= x /\ x < q * (d + 1)
  BY <1>1, <1>2, DivBounds
<1>4. WordOf(x) = d
  BY <1>1, <1>2, <1>3, ModScale DEF WordOf
<1>5. q * d < q * (M + 1)
  BY <1>1, <1>2, <1>3
<1>6. d < M + 1
  BY <1>1, <1>3, <1>5
<1>7. QED
  BY <1>1, <1>3, <1>4, <1>6 DEF WordIndex

LEMMA ComposedInTable ==
  ASSUME NEW w \in WordIndex, NEW i \in BitIndex
  PROVE  composed_slot_index(w, i) \in TableSlots
<1> DEFINE C == COLOR_BITS_PER_OBJ
           q == SLOT_NUM_PER_WORD_IN_TABLE
           M == MaxWordIndex
<1>1. C \in Nat \ {0} /\ q \in Nat \ {0} /\ BITS_PER_WORD = C * q
  BY WordSplit, WordAssumption
<1>2. M \in Nat /\ w \in 0 .. M /\ i \in 0 .. C * q - 1
  BY <1>1, WordAssumption, SlotAssumption DEF MaxWordIndex, WordIndex, BitIndex
<1>3. PICK e \in Nat : e = i \div C /\ C * e <= i /\ i < C * (e + 1)
  BY <1>1, <1>2, DivBounds
<1>4. C * e < C * q
  BY <1>1, <1>2, <1>3
<1>5. e < q
  BY <1>1, <1>3, <1>4
<1>6. C * (w * q + e) <= w * (C * q) + i
  BY <1>1, <1>2, <1>3
<1>7. w * (C * q) + i < C * (w * q + e + 1)
  <2>1. C * (w * q + e + 1) = w * (C * q) + C * (e + 1)
    BY <1>1, <1>2, <1>3
  <2>2. QED
    BY <2>1, <1>1, <1>2, <1>3
<1>8. (w * (C * q) + i) \div C = w * q + e
  <2>1. w * (C * q) + i \in Nat /\ w * q + e \in Nat
    BY <1>1, <1>2, <1>3
  <2>2. QED
    BY <2>1, <1>1, <1>6, <1>7, DivUnique
<1>9. w * q + e <= (M + 1) * q - 1
  <2>1. w * q <= M * q
    BY <1>1, <1>2
  <2>2. QED
    BY <2>1, <1>5, <1>1, <1>2
<1>10. composed_slot_index(w, i) = w * q + e
  BY <1>1, <1>8 DEF composed_slot_index
<1>11. QED
  BY <1>1, <1>2, <1>3, <1>9, <1>10 DEF TableSlots

\* The mark colour bit of one field is never the alloc colour bit of
\* another, and both bits of a field lie in its word.
LEMMA MarkBitApart ==
  ASSUME NEW x \in Nat, NEW y \in Nat
  PROVE  /\ IndexInWord(x) \in BitIndex
         /\ IndexInWord(x) + 2 \in BitIndex
         /\ IndexInWord(x) + 2 # IndexInWord(y)
<1> DEFINE C == COLOR_BITS_PER_OBJ
<1>1. C \in Nat \ {0, 1, 2}
  BY WordAssumption
<1>2. /\ IndexInWord(x) \in Nat
      /\ IndexInWord(x) % C = 0
      /\ IndexInWord(x) + C <= BITS_PER_WORD
      /\ IndexInWord(y) \in Nat
      /\ IndexInWord(y) % C = 0
  BY FieldInWord
<1>3. PICK a \in Nat : IndexInWord(x) = C * a
  <2>1. IndexInWord(x) % C = IndexInWord(x) - C * (IndexInWord(x) \div C)
    BY <1>1, <1>2, ModDef
  <2>2. IndexInWord(x) \div C \in Nat
    BY <1>1, <1>2, DivBounds
  <2>3. IndexInWord(x) = C * (IndexInWord(x) \div C)
    BY <1>1, <1>2, <2>1
  <2>4. QED
    BY <2>2, <2>3
<1>4. PICK b \in Nat : IndexInWord(y) = C * b
  <2>1. IndexInWord(y) % C = IndexInWord(y) - C * (IndexInWord(y) \div C)
    BY <1>1, <1>2, ModDef
  <2>2. IndexInWord(y) \div C \in Nat
    BY <1>1, <1>2, DivBounds
  <2>3. IndexInWord(y) = C * (IndexInWord(y) \div C)
    BY <1>1, <1>2, <2>1
  <2>4. QED
    BY <2>2, <2>3
<1>5. C * a + 2 # C * b
  <2> SUFFICES ASSUME C * a + 2 = C * b PROVE FALSE
    OBVIOUS
  <2>1. C * a < C * b
    BY <1>1
  <2>2. a + 1 <= b
    BY <1>1, <2>1
  <2>3. C * (a + 1) <= C * b
    BY <1>1, <2>2
  <2>4. QED
    BY <1>1, <2>3
<1>6. QED
  BY <1>1, <1>2, <1>3, <1>4, <1>5, WordSplit DEF BitIndex

LEMMA LeastType ==
  ASSUME NEW S
  PROVE  Least(S) \in S \cup {MAX_SLOT_INDEX}
BY DEF Least

LEMMA WordOfNat ==
  ASSUME NEW x \in Nat
  PROVE  WordOf(x) \in Nat
<1>1. BITS_PER_WORD \in Nat \ {0} /\ x * COLOR_BITS_PER_OBJ \in Nat
  BY WordAssumption
<1>2. QED
  BY <1>1, DivBounds DEF WordOf

\* A field search inside a word ends on a bit of the word, or reports none.
LEMMA NextFreeIndexType ==
  ASSUME NEW word, NEW index \in Nat,
         next_free_index_in_color_word(word, index) # MAX_SLOT_INDEX
  PROVE  next_free_index_in_color_word(word, index) \in BitIndex
<1> DEFINE S == {i \in index .. BITS_PER_WORD - 1 :
                   /\ (i - index) % COLOR_BITS_PER_OBJ = 0
                   /\ word[i + cur_alloc_color] = 0}
<1>1. next_free_index_in_color_word(word, index) \in S \cup {MAX_SLOT_INDEX}
  BY LeastType DEF next_free_index_in_color_word
<1>2. QED
  BY <1>1 DEF BitIndex

\* The word-skipping scan ends on a field of the table, or reports none.
LEMMA NextFreeType ==
  ASSUME NEW tbl, NEW s \in Nat
  PROVE  next_free_slot_index_in_table(tbl, s) \in TableSlots \cup {MAX_SLOT_INDEX}
<1> DEFINE from == s + 1
           StartIn(w) == IF w = WordOf(from) THEN IndexInWord(from) ELSE 0
           Hit(w) == /\ tbl[w] # CurAllocMask
                     /\ next_free_index_in_color_word(tbl[w], StartIn(w)) # MAX_SLOT_INDEX
           H == {v \in WordOf(from) .. MaxWordIndex : Hit(v)}
           w == Least(H)
<1>1. next_free_slot_index_in_table(tbl, s) =
        IF w = MAX_SLOT_INDEX THEN MAX_SLOT_INDEX
        ELSE composed_slot_index(w, next_free_index_in_color_word(tbl[w], StartIn(w)))
  BY DEF next_free_slot_index_in_table
<1>2. CASE w = MAX_SLOT_INDEX
  BY <1>1, <1>2
<1>3. CASE w # MAX_SLOT_INDEX
  <2>1. w \in H
    BY <1>3, LeastType
  <2>2. WordOf(from) \in Nat /\ IndexInWord(from) \in Nat
    BY WordOfNat, FieldInWord
  <2>3. w \in WordIndex
    BY <2>1, <2>2 DEF WordIndex
  <2>4. StartIn(w) \in Nat
    BY <2>2
  <2>5. next_free_index_in_color_word(tbl[w], StartIn(w)) \in BitIndex
    BY <2>1, <2>4, NextFreeIndexType
  <2>6. QED
    BY <1>1, <1>3, <2>3, <2>5, ComposedInTable
<1>4. QED
  BY <1>2, <1>3

\* The search for an alloc-coloured field inside a word ends on a bit of
\* the word, or reports none.
LEMMA NextAllocIndexType ==
  ASSUME NEW word, NEW index \in Nat,
         next_alloc_index_in_color_word(word, index) # MAX_SLOT_INDEX
  PROVE  next_alloc_index_in_color_word(word, index) \in BitIndex
<1> DEFINE S == {i \in index .. BITS_PER_WORD - 1 :
                   /\ (i - index) % COLOR_BITS_PER_OBJ = 0
                   /\ word[i + cur_alloc_color] = 1}
<1>1. next_alloc_index_in_color_word(word, index) \in S \cup {MAX_SLOT_INDEX}
  BY LeastType DEF next_alloc_index_in_color_word
<1>2. QED
  BY <1>1 DEF BitIndex

\* The live-slot scan, which skips all-zero words, ends on a field of the
\* table, padding included, or reports none.
LEMMA NextAllocType ==
  ASSUME NEW tbl, NEW s \in Nat
  PROVE  next_alloc_slot_index_in_table(tbl, s) \in TableSlots \cup {MAX_SLOT_INDEX}
<1> DEFINE StartIn(w) == IF w = WordOf(s) THEN IndexInWord(s) ELSE 0
           Hit(w) == /\ tbl[w] # ZeroWord
                     /\ next_alloc_index_in_color_word(tbl[w], StartIn(w)) # MAX_SLOT_INDEX
           H == {v \in WordOf(s) .. MaxWordIndex : Hit(v)}
           w == Least(H)
<1>1. next_alloc_slot_index_in_table(tbl, s) =
        IF w = MAX_SLOT_INDEX THEN MAX_SLOT_INDEX
        ELSE composed_slot_index(w, next_alloc_index_in_color_word(tbl[w], StartIn(w)))
  BY DEF next_alloc_slot_index_in_table
<1>2. CASE w = MAX_SLOT_INDEX
  BY <1>1, <1>2
<1>3. CASE w # MAX_SLOT_INDEX
  <2>1. w \in H
    BY <1>3, LeastType
  <2>2. WordOf(s) \in Nat /\ IndexInWord(s) \in Nat
    BY WordOfNat, FieldInWord
  <2>3. w \in WordIndex
    BY <2>1, <2>2 DEF WordIndex
  <2>4. StartIn(w) \in Nat
    BY <2>2
  <2>5. next_alloc_index_in_color_word(tbl[w], StartIn(w)) \in BitIndex
    BY <2>1, <2>4, NextAllocIndexType
  <2>6. QED
    BY <1>1, <1>3, <2>3, <2>5, ComposedInTable
<1>4. QED
  BY <1>2, <1>3


-----------------------------------------------------------------------------
(* Least: the scans' "first ... found" is the least element of a set of    *)
(* naturals, which exists by the well-foundedness of < on Nat.             *)

LEMMA NatMin ==
  ASSUME NEW T \in SUBSET Nat, T # {}
  PROVE  \E x \in T : \A y \in T : x <= y
<1> DEFINE R == OpToRel(<, Nat)
<1> HIDE DEF R
<1>1. PICK x \in T : \A y \in T : ~(<<y, x>> \in R)
  BY WFMin, NatLessThanWellFounded DEF R
<1>2. \A y \in T : y < x => <<y, x>> \in R
  BY DEF R, OpToRel
<1>3. \A y \in T : ~(y < x)
  BY <1>1, <1>2
<1>4. QED
  BY <1>3

LEMMA LeastIsMin ==
  ASSUME NEW T \in SUBSET Nat, T # {}
  PROVE  /\ Least(T) \in T
         /\ \A y \in T : Least(T) <= y
BY NatMin DEF Least

LEMMA LeastUnique ==
  ASSUME NEW T \in SUBSET Nat, NEW x \in T, \A y \in T : x <= y
  PROVE  Least(T) = x
<1>1. Least(T) \in T /\ Least(T) <= x
  BY LeastIsMin
<1>2. Least(T) \in Nat /\ x \in Nat /\ x <= Least(T)
  BY <1>1
<1>3. QED
  BY <1>1, <1>2

LEMMA LeastEmpty == Least({}) = MAX_SLOT_INDEX
BY DEF Least

-----------------------------------------------------------------------------
(* Fields and slots.                                                       *)

\* Bit i of word w lies in the field of slot w * q + (i \div C).
LEMMA FieldSplit ==
  ASSUME NEW w \in Nat, NEW i \in BitIndex
  PROVE  LET C == COLOR_BITS_PER_OBJ
             q == SLOT_NUM_PER_WORD_IN_TABLE
             e == i \div C
         IN  /\ e \in 0 .. q - 1
             /\ C * e <= i /\ i < C * (e + 1)
             /\ composed_slot_index(w, i) = w * q + e
<1> DEFINE C == COLOR_BITS_PER_OBJ
           q == SLOT_NUM_PER_WORD_IN_TABLE
<1>1. C \in Nat \ {0} /\ q \in Nat \ {0} /\ BITS_PER_WORD = C * q
  BY WordSplit, WordAssumption
<1>2. i \in 0 .. C * q - 1
  BY <1>1 DEF BitIndex
<1>3. PICK e \in Nat : e = i \div C /\ C * e <= i /\ i < C * (e + 1)
  BY <1>1, <1>2, DivBounds
<1>4. C * e < C * q
  BY <1>1, <1>2, <1>3
<1>5. e < q
  BY <1>1, <1>3, <1>4, MulMono
<1>6. /\ C * (w * q + e) = w * (C * q) + C * e
      /\ C * (w * q + e + 1) = w * (C * q) + C * (e + 1)
  BY <1>1, <1>3
<1>7. /\ C * (w * q + e) <= w * (C * q) + i
      /\ w * (C * q) + i < C * (w * q + e + 1)
  BY <1>1, <1>2, <1>3, <1>6
<1>8. (w * (C * q) + i) \div C = w * q + e
  <2>1. w * (C * q) + i \in Nat /\ w * q + e \in Nat
    BY <1>1, <1>2, <1>3
  <2>2. QED
    BY <2>1, <1>1, <1>7, DivUnique
<1>9. QED
  BY <1>1, <1>3, <1>5, <1>8 DEF composed_slot_index

-----------------------------------------------------------------------------
(* clear_free_slot_in_table.                                               *)

\* The memset of the whole words below the ceiling and the mask of the
\* boundary word clear exactly the colour fields of the slots below the
\* ceiling, for every table and every ceiling.
LEMMA ClearCorrect ==
  ASSUME NEW tbl \in Table, NEW c \in Nat
  PROVE  clear_free_slot_in_table(tbl, c) = NaiveClear(tbl, c)
<1> DEFINE C == COLOR_BITS_PER_OBJ
           q == SLOT_NUM_PER_WORD_IN_TABLE
           clr == clear_free_slot_in_table(tbl, c)
           ref == NaiveClear(tbl, c)
<1>1. C \in Nat \ {0} /\ q \in Nat \ {0} /\ BITS_PER_WORD = C * q
  BY WordSplit, WordAssumption
<1>2. PICK Q \in Nat, r \in 0 .. q - 1 :
        /\ Q = c \div q /\ r = c % q
        /\ c = q * Q + r
  <2>1. c \div q \in Nat /\ q * (c \div q) <= c /\ c < q * (c \div q + 1)
    BY <1>1, DivBounds
  <2>2. c % q = c - q * (c \div q)
    BY <1>1, ModDef
  <2>3. QED
    BY <1>1, <2>1, <2>2
<1>3. clr = [w \in WordIndex |->
               IF w < Q THEN ZeroWord
               ELSE IF w = Q /\ r # 0
               THEN [i \in BitIndex |-> IF i < r * C THEN 0 ELSE tbl[w][i]]
               ELSE tbl[w]]
  BY <1>2 DEF clear_free_slot_in_table
<1>4. ref = [w \in WordIndex |-> [i \in BitIndex |->
               IF composed_slot_index(w, i) < c THEN 0 ELSE tbl[w][i]]]
  BY DEF NaiveClear
<1>5. ASSUME NEW w \in WordIndex, NEW i \in BitIndex
      PROVE  clr[w][i] = ref[w][i]
  <2>1. PICK e \in 0 .. q - 1 :
          /\ i \in Nat
          /\ C * e <= i /\ i < C * (e + 1)
          /\ composed_slot_index(w, i) = w * q + e
    BY FieldSplit DEF WordIndex, BitIndex
  <2>0. w \in Nat
    BY DEF WordIndex
  <2>2. ref[w][i] = IF w * q + e < c THEN 0 ELSE tbl[w][i]
    BY <1>4, <2>1
  <2>3. CASE w < Q
    <3>1. q * (w + 1) <= q * Q
      BY <2>3, <2>0, <1>1, <1>2, MulMono
    <3>2. w * q + e < c
      BY <2>0, <2>1, <3>1, <1>1, <1>2
    <3>3. QED
      BY <1>3, <2>2, <2>3, <3>2 DEF ZeroWord
  <2>4. CASE w = Q /\ r # 0
    <3>1. e < r <=> i < r * C
      <4>1. r * C = C * r /\ C * r \in Nat
        BY <1>1, <1>2
      <4>2. e < r => C * (e + 1) <= C * r
        BY <2>1, <1>1, <1>2, MulMono
      <4>3. r <= e => C * r <= C * e
        BY <2>1, <1>1, <1>2, MulMono
      <4>4. e < r => i < C * r
        BY <4>2, <2>1, <1>1, <1>2
      <4>5. ~(e < r) => ~(i < C * r)
        BY <4>3, <2>1, <1>1, <1>2
      <4>6. QED
        BY <4>1, <4>4, <4>5
    <3>2. clr[w][i] = IF i < r * C THEN 0 ELSE tbl[w][i]
      BY <1>3, <2>4
    <3>3. (w * q + e < c) <=> e < r
      <4>1. w * q = q * Q
        BY <2>4, <2>0, <1>1, <1>2
      <4>2. QED
        BY <4>1, <2>1, <1>1, <1>2
    <3>4. QED
      BY <2>2, <3>1, <3>2, <3>3
  <2>5. CASE ~(w < Q) /\ ~(w = Q /\ r # 0)
    <3>1. ~(w * q + e < c)
      <4>1. CASE w = Q
        <5>1. r = 0 /\ w * q = q * Q
          BY <4>1, <2>5, <2>0, <1>1, <1>2
        <5>2. QED
          BY <5>1, <2>1, <1>1, <1>2
      <4>2. CASE w # Q
        <5>1. q * (Q + 1) <= q * w
          BY <4>2, <2>5, <2>0, <1>1, <1>2, MulMono
        <5>2. QED
          BY <5>1, <2>0, <2>1, <1>1, <1>2
      <4>3. QED
        BY <4>1, <4>2
    <3>2. QED
      BY <1>3, <2>2, <2>5, <3>1
  <2>6. QED
    BY <2>3, <2>4, <2>5
<1>6. ASSUME NEW w \in WordIndex
      PROVE  clr[w] = ref[w]
  <2>1. clr[w] = [i \in BitIndex |-> clr[w][i]]
    <3>1. CASE w < Q
      BY <1>3, <3>1 DEF ZeroWord
    <3>2. CASE w = Q /\ r # 0
      BY <1>3, <3>2
    <3>3. CASE ~(w < Q) /\ ~(w = Q /\ r # 0)
      <4>1. clr[w] = tbl[w] /\ tbl[w] \in [BitIndex -> {0, 1}]
        BY <1>3, <3>3 DEF Table, Word
      <4>2. QED
        BY <4>1
    <3>4. QED
      BY <3>1, <3>2, <3>3
  <2>2. ref[w] = [i \in BitIndex |-> ref[w][i]]
    BY <1>4
  <2>3. QED
    BY <2>1, <2>2, <1>5
<1>7. QED
  BY <1>3, <1>4, <1>6


\* A slot is a word index and a field number: t = q * WordOf(t) + (t % q),
\* and its field starts at bit C * (t % q).
LEMMA SlotSplit ==
  ASSUME NEW t \in Nat
  PROVE  LET C == COLOR_BITS_PER_OBJ
             q == SLOT_NUM_PER_WORD_IN_TABLE
         IN  /\ WordOf(t) = t \div q
             /\ WordOf(t) \in Nat
             /\ t % q \in 0 .. q - 1
             /\ t = q * WordOf(t) + (t % q)
             /\ IndexInWord(t) = C * (t % q)
<1> DEFINE C == COLOR_BITS_PER_OBJ
           q == SLOT_NUM_PER_WORD_IN_TABLE
<1>1. C \in Nat \ {0} /\ q \in Nat \ {0} /\ BITS_PER_WORD = C * q
  BY WordSplit, WordAssumption
<1>2. (t * C) \div (C * q) = t \div q /\ (t * C) % (C * q) = C * (t % q)
  BY <1>1, ModScale
<1>3. t \div q \in Nat /\ q * (t \div q) <= t /\ t < q * (t \div q + 1)
  BY <1>1, DivBounds
<1>4. t % q = t - q * (t \div q)
  BY <1>1, ModDef
<1>5. QED
  BY <1>1, <1>2, <1>3, <1>4 DEF WordOf, IndexInWord

\* Field k of word w is slot w * q + k, and the slot maps back to it.
LEMMA FieldSlot ==
  ASSUME NEW w \in Nat, NEW k \in 0 .. SLOT_NUM_PER_WORD_IN_TABLE - 1
  PROVE  LET C == COLOR_BITS_PER_OBJ
             q == SLOT_NUM_PER_WORD_IN_TABLE
         IN  /\ C * k \in BitIndex
             /\ composed_slot_index(w, C * k) = w * q + k
             /\ WordOf(w * q + k) = w
             /\ IndexInWord(w * q + k) = C * k
<1> DEFINE C == COLOR_BITS_PER_OBJ
           q == SLOT_NUM_PER_WORD_IN_TABLE
<1>1. C \in Nat \ {0} /\ q \in Nat \ {0} /\ BITS_PER_WORD = C * q
  BY WordSplit, WordAssumption
<1>2. k \in Nat /\ k + 1 <= q
  BY <1>1
<1>3. C * k \in BitIndex
  <2>1. C * (k + 1) <= C * q
    BY <1>1, <1>2, MulMono
  <2>2. QED
    BY <1>1, <1>2, <2>1 DEF BitIndex
<1>4. composed_slot_index(w, C * k) = w * q + k
  <2>1. PICK e \in 0 .. q - 1 : /\ C * e <= C * k /\ C * k < C * (e + 1)
                                 /\ composed_slot_index(w, C * k) = w * q + e
    BY <1>3, FieldSplit
  <2>2. e <= k /\ k < e + 1
    BY <1>1, <1>2, <2>1, MulMono
  <2>3. QED
    BY <2>1, <2>2, <1>2
<1>5. (w * q + k) \div q = w
  <2>1. w * q + k \in Nat /\ q * w <= w * q + k /\ w * q + k < q * (w + 1)
    BY <1>1, <1>2
  <2>2. QED
    BY <1>1, <2>1, DivUnique
<1>6. WordOf(w * q + k) = w /\ IndexInWord(w * q + k) = C * k
  <2>1. w * q + k \in Nat
    BY <1>1, <1>2
  <2>2. (w * q + k) % q = k
    BY <1>1, <1>2, <1>5, <2>1, ModDef
  <2>3. QED
    BY <1>5, <2>1, <2>2, SlotSplit
<1>7. QED
  BY <1>3, <1>4, <1>6

\* Slots compare as their (word, field) pairs compare lexicographically.
LEMMA SlotOrder ==
  ASSUME NEW t \in Nat, NEW u \in Nat
  PROVE  LET q == SLOT_NUM_PER_WORD_IN_TABLE
         IN  t < u <=> \/ WordOf(t) < WordOf(u)
                       \/ WordOf(t) = WordOf(u) /\ t % q < u % q
<1> DEFINE q == SLOT_NUM_PER_WORD_IN_TABLE
<1>1. q \in Nat \ {0}
  BY WordSplit
<1>2. /\ WordOf(t) \in Nat /\ t % q \in 0 .. q - 1 /\ t = q * WordOf(t) + (t % q)
      /\ WordOf(u) \in Nat /\ u % q \in 0 .. q - 1 /\ u = q * WordOf(u) + (u % q)
  BY SlotSplit
<1>3. WordOf(t) < WordOf(u) => q * (WordOf(t) + 1) <= q * WordOf(u)
  BY <1>1, <1>2, MulMono
<1>4. WordOf(u) < WordOf(t) => q * (WordOf(u) + 1) <= q * WordOf(t)
  BY <1>1, <1>2, MulMono
<1>5. QED
  BY <1>1, <1>2, <1>3, <1>4

\* The step test of the field loops: from a field start C * k0 on, a bit
\* index is reached by steps of C exactly when it is a later field start.
LEMMA FieldStep ==
  ASSUME NEW k0 \in Nat, NEW i \in Nat, i >= COLOR_BITS_PER_OBJ * k0
  PROVE  (i - COLOR_BITS_PER_OBJ * k0) % COLOR_BITS_PER_OBJ = 0 <=>
           \E k \in Nat : k >= k0 /\ i = COLOR_BITS_PER_OBJ * k
<1> DEFINE C == COLOR_BITS_PER_OBJ
           d == i - C * k0
<1>1. C \in Nat \ {0} /\ d \in Nat
  BY WordAssumption
<1>2. d % C = d - C * (d \div C) /\ d \div C \in Nat
  BY <1>1, ModDef, DivBounds
<1>3. d % C = 0 => \E k \in Nat : k >= k0 /\ i = C * k
  <2>1. d % C = 0 => i = C * (k0 + d \div C)
    BY <1>1, <1>2
  <2>2. k0 + d \div C \in Nat /\ k0 + d \div C >= k0
    BY <1>2
  <2>3. QED
    BY <2>1, <2>2
<1>4. (\E k \in Nat : k >= k0 /\ i = C * k) => d % C = 0
  <2> SUFFICES ASSUME NEW k \in Nat, k >= k0, i = C * k
               PROVE  d % C = 0
    OBVIOUS
  <2>1. d = (k - k0) * C /\ k - k0 \in Nat
    BY <1>1
  <2>2. QED
    BY <2>1, <1>1, MulMod
<1>5. QED
  BY <1>3, <1>4


\* No word index reaches the sentinel.
LEMMA WordIndexBelowMax ==
  /\ MaxWordIndex \in Nat
  /\ MaxWordIndex < MAX_SLOT_INDEX
<1>1. BITS_PER_WORD \in Nat \ {0} /\ (SLOT_NUM - 1) * COLOR_BITS_PER_OBJ \in Nat
  BY WordAssumption, SlotAssumption
<1>2. MaxWordIndex \in Nat
      /\ BITS_PER_WORD * MaxWordIndex <= (SLOT_NUM - 1) * COLOR_BITS_PER_OBJ
  BY <1>1, DivBounds DEF MaxWordIndex
<1>3. MaxWordIndex <= BITS_PER_WORD * MaxWordIndex
  BY <1>1, <1>2
<1>4. QED
  BY <1>2, <1>3, WordAssumption, SlotAssumption

-----------------------------------------------------------------------------
(* next_alloc_slot_index_in_table.                                         *)

\* On a table whose padding fields carry no alloc colour, the compaction
\* scan (whole zero words skipped, the first word searched from the
\* cursor's field) returns the least allocated slot at or after the
\* cursor, or MAX_SLOT_INDEX when there is none.
LEMMA AllocScanCorrect ==
  ASSUME NEW tbl \in Table, NEW s \in Nat,
         cur_alloc_color \in 0 .. COLOR_BITS_PER_OBJ - 1,
         \A t \in TableSlots \ Slots : ~slot_is_alloc_in_table(tbl, t)
  PROVE  next_alloc_slot_index_in_table(tbl, s) = NaiveNextAlloc(tbl, s)
<1> DEFINE C == COLOR_BITS_PER_OBJ
           q == SLOT_NUM_PER_WORD_IN_TABLE
           M == MaxWordIndex
           ws == WordOf(s)
           ks == s % q
           StartIn(w) == IF w = ws THEN IndexInWord(s) ELSE 0
           F(w) == {i \in StartIn(w) .. BITS_PER_WORD - 1 :
                      /\ (i - StartIn(w)) % C = 0
                      /\ tbl[w][i + cur_alloc_color] = 1}
           NA(w) == next_alloc_index_in_color_word(tbl[w], StartIn(w))
           Hit(w) == tbl[w] # ZeroWord /\ NA(w) # MAX_SLOT_INDEX
           H == {v \in ws .. M : Hit(v)}
           A == {t \in TableSlots : t >= s /\ slot_is_alloc_in_table(tbl, t)}
           N == {t \in s .. SLOT_NUM - 1 : slot_is_alloc_in_table(tbl, t)}
<1>0. /\ C \in Nat \ {0} /\ q \in Nat \ {0} /\ BITS_PER_WORD = C * q
      /\ M \in Nat /\ M < MAX_SLOT_INDEX /\ MAX_SLOT_INDEX >= BITS_PER_WORD
      /\ ws \in Nat /\ ks \in 0 .. q - 1 /\ s = q * ws + ks
      /\ IndexInWord(s) = C * ks
  BY WordSplit, WordAssumption, SlotAssumption, WordIndexBelowMax, SlotSplit
<1>1. next_alloc_slot_index_in_table(tbl, s) =
        IF Least(H) = MAX_SLOT_INDEX THEN MAX_SLOT_INDEX
        ELSE composed_slot_index(Least(H), NA(Least(H)))
  BY DEF next_alloc_slot_index_in_table
<1>2. \A w : NA(w) = Least(F(w))
  BY DEF next_alloc_index_in_color_word
<1>3. NaiveNextAlloc(tbl, s) = Least(N)
  BY DEF NaiveNextAlloc
<1>4. N = A
  <2>1. N \subseteq A
    BY SlotsInTable DEF Slots
  <2>2. A \subseteq N
    BY DEF Slots, TableSlots
  <2>3. QED
    BY <2>1, <2>2
<1>5. A \subseteq Nat /\ H \subseteq Nat
  BY <1>0 DEF TableSlots
<1>6. ASSUME NEW v \in ws .. M
      PROVE  StartIn(v) = C * (IF v = ws THEN ks ELSE 0)
  BY <1>0
\* A field found in a word of the scan is an allocated slot at or after s.
<1>7. ASSUME NEW v \in ws .. M, NEW i \in F(v)
      PROVE  \E k \in 0 .. q - 1 :
               /\ i = C * k
               /\ v * q + k \in A
               /\ composed_slot_index(v, i) = v * q + k
               /\ WordOf(v * q + k) = v
  <2> DEFINE k0 == IF v = ws THEN ks ELSE 0
  <2>1. k0 \in Nat /\ StartIn(v) = C * k0 /\ v \in Nat
    BY <1>0, <1>6
  <2>2. i \in Nat /\ i >= C * k0 /\ i <= BITS_PER_WORD - 1
        /\ (i - C * k0) % C = 0 /\ tbl[v][i + cur_alloc_color] = 1
    <3>1. /\ i \in StartIn(v) .. BITS_PER_WORD - 1
          /\ (i - StartIn(v)) % C = 0
          /\ tbl[v][i + cur_alloc_color] = 1
      OBVIOUS
    <3>2. StartIn(v) \in Nat /\ BITS_PER_WORD \in Nat
      BY <2>1, <1>0
    <3> HIDE DEF StartIn
    <3>3. QED
      BY <3>1, <3>2, <2>1
  <2>3. PICK k \in Nat : k >= k0 /\ i = C * k
    BY <2>1, <2>2, FieldStep
  <2>4. k \in 0 .. q - 1
    <3>1. C * k < C * q
      BY <2>2, <2>3, <1>0
    <3>2. QED
      BY <3>1, <1>0, MulMono
  <2>5. /\ composed_slot_index(v, C * k) = v * q + k
        /\ WordOf(v * q + k) = v
        /\ IndexInWord(v * q + k) = C * k
    BY <2>1, <2>4, FieldSlot
  <2> DEFINE t == v * q + k
  <2>6. t \in Nat /\ t % q = k
    <3>1. t \in Nat
      BY <2>1, <2>4, <1>0
    <3>2. t = q * WordOf(t) + (t % q)
      BY <3>1, SlotSplit
    <3>3. QED
      BY <3>1, <3>2, <2>5, <2>1, <1>0
  <2>7. slot_is_alloc_in_table(tbl, t)
    BY <2>2, <2>3, <2>5 DEF slot_is_alloc_in_table
  <2>8. t \in TableSlots
    <3>1. q * v <= q * M
      BY <2>1, <1>0, MulMono
    <3>2. QED
      BY <3>1, <2>4, <2>6, <1>0 DEF TableSlots
  <2>9. t >= s
    <3>1. t < s <=> \/ WordOf(t) < WordOf(s)
                    \/ WordOf(t) = WordOf(s) /\ t % q < s % q
      BY <2>6, <1>0, SlotOrder
    <3>2. ~(t < s)
      BY <3>1, <2>5, <2>6, <2>3, <1>0
    <3>3. QED
      BY <3>2, <2>6, <1>0
  <2>10. t \in A
    BY <2>7, <2>8, <2>9
  <2>11. composed_slot_index(v, i) = t
    BY <2>3, <2>5
  <2>12. QED
    BY <2>3, <2>4, <2>5, <2>10, <2>11
\* Every allocated slot at or after s is a field the scan can find.
<1>8. ASSUME NEW t \in A
      PROVE  /\ WordOf(t) \in ws .. M
             /\ C * (t % q) \in F(WordOf(t))
             /\ composed_slot_index(WordOf(t), C * (t % q)) = t
  <2> DEFINE v == WordOf(t)
             k == t % q
  <2>1. t \in Nat /\ t >= s /\ slot_is_alloc_in_table(tbl, t) /\ t \in TableSlots
    BY DEF TableSlots
  <2>2. v \in Nat /\ k \in 0 .. q - 1 /\ t = q * v + k /\ IndexInWord(t) = C * k
    BY <2>1, SlotSplit
  <2>3. v \in WordIndex
    BY <2>1, WordOfTableSlot
  <2>4. ~(v < ws) /\ (v = ws => ~(k < ks))
    BY <2>1, <1>0, SlotOrder
  <2>5. v \in ws .. M
    BY <2>2, <2>3, <2>4, <1>0 DEF WordIndex
  <2>6. /\ C * k \in BitIndex
        /\ composed_slot_index(v, C * k) = v * q + k
    BY <2>2, FieldSlot
  <2>7. C * k >= StartIn(v)
    <3>1. CASE v = ws
      <4>1. C * ks <= C * k
        BY <3>1, <2>4, <2>2, <1>0, MulMono
      <4>2. QED
        BY <3>1, <4>1, <1>0
    <3>2. CASE v # ws
      BY <3>2, <2>2, <1>0
    <3>3. QED
      BY <3>1, <3>2
  <2>8. (C * k - StartIn(v)) % C = 0
    <3> DEFINE k0 == IF v = ws THEN ks ELSE 0
    <3>1. k0 \in Nat /\ StartIn(v) = C * k0 /\ k >= k0
      BY <2>2, <2>4, <1>0
    <3>2. C * k \in Nat /\ C * k >= C * k0
      BY <2>7, <3>1, <2>2, <1>0
    <3>3. QED
      BY <3>1, <3>2, <2>2, FieldStep
  <2>9. tbl[v][C * k + cur_alloc_color] = 1
    BY <2>1, <2>2 DEF slot_is_alloc_in_table
  <2>10. C * k \in F(v)
    <3>1. C * k \in Nat /\ C * k <= BITS_PER_WORD - 1
      BY <2>6, WordAssumption DEF BitIndex
    <3>2. StartIn(v) \in Nat
      BY <2>5, <1>6, <1>0
    <3>3. C * k \in StartIn(v) .. BITS_PER_WORD - 1
      BY <3>1, <3>2, <2>7
    <3>4. QED
      BY <3>3, <2>8, <2>9
  <2>11. composed_slot_index(v, C * k) = t
    BY <2>2, <2>6, <1>0
  <2>12. QED
    BY <2>5, <2>10, <2>11
<1>9. ASSUME NEW v \in ws .. M
      PROVE  /\ F(v) \subseteq Nat
             /\ Hit(v) <=> F(v) # {}
  <2>1. F(v) \subseteq Nat
    BY <1>0, <1>6
  <2>2. Hit(v) => F(v) # {}
    BY <1>2, LeastEmpty
  <2>3. ASSUME F(v) # {} PROVE Hit(v)
    <3>1. Least(F(v)) \in F(v)
      BY <2>1, <2>3, LeastIsMin
    <3>2. NA(v) # MAX_SLOT_INDEX
      <4>0. \A x \in F(v) : x \in Nat /\ x <= BITS_PER_WORD - 1
        BY <1>6, <1>0
      <4>1. Least(F(v)) \in Nat /\ Least(F(v)) <= BITS_PER_WORD - 1
        BY <4>0, <3>1
      <4>2. NA(v) = Least(F(v))
        BY <1>2
      <4> HIDE DEF NA, F
      <4>3. QED
        BY <4>1, <4>2, <1>0
    <3>3. PICK i \in F(v) : TRUE
      BY <2>3
    <3>4. PICK k \in 0 .. q - 1 : i = C * k
      BY <1>7
    <3>5. i + cur_alloc_color \in BitIndex
      <4>1. C * (k + 1) <= C * q
        BY <1>0, MulMono
      <4>2. QED
        BY <4>1, <3>4, <1>0 DEF BitIndex
    <3>6. tbl[v] # ZeroWord
      BY <3>3, <3>5 DEF ZeroWord
    <3>7. QED
      BY <3>2, <3>6
  <2>4. QED
    BY <2>1, <2>2, <2>3
<1>10. CASE A = {}
  <2>1. H = {}
    <3> SUFFICES ASSUME NEW v \in H PROVE FALSE
      OBVIOUS
    <3>1. F(v) # {}
      BY <1>9
    <3>2. PICK i \in F(v) : TRUE
      BY <3>1
    <3>3. QED
      BY <1>7, <1>10
  <2>2. QED
    BY <2>1, <1>1, <1>3, <1>4, <1>10, LeastEmpty
<1>11. CASE A # {}
  <2> DEFINE m == Least(A)
             wm == WordOf(m)
             km == m % q
  <2>1. m \in A /\ \A t \in A : m <= t
    BY <1>5, <1>11, LeastIsMin
  <2>2. /\ wm \in ws .. M
        /\ C * km \in F(wm)
        /\ composed_slot_index(wm, C * km) = m
    BY <2>1, <1>8
  <2>3. m \in Nat /\ wm \in Nat /\ km \in 0 .. q - 1 /\ m = q * wm + km
    BY <2>1, <1>5, SlotSplit
  <2>4. wm \in H
    BY <2>2, <1>9
  <2>5. \A v \in H : wm <= v
    <3> SUFFICES ASSUME NEW v \in H, v < wm PROVE FALSE
      BY <2>3, <1>0
    <3>1. PICK i \in F(v) : TRUE
      BY <1>9
    <3>2. PICK k \in 0 .. q - 1 : v * q + k \in A /\ WordOf(v * q + k) = v
      BY <3>1, <1>7
    <3>3. v * q + k < m
      BY <3>2, <2>3, <1>0, SlotOrder
    <3>4. m <= v * q + k
      BY <3>2, <2>1
    <3>5. v * q + k \in Nat
      BY <3>2, <1>5
    <3>6. QED
      BY <3>3, <3>4, <3>5, <2>3
  <2>6. Least(H) = wm
    BY <2>4, <2>5, <1>5, LeastUnique
  <2>7. wm # MAX_SLOT_INDEX
    BY <2>2, <1>0
  <2>8. composed_slot_index(wm, NA(wm)) = m
    <3> DEFINE j == Least(F(wm))
    <3>1. j \in F(wm) /\ j <= C * km
      BY <2>2, <1>9, LeastIsMin
    <3>2. PICK k \in 0 .. q - 1 :
            /\ j = C * k
            /\ wm * q + k \in A
            /\ composed_slot_index(wm, j) = wm * q + k
      BY <3>1, <2>2, <1>7
    <3>3. k <= km
      <4> SUFFICES ASSUME km < k PROVE FALSE
        BY <2>3
      <4>1. C * km < C * k
        BY <2>3, <1>0, MulMono
      <4>2. j \in Nat
        BY <3>1, <1>9, <2>2
      <4>3. C * km \in Nat /\ C * k \in Nat
        BY <2>3, <1>0
      <4>4. j <= C * km /\ j = C * k
        BY <3>1, <3>2
      <4> HIDE DEF j
      <4>5. QED
        BY <4>1, <4>2, <4>3, <4>4
    <3>4. m <= wm * q + k
      BY <3>2, <2>1
    <3>5. wm * q + k = m
      BY <3>3, <3>4, <2>3, <1>0
    <3>6. QED
      BY <3>2, <3>5, <1>2
  <2>9. QED
    BY <1>1, <1>3, <1>4, <2>6, <2>7, <2>8
<1>12. QED
  BY <1>10, <1>11

\* The alloc colour bit of a field is the colour offset past the field's
\* start.
LEMMA FieldColour ==
  ASSUME NEW k \in Nat, NEW r \in 0 .. COLOR_BITS_PER_OBJ - 1
  PROVE  (COLOR_BITS_PER_OBJ * k + r) % COLOR_BITS_PER_OBJ = r
<1> DEFINE C == COLOR_BITS_PER_OBJ
<1>1. C \in Nat \ {0} /\ C * k \in Nat /\ C * (k + 1) = C * k + C
  BY WordAssumption
<1>2. (C * k + r) \div C = k
  BY <1>1, DivUnique
<1>3. QED
  BY <1>1, <1>2, ModDef

-----------------------------------------------------------------------------
(* next_free_slot_index_in_table.                                          *)

\* On a table whose padding fields all carry the alloc colour, the
\* allocator's scan from the field after s - 1 (words equal to
\* cur_alloc_mask skipped whole) returns the least free slot from s on.
LEMMA FreeScanFrom ==
  ASSUME NEW tbl \in Table, NEW s \in Nat \ {0},
         cur_alloc_color \in 0 .. COLOR_BITS_PER_OBJ - 1,
         \A t \in TableSlots \ Slots : slot_is_alloc_in_table(tbl, t)
  PROVE  next_free_slot_index_in_table(tbl, s - 1) =
           Least({t \in s .. SLOT_NUM - 1 : ~slot_is_alloc_in_table(tbl, t)})
<1> DEFINE C == COLOR_BITS_PER_OBJ
           q == SLOT_NUM_PER_WORD_IN_TABLE
           M == MaxWordIndex
           ws == WordOf(s)
           ks == s % q
           StartIn(w) == IF w = ws THEN IndexInWord(s) ELSE 0
           F(w) == {i \in StartIn(w) .. BITS_PER_WORD - 1 :
                      /\ (i - StartIn(w)) % C = 0
                      /\ tbl[w][i + cur_alloc_color] = 0}
           NA(w) == next_free_index_in_color_word(tbl[w], StartIn(w))
           Hit(w) == tbl[w] # CurAllocMask /\ NA(w) # MAX_SLOT_INDEX
           H == {v \in ws .. M : Hit(v)}
           A == {t \in TableSlots : t >= s /\ ~slot_is_alloc_in_table(tbl, t)}
           N == {t \in s .. SLOT_NUM - 1 : ~slot_is_alloc_in_table(tbl, t)}
<1>0. /\ C \in Nat \ {0} /\ q \in Nat \ {0} /\ BITS_PER_WORD = C * q
      /\ M \in Nat /\ M < MAX_SLOT_INDEX /\ MAX_SLOT_INDEX >= BITS_PER_WORD
      /\ ws \in Nat /\ ks \in 0 .. q - 1 /\ s = q * ws + ks
      /\ IndexInWord(s) = C * ks
  BY WordSplit, WordAssumption, SlotAssumption, WordIndexBelowMax, SlotSplit
<1>00. (s - 1) + 1 = s
  OBVIOUS
<1>1. next_free_slot_index_in_table(tbl, s - 1) =
        IF Least(H) = MAX_SLOT_INDEX THEN MAX_SLOT_INDEX
        ELSE composed_slot_index(Least(H), NA(Least(H)))
  BY <1>00 DEF next_free_slot_index_in_table
<1>2. \A w : NA(w) = Least(F(w))
  BY DEF next_free_index_in_color_word
<1>3. Least({t \in s .. SLOT_NUM - 1 : ~slot_is_alloc_in_table(tbl, t)}) = Least(N)
  OBVIOUS
<1>4. N = A
  <2>1. N \subseteq A
    BY SlotsInTable DEF Slots
  <2>2. A \subseteq N
    BY DEF Slots, TableSlots
  <2>3. QED
    BY <2>1, <2>2
<1>5. A \subseteq Nat /\ H \subseteq Nat
  BY <1>0 DEF TableSlots
<1>6. ASSUME NEW v \in ws .. M
      PROVE  StartIn(v) = C * (IF v = ws THEN ks ELSE 0)
  BY <1>0
\* A field found in a word of the scan is a free slot at or after s.
<1>7. ASSUME NEW v \in ws .. M, NEW i \in F(v)
      PROVE  \E k \in 0 .. q - 1 :
               /\ i = C * k
               /\ v * q + k \in A
               /\ composed_slot_index(v, i) = v * q + k
               /\ WordOf(v * q + k) = v
  <2> DEFINE k0 == IF v = ws THEN ks ELSE 0
  <2>1. k0 \in Nat /\ StartIn(v) = C * k0 /\ v \in Nat
    BY <1>0, <1>6
  <2>2. i \in Nat /\ i >= C * k0 /\ i <= BITS_PER_WORD - 1
        /\ (i - C * k0) % C = 0 /\ tbl[v][i + cur_alloc_color] = 0
    <3>1. /\ i \in StartIn(v) .. BITS_PER_WORD - 1
          /\ (i - StartIn(v)) % C = 0
          /\ tbl[v][i + cur_alloc_color] = 0
      OBVIOUS
    <3>2. StartIn(v) \in Nat /\ BITS_PER_WORD \in Nat
      BY <2>1, <1>0
    <3> HIDE DEF StartIn
    <3>3. QED
      BY <3>1, <3>2, <2>1
  <2>3. PICK k \in Nat : k >= k0 /\ i = C * k
    BY <2>1, <2>2, FieldStep
  <2>4. k \in 0 .. q - 1
    <3>1. C * k < C * q
      BY <2>2, <2>3, <1>0
    <3>2. QED
      BY <3>1, <1>0, MulMono
  <2>5. /\ composed_slot_index(v, C * k) = v * q + k
        /\ WordOf(v * q + k) = v
        /\ IndexInWord(v * q + k) = C * k
    BY <2>1, <2>4, FieldSlot
  <2> DEFINE t == v * q + k
  <2>6. t \in Nat /\ t % q = k
    <3>1. t \in Nat
      BY <2>1, <2>4, <1>0
    <3>2. t = q * WordOf(t) + (t % q)
      BY <3>1, SlotSplit
    <3>3. QED
      BY <3>1, <3>2, <2>5, <2>1, <1>0
  <2>7. ~slot_is_alloc_in_table(tbl, t)
    BY <2>2, <2>3, <2>5 DEF slot_is_alloc_in_table
  <2>8. t \in TableSlots
    <3>1. q * v <= q * M
      BY <2>1, <1>0, MulMono
    <3>2. QED
      BY <3>1, <2>4, <2>6, <1>0 DEF TableSlots
  <2>9. t >= s
    <3>1. t < s <=> \/ WordOf(t) < WordOf(s)
                    \/ WordOf(t) = WordOf(s) /\ t % q < s % q
      BY <2>6, <1>0, SlotOrder
    <3>2. ~(t < s)
      BY <3>1, <2>5, <2>6, <2>3, <1>0
    <3>3. QED
      BY <3>2, <2>6, <1>0
  <2>10. t \in A
    BY <2>7, <2>8, <2>9
  <2>11. composed_slot_index(v, i) = t
    BY <2>3, <2>5
  <2>12. QED
    BY <2>3, <2>4, <2>5, <2>10, <2>11
\* Every free slot at or after s is a field the scan can find.
<1>8. ASSUME NEW t \in A
      PROVE  /\ WordOf(t) \in ws .. M
             /\ C * (t % q) \in F(WordOf(t))
             /\ composed_slot_index(WordOf(t), C * (t % q)) = t
  <2> DEFINE v == WordOf(t)
             k == t % q
  <2>1. t \in Nat /\ t >= s /\ ~slot_is_alloc_in_table(tbl, t) /\ t \in TableSlots
    BY DEF TableSlots
  <2>2. v \in Nat /\ k \in 0 .. q - 1 /\ t = q * v + k /\ IndexInWord(t) = C * k
    BY <2>1, SlotSplit
  <2>3. v \in WordIndex
    BY <2>1, WordOfTableSlot
  <2>4. ~(v < ws) /\ (v = ws => ~(k < ks))
    BY <2>1, <1>0, SlotOrder
  <2>5. v \in ws .. M
    BY <2>2, <2>3, <2>4, <1>0 DEF WordIndex
  <2>6. /\ C * k \in BitIndex
        /\ composed_slot_index(v, C * k) = v * q + k
    BY <2>2, FieldSlot
  <2>7. C * k >= StartIn(v)
    <3>1. CASE v = ws
      <4>1. C * ks <= C * k
        BY <3>1, <2>4, <2>2, <1>0, MulMono
      <4>2. QED
        BY <3>1, <4>1, <1>0
    <3>2. CASE v # ws
      BY <3>2, <2>2, <1>0
    <3>3. QED
      BY <3>1, <3>2
  <2>8. (C * k - StartIn(v)) % C = 0
    <3> DEFINE k0 == IF v = ws THEN ks ELSE 0
    <3>1. k0 \in Nat /\ StartIn(v) = C * k0 /\ k >= k0
      BY <2>2, <2>4, <1>0
    <3>2. C * k \in Nat /\ C * k >= C * k0
      BY <2>7, <3>1, <2>2, <1>0
    <3>3. QED
      BY <3>1, <3>2, <2>2, FieldStep
  <2>9. tbl[v][C * k + cur_alloc_color] = 0
    <3>1. C * (k + 1) <= C * q
      BY <2>2, <1>0, MulMono
    <3>2. C * k + cur_alloc_color \in BitIndex
      BY <3>1, <2>2, <1>0 DEF BitIndex
    <3>3. tbl[v][C * k + cur_alloc_color] \in {0, 1}
      BY <3>2, <2>3 DEF Table, Word
    <3>4. tbl[v][C * k + cur_alloc_color] # 1
      BY <2>1, <2>2 DEF slot_is_alloc_in_table
    <3>5. QED
      BY <3>3, <3>4
  <2>10. C * k \in F(v)
    <3>1. C * k \in Nat /\ C * k <= BITS_PER_WORD - 1
      BY <2>6, WordAssumption DEF BitIndex
    <3>2. StartIn(v) \in Nat
      BY <2>5, <1>6, <1>0
    <3>3. C * k \in StartIn(v) .. BITS_PER_WORD - 1
      BY <3>1, <3>2, <2>7
    <3>4. QED
      BY <3>3, <2>8, <2>9
  <2>11. composed_slot_index(v, C * k) = t
    BY <2>2, <2>6, <1>0
  <2>12. QED
    BY <2>5, <2>10, <2>11
<1>9. ASSUME NEW v \in ws .. M
      PROVE  /\ F(v) \subseteq Nat
             /\ Hit(v) <=> F(v) # {}
  <2>1. F(v) \subseteq Nat
    BY <1>0, <1>6
  <2>2. Hit(v) => F(v) # {}
    BY <1>2, LeastEmpty
  <2>3. ASSUME F(v) # {} PROVE Hit(v)
    <3>1. Least(F(v)) \in F(v)
      BY <2>1, <2>3, LeastIsMin
    <3>2. NA(v) # MAX_SLOT_INDEX
      <4>0. \A x \in F(v) : x \in Nat /\ x <= BITS_PER_WORD - 1
        BY <1>6, <1>0
      <4>1. Least(F(v)) \in Nat /\ Least(F(v)) <= BITS_PER_WORD - 1
        BY <4>0, <3>1
      <4>2. NA(v) = Least(F(v))
        BY <1>2
      <4> HIDE DEF NA, F
      <4>3. QED
        BY <4>1, <4>2, <1>0
    <3>3. PICK i \in F(v) : TRUE
      BY <2>3
    <3>4. PICK k \in 0 .. q - 1 : i = C * k
      BY <1>7
    <3>5. i + cur_alloc_color \in BitIndex
      <4>1. C * (k + 1) <= C * q
        BY <1>0, MulMono
      <4>2. QED
        BY <4>1, <3>4, <1>0 DEF BitIndex
    <3>6. tbl[v] # CurAllocMask
      <4>1. (C * k + cur_alloc_color) % C = cur_alloc_color
        BY FieldColour
      <4>2. CurAllocMask[i + cur_alloc_color] = 1
        BY <4>1, <3>4, <3>5 DEF CurAllocMask
      <4>3. tbl[v][i + cur_alloc_color] = 0
        BY <3>3
      <4>4. QED
        BY <4>2, <4>3
    <3>7. QED
      BY <3>2, <3>6
  <2>4. QED
    BY <2>1, <2>2, <2>3
<1>10. CASE A = {}
  <2>1. H = {}
    <3> SUFFICES ASSUME NEW v \in H PROVE FALSE
      OBVIOUS
    <3>1. F(v) # {}
      BY <1>9
    <3>2. PICK i \in F(v) : TRUE
      BY <3>1
    <3>3. QED
      BY <1>7, <1>10
  <2>2. QED
    BY <2>1, <1>1, <1>3, <1>4, <1>10, LeastEmpty
<1>11. CASE A # {}
  <2> DEFINE m == Least(A)
             wm == WordOf(m)
             km == m % q
  <2>1. m \in A /\ \A t \in A : m <= t
    BY <1>5, <1>11, LeastIsMin
  <2>2. /\ wm \in ws .. M
        /\ C * km \in F(wm)
        /\ composed_slot_index(wm, C * km) = m
    BY <2>1, <1>8
  <2>3. m \in Nat /\ wm \in Nat /\ km \in 0 .. q - 1 /\ m = q * wm + km
    BY <2>1, <1>5, SlotSplit
  <2>4. wm \in H
    BY <2>2, <1>9
  <2>5. \A v \in H : wm <= v
    <3> SUFFICES ASSUME NEW v \in H, v < wm PROVE FALSE
      BY <2>3, <1>0
    <3>1. PICK i \in F(v) : TRUE
      BY <1>9
    <3>2. PICK k \in 0 .. q - 1 : v * q + k \in A /\ WordOf(v * q + k) = v
      BY <3>1, <1>7
    <3>3. v * q + k < m
      BY <3>2, <2>3, <1>0, SlotOrder
    <3>4. m <= v * q + k
      BY <3>2, <2>1
    <3>5. v * q + k \in Nat
      BY <3>2, <1>5
    <3>6. QED
      BY <3>3, <3>4, <3>5, <2>3
  <2>6. Least(H) = wm
    BY <2>4, <2>5, <1>5, LeastUnique
  <2>7. wm # MAX_SLOT_INDEX
    BY <2>2, <1>0
  <2>8. composed_slot_index(wm, NA(wm)) = m
    <3> DEFINE j == Least(F(wm))
    <3>1. j \in F(wm) /\ j <= C * km
      BY <2>2, <1>9, LeastIsMin
    <3>2. PICK k \in 0 .. q - 1 :
            /\ j = C * k
            /\ wm * q + k \in A
            /\ composed_slot_index(wm, j) = wm * q + k
      BY <3>1, <2>2, <1>7
    <3>3. k <= km
      <4> SUFFICES ASSUME km < k PROVE FALSE
        BY <2>3
      <4>1. C * km < C * k
        BY <2>3, <1>0, MulMono
      <4>2. j \in Nat
        BY <3>1, <1>9, <2>2
      <4>3. C * km \in Nat /\ C * k \in Nat
        BY <2>3, <1>0
      <4>4. j <= C * km /\ j = C * k
        BY <3>1, <3>2
      <4> HIDE DEF j
      <4>5. QED
        BY <4>1, <4>2, <4>3, <4>4
    <3>4. m <= wm * q + k
      BY <3>2, <2>1
    <3>5. wm * q + k = m
      BY <3>3, <3>4, <2>3, <1>0
    <3>6. QED
      BY <3>2, <3>5, <1>2
  <2>9. QED
    BY <1>1, <1>3, <1>4, <2>6, <2>7, <2>8
<1>12. QED
  BY <1>10, <1>11

\* The same from the allocation cursor: next_free_slot_index_in_table
\* agrees with NaiveNextFree on every table with full padding.
LEMMA FreeScanCorrect ==
  ASSUME NEW tbl \in Table, NEW s \in Nat,
         cur_alloc_color \in 0 .. COLOR_BITS_PER_OBJ - 1,
         \A t \in TableSlots \ Slots : slot_is_alloc_in_table(tbl, t)
  PROVE  next_free_slot_index_in_table(tbl, s) = NaiveNextFree(tbl, s)
<1>1. s + 1 \in Nat \ {0} /\ (s + 1) - 1 = s
  OBVIOUS
<1>2. QED
  BY <1>1, FreeScanFrom DEF NaiveNextFree

=============================================================================
