---------------------------- MODULE MCJniArray ----------------------------
(* A small instance of JniArray: two native threads, two heap cells, two   *)
(* malloc blocks, an 8-bit jsize.                                          *)
EXTENDS JniArray

MCClassOf == [o \in Objs |-> IF o = "str" THEN "String" ELSE "Object"]
MCSubclass == {<<"String", "String">>, <<"Object", "Object">>,
               <<"String", "Object">>}
\* Indices, starts and lengths around the bounds of a short array; no sum
\* of two of them leaves jsize.
MCJArgs == {-1, 0, 1, 2}
\* The same with the largest jsize: start + len can leave jsize.
MCJArgsWide == {-1, 0, 1, 127}

\* Constructor lengths: negative, one element, and one with a high bit set
\* (past ARRAY_LENGTH_LIMIT as well).
MCLengthArgs == {-1, 1, 64}

\* Threads, heap cells and malloc blocks are interchangeable.
MCSymmetry == Permutations(Threads) \cup Permutations(ArrayIds)
                \cup Permutations(Blocks)
=============================================================================
