--------------------------- MODULE MCSspaceAlloc ---------------------------
(* Model-checking instance of SspaceAlloc: 8-bit table words with 4-bit    *)
(* colour fields (two slots a word, as 64-bit words hold sixteen), three   *)
(* slots a chunk so that the last table word is half padding, two chunks   *)
(* and two mutators.                                                       *)
EXTENDS SspaceAlloc

MCChunks == {"c1", "c2"}
MCMutators == {"m1", "m2"}
==============================================================================
