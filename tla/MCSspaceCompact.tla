-------------------------- MODULE MCSspaceCompact --------------------------
(* Compaction iterator on 8-bit words with 4-bit fields and five slots: *)
(* three words, the last one half padding, so a middle word can be all  *)
(* zero and skipped whole.                                              *)
EXTENDS SspaceCompact
=============================================================================
