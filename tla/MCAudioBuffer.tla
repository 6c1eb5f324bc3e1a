--------------------------- MODULE MCAudioBuffer ---------------------------
(***************************************************************************)
(* A small buffer for TLC: chunks that fill it exactly, overflow it, or    *)
(* fit only after what it holds has been moved to its start; reads of      *)
(* less and of more than a chunk.                                          *)
(***************************************************************************)
EXTENDS AudioBuffer

MCChunks == {2, 3}
MCWants == {1, 3}
=============================================================================
