----------------------------- MODULE MCPktQueue -----------------------------
(***************************************************************************)
(* Small rings for TLC.  Six bytes and packets of one to four bytes reach  *)
(* every case of the code: a wrap with padding, a drop before and after    *)
(* the wrap, a full ring with head = tail, a packet that fills the ring    *)
(* exactly to its end, a split of a packet that carries padding.  A        *)
(* packet of eight bytes fits in no such ring.                             *)
(***************************************************************************)
EXTENDS PktQueue

MCSizes == {1, 2, 4, 8}
MCFrameLimits == {1, 3}
=============================================================================
