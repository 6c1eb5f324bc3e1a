---------------------------- MODULE MCCtrlServer ----------------------------
(***************************************************************************)
(* A buffer for TLC that a few messages fill, with messages of three       *)
(* lengths.  The other bytes are 0, so that a length is found in the wrong *)
(* place too.                                                              *)
(***************************************************************************)
EXTENDS CtrlServer

MCSizes == {2, 3, 4}
=============================================================================
