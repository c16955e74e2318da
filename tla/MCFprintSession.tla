--------------------------- MODULE MCFprintSession ---------------------------
(***************************************************************************)
(* FprintSession on a small instance: three GThread objects are enough for *)
(* a session, its predecessor that has yet to run its last store, and a    *)
(* successor.                                                              *)
(***************************************************************************)
EXTENDS FprintSession
==============================================================================
