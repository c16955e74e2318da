--------------------------- MODULE MCFprintDrivers ---------------------------
(***************************************************************************)
(* FprintDrivers on a small instance: the tick count wraps within a        *)
(* capture, after it, or not at all, and a poll may skip a value.          *)
(***************************************************************************)
EXTENDS FprintDrivers
==============================================================================
