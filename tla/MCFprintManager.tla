---------------------------- MODULE MCFprintManager ----------------------------
(***************************************************************************)
(* FprintManager with the two drivers of the source tree and a third one,  *)
(* so that a module can be passed over on either side of the current one.  *)
(***************************************************************************)
EXTENDS FprintManager, TLC

ModuleSymmetry == Permutations(Modules)
==============================================================================
