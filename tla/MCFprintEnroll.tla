---------------------------- MODULE MCFprintEnroll ----------------------------
(***************************************************************************)
(* FprintEnroll on a small instance: two fingers are enough to mix them in *)
(* one template, and to be enrolled before or not; a store of up to three  *)
(* files is empty, has room for one more, is full, or over the limit when  *)
(* files could not be read.                                                *)
(***************************************************************************)
EXTENDS FprintEnroll

CONSTANTS f1, f2

\* Templates of one finger, of two, and of none.
MCFingers == {f1, f2}
MCEarlierTemplates ==
  {<<f1, f1, f1>>, <<f1, f2, f2>>, <<Noise, Noise, Noise>>}
==============================================================================
