---------------------------- MODULE MCFprintVerify ----------------------------
(***************************************************************************)
(* FprintVerify on a small instance: four attempts hold a match, a failure *)
(* after it, and a withdrawal at any place around them.  Earlier enrolments *)
(* have stored templates of one finger and of two, and one that holds the  *)
(* features of none.                                                       *)
(***************************************************************************)
EXTENDS FprintVerify

CONSTANTS f1, f2

MCFingers == {f1, f2}
MCEarlierTemplates == {<<f1, f1, f1>>, <<f1, f1, f2>>, <<f2, Noise, f2>>}
==============================================================================
