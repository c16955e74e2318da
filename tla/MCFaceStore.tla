----------------------------- MODULE MCFaceStore -----------------------------
(***************************************************************************)
(* FaceStore with two persons and two enrolments, of one image or, with an *)
(* image of an earlier session, of two: enough for a late answer about one *)
(* person to meet the face of another.                                     *)
(***************************************************************************)
EXTENDS FaceStore
==============================================================================
