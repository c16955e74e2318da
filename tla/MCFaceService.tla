---------------------------- MODULE MCFaceService ----------------------------
(***************************************************************************)
(* FaceService on a small instance: two capture threads are enough for a   *)
(* session and its successor, two faces for an enrolment that is stopped   *)
(* half-way.                                                               *)
(***************************************************************************)
EXTENDS FaceService
==============================================================================
