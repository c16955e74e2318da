----------------------------- MODULE MCPamLogin -----------------------------
(***************************************************************************)
(* PamLogin on a small instance: one login and two calls of other programs, *)
(* which may be those of another login.                                     *)
(***************************************************************************)
EXTENDS PamLogin
==============================================================================
