---------------------------- MODULE VerifySession ----------------------------
(***************************************************************************)
(* What clients are promised of one fingerprint verification: the signals  *)
(* VerifyFprintStatus it sends and when it may be over.  It is the         *)
(* abstraction of FprintVerify, and the service of PamLogin.               *)
(*                                                                         *)
(* A prompt comes first, then one report for each attempt, at most         *)
(* MAX_TRY_COUNT of them, and only then a signal with done = TRUE.  A      *)
(* session that was not withdrawn says that it is over before it is; one   *)
(* that was may end in silence, or say so twice.                           *)
(***************************************************************************)
EXTENDS Naturals

CONSTANTS
  Matches,         \* what a report of a match may carry as id
  NoId,            \* the empty id
  MAX_TRY_COUNT

VARIABLES
  running,         \* whether the session is under way
  withdrawn,       \* whether its action has been withdrawn
  trying,          \* whether an attempt is under way
  tries,           \* attempts reported
  dones,           \* signals with done = TRUE
  signal           \* the last signal

vars == <<running, withdrawn, trying, tries, dones, signal>>

Signals == [done : BOOLEAN, found : BOOLEAN, id : Matches \cup {NoId}]

Say(done, found, id) ==
  signal' = [done |-> done, found |-> found, id |-> id]

Init ==
  /\ running \in BOOLEAN /\ withdrawn \in BOOLEAN
  /\ trying = FALSE
  /\ tries = 0
  /\ dones = 0
  /\ signal = [done |-> FALSE, found |-> FALSE, id |-> NoId]

\* VerifyFprintStart.
Begin ==
  /\ ~running
  /\ running' = TRUE /\ withdrawn' = FALSE /\ trying' = FALSE
  /\ tries' = 0 /\ dones' = 0
  /\ UNCHANGED signal

\* VerifyFprintStop, or the last store of an earlier session.
Withdraw ==
  /\ running /\ ~withdrawn
  /\ withdrawn' = TRUE
  /\ UNCHANGED <<running, trying, tries, dones, signal>>

MayTry == running /\ ~withdrawn /\ ~trying /\ tries < MAX_TRY_COUNT /\ dones = 0

\* The first attempt begins with a prompt, the others silently.
Prompt ==
  /\ MayTry /\ tries = 0
  /\ trying' = TRUE
  /\ Say(FALSE, FALSE, NoId)
  /\ UNCHANGED <<running, withdrawn, tries, dones>>

Retry ==
  /\ MayTry /\ tries > 0
  /\ trying' = TRUE
  /\ UNCHANGED <<running, withdrawn, tries, dones, signal>>

\* An attempt ends, also when it was under way at the time of a withdrawal.
Report(found, id) ==
  /\ running /\ trying
  /\ trying' = FALSE
  /\ tries' = tries + 1
  /\ Say(FALSE, found, id)
  /\ UNCHANGED <<running, withdrawn, dones>>

\* Reasons to be over: there is nothing to compare with, or no attempt is left,
\* or the action has been withdrawn.
Over == tries = 0 \/ tries = MAX_TRY_COUNT \/ withdrawn

\* "Not Found The Id Fprint Template!", "Cancel fprint verify!" or
\* "Fingerprint over max try count!"; the last two may both come.  The session
\* may end with it.
Finish ==
  /\ running /\ ~trying
  /\ \/ dones = 0 /\ Over
     \/ dones = 1 /\ withdrawn /\ tries = MAX_TRY_COUNT
  /\ dones' = dones + 1
  /\ Say(TRUE, FALSE, NoId)
  /\ running' \in BOOLEAN
  /\ UNCHANGED <<withdrawn, trying, tries>>

End ==
  /\ running /\ ~trying
  /\ withdrawn \/ dones > 0
  /\ running' = FALSE
  /\ UNCHANGED <<withdrawn, trying, tries, dones, signal>>

Next ==
  \/ Begin \/ Withdraw \/ Prompt \/ Retry
  \/ Report(FALSE, NoId) \/ \E id \in Matches : Report(TRUE, id)
  \/ Finish \/ End

Spec == Init /\ [][Next]_vars
==============================================================================
