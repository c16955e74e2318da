---------------------------- MODULE EnrollSession ----------------------------
(***************************************************************************)
(* What clients are promised of one fingerprint enrolment: the signals     *)
(* EnrollFprintStatus it sends and the template files it leaves.  It is    *)
(* the abstraction of FprintEnroll.                                        *)
(*                                                                         *)
(* Prompts with a progress below 100 come first and one final signal last. *)
(* A final signal with 100 says that the finger is enrolled: under the id  *)
(* of a file that was read, or under the id of the new file, which is      *)
(* there when the signal is sent.  Only an enrolment that is not sure of   *)
(* its templates may name no file then: it was withdrawn, or has to        *)
(* believe the device, or read a file that was not fully written.  A new   *)
(* file appears only with such a signal, or as what is left of a write     *)
(* that failed; then the enrolment can only report failure.                *)
(***************************************************************************)
EXTENDS Naturals

CONSTANTS
  EarlierIds,      \* names of earlier template files
  NewId,           \* id, and file, of the template of this enrolment
  Nameless,        \* the file of no template
  NoId,            \* the empty id
  StrayId          \* an id that names no file

VARIABLES
  files,           \* names of the template files
  known,           \* those the enrolment has read, or may still read
  sure,            \* whether it can tell whose template it has
  stage,           \* "open", "failed" (and still to say so) or "over"
  signal           \* the last signal

vars == <<files, known, sure, stage, signal>>

Say(id, progress, done) ==
  signal' = [id |-> id, progress |-> progress, done |-> done]

Init ==
  /\ files \in SUBSET EarlierIds
  /\ known = files
  /\ sure \in BOOLEAN
  /\ stage = "open"
  /\ signal = [id |-> NoId, progress |-> 0, done |-> FALSE]

\* Files are read, not all of them and not all whole.
Look ==
  /\ known' \in SUBSET known
  /\ sure' \in {sure, FALSE}

Read ==
  /\ stage = "open"
  /\ Look
  /\ UNCHANGED <<files, stage, signal>>

\* EnrollFprintStop, or the last store of an earlier enrolment.
Withdraw ==
  /\ sure' = FALSE
  /\ UNCHANGED <<files, known, stage, signal>>

Prompt ==
  /\ stage = "open"
  /\ \E progress \in 0 .. 99 : Say(NoId, progress, FALSE)
  /\ UNCHANGED <<files, known, sure, stage>>

\* The finger has been enrolled before; its file may be gone again by now.
Recognise ==
  /\ stage = "open"
  /\ \E id \in known \cup IF sure THEN {} ELSE {NoId, StrayId} : Say(id, 100, TRUE)
  /\ stage' = "over"
  /\ UNCHANGED <<files, known, sure>>

Enrol ==
  /\ stage = "open"
  /\ \/ files' = files \cup {NewId} /\ Say(NewId, 100, TRUE)
     \/ ~sure /\ files' = files \cup {Nameless} /\ Say(NoId, 100, TRUE)
  /\ stage' = "over"
  /\ UNCHANGED <<known, sure>>

\* There will be no template, although a failed write may leave a file.
Abandon ==
  /\ stage = "open"
  /\ files' \in {files, files \cup {NewId}}
  /\ stage' = "failed"
  /\ Look
  /\ UNCHANGED signal

Fail ==
  /\ stage = "failed"
  /\ Say(NoId, 0, TRUE)
  /\ stage' = "over"
  /\ UNCHANGED <<files, known, sure>>

\* DeleteEnrolledFinger, before or after the files have been looked at.
Remove ==
  /\ \E id \in files :
       /\ files' = files \ {id}
       /\ known' \in {known, known \ {id}}
  /\ UNCHANGED <<sure, stage, signal>>

Next ==
  \/ Read \/ Withdraw \/ Prompt \/ Recognise \/ Enrol \/ Abandon \/ Fail
  \/ Remove

Spec == Init /\ [][Next]_vars
==============================================================================
