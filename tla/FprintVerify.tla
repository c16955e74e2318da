---------------------------- MODULE FprintVerify ----------------------------
(***************************************************************************)
(* One verification: the worker function do_finger_verify, while the main  *)
(* loop may withdraw the action and delete a saved template.               *)
(***************************************************************************)
EXTENDS FprintTemplates

CONSTANTS
  Fingers,               \* the fingers that may be placed
  EarlierTemplates,      \* what enrolments have stored
  Ids,                   \* the names of the template files
  NoId,                  \* the empty id of a signal
  StrayId,               \* md5 sum of the data of a file not fully written
  Garbage,               \* whatever freed memory reads as
  MAX_TRY_COUNT,
  SUPPORT_FINGER_NUMBER

Features == Fingers \cup {Noise}
Matched == Ids \cup {StrayId}

ASSUME VerifyAssumption ==
  /\ NoId \notin Ids /\ StrayId \notin Ids \cup {NoId}
  /\ Garbage \notin Matched \cup {NoId}
  /\ Noise \notin Fingers
  /\ \A template \in EarlierTemplates : template \in Seq(Features)
  /\ MAX_TRY_COUNT \in Nat \ {0}
  /\ SUPPORT_FINGER_NUMBER \in Nat \ {0}

VARIABLES
  internal,     \* the driver that is loaded compares inside the device
  fp_action,    \* priv->fp_action
  store,        \* the template files: id |-> template
  pc,
  saved,        \* saveTemplates: what was read of the store
  i,
  ret,
  md5,          \* what the pointer refers to: an id, or NoId when NULL
  live,         \* whether that memory is still allocated
  status,       \* the last VerifyFprintStatus signal
  dones,        \* signals with done = TRUE so far
  placed        \* the features captured in this session

vars == <<internal, fp_action, store, pc, saved, i, ret, md5, live, status,
          dones, placed>>

env == <<internal, fp_action, store>>

Places == {"load", "loop", "attempt", "report", "cancel", "over", "exited",
           "crashed"}

TypeOK ==
  /\ internal \in BOOLEAN
  /\ fp_action \in {"FP_ACTION_VERIFY", "ACTION_NONE"}
  /\ DOMAIN store \subseteq Ids
  /\ \A id \in DOMAIN store : store[id] \in Seq(Features)
  /\ pc \in Places
  /\ DOMAIN saved \subseteq Ids
  /\ \A id \in DOMAIN saved : saved[id] \in Seq(Features)
  /\ i \in 0 .. MAX_TRY_COUNT
  /\ ret \in ResultCodes
  /\ md5 \in Matched \cup {NoId}
  /\ live \in BOOLEAN
  /\ status \in [id : Matched \cup {NoId, Garbage}, found : BOOLEAN, done : BOOLEAN]
  /\ dones \in Nat
  /\ placed \subseteq Features

\* The files enrolments leave, those that were not fully written among them.
EarlierStores == UNION {[S -> EarlierTemplates \cup {NULL}] : S \in SUBSET Ids}

Init ==
  /\ internal \in BOOLEAN
  /\ fp_action \in {"FP_ACTION_VERIFY", "ACTION_NONE"}
  /\ store \in EarlierStores
  /\ pc = "load"
  /\ saved = << >>
  /\ i = 0
  /\ ret = OK
  /\ md5 = NoId
  /\ live = FALSE
  /\ status = [id |-> NoId, found |-> FALSE, done |-> FALSE]
  /\ dones = 0
  /\ placed = {}

------------------------------------------------------------------------------
(* The worker *)

Signal(done, found, id) ==
  /\ status' = [id |-> id, found |-> found, done |-> done]
  /\ dones' = IF done THEN dones + 1 ELSE dones

NoSignal == UNCHANGED <<status, dones>>

\* kiran_biometrics_get_save_fprints passes over a file that cannot be read and
\* stops at the limit.
ReadSome ==
  /\ \E S \in SUBSET DOMAIN store : saved' = [id \in S |-> store[id]]
  /\ Cardinality(DOMAIN saved') <= SUPPORT_FINGER_NUMBER

\* It fails when it has read none; "Not Found The Id Fprint Template!" is then
\* the whole verification.
Load ==
  /\ pc = "load"
  /\ ReadSome
  /\ IF DOMAIN saved' = {}
       THEN Signal(TRUE, FALSE, NoId) /\ pc' = "exited"
       ELSE NoSignal /\ pc' = "loop"
  /\ UNCHANGED <<env, i, ret, md5, live, placed>>

\* The loop condition.
MayTry == i < MAX_TRY_COUNT /\ fp_action = "FP_ACTION_VERIFY"

\* A round begins; the first one asks for a finger.
LoopHead ==
  /\ pc = "loop"
  /\ MayTry
  /\ IF i = 0 THEN Signal(FALSE, FALSE, NoId) ELSE NoSignal
  /\ pc' = "attempt"
  /\ UNCHANGED <<env, saved, i, ret, md5, live, placed>>

LoopExit ==
  /\ pc = "loop"
  /\ ~MayTry
  /\ NoSignal
  /\ pc' = "cancel"
  /\ UNCHANGED <<env, saved, i, ret, md5, live, placed>>

\* What comparing with a saved template may give, for the driver or the device.
Comparison(f, id) == DriverMatch(FALSE, <<f>>, saved[id])

\* The md5 is made from the data that was read.
IdOf(id) == IF saved[id] = NULL THEN StrayId ELSE id

\* What may be compared: the finger that is placed on the device, or the template
\* of a capture.
Captured ==
  LET halted == fp_action # "FP_ACTION_VERIFY"
  IN  IF internal THEN Fingers
        ELSE {a[2][1] : a \in {b \in DriverAcquire(FALSE, Fingers, halted) : b[1] = OK}}

\* A finger is compared with the saved templates, by the device or, when it
\* cannot, one by one after a capture.  The first match allocates its md5.
AttemptMatch ==
  /\ pc = "attempt"
  /\ \E f \in Captured, id \in DOMAIN saved :
       /\ OK \in Comparison(f, id)
       /\ md5' = IdOf(id)
       /\ placed' = placed \cup {f}
  /\ live' = TRUE
  /\ ret' = OK
  /\ NoSignal
  /\ pc' = "report"
  /\ UNCHANGED <<env, saved, i>>

\* Mutant: the md5 is that of the last template compared, matching or not.
AttemptFail_SetsMd5 ==
  /\ pc = "attempt"
  /\ ret' = FAIL
  /\ md5' \in DOMAIN saved
  /\ live' = TRUE
  /\ NoSignal
  /\ pc' = "report"
  /\ UNCHANGED <<env, saved, i, placed>>

\* Nothing usable was captured, or no comparison says that it matches (ret is
\* then what the last one gave), or the device reports a match with an index
\* that is out of range.
AttemptFail ==
  /\ pc = "attempt"
  /\ \/ /\ \E f \in Captured, last \in DOMAIN saved :
             /\ \A id \in DOMAIN saved : Comparison(f, id) # {OK}
             /\ ret' \in Comparison(f, last) \ {OK}
             /\ placed' = placed \cup {f}
     \/ /\ ret' \in IF internal THEN {FAIL, RETRY, OK} ELSE {FAIL}
        /\ UNCHANGED placed
  /\ NoSignal
  /\ pc' = "report"
  /\ UNCHANGED <<env, saved, i, md5, live>>

\* The client is told the result of the attempt.  The md5 is freed but the
\* pointer is not cleared, so that a later attempt takes this branch again:
\* it then reads and frees freed memory, which goes unnoticed or aborts.
ReportMatch ==
  /\ pc = "report"
  /\ md5 # NoId
  /\ \E id \in IF live THEN {md5} ELSE {md5, Garbage} : Signal(FALSE, TRUE, id)
  /\ live' = FALSE
  /\ pc' \in IF live THEN {"loop"} ELSE {"loop", "crashed"}
  /\ i' = i + 1
  /\ UNCHANGED <<env, saved, ret, md5, placed>>

\* Mutant: an attempt without a match is not counted.
ReportNoMatch_NotCounted ==
  /\ pc = "report"
  /\ md5 = NoId
  /\ Signal(FALSE, FALSE, NoId)
  /\ pc' = "loop"
  /\ UNCHANGED <<env, saved, i, ret, md5, live, placed>>

ReportNoMatch ==
  /\ pc = "report"
  /\ md5 = NoId
  /\ Signal(FALSE, FALSE, NoId)
  /\ pc' = "loop"
  /\ i' = i + 1
  /\ UNCHANGED <<env, saved, ret, md5, live, placed>>

\* "Cancel fprint verify!"
Cancel ==
  /\ pc = "cancel"
  /\ IF ret # OK /\ fp_action # "FP_ACTION_VERIFY"
       THEN Signal(TRUE, FALSE, NoId) ELSE NoSignal
  /\ pc' = "over"
  /\ UNCHANGED <<env, saved, i, ret, md5, live, placed>>

\* Mutant: the attempts are compared with one more than the limit.
Over_OffByOne ==
  /\ pc = "over"
  /\ IF i > MAX_TRY_COUNT THEN Signal(TRUE, FALSE, NoId) ELSE NoSignal
  /\ pc' = "exited"
  /\ UNCHANGED <<env, saved, i, ret, md5, live, placed>>

\* "Fingerprint over max try count!"
Over ==
  /\ pc = "over"
  /\ IF i = MAX_TRY_COUNT THEN Signal(TRUE, FALSE, NoId) ELSE NoSignal
  /\ pc' = "exited"
  /\ UNCHANGED <<env, saved, i, ret, md5, live, placed>>

WorkerNext ==
  \/ Load \/ LoopHead \/ LoopExit \/ AttemptMatch \/ AttemptFail
  \/ ReportMatch \/ ReportNoMatch \/ Cancel \/ Over

------------------------------------------------------------------------------
(* The main loop *)

\* VerifyFprintStop (or an earlier worker's last store).
Withdraw ==
  /\ fp_action = "FP_ACTION_VERIFY"
  /\ pc \notin {"exited", "crashed"}
  /\ fp_action' = "ACTION_NONE"
  /\ UNCHANGED <<internal, store, pc, saved, i, ret, md5, live, status, dones,
                 placed>>

\* kiran_biometrics_remove_fprint, for DeleteEnrolledFinger.
RemoveFprint(id) ==
  /\ id \in DOMAIN store
  /\ pc \notin {"exited", "crashed"}
  /\ store' = [j \in DOMAIN store \ {id} |-> store[j]]
  /\ UNCHANGED <<internal, fp_action, pc, saved, i, ret, md5, live, status, dones,
                 placed>>

Next ==
  \/ WorkerNext
  \/ Withdraw
  \/ \E id \in Ids : RemoveFprint(id)
  \/ pc \in {"exited", "crashed"} /\ UNCHANGED vars

\* The worker is scheduled and each attempt ends by its time-out at the latest.
Spec == Init /\ [][Next]_vars /\ WF_vars(WorkerNext)

------------------------------------------------------------------------------
(* Properties *)

\* A match is reported only when there was one in this session: the id is that
\* of a saved template which holds a finger placed in it (or what remains of that
\* id).  Nothing can be said of files that are not fully written or hold the
\* features of no finger, nor of a capture that a withdrawal has halted.
FoundIsGenuine ==
  status.found =>
    \E f \in placed, id \in DOMAIN saved :
      /\ status.id \in {IdOf(id), Garbage}
      /\ \/ f \in FingersOf(saved[id])
         \/ ~Readable(saved[id])
         \/ f = Noise /\ fp_action # "FP_ACTION_VERIFY"

\* A verification ends, whatever fingers are placed and without a Stop.
Terminates == <>(pc \in {"exited", "crashed"})

\* The signals of a verification are those its clients are promised: reports
\* only after the prompt and before the end, the end announced unless the
\* verification was withdrawn.
Promise == INSTANCE VerifySession WITH
  Matches   <- Matched \cup {Garbage},
  running   <- pc # "exited",
  withdrawn <- fp_action # "FP_ACTION_VERIFY",
  trying    <- pc \in {"attempt", "report"},
  tries     <- i,
  signal    <- status

KeepsPromise == Promise!Spec

(* What the interface promises and the code does not keep *)

\* found says "whether a fingerprint template was matched": by this attempt.
FoundMeansMatched == [][(ReportMatch /\ status'.found) => ret = OK]_vars
==============================================================================
