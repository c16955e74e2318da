---------------------------- MODULE FprintEnroll ----------------------------
(***************************************************************************)
(* One enrolment: the worker function do_finger_enroll from the reading of *)
(* the saved templates to its last signal, while the main loop may at any  *)
(* time withdraw the action (Stop, or the last store of an earlier worker) *)
(* and delete a saved template.                                            *)
(***************************************************************************)
EXTENDS FprintTemplates

CONSTANTS
  Fingers,                \* the fingers that may be placed
  EarlierTemplates,       \* what earlier enrolments have stored
  Ids,                    \* md5 sums of the templates enrolled before
  NewId,                  \* md5 sum of the template this enrolment makes
  Nameless,               \* the file "(null).bat", of a template that is NULL
  NoId,                   \* the id of a signal when it is empty or NULL
  StrayId,                \* md5 sum of the data of a file not fully written
  MAX_TRY_COUNT,
  SUPPORT_FINGER_NUMBER

Features == Fingers \cup {Noise}
EarlierIds == Ids \cup {Nameless}
AllIds == EarlierIds \cup {NewId}

ASSUME EnrollAssumption ==
  /\ IsFiniteSet(Ids)
  /\ Nameless \notin Ids /\ NewId \notin EarlierIds
  /\ {NoId, StrayId} \cap AllIds = {}
  /\ Noise \notin Fingers
  /\ \A template \in EarlierTemplates : template \in Seq(Features)
  /\ MAX_TRY_COUNT \in Nat \ {0}
  /\ SUPPORT_FINGER_NUMBER \in Nat \ {0}

VARIABLES
  internal,       \* the driver that is loaded enrols inside the device
  fp_action,      \* priv->fp_action
  store,          \* the template files: id |-> template
  pc,
  saved,          \* saveTemplates: what was read of the store
  unread,         \* the files the worker has not read (not in the code)
  i,              \* templates collected so far
  ret,
  try_count,
  enroll_number,  \* stages the device reported passed
  templates,
  regTemplate,
  status,         \* the last EnrollFprintStatus signal
  dones           \* signals with done = TRUE so far

vars == <<internal, fp_action, store, pc, saved, unread, i, ret, try_count,
          enroll_number, templates, regTemplate, status, dones>>

env  == <<internal, fp_action, store>>
read == <<saved, unread>>
loop == <<read, i, try_count, enroll_number, templates>>

Places == {"load", "loop", "capture", "assemble", "check", "save", "out",
           "free", "exited", "crashed"}
Messages == {"none", "prompt", "success", "cancel", "limit", "failed"}
SignalIds == AllIds \cup {NoId, StrayId}
Indices == 0 .. 2

TypeOK ==
  /\ internal \in BOOLEAN
  /\ fp_action \in {"FP_ACTION_ENROLL", "ACTION_NONE"}
  /\ DOMAIN store \subseteq AllIds
  /\ \A id \in DOMAIN store : store[id] \in Seq(Features)
  /\ pc \in Places
  /\ DOMAIN saved \subseteq EarlierIds
  /\ \A id \in DOMAIN saved : saved[id] \in Seq(Features)
  /\ unread \subseteq EarlierIds
  /\ i \in 0 .. 3
  /\ ret \in ResultCodes
  /\ try_count \in 0 .. MAX_TRY_COUNT
  /\ enroll_number \in 0 .. MAX_TRY_COUNT
  /\ templates \in [Indices -> Seq(Features)]
  /\ regTemplate \in Seq(Features)
  /\ status \in [message : Messages, id : SignalIds,
                 progress : 0 .. 100, done : BOOLEAN]
  /\ dones \in Nat

\* The files earlier enrolments left, those that were not fully written among
\* them.  Files that could not be read were not counted: there may be more than
\* SUPPORT_FINGER_NUMBER.
EarlierStores ==
  {files \in UNION {[S -> EarlierTemplates \cup {NULL}] : S \in SUBSET EarlierIds} :
     Nameless \in DOMAIN files => files[Nameless] = NULL}

Init ==
  /\ internal \in BOOLEAN
  /\ fp_action \in {"FP_ACTION_ENROLL", "ACTION_NONE"}
  /\ store \in EarlierStores
  /\ pc = "load"
  /\ saved = << >>
  /\ unread = DOMAIN store
  /\ i = 0
  /\ ret = FAIL
  /\ try_count = 0
  /\ enroll_number = 0
  /\ templates = [n \in Indices |-> NULL]
  /\ regTemplate = NULL
  /\ status = [message |-> "none", id |-> NoId, progress |-> 0, done |-> FALSE]
  /\ dones = 0

------------------------------------------------------------------------------
(* The worker *)

Signal(message, id, progress, done) ==
  /\ status' = [message |-> message, id |-> id, progress |-> progress,
                done |-> done]
  /\ dones' = IF done THEN dones + 1 ELSE dones

NoSignal == UNCHANGED <<status, dones>>

\* Mutant: the limit is tested one too far.
LimitReached_OffByOne(s) == Cardinality(DOMAIN s) = SUPPORT_FINGER_NUMBER + 1

\* There is no room for another template.
LimitReached(s) == Cardinality(DOMAIN s) = SUPPORT_FINGER_NUMBER
OverSupport == LimitReached(saved)

\* kiran_biometrics_get_save_fprints passes over a file that cannot be read and
\* stops at the limit.
ReadSome ==
  /\ \E S \in SUBSET DOMAIN store : saved' = [id \in S |-> store[id]]
  /\ Cardinality(DOMAIN saved') <= SUPPORT_FINGER_NUMBER
  /\ unread' = DOMAIN store \ DOMAIN saved'

\* Mutant: at the limit the worker leaves without a word.
Load_Silent ==
  /\ pc = "load"
  /\ ReadSome
  /\ pc' = IF LimitReached(saved') THEN "free" ELSE "loop"
  /\ NoSignal
  /\ UNCHANGED <<env, i, ret, try_count, enroll_number, templates, regTemplate>>

\* The saved templates are read and the limit is tested, on what was read.
Load ==
  /\ pc = "load"
  /\ ReadSome
  /\ pc' = IF LimitReached(saved') THEN "out" ELSE "loop"
  /\ NoSignal
  /\ UNCHANGED <<env, i, ret, try_count, enroll_number, templates, regTemplate>>

AtMost(limit, n) == IF n > limit THEN limit ELSE n

\* Mutant: a stage that has to be repeated starts the count again.
Stages_Reset == IF ret = PASS THEN enroll_number + 1 ELSE 0

\* The stages passed, with the one the last capture reported.
Stages == IF ret = PASS THEN enroll_number + 1 ELSE enroll_number

\* One round of the loop up to the capture: the place for the template is
\* emptied and the client is told how far the enrolment is.
LoopHead ==
  /\ pc = "loop"
  /\ i < 3 /\ fp_action = "FP_ACTION_ENROLL"
  /\ templates' = [templates EXCEPT ![i] = NULL]
  /\ enroll_number' = Stages
  /\ Signal("prompt", NoId, AtMost(99, 25 * i + 8 * enroll_number'), FALSE)
  /\ pc' = "capture"
  /\ UNCHANGED <<env, read, i, ret, try_count, regTemplate>>

LoopExit ==
  /\ pc = "loop"
  /\ i = 3 \/ fp_action # "FP_ACTION_ENROLL"
  /\ pc' = "assemble"
  /\ NoSignal
  /\ UNCHANGED <<env, loop, ret, regTemplate>>

\* The verdicts a capture may get: a template after the first is compared with
\* the first, and a driver that cannot compare is believed.
Verdicts(r, template) ==
  IF r = OK /\ i > 0
    THEN {IF m = UNSUPPORT THEN OK ELSE m :
            m \in DriverMatch(internal, templates[0], template)}
    ELSE {r}

\* Mutant: a finger that does not match is kept.
NextIndex_NoRestart(r, verdict) == IF r \in {OK, COMPLETE} THEN i + 1 ELSE i

\* A finger that does not match starts the collection again, but leaves the
\* templates collected so far where they are.
NextIndex(r, verdict) ==
  CASE r = OK /\ verdict = OK -> i + 1
    [] r = OK /\ verdict # OK -> 0
    [] r = COMPLETE           -> i + 1
    [] OTHER                  -> i

\* This capture was one too many.
GivesUp(r) == r # COMPLETE /\ try_count >= MAX_TRY_COUNT

LeavesLoop(r) == r = COMPLETE \/ GivesUp(r)

\* Mutant: captures are not counted.
Counted_Forgotten == try_count

Counted == try_count + 1

\* The capture and the rest of the round.  The signal that asks for the same
\* finger repeats the status of this round.
Capture ==
  /\ pc = "capture"
  /\ \E acquired \in DriverAcquire(internal, Fingers, fp_action # "FP_ACTION_ENROLL") :
       \E verdict \in Verdicts(acquired[1], acquired[2]) :
         LET r == acquired[1]
         IN  /\ templates' = [templates EXCEPT ![i] = acquired[2]]
             /\ i' = NextIndex(r, verdict)
             /\ ret' = IF GivesUp(r) THEN FAIL ELSE verdict
             /\ try_count' = IF LeavesLoop(r) THEN try_count ELSE Counted
             /\ pc' = IF LeavesLoop(r) THEN "assemble" ELSE "loop"
  /\ NoSignal
  /\ UNCHANGED <<env, read, enroll_number, regTemplate>>

Collected == \A n \in Indices : templates[n] # NULL

\* What the templates are merged into, if there is memory for it.  After a
\* withdrawal there may be fewer than three; ret is then still OK, and the merged
\* template NULL.
Merged ==
  CASE ret = OK /\ Collected ->
         TemplateMerge(templates[0], templates[1], templates[2])
    [] ret = COMPLETE -> templates[0]
    [] OTHER          -> NULL

\* Merging, and checking the merged template against the first one.
Assemble ==
  /\ pc = "assemble"
  /\ \E memory \in BOOLEAN :
       /\ regTemplate' = IF memory THEN Merged ELSE NULL
       /\ ret' \in CASE ret = OK /\ Collected /\ ~memory -> {FAIL}
                     [] ret = OK /\ (Collected => memory) ->
                          DriverMatch(internal, templates[0], regTemplate')
                     [] ret = COMPLETE -> {OK}
                     [] OTHER          -> {ret}
       /\ pc' = IF ret' = OK THEN "check" ELSE "out"
  /\ NoSignal
  /\ UNCHANGED <<env, loop>>

\* Mutant: the result of a comparison is ignored.
Comparison_Any(probe, id) == {OK}

\* Mutant: nothing is compared.
Comparison_None(probe, id) == {FAIL}

\* What comparing with a saved template may give.
Comparison(probe, id) == DriverMatch(FALSE, probe, saved[id])

\* The merged template is compared, or, when the device itself compares, the
\* finger placed for it.
Probes == IF internal THEN {<<f>> : f \in Fingers} ELSE {regTemplate}

\* The id is made from the data that was read.
IdOf(id) == IF saved[id] = NULL THEN StrayId ELSE id

Success(id) == Signal("success", id, 100, TRUE)

\* The finger has been enrolled before; its id is the result.  A device may also
\* report a match with an index that is out of range: a success with no id.
Recognise ==
  \/ \E probe \in Probes, id \in DOMAIN saved :
       OK \in Comparison(probe, id) /\ Success(IdOf(id))
  \/ internal /\ Success(NoId)

\* None of the comparisons says so; a device may see no finger.
NotRecognised ==
  internal \/ \A id \in DOMAIN saved : Comparison(regTemplate, id) # {OK}

\* Has this finger been enrolled before?
Check ==
  /\ pc = "check"
  /\ \/ Recognise /\ pc' = "free"
     \/ NotRecognised /\ NoSignal /\ pc' = "save"
  /\ UNCHANGED <<env, loop, ret, regTemplate>>

\* The file is named by the md5 of the template, which is NULL for NULL.
FileName == IF regTemplate = NULL THEN Nameless ELSE NewId

\* A file is created, unless there is one of that name, and this is written.
CreateFile(data) ==
  /\ FileName \notin DOMAIN store
  /\ store' = [id \in DOMAIN store \cup {FileName} |->
                 IF id = FileName THEN data ELSE store[id]]

Written ==
  /\ ret' = OK
  /\ Success(IF regTemplate = NULL THEN NoId ELSE NewId)
  /\ pc' = "free"

NotWritten == ret' = FAIL /\ NoSignal /\ pc' = "out"

\* Mutant: the result of the write is not looked at.
Save_Unchecked ==
  /\ pc = "save"
  /\ UNCHANGED store \/ CreateFile(regTemplate)
  /\ Written
  /\ UNCHANGED <<internal, fp_action, loop, regTemplate>>

\* kiran_biometrics_save_fprint: the file is created, then written.  How much was
\* written is not looked at, and there is nothing to write of NULL; when the
\* write fails the created file stays.
Save ==
  /\ pc = "save"
  /\ \/ (CreateFile(regTemplate) \/ CreateFile(NULL)) /\ Written
     \/ UNCHANGED store /\ NotWritten
     \/ regTemplate # NULL /\ CreateFile(NULL) /\ NotWritten
  /\ UNCHANGED <<internal, fp_action, loop, regTemplate>>

\* The label out: why there is no template.
Out ==
  /\ pc = "out"
  /\ Signal(IF fp_action # "FP_ACTION_ENROLL" THEN "cancel"
              ELSE IF OverSupport THEN "limit" ELSE "failed", NoId, 0, TRUE)
  /\ pc' = "free"
  /\ UNCHANGED <<env, loop, ret, regTemplate>>

\* The templates below index i are released.  On the way from the limit test
\* neither i nor the array has been given a value: whatever is there is freed.
Free ==
  /\ pc = "free"
  /\ pc' \in IF OverSupport THEN {"exited", "crashed"} ELSE {"exited"}
  /\ NoSignal
  /\ UNCHANGED <<env, loop, ret, regTemplate>>

WorkerNext ==
  Load \/ LoopHead \/ LoopExit \/ Capture \/ Assemble \/ Check \/ Save \/ Out
  \/ Free

------------------------------------------------------------------------------
(* The main loop *)

\* EnrollFprintStop (or an earlier worker's last store).
Withdraw ==
  /\ fp_action = "FP_ACTION_ENROLL"
  /\ pc \notin {"exited", "crashed"}
  /\ fp_action' = "ACTION_NONE"
  /\ UNCHANGED <<internal, store, pc, loop, ret, regTemplate, status, dones>>

\* kiran_biometrics_remove_fprint, for DeleteEnrolledFinger.
RemoveFprint(id) ==
  /\ id \in DOMAIN store
  /\ pc \notin {"exited", "crashed"}
  /\ store' = [j \in DOMAIN store \ {id} |-> store[j]]
  /\ unread' = unread \ {id}
  /\ UNCHANGED <<internal, fp_action, pc, saved, i, ret, try_count,
                 enroll_number, templates, regTemplate, status, dones>>

Next ==
  \/ WorkerNext
  \/ Withdraw
  \/ \E id \in AllIds : RemoveFprint(id)
  \/ pc \in {"exited", "crashed"} /\ UNCHANGED vars

\* The worker is scheduled and each capture ends by its time-out at the latest.
Spec == Init /\ [][Next]_vars /\ WF_vars(WorkerNext)

------------------------------------------------------------------------------
(* Properties *)

Ended == pc \in {"free", "exited", "crashed"}

\* The client learns the outcome once: no enrolment, however it ends, sends two
\* final signals or exits without one.
DoneOnce == dones = IF Ended THEN 1 ELSE 0

\* An enrolment that was not withdrawn stores the features of one finger,
\* although a mismatch leaves captures of another finger in the array.
OneFingerStored ==
  [][(fp_action = "FP_ACTION_ENROLL" /\ NewId \in DOMAIN store')
       => Cardinality(FingersOf(store'[NewId])) <= 1]_vars

\* A finger is enrolled once: unless the collection was withdrawn, a new file
\* shares no finger with the files the worker could read, when the drivers
\* compare templates.
NoDuplicateFinger ==
  [][fp_action = "FP_ACTION_ENROLL" /\ ~internal /\ NewId \in DOMAIN store' =>
       \A id \in DOMAIN store' \ (unread' \cup {NewId}) :
         Readable(store'[id]) =>
           FingersOf(store'[NewId]) \cap FingersOf(store'[id]) = {}]_vars

\* A success is of use: the finger collected first is recognised by the
\* template whose id the client is given, as long as that is not deleted.  It
\* need not be when the templates collected were too few, or one was extracted
\* from no image, or when the file is not fully written or holds such a one.
SuccessRecognised ==
  (/\ status.message = "success" /\ ~internal /\ Readable(regTemplate)
   /\ status.id \in DOMAIN store /\ Readable(store[status.id]))
    => TemplateMatch(templates[0], store[status.id]) = OK

\* Besides the files the worker could not read there are never more template
\* files than the daemon can read back.
StoreWithinLimit == Cardinality(DOMAIN store \ unread) <= SUPPORT_FINGER_NUMBER

\* The client sees progress fall only when a finger did not match and the
\* collection starts again, or in the final signal of an enrolment that failed;
\* a device that collects by itself never makes it fall.
ProgressFallsOnRestart ==
  [][status'.progress < status.progress
       => status'.done \/ (i = 0 /\ ~internal)]_vars

\* An enrolment ends, whatever the device reports and without a Stop.
Terminates == <>(pc \in {"exited", "crashed"})

\* The worker can tell whose template it has, and has it from whole files: it
\* was not withdrawn, compares templates itself, and read no file that was not
\* fully written.
Sure ==
  /\ fp_action = "FP_ACTION_ENROLL" /\ ~internal
  /\ \A id \in DOMAIN saved : saved[id] # NULL

\* An enrolment sends the signals and leaves the files its clients are promised:
\* 100 means success and comes once, with an id that is enrolled as long as the
\* worker is sure; a new file appears with a success, or when its write failed,
\* and then failure is reported.
Promise == INSTANCE EnrollSession WITH
  files  <- DOMAIN store,
  known  <- IF pc = "load" THEN DOMAIN store ELSE DOMAIN saved,
  sure   <- Sure,
  stage  <- IF Ended THEN "over" ELSE IF pc = "out" THEN "failed" ELSE "open",
  signal <- [id |-> status.id, progress |-> status.progress, done |-> status.done]

KeepsPromise == Promise!Spec

(* What the comments and the interface promise and the code does not keep *)

\* Three captures become one template of one finger ("Please place the same
\* finger!"), also when the enrolment is withdrawn half-way.
StoredIsOneFinger ==
  NewId \in DOMAIN store => Cardinality(FingersOf(store[NewId]) \cap Fingers) <= 1
==============================================================================
