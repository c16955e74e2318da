-------------------------- MODULE FprintEnrollProofs --------------------------
(***************************************************************************)
(* Proofs about one enrolment, for any fingers, any templates enrolled     *)
(* before, any limits and either kind of driver.                           *)
(***************************************************************************)
EXTENDS FprintEnroll, FiniteSetTheorems, SequenceTheorems, TLAPS

\* The worker has found room for one more template, and not used it.
HasRoom == pc \in {"loop", "capture", "assemble", "check", "save"}

\* The files that count: those that were read, less the deleted ones, and the one
\* this enrolment has made.
Counting == DOMAIN store \ unread

\* The inductive invariant: while the worker relies on the room it found, there
\* is room, although the files are not those it read any more.
RoomInv ==
  /\ IsFiniteSet(DOMAIN store)
  /\ Cardinality(Counting) <= SUPPORT_FINGER_NUMBER
  /\ HasRoom => Cardinality(Counting) < SUPPORT_FINGER_NUMBER

------------------------------------------------------------------------------
(* One final signal *)

LEMMA DoneOnceStep == DoneOnce /\ [Next]_vars => DoneOnce'
<1> SUFFICES ASSUME DoneOnce, [Next]_vars PROVE DoneOnce'
  OBVIOUS
<1> USE DEF DoneOnce, Ended, NoSignal, Signal, Success, Written, NotWritten
<1>1. CASE Load
  BY <1>1 DEF Load
<1>2. CASE LoopHead
  BY <1>2 DEF LoopHead
<1>3. CASE LoopExit
  BY <1>3 DEF LoopExit
<1>4. CASE Capture
  BY <1>4 DEF Capture
<1>5. CASE Assemble
  BY <1>5 DEF Assemble
<1>6. CASE Check
  BY <1>6 DEF Check, Recognise
<1>7. CASE Save
  BY <1>7 DEF Save
<1>8. CASE Out
  BY <1>8 DEF Out
<1>9. CASE Free
  BY <1>9 DEF Free
<1>10. CASE Withdraw
  BY <1>10 DEF Withdraw
<1>11. ASSUME NEW id \in AllIds, RemoveFprint(id) PROVE DoneOnce'
  BY <1>11 DEF RemoveFprint
<1>12. CASE UNCHANGED vars
  BY <1>12 DEF vars
<1>13. QED
  BY <1>1, <1>2, <1>3, <1>4, <1>5, <1>6, <1>7, <1>8, <1>9, <1>10, <1>11, <1>12
     DEF Next, WorkerNext

\* do_finger_enroll sends one signal with done = TRUE, whatever the driver
\* returns and whenever the enrolment is withdrawn.
THEOREM DoneOnceCorrect == Spec => []DoneOnce
<1>1. Init => DoneOnce
  BY DEF Init, DoneOnce, Ended
<1>2. QED
  BY <1>1, DoneOnceStep, PTL DEF Spec

------------------------------------------------------------------------------
(* Room in the store *)

LEMMA InitRoom == Init => RoomInv
<1> SUFFICES ASSUME Init PROVE RoomInv
  OBVIOUS
<1>1. IsFiniteSet(EarlierIds)
  BY FS_AddElement, EnrollAssumption DEF EarlierIds
<1>2. DOMAIN store \subseteq EarlierIds
  BY DEF Init, EarlierStores
<1>3. IsFiniteSet(DOMAIN store)
  BY <1>1, <1>2, FS_Subset
<1>4. Counting = {}
  BY DEF Init, Counting
<1>5. Cardinality(Counting) = 0
  BY <1>4, FS_EmptySet
<1>6. QED
  BY <1>3, <1>5, EnrollAssumption DEF RoomInv

\* What counts is finitely many files.
LEMMA RoomType ==
  ASSUME RoomInv
  PROVE  IsFiniteSet(Counting) /\ Cardinality(Counting) \in Nat
<1>1. IsFiniteSet(Counting)
  BY FS_Subset DEF RoomInv, Counting
<1>2. QED
  BY <1>1, FS_CardinalityType

\* Steps that leave the files alone and find no room that was not there.
LEMMA QuietRoom ==
  ASSUME RoomInv, UNCHANGED <<store, unread>>, HasRoom' => HasRoom
  PROVE  RoomInv'
BY DEF RoomInv, Counting

LEMMA LoadRoom == ASSUME RoomInv, Load PROVE RoomInv'
<1>1. /\ UNCHANGED store
      /\ DOMAIN saved' \subseteq DOMAIN store
      /\ Cardinality(DOMAIN saved') <= SUPPORT_FINGER_NUMBER
      /\ unread' = DOMAIN store \ DOMAIN saved'
  BY DEF Load, ReadSome, env
<1>2. Counting' = DOMAIN saved'
  BY <1>1 DEF Counting
<1>3. IsFiniteSet(DOMAIN saved') /\ Cardinality(DOMAIN saved') \in Nat
  BY <1>1, FS_Subset, FS_CardinalityType DEF RoomInv
<1>4. HasRoom' => Cardinality(DOMAIN saved') # SUPPORT_FINGER_NUMBER
  BY DEF Load, HasRoom, LimitReached
<1>5. QED
  BY <1>1, <1>2, <1>3, <1>4, EnrollAssumption DEF RoomInv

LEMMA SaveRoom == ASSUME RoomInv, Save PROVE RoomInv'
<1>1. /\ pc = "save" /\ UNCHANGED unread /\ ~HasRoom'
      /\ DOMAIN store' \in {DOMAIN store, DOMAIN store \cup {FileName}}
  BY DEF Save, CreateFile, Written, NotWritten, HasRoom, loop, read
<1>2. /\ IsFiniteSet(Counting) /\ Cardinality(Counting) \in Nat
      /\ Cardinality(Counting) < SUPPORT_FINGER_NUMBER
  BY <1>1, RoomType DEF RoomInv, HasRoom
<1>3. \A S : IsFiniteSet(S) => /\ IsFiniteSet(S \cup {FileName})
                               /\ Cardinality(S \cup {FileName}) <= Cardinality(S) + 1
  <2>1. SUFFICES ASSUME NEW S, IsFiniteSet(S)
                 PROVE  /\ IsFiniteSet(S \cup {FileName})
                        /\ Cardinality(S \cup {FileName}) <= Cardinality(S) + 1
    OBVIOUS
  <2>2. /\ IsFiniteSet(S \cup {FileName})
        /\ \/ Cardinality(S \cup {FileName}) = Cardinality(S)
           \/ Cardinality(S \cup {FileName}) = Cardinality(S) + 1
    BY <2>1, FS_AddElement
  <2>3. Cardinality(S) \in Nat
    BY <2>1, FS_CardinalityType
  <2>4. QED
    BY <2>2, <2>3
<1>4. IsFiniteSet(DOMAIN store')
  BY <1>1, <1>3 DEF RoomInv
<1>5. /\ IsFiniteSet(Counting \cup {FileName})
      /\ Cardinality(Counting \cup {FileName}) <= Cardinality(Counting) + 1
  BY <1>2, <1>3
<1>6. Counting' \subseteq Counting \cup {FileName}
  BY <1>1 DEF Counting
<1>7. /\ Cardinality(Counting') <= Cardinality(Counting \cup {FileName})
      /\ Cardinality(Counting') \in Nat
      /\ Cardinality(Counting \cup {FileName}) \in Nat
  BY <1>5, <1>6, FS_Subset, FS_CardinalityType
<1>8. Cardinality(Counting') <= SUPPORT_FINGER_NUMBER
  BY <1>2, <1>5, <1>7, EnrollAssumption
<1>9. QED
  BY <1>1, <1>4, <1>8 DEF RoomInv

LEMMA RemoveRoom ==
  ASSUME RoomInv, NEW id \in AllIds, RemoveFprint(id)
  PROVE  RoomInv'
<1>1. /\ DOMAIN store' = DOMAIN store \ {id} /\ unread' = unread \ {id}
      /\ HasRoom' => HasRoom
  BY DEF RemoveFprint, HasRoom
<1>2. Counting' \subseteq Counting
  BY <1>1 DEF Counting
<1>3. /\ Cardinality(Counting') <= Cardinality(Counting)
      /\ Cardinality(Counting) \in Nat /\ Cardinality(Counting') \in Nat
  BY <1>2, RoomType, FS_Subset, FS_CardinalityType
<1>4. IsFiniteSet(DOMAIN store')
  BY <1>1, FS_Subset DEF RoomInv
<1>5. QED
  BY <1>1, <1>3, <1>4, EnrollAssumption DEF RoomInv

LEMMA RoomStep == RoomInv /\ [Next]_vars => RoomInv'
<1> SUFFICES ASSUME RoomInv, [Next]_vars PROVE RoomInv'
  OBVIOUS
<1>1. CASE Load
  BY <1>1, LoadRoom
<1>2. CASE LoopHead
  BY <1>2, QuietRoom DEF LoopHead, HasRoom, env, loop, read
<1>3. CASE LoopExit
  BY <1>3, QuietRoom DEF LoopExit, HasRoom, env, loop, read
<1>4. CASE Capture
  BY <1>4, QuietRoom DEF Capture, HasRoom, env, loop, read
<1>5. CASE Assemble
  BY <1>5, QuietRoom DEF Assemble, HasRoom, env, loop, read
<1>6. CASE Check
  BY <1>6, QuietRoom DEF Check, HasRoom, env, loop, read
<1>7. CASE Save
  BY <1>7, SaveRoom
<1>8. CASE Out
  BY <1>8, QuietRoom DEF Out, HasRoom, env, loop, read
<1>9. CASE Free
  BY <1>9, QuietRoom DEF Free, HasRoom, env, loop, read
<1>10. CASE Withdraw
  BY <1>10, QuietRoom DEF Withdraw, HasRoom, loop, read
<1>11. ASSUME NEW id \in AllIds, RemoveFprint(id) PROVE RoomInv'
  BY <1>11, RemoveRoom
<1>12. CASE UNCHANGED vars
  BY <1>12, QuietRoom DEF vars, HasRoom
<1>13. QED
  BY <1>1, <1>2, <1>3, <1>4, <1>5, <1>6, <1>7, <1>8, <1>9, <1>10, <1>11, <1>12
     DEF Next, WorkerNext

\* do_finger_enroll never brings the number of template files over
\* SUPPORT_FINGER_NUMBER, failed writes and deletions beside it included; files
\* it could not read are not counted.
THEOREM StoreCorrect == Spec => []StoreWithinLimit
<1>1. RoomInv => StoreWithinLimit
  BY DEF RoomInv, Counting, StoreWithinLimit
<1>2. QED
  BY <1>1, InitRoom, RoomStep, PTL DEF Spec

------------------------------------------------------------------------------
(* Types, and what the worker's numbers mean *)

\* What a capture leaves in the array: the feature of one finger, or nothing.
Captures == {NULL} \cup {<<f>> : f \in Features}

Collecting == pc \in {"load", "loop", "capture"}

\* TypeOK is not inductive: the stages stay within their limit because each was
\* a capture, the index because a round begins below 3, and the saved templates
\* are of earlier enrolments because the new one is written last.  A driver that
\* enrols inside the device gives no templates to compare.
TypeInv ==
  /\ TypeOK
  /\ templates \in [Indices -> Captures]
  /\ Collecting /\ pc # "capture" => Stages <= try_count
  /\ enroll_number <= try_count
  /\ pc = "capture" => i \in Indices
  /\ NewId \in DOMAIN store => pc \in {"out", "free", "exited", "crashed"}
  /\ Collecting \/ pc = "assemble" => (internal => ret # OK)

\* What a capture that was not halted leaves in the array.
CleanCaptures == {NULL} \cup {<<f>> : f \in Fingers}

\* Unless the collection was withdrawn, the templates in the array are of
\* fingers, those collected so far are of one finger, and a driver that captures
\* templates does not complete by itself.  A device that enrols by itself gives
\* one template.
CollectInv ==
  /\ fp_action = "FP_ACTION_ENROLL" =>
       /\ \A n \in Indices : templates[n] \in CleanCaptures
       /\ \A n \in Indices :
            n < i => templates[n] = templates[0] /\ templates[n] # NULL
       /\ pc = "assemble" /\ ret = OK => i = 3
       /\ ~internal /\ (Collecting \/ pc = "assemble") => ret # COMPLETE
  /\ internal /\ Collecting => i = 0

OneFinger(template) == \A m, n \in DOMAIN template : template[m] = template[n]

\* What is to be stored is of one finger unless the collection was withdrawn; and
\* if it is readable, it is of the finger that was collected first and of none
\* that is known.
RegInv ==
  pc \in {"check", "save"} =>
    /\ fp_action = "FP_ACTION_ENROLL" =>
         OneFinger(regTemplate) /\ (~internal => Readable(regTemplate))
    /\ ~internal /\ Readable(regTemplate) =>
         /\ regTemplate[1] = templates[0][1]
         /\ pc = "save" =>
              \A id \in DOMAIN saved :
                Readable(saved[id]) => TemplateMatch(regTemplate, saved[id]) # OK

\* The new file shares no finger with these files.
Apart(files, others) ==
  \A id \in others :
    Readable(files[id]) => FingersOf(files[NewId]) \cap FingersOf(files[id]) = {}

\* The files are those that were read, less the deleted ones, those that were not
\* read, and the new one.
StoreInv ==
  /\ pc = "load" => DOMAIN saved = {}
  /\ unread \cap DOMAIN saved = {}
  /\ Nameless \in DOMAIN store => store[Nameless] = NULL
  /\ pc # "load" =>
       \A id \in DOMAIN store \ (unread \cup {NewId, Nameless}) :
         id \in DOMAIN saved /\ saved[id] = store[id]
  /\ fp_action = "FP_ACTION_ENROLL" /\ NewId \in DOMAIN store =>
       /\ OneFinger(store[NewId])
       /\ ~internal => Apart(store, DOMAIN store \ (unread \cup {NewId}))
  /\ status.message = "success" => Ended
  /\ SuccessRecognised

EnrollInv == TypeInv /\ CollectInv /\ RegInv /\ StoreInv

\* The progress of a prompt, after so many templates and stages.
Prompted(index, stages) == AtMost(99, 25 * index + 8 * stages)

\* The next prompt is not behind the last one, unless the collection restarts.
ProgressInv ==
  Collecting =>
    \/ pc # "capture" /\ i = 0 /\ ~internal
    \/ status.progress <=
         Prompted(i, IF pc = "capture" THEN enroll_number ELSE Stages)

LEMMA CaptureLemma ==
  ASSUME NEW t \in Captures
  PROVE  /\ t \in Seq(Features)
         /\ t # NULL => /\ t[1] \in Features /\ t = <<t[1]>>
                        /\ DOMAIN t = {1} /\ FingersOf(t) = {t[1]}
<1>1. CASE t = NULL
  BY <1>1 DEF NULL
<1>2. ASSUME NEW f \in Features, t = <<f>>
      PROVE  /\ t \in Seq(Features) /\ t[1] = f /\ DOMAIN t = {1}
             /\ FingersOf(t) = {f}
  BY <1>2 DEF FingersOf
<1>3. QED
  BY <1>1, <1>2 DEF Captures

\* What a driver returns depends on its kind; a template comes with OK or
\* COMPLETE only, and is of a finger unless the capture was halted.
LEMMA AcquireLemma ==
  ASSUME NEW acquired \in DriverAcquire(internal, Fingers,
                                        fp_action # "FP_ACTION_ENROLL")
  PROVE  /\ acquired[1] \in IF internal THEN {COMPLETE, PASS, RETRY, FAIL}
                                        ELSE {OK, FAIL}
         /\ acquired[2] \in Captures
         /\ acquired[1] \in {OK, COMPLETE} => acquired[2] # NULL
         /\ fp_action = "FP_ACTION_ENROLL" => acquired[2] \in CleanCaptures
<1>1. CASE internal
  <2>1. CASE \E f \in Fingers : acquired = <<COMPLETE, <<f>> >>
    BY <1>1, <2>1 DEF Captures, CleanCaptures, Features, NULL
  <2>2. CASE \E r \in {PASS, RETRY, FAIL} : acquired = <<r, NULL>>
    BY <1>1, <2>2 DEF Captures, CleanCaptures, OK, COMPLETE, PASS, RETRY, FAIL
  <2>3. QED
    BY <1>1, <2>1, <2>2 DEF DriverAcquire
<1>2. CASE ~internal
  <2>1. ASSUME NEW f \in Features, acquired = <<OK, <<f>> >>,
               fp_action = "FP_ACTION_ENROLL" => f \in Fingers
        PROVE  /\ acquired[1] = OK /\ acquired[2] \in Captures
               /\ acquired[2] # NULL
               /\ fp_action = "FP_ACTION_ENROLL" => acquired[2] \in CleanCaptures
    BY <2>1 DEF Captures, CleanCaptures, NULL
  <2>2. CASE acquired = <<FAIL, NULL>>
    BY <1>2, <2>2 DEF Captures, CleanCaptures, OK, COMPLETE, FAIL
  <2>3. \/ acquired = <<FAIL, NULL>>
        \/ \E f \in Features :
             /\ acquired = <<OK, <<f>> >>
             /\ fp_action = "FP_ACTION_ENROLL" => f \in Fingers
    BY <1>2 DEF DriverAcquire, Features
  <2>4. QED
    BY <1>2, <2>1, <2>2, <2>3
<1>3. QED
  BY <1>1, <1>2

\* What a capture in the array is, when it is of a finger.
LEMMA CleanLemma ==
  ASSUME NEW t \in CleanCaptures, t # NULL
  PROVE  Readable(t) /\ Noise \notin FingersOf(t)
<1>1. PICK f \in Fingers : t = <<f>>
  BY DEF CleanCaptures
<1>2. FingersOf(t) = {f} /\ f # Noise
  BY <1>1, EnrollAssumption DEF FingersOf
<1>3. QED
  BY <1>2 DEF Readable

\* A verdict is a result of the driver; only a comparison changes what the
\* capture returned, and that of readable templates is not arbitrary.
LEMMA VerdictLemma ==
  ASSUME NEW r \in IF internal THEN {COMPLETE, PASS, RETRY, FAIL} ELSE {OK, FAIL},
         NEW t, NEW verdict \in Verdicts(r, t)
  PROVE  /\ verdict \in ResultCodes
         /\ internal => verdict = r /\ r # OK
         /\ r # OK => verdict = r
         /\ verdict = OK => r = OK
         /\ i > 0 /\ ~internal /\ Readable(templates[0]) /\ Readable(t) =>
              /\ verdict \in {OK, FAIL}
              /\ verdict = OK => TemplateMatch(templates[0], t) = OK
         /\ ~(i > 0) => verdict = r
<1>1. r \in ResultCodes /\ (internal => r # OK)
  BY DEF ResultCodes, OK, COMPLETE, PASS, RETRY, FAIL
<1>2. CASE r = OK /\ i > 0
  <2>1. PICK m \in DriverMatch(internal, templates[0], t) :
          verdict = IF m = UNSUPPORT THEN OK ELSE m
    BY <1>2 DEF Verdicts
  <2>2. m \in ResultCodes
    BY DEF DriverMatch, TemplateMatch, ResultCodes
  <2>3. ~internal
    BY <1>1, <1>2
  <2>4. Readable(templates[0]) /\ Readable(t) =>
          m = TemplateMatch(templates[0], t) /\ m \in {OK, FAIL}
    BY <2>3 DEF DriverMatch, TemplateMatch
  <2>5. QED
    BY <1>2, <2>1, <2>2, <2>3, <2>4 DEF ResultCodes, OK, FAIL, UNSUPPORT
<1>3. CASE ~(r = OK /\ i > 0)
  <2>1. verdict = r
    BY <1>3 DEF Verdicts
  <2>2. QED
    BY <1>1, <1>3, <2>1 DEF OK, FAIL
<1>4. QED
  BY <1>2, <1>3

LEMMA SignalTypes ==
  ASSUME dones \in Nat, NEW message \in Messages, NEW id \in SignalIds,
         NEW progress \in 0 .. 100, NEW done \in BOOLEAN,
         Signal(message, id, progress, done)
  PROVE  /\ status' \in [message : Messages, id : SignalIds,
                         progress : 0 .. 100, done : BOOLEAN]
         /\ dones' \in Nat
BY DEF Signal

LEMMA InitTypes == Init => TypeInv
<1> SUFFICES ASSUME Init PROVE TypeInv
  OBVIOUS
<1>1. PICK S \in SUBSET EarlierIds : store \in [S -> EarlierTemplates \cup {NULL}]
  BY DEF Init, EarlierStores
<1>2. DOMAIN store = S /\ \A id \in S : store[id] \in Seq(Features)
  <2>1. NULL \in Seq(Features)
    BY DEF NULL
  <2>2. \A id \in S : store[id] \in EarlierTemplates \/ store[id] = NULL
    BY <1>1
  <2>3. QED
    BY <1>1, <2>1, <2>2, EnrollAssumption
<1>3. /\ templates \in [Indices -> Captures] /\ templates \in [Indices -> Seq(Features)]
      /\ regTemplate \in Seq(Features)
  BY DEF Init, Captures, NULL
<1>4. status \in [message : Messages, id : SignalIds,
                  progress : 0 .. 100, done : BOOLEAN]
  BY DEF Init, Messages, SignalIds
<1>5. saved = << >> /\ DOMAIN saved = {} /\ unread = S
  BY <1>2 DEF Init
<1>6. /\ i = 0 /\ try_count = 0 /\ enroll_number = 0 /\ dones = 0
      /\ pc = "load" /\ ret = FAIL
  BY DEF Init
<1>7. internal \in BOOLEAN /\ fp_action \in {"FP_ACTION_ENROLL", "ACTION_NONE"}
  BY DEF Init
<1>8. TypeOK
  BY <1>2, <1>3, <1>4, <1>5, <1>6, <1>7, EnrollAssumption
     DEF TypeOK, AllIds, Places, ResultCodes
<1>9. QED
  BY <1>2, <1>3, <1>6, <1>8, EnrollAssumption
     DEF TypeInv, Stages, Collecting, OK, FAIL, PASS, AllIds

LEMMA TypeStep == TypeInv /\ [Next]_vars => TypeInv'
<1> SUFFICES ASSUME TypeInv, [Next]_vars PROVE TypeInv'
  OBVIOUS
<1> USE DEF TypeInv, TypeOK, Places, Collecting, Stages, env, loop, read, NoSignal
<1>1. CASE Load
  <2>1. /\ pc = "load" /\ pc' \in {"out", "loop"}
        /\ UNCHANGED <<internal, fp_action, store, i, ret, try_count,
                       enroll_number, templates, regTemplate, status, dones>>
    BY <1>1 DEF Load
  <2>2. PICK S \in SUBSET DOMAIN store :
          saved' = [id \in S |-> store[id]] /\ unread' = DOMAIN store \ S
    BY <1>1 DEF Load, ReadSome
  <2>3. DOMAIN store \subseteq EarlierIds
    BY <2>1 DEF AllIds
  <2>4. /\ DOMAIN saved' \subseteq EarlierIds /\ unread' \subseteq EarlierIds
        /\ \A id \in DOMAIN saved' : saved'[id] \in Seq(Features)
    BY <2>2, <2>3
  <2>5. QED
    BY <2>1, <2>4
<1>2. CASE LoopHead
  <2>1. /\ pc = "loop" /\ pc' = "capture" /\ i \in Indices
        /\ enroll_number' = Stages
        /\ templates' = [templates EXCEPT ![i] = NULL]
        /\ UNCHANGED <<internal, fp_action, store, saved, unread, i, ret, try_count,
                       regTemplate>>
    BY <1>2 DEF LoopHead, Indices
  <2>2. templates' \in [Indices -> Captures] /\ templates' \in [Indices -> Seq(Features)]
    BY <2>1 DEF Captures, NULL
  <2>3. enroll_number' \in Nat /\ enroll_number' <= try_count
    BY <2>1
  <2>4. AtMost(99, 25 * i + 8 * enroll_number') \in 0 .. 100
    <3>1. ASSUME NEW a \in Nat, NEW b \in Nat
          PROVE  AtMost(99, 25 * a + 8 * b) \in 0 .. 100
      BY DEF AtMost
    <3>2. i \in Nat /\ enroll_number' \in Nat
      BY <2>3
    <3>3. QED
      BY <3>1, <3>2
  <2>5. /\ status' \in [message : Messages, id : SignalIds,
                        progress : 0 .. 100, done : BOOLEAN]
        /\ dones' \in Nat
    BY <1>2, <2>4, SignalTypes DEF LoopHead, Messages, SignalIds
  <2>6. enroll_number' \in 0 .. MAX_TRY_COUNT
    BY <2>3, EnrollAssumption
  <2>7. NoId \in SignalIds
    BY DEF SignalIds
  <2>8. QED
    BY <2>1, <2>2, <2>3, <2>5, <2>6, <2>7
<1>3. CASE LoopExit
  BY <1>3 DEF LoopExit
<1>4. CASE Capture
  <2>1. PICK acquired \in DriverAcquire(internal, Fingers,
                                       fp_action # "FP_ACTION_ENROLL") :
          \E verdict \in Verdicts(acquired[1], acquired[2]) :
            LET r == acquired[1]
            IN  /\ templates' = [templates EXCEPT ![i] = acquired[2]]
                /\ i' = NextIndex(r, verdict)
                /\ ret' = IF GivesUp(r) THEN FAIL ELSE verdict
                /\ try_count' = IF LeavesLoop(r) THEN try_count ELSE Counted
                /\ pc' = IF LeavesLoop(r) THEN "assemble" ELSE "loop"
    BY <1>4 DEF Capture
  <2> DEFINE r == acquired[1]
  <2>15. PICK verdict \in Verdicts(r, acquired[2]) :
           /\ templates' = [templates EXCEPT ![i] = acquired[2]]
           /\ i' = NextIndex(r, verdict)
           /\ ret' = IF GivesUp(r) THEN FAIL ELSE verdict
           /\ try_count' = IF LeavesLoop(r) THEN try_count ELSE Counted
           /\ pc' = IF LeavesLoop(r) THEN "assemble" ELSE "loop"
    BY <2>1
  <2>2. /\ pc = "capture" /\ i \in 0 .. 2
        /\ UNCHANGED <<internal, fp_action, store, saved, unread, enroll_number,
                       regTemplate, status, dones>>
    BY <1>4 DEF Capture, Indices
  <2>3. /\ r \in IF internal THEN {COMPLETE, PASS, RETRY, FAIL} ELSE {OK, FAIL}
        /\ acquired[2] \in Captures
    BY AcquireLemma
  <2>4. templates' \in [Indices -> Captures] /\ templates' \in [Indices -> Seq(Features)]
    BY <2>15, <2>3, CaptureLemma
  <2>5. ret' \in ResultCodes /\ (internal => ret' # OK)
    <3>1. /\ verdict \in ResultCodes
          /\ internal => verdict # OK
      BY <2>3, VerdictLemma
    <3>2. FAIL \in ResultCodes /\ FAIL # OK
      BY DEF ResultCodes, FAIL, OK
    <3>3. QED
      BY <2>15, <3>1, <3>2
  <2>6. i' \in {i, i + 1, 0}
    BY <2>15 DEF NextIndex
  <2>7. /\ try_count' \in 0 .. MAX_TRY_COUNT /\ try_count <= try_count'
        /\ pc' = "loop" => try_count' = try_count + 1
        /\ pc' \in {"loop", "assemble"}
    BY <2>15, EnrollAssumption DEF LeavesLoop, GivesUp, Counted
  <2>8. pc' = "loop" => Stages' <= try_count'
    BY <2>2, <2>7
  <2>10. internal' => ret' # OK
    BY <2>2, <2>5
  <2>11. i' \in 0 .. 3
    BY <2>2, <2>6
  <2>12. /\ enroll_number' <= try_count' /\ pc' # "capture"
         /\ NewId \notin DOMAIN store'
    BY <2>2, <2>7
  <2>13. TypeOK'
    BY <2>2, <2>4, <2>5, <2>7, <2>11
  <2>14. QED
    BY <2>4, <2>7, <2>8, <2>10, <2>12, <2>13
<1>5. CASE Assemble
  <2>1. PICK memory \in BOOLEAN :
          /\ regTemplate' = IF memory THEN Merged ELSE NULL
          /\ ret' \in CASE ret = OK /\ Collected /\ ~memory -> {FAIL}
                        [] ret = OK /\ (Collected => memory) ->
                             DriverMatch(internal, templates[0], regTemplate')
                        [] ret = COMPLETE -> {OK}
                        [] OTHER          -> {ret}
          /\ pc' = IF ret' = OK THEN "check" ELSE "out"
    BY <1>5 DEF Assemble
  <2>2. /\ pc = "assemble"
        /\ UNCHANGED <<internal, fp_action, store, saved, unread, i, try_count,
                       enroll_number, templates, status, dones>>
    BY <1>5 DEF Assemble
  <2>3. Merged \in Seq(Features) /\ NULL \in Seq(Features)
    BY DEF Merged, TemplateMerge, NULL, Indices
  <2>4. regTemplate' \in Seq(Features)
    BY <2>1, <2>3
  <2>5. ret' \in ResultCodes
    <3>1. \A a, b : DriverMatch(internal, a, b) \subseteq ResultCodes
      BY DEF DriverMatch, TemplateMatch, ResultCodes
    <3>2. ret \in ResultCodes /\ FAIL \in ResultCodes /\ OK \in ResultCodes
      BY DEF ResultCodes
    <3>3. QED
      BY <2>1, <3>1, <3>2
  <2>6. pc' \in {"check", "out"}
    BY <2>1
  <2>7. QED
    BY <2>2, <2>4, <2>5, <2>6
<1>6. CASE Check
  <2>1. /\ pc = "check"
        /\ UNCHANGED <<internal, fp_action, store, saved, unread, i, ret, try_count,
                       enroll_number, templates, regTemplate>>
    BY <1>6 DEF Check
  <2>2. /\ pc' \in {"save", "free"}
        /\ status' \in [message : Messages, id : SignalIds,
                        progress : 0 .. 100, done : BOOLEAN]
        /\ dones' \in Nat
    <3>1. CASE NotRecognised /\ NoSignal /\ pc' = "save"
      BY <3>1
    <3>2. CASE Recognise /\ pc' = "free"
      <4>1. PICK id \in SignalIds : Success(id)
        BY <3>2 DEF Recognise, IdOf, SignalIds, AllIds
      <4>2. "success" \in Messages /\ 100 \in 0 .. 100
        BY DEF Messages
      <4>3. QED
        BY <3>2, <4>1, <4>2, SignalTypes DEF Success
    <3>3. QED
      BY <1>6, <3>1, <3>2 DEF Check
  <2>3. QED
    BY <2>1, <2>2
<1>7. CASE Save
  <2>1. /\ pc = "save" /\ pc' \in {"free", "out"} /\ ret' \in {OK, FAIL}
        /\ UNCHANGED <<internal, fp_action, saved, unread, i, try_count,
                       enroll_number, templates, regTemplate>>
    BY <1>7 DEF Save, Written, NotWritten
  <2>2. /\ DOMAIN store' \subseteq AllIds
        /\ \A id \in DOMAIN store' : store'[id] \in Seq(Features)
    <3>1. store' = store \/ \E t \in {regTemplate, NULL} :
            store' = [id \in DOMAIN store \cup {FileName} |->
                        IF id = FileName THEN t ELSE store[id]]
      BY <1>7 DEF Save, CreateFile
    <3>2. /\ NULL \in Seq(Features) /\ regTemplate \in Seq(Features)
          /\ FileName \in AllIds
      BY DEF NULL, AllIds, EarlierIds, FileName
    <3>3. CASE store' = store
      BY <3>3
    <3>4. ASSUME NEW t \in {regTemplate, NULL},
                 store' = [id \in DOMAIN store \cup {FileName} |->
                             IF id = FileName THEN t ELSE store[id]]
          PROVE  /\ DOMAIN store' \subseteq AllIds
                 /\ \A id \in DOMAIN store' : store'[id] \in Seq(Features)
      <4>1. t \in Seq(Features)
        BY <3>2
      <4>2. DOMAIN store' = DOMAIN store \cup {FileName}
        BY <3>4
      <4>3. \A id \in DOMAIN store' : store'[id] = IF id = FileName THEN t ELSE store[id]
        BY <3>4
      <4>4. QED
        BY <3>2, <4>1, <4>2, <4>3
    <3>5. QED
      BY <3>1, <3>3, <3>4
  <2>3. /\ status' \in [message : Messages, id : SignalIds,
                        progress : 0 .. 100, done : BOOLEAN]
        /\ dones' \in Nat
    <3>1. "success" \in Messages /\ {NewId, NoId} \subseteq SignalIds /\ 100 \in 0 .. 100
      BY DEF Messages, SignalIds, AllIds
    <3>2. CASE Written
      BY <3>1, <3>2, SignalTypes DEF Written, Success
    <3>3. CASE NotWritten
      BY <3>3 DEF NotWritten
    <3>4. QED
      BY <1>7, <3>2, <3>3 DEF Save
  <2>4. ret' \in ResultCodes
    BY <2>1 DEF ResultCodes
  <2>5. QED
    BY <2>1, <2>2, <2>3, <2>4
<1>8. CASE Out
  <2>1. PICK message \in Messages : Signal(message, NoId, 0, TRUE)
    BY <1>8 DEF Out, Messages
  <2>2. /\ status' \in [message : Messages, id : SignalIds,
                        progress : 0 .. 100, done : BOOLEAN]
        /\ dones' \in Nat
    <3>1. NoId \in SignalIds /\ 0 \in 0 .. 100
      BY DEF SignalIds
    <3>2. QED
      BY <2>1, <3>1, SignalTypes
  <2>3. pc' = "free" /\ UNCHANGED <<env, loop, ret, regTemplate>>
    BY <1>8 DEF Out
  <2>4. QED
    BY <2>2, <2>3
<1>9. CASE Free
  BY <1>9 DEF Free
<1>10. CASE Withdraw
  BY <1>10 DEF Withdraw
<1>11. ASSUME NEW id \in AllIds, RemoveFprint(id) PROVE TypeInv'
  <2>1. /\ DOMAIN store' \subseteq DOMAIN store
        /\ \A x \in DOMAIN store' : store'[x] = store[x]
        /\ unread' \subseteq unread
    BY <1>11 DEF RemoveFprint
  <2>2. UNCHANGED <<internal, fp_action, pc, saved, i, ret, try_count,
                    enroll_number, templates, regTemplate, status, dones>>
    BY <1>11 DEF RemoveFprint
  <2>3. QED
    BY <2>1, <2>2
<1>12. CASE UNCHANGED vars
  BY <1>12 DEF vars
<1>13. QED
  BY <1>1, <1>2, <1>3, <1>4, <1>5, <1>6, <1>7, <1>8, <1>9, <1>10, <1>11, <1>12
     DEF Next, WorkerNext

------------------------------------------------------------------------------
(* Whose features are collected, assembled and stored *)

LEMMA CollectStep ==
  ASSUME TypeInv, CollectInv, [Next]_vars
  PROVE  CollectInv'
<1>1. ASSUME UNCHANGED <<internal, i, templates>>,
             fp_action' = "FP_ACTION_ENROLL" => fp_action = "FP_ACTION_ENROLL",
             Collecting' => Collecting /\ ret' = ret,
             pc' = "assemble" => pc = "assemble" /\ ret' = ret
      PROVE  CollectInv'
  BY <1>1 DEF CollectInv
<1> USE DEF env, loop, read, Collecting
<1>2. CASE Load \/ Check \/ Save \/ Out \/ Free
  BY <1>1, <1>2 DEF Load, Check, Save, Written, NotWritten, Out, Free
<1>3. CASE LoopHead
  <2>1. NULL \in CleanCaptures
    BY DEF CleanCaptures
  <2>2. QED
    BY <1>3, <2>1 DEF LoopHead, CollectInv, TypeInv, TypeOK, Indices
<1>4. CASE LoopExit
  BY <1>4 DEF LoopExit, CollectInv
<1>5. CASE Capture
  <2>1. PICK acquired \in DriverAcquire(internal, Fingers,
                                       fp_action # "FP_ACTION_ENROLL") :
          \E verdict \in Verdicts(acquired[1], acquired[2]) :
            LET r == acquired[1]
            IN  /\ templates' = [templates EXCEPT ![i] = acquired[2]]
                /\ i' = NextIndex(r, verdict)
                /\ ret' = IF GivesUp(r) THEN FAIL ELSE verdict
                /\ pc' = IF LeavesLoop(r) THEN "assemble" ELSE "loop"
    BY <1>5 DEF Capture
  <2> DEFINE r == acquired[1]
             t == acquired[2]
  <2>2. PICK verdict \in Verdicts(r, t) :
          /\ templates' = [templates EXCEPT ![i] = t]
          /\ i' = NextIndex(r, verdict)
          /\ ret' = IF GivesUp(r) THEN FAIL ELSE verdict
          /\ pc' = IF LeavesLoop(r) THEN "assemble" ELSE "loop"
    BY <2>1
  <2>3. /\ r \in IF internal THEN {COMPLETE, PASS, RETRY, FAIL} ELSE {OK, FAIL}
        /\ t \in Captures
        /\ r \in {OK, COMPLETE} => t # NULL
        /\ fp_action = "FP_ACTION_ENROLL" => t \in CleanCaptures
    BY AcquireLemma
  <2>4. pc = "capture" /\ i \in Indices /\ UNCHANGED <<internal, fp_action>>
    BY <1>5 DEF Capture, TypeInv, env
  <2> HIDE DEF r, t
  <2>5. /\ internal => verdict = r /\ r # OK
        /\ r # OK => verdict = r
        /\ verdict = OK => r = OK
        /\ i > 0 /\ ~internal /\ Readable(templates[0]) /\ Readable(t) =>
             /\ verdict \in {OK, FAIL}
             /\ verdict = OK => TemplateMatch(templates[0], t) = OK
        /\ ~(i > 0) => verdict = r
    BY <2>3, VerdictLemma
  <2>6. pc' = "assemble" => ret' # OK
    BY <2>2, <2>3, <2>5 DEF LeavesLoop, OK, FAIL, COMPLETE
  <2>7. internal /\ pc' = "loop" => i' = 0
    BY <2>2, <2>4, <2>5 DEF NextIndex, LeavesLoop, CollectInv
  <2>8. /\ \A n \in Indices : n # i => templates'[n] = templates[n]
        /\ templates'[i] = t
    BY <2>2, <2>4 DEF TypeInv, TypeOK
  \* A template after the first is compared with the first, both of fingers.
  <2>9. ASSUME r = OK, i > 0, fp_action = "FP_ACTION_ENROLL"
        PROVE  /\ verdict \in {OK, FAIL}
               /\ verdict = OK => t = templates[0]
    <3>1. ~internal
      BY <2>5, <2>9
    <3>2. /\ templates[0] \in CleanCaptures /\ templates[0] # NULL
          /\ t \in CleanCaptures /\ t # NULL
      BY <2>3, <2>4, <2>9 DEF CollectInv, Indices
    <3>3. Readable(templates[0]) /\ Readable(t)
      BY <3>2, CleanLemma
    <3>4. PICK f \in Fingers, g \in Fingers : templates[0] = <<f>> /\ t = <<g>>
      BY <3>2 DEF CleanCaptures
    <3>5. TemplateMatch(templates[0], t) = OK => f = g
      BY <3>4 DEF TemplateMatch, FingersOf, OK, FAIL
    <3>6. QED
      BY <2>5, <2>9, <3>1, <3>3, <3>4, <3>5
  <2>10. \/ i' = 0
         \/ i' = i
         \/ i' = i + 1 /\ ((r = OK /\ verdict = OK) \/ r = COMPLETE)
    BY <2>2 DEF NextIndex
  <2>11. ASSUME fp_action = "FP_ACTION_ENROLL", NEW n \in Indices
         PROVE  templates'[n] \in CleanCaptures
    <3>1. CASE n = i
      BY <2>3, <2>8, <2>11, <3>1
    <3>2. CASE n # i
      BY <2>8, <2>11, <3>2 DEF CollectInv
    <3>3. QED
      BY <3>1, <3>2
  <2>12. ASSUME fp_action = "FP_ACTION_ENROLL", NEW n \in Indices, n < i'
         PROVE  templates'[n] = templates'[0] /\ templates'[n] # NULL
    <3>1. 0 \in Indices /\ i \in 0 .. 2 /\ n \in 0 .. 2
      BY <2>4 DEF Indices
    <3>2. CASE i' = 0
      BY <2>12, <3>1, <3>2
    <3>3. CASE n < i
      BY <2>4, <2>8, <2>12, <3>1, <3>3 DEF CollectInv
    <3>4. CASE n = i /\ ((r = OK /\ verdict = OK) \/ r = COMPLETE)
      <4>1. CASE i = 0
        BY <2>3, <2>8, <3>1, <3>4, <4>1
      <4>2. CASE i > 0
        <5>1. r = OK /\ verdict = OK
          BY <2>3, <2>4, <3>4, <4>2 DEF CollectInv, OK, FAIL, COMPLETE
        <5>2. t = templates[0] /\ t # NULL
          BY <2>3, <2>9, <2>12, <4>2, <5>1
        <5>3. QED
          BY <2>8, <3>1, <3>4, <4>2, <5>2
      <4>3. QED
        BY <3>1, <4>1, <4>2
    <3>5. QED
      BY <2>10, <2>12, <3>1, <3>2, <3>3, <3>4
  <2>13. ASSUME fp_action = "FP_ACTION_ENROLL", ~internal PROVE ret' # COMPLETE
    <3>1. r \in {OK, FAIL}
      BY <2>3, <2>13
    <3>2. verdict # COMPLETE
      BY <2>5, <2>9, <2>13, <3>1 DEF OK, FAIL, COMPLETE
    <3>3. QED
      BY <2>2, <3>2 DEF FAIL, COMPLETE
  <2>14. pc' # "load" /\ pc' # "capture"
    BY <2>2
  <2>15. QED
    BY <2>4, <2>6, <2>7, <2>11, <2>12, <2>13, <2>14 DEF CollectInv
<1>6. CASE Assemble
  <2>1. /\ UNCHANGED <<internal, i, templates, fp_action>>
        /\ pc' \in {"check", "out"}
    BY <1>6 DEF Assemble
  <2>2. QED
    BY <1>1, <2>1
<1>7. CASE Withdraw
  BY <1>1, <1>7 DEF Withdraw
<1>8. ASSUME NEW id \in AllIds, RemoveFprint(id) PROVE CollectInv'
  BY <1>1, <1>8 DEF RemoveFprint
<1>9. CASE UNCHANGED vars
  BY <1>1, <1>9 DEF vars
<1>10. QED
  BY <1>2, <1>3, <1>4, <1>5, <1>6, <1>7, <1>8, <1>9 DEF Next, WorkerNext

\* Three captures in a row: the first comes first, and they are of one finger if
\* they are the same.
LEMMA MergeLemma ==
  ASSUME NEW a \in Captures, NEW b \in Captures, NEW c \in Captures,
         a # NULL, b # NULL, c # NULL
  PROVE  /\ TemplateMerge(a, b, c) # NULL
         /\ TemplateMerge(a, b, c)[1] = a[1]
         /\ a = b /\ a = c =>
              /\ OneFinger(TemplateMerge(a, b, c))
              /\ FingersOf(TemplateMerge(a, b, c)) = {a[1]}
<1>1. /\ a \in Seq(Features) /\ b \in Seq(Features) /\ c \in Seq(Features)
      /\ Len(a) = 1 /\ Len(b) = 1 /\ Len(c) = 1
  <2>1. ASSUME NEW t \in Captures, t # NULL
        PROVE  t \in Seq(Features) /\ Len(t) = 1
    BY <2>1, CaptureLemma
  <2>2. QED
    BY <2>1
<1> DEFINE ab == a \o b
           m  == ab \o c
<1>2. ab \in Seq(Features) /\ Len(ab) = 2 /\ ab[1] = a[1] /\ ab[2] = b[1]
  BY <1>1, ConcatProperties
<1> HIDE DEF ab
<1>3. /\ m \in Seq(Features) /\ Len(m) = 3
      /\ m[1] = a[1] /\ m[2] = b[1] /\ m[3] = c[1]
  <2>1. /\ m \in Seq(Features) /\ Len(m) = 3
        /\ \A n \in 1 .. 3 : m[n] = IF n <= 2 THEN ab[n] ELSE c[n - 2]
    <3>1. Len(ab) + Len(c) = 3 /\ Len(ab) = 2
      BY <1>1, <1>2
    <3>2. /\ m \in Seq(Features) /\ Len(m) = Len(ab) + Len(c)
          /\ \A n \in 1 .. Len(ab) + Len(c) :
               m[n] = IF n <= Len(ab) THEN ab[n] ELSE c[n - Len(ab)]
      BY <1>1, <1>2, ConcatProperties, Zenon
    <3>3. QED
      BY <3>1, <3>2
  <2>2. m[1] = ab[1] /\ m[2] = ab[2] /\ m[3] = c[1]
    BY <2>1
  <2>3. QED
    BY <1>2, <2>1, <2>2
<1>4. TemplateMerge(a, b, c) = m
  BY DEF TemplateMerge, ab
<1> HIDE DEF m
<1>5. DOMAIN m = 1 .. 3 /\ m # NULL
  <2>1. DOMAIN m = 1 .. 3
    BY <1>3, LenProperties
  <2>2. Len(NULL) = 0
    BY EmptySeq DEF NULL
  <2>3. m # NULL
    BY <1>3, <2>2
  <2>4. QED
    BY <2>1, <2>3
<1>6. \A n \in 1 .. 3 : n = 1 \/ n = 2 \/ n = 3
  OBVIOUS
<1>7. QED
  BY <1>3, <1>4, <1>5, <1>6 DEF OneFinger, FingersOf

LEMMA RegStep ==
  ASSUME TypeInv, CollectInv, RegInv, [Next]_vars
  PROVE  RegInv'
<1>1. ASSUME UNCHANGED <<internal, templates, regTemplate>>,
             fp_action' = "FP_ACTION_ENROLL" => fp_action = "FP_ACTION_ENROLL",
             pc' \in {"check", "save"} => pc' = pc,
             pc = "save" => UNCHANGED saved
      PROVE  RegInv'
  BY <1>1 DEF RegInv
<1> USE DEF env, loop, read
<1>2. CASE Load \/ LoopExit \/ Out \/ Free
  BY <1>1, <1>2 DEF Load, LoopExit, Out, Free
<1>3. CASE LoopHead
  BY <1>3 DEF LoopHead, RegInv
<1>4. CASE Capture
  <2>1. pc' \in {"assemble", "loop"}
    BY <1>4 DEF Capture
  <2>2. QED
    BY <2>1 DEF RegInv
<1>5. CASE Assemble
  <2>1. PICK memory \in BOOLEAN :
          /\ regTemplate' = IF memory THEN Merged ELSE NULL
          /\ ret' \in CASE ret = OK /\ Collected /\ ~memory -> {FAIL}
                        [] ret = OK /\ (Collected => memory) ->
                             DriverMatch(internal, templates[0], regTemplate')
                        [] ret = COMPLETE -> {OK}
                        [] OTHER          -> {ret}
          /\ pc' = IF ret' = OK THEN "check" ELSE "out"
    BY <1>5 DEF Assemble
  <2>2. pc = "assemble" /\ UNCHANGED <<internal, fp_action, templates, i>>
    BY <1>5 DEF Assemble
  <2>3. /\ templates[0] \in Captures /\ templates[1] \in Captures
        /\ templates[2] \in Captures
        /\ 0 \in Indices /\ 1 \in Indices /\ 2 \in Indices
    BY DEF TypeInv, Indices
  <2>4. SUFFICES ASSUME pc' = "check"
                 PROVE  /\ fp_action = "FP_ACTION_ENROLL" =>
                             /\ OneFinger(regTemplate')
                             /\ ~internal => Readable(regTemplate')
                        /\ ~internal /\ Readable(regTemplate') =>
                             regTemplate'[1] = templates[0][1]
    BY <2>1, <2>2 DEF RegInv
  <2>5. OneFinger(NULL) /\ ~Readable(NULL)
    BY DEF OneFinger, NULL, Readable
  <2>6. CASE ret = OK
    <3>1. ~internal
      BY <2>2, <2>6 DEF TypeInv
    <3>2. Collected => memory
      BY <2>1, <2>4, <2>6 DEF OK, FAIL, COMPLETE
    <3>3. CASE ~Collected
      <4>1. regTemplate' = NULL
        BY <2>1, <2>6, <3>3 DEF Merged, OK, COMPLETE
      <4>2. ASSUME fp_action = "FP_ACTION_ENROLL" PROVE FALSE
        BY <2>2, <2>6, <3>3, <4>2 DEF CollectInv, Collected, Indices
      <4>3. QED
        BY <2>5, <4>1, <4>2
    <3>4. CASE Collected
      <4>1. regTemplate' = TemplateMerge(templates[0], templates[1], templates[2])
        BY <2>1, <2>6, <3>2, <3>4 DEF Merged, OK, COMPLETE
      <4>2. templates[0] # NULL /\ templates[1] # NULL /\ templates[2] # NULL
        BY <2>3, <3>4 DEF Collected
      <4>3. regTemplate'[1] = templates[0][1] /\ regTemplate' # NULL
        BY <2>3, <4>1, <4>2, MergeLemma
      <4>4. ASSUME fp_action = "FP_ACTION_ENROLL"
            PROVE  OneFinger(regTemplate') /\ Readable(regTemplate')
        <5>1. i = 3
          BY <2>2, <2>6, <4>4 DEF CollectInv
        <5>2. templates[1] = templates[0] /\ templates[2] = templates[0]
          BY <2>3, <4>4, <5>1 DEF CollectInv
        <5>3. /\ OneFinger(regTemplate')
              /\ FingersOf(regTemplate') = {templates[0][1]}
          BY <2>3, <4>1, <4>2, <5>2, MergeLemma
        <5>4. templates[0] \in CleanCaptures
          BY <2>3, <4>4 DEF CollectInv
        <5>5. Noise \notin FingersOf(templates[0]) /\ FingersOf(templates[0]) = {templates[0][1]}
          BY <2>3, <4>2, <5>4, CleanLemma, CaptureLemma
        <5>6. QED
          BY <4>3, <5>3, <5>5 DEF Readable
      <4>5. QED
        BY <4>3, <4>4
    <3>5. QED
      BY <3>3, <3>4
  <2>7. CASE ret = COMPLETE
    <3>1. fp_action = "FP_ACTION_ENROLL" => internal
      BY <2>2, <2>7 DEF CollectInv
    <3>2. regTemplate' \in {NULL, templates[0]}
      BY <2>1, <2>7 DEF Merged, OK, COMPLETE
    <3>3. OneFinger(templates[0])
      <4>1. CASE templates[0] = NULL
        BY <2>5, <4>1
      <4>2. CASE templates[0] # NULL
        BY <2>3, <4>2, CaptureLemma DEF OneFinger
      <4>3. QED
        BY <4>1, <4>2
    <3>4. QED
      BY <2>5, <3>1, <3>2, <3>3
  <2>8. CASE ret \notin {OK, COMPLETE}
    BY <2>1, <2>4, <2>8
  <2>9. QED
    BY <2>6, <2>7, <2>8
<1>6. CASE Check
  <2>1. /\ pc = "check"
        /\ UNCHANGED <<internal, fp_action, templates, regTemplate, saved>>
        /\ pc' \in {"save", "free"}
    BY <1>6 DEF Check
  <2>2. ASSUME ~internal, pc' = "save", NEW id \in DOMAIN saved,
               Readable(regTemplate), Readable(saved[id])
        PROVE  TemplateMatch(regTemplate, saved[id]) # OK
    <3>1. Comparison(regTemplate, id) # {OK}
      BY <1>6, <2>2 DEF Check, NotRecognised
    <3>2. QED
      BY <2>2, <3>1 DEF Comparison, DriverMatch
  <2>3. QED
    BY <2>1, <2>2 DEF RegInv
<1>7. CASE Save
  <2>1. pc' \in {"free", "out"}
    BY <1>7 DEF Save, Written, NotWritten
  <2>2. QED
    BY <2>1 DEF RegInv
<1>8. CASE Withdraw
  BY <1>1, <1>8 DEF Withdraw
<1>9. ASSUME NEW id \in AllIds, RemoveFprint(id) PROVE RegInv'
  BY <1>1, <1>9 DEF RemoveFprint
<1>10. CASE UNCHANGED vars
  BY <1>1, <1>10 DEF vars
<1>11. QED
  BY <1>2, <1>3, <1>4, <1>5, <1>6, <1>7, <1>8, <1>9, <1>10 DEF Next, WorkerNext

\* The files after one is made, whatever is written.
LEMMA WrittenLemma ==
  ASSUME NEW t, CreateFile(t)
  PROVE  /\ FileName \notin DOMAIN store
         /\ DOMAIN store' = DOMAIN store \cup {FileName}
         /\ store'[FileName] = t
         /\ \A id \in DOMAIN store : store'[id] = store[id] /\ id # FileName
BY DEF CreateFile

LEMMA NullLemma == FingersOf(NULL) = {} /\ OneFinger(NULL) /\ ~Readable(NULL)
BY DEF NULL, FingersOf, OneFinger, Readable

\* The template of one finger that is not recognised shares none with a file.
LEMMA UnknownLemma ==
  ASSUME NEW t \in Seq(Features), t # NULL, OneFinger(t), NEW file,
         TemplateMatch(t, file) # OK
  PROVE  FingersOf(file) \cap FingersOf(t) = {}
<1>1. 1 \in DOMAIN t
  BY EmptySeq DEF NULL
<1>2. FingersOf(t) = {t[1]}
  BY <1>1 DEF FingersOf, OneFinger
<1>3. QED
  BY <1>2 DEF TemplateMatch

\* What a new file does to the files.
LEMMA CreateStore ==
  ASSUME TypeInv, RegInv, StoreInv, pc = "save",
         NEW t \in {regTemplate, NULL}, CreateFile(t)
  PROVE  /\ Nameless \in DOMAIN store' => store'[Nameless] = NULL
         /\ \A id \in DOMAIN store' \ (unread \cup {NewId, Nameless}) :
              id \in DOMAIN saved /\ saved[id] = store'[id]
         /\ fp_action = "FP_ACTION_ENROLL" /\ NewId \in DOMAIN store' =>
              /\ OneFinger(store'[NewId])
              /\ ~internal => Apart(store', DOMAIN store' \ (unread \cup {NewId}))
<1>1. /\ NewId \notin DOMAIN store /\ regTemplate \in Seq(Features)
      /\ NewId # Nameless
  BY EnrollAssumption DEF TypeInv, TypeOK, EarlierIds
<1>2. \A id \in DOMAIN store \ (unread \cup {NewId, Nameless}) :
        id \in DOMAIN saved /\ saved[id] = store[id]
  BY DEF StoreInv
<1>3. FileName = Nameless => t = NULL
  BY <1>1 DEF FileName
<1>4. Nameless \in DOMAIN store' => store'[Nameless] = NULL
  BY <1>3, WrittenLemma DEF StoreInv
<1>5. \A id \in DOMAIN store' \ (unread \cup {NewId, Nameless}) :
        id \in DOMAIN saved /\ saved[id] = store'[id]
  BY <1>2, WrittenLemma DEF FileName
<1>6. ASSUME fp_action = "FP_ACTION_ENROLL", NewId \in DOMAIN store'
      PROVE  /\ OneFinger(store'[NewId])
             /\ ~internal => Apart(store', DOMAIN store' \ (unread \cup {NewId}))
  <2>1. FileName = NewId /\ store'[NewId] = t
    BY <1>1, <1>6, WrittenLemma
  <2>2. OneFinger(t)
    BY <1>6, NullLemma DEF RegInv
  <2>3. ASSUME ~internal, NEW id \in DOMAIN store' \ (unread \cup {NewId}),
               Readable(store'[id])
        PROVE  FingersOf(t) \cap FingersOf(store'[id]) = {}
    <3>1. id # Nameless
      BY <1>4, <2>3, NullLemma
    <3>2. id \in DOMAIN saved /\ saved[id] = store'[id]
      BY <1>5, <2>3, <3>1
    <3>3. CASE t = NULL
      BY <3>3, NullLemma
    <3>4. CASE t = regTemplate
      <4>1. Readable(regTemplate)
        BY <1>6, <2>3 DEF RegInv
      <4>2. regTemplate # NULL /\ TemplateMatch(regTemplate, saved[id]) # OK
        BY <2>3, <3>2, <4>1 DEF RegInv, Readable
      <4>3. QED
        BY <1>1, <2>2, <3>2, <3>4, <4>2, UnknownLemma
    <3>5. QED
      BY <3>3, <3>4
  <2>4. QED
    BY <2>1, <2>2, <2>3 DEF Apart
<1>7. QED
  BY <1>4, <1>5, <1>6

LEMMA SaveStore ==
  ASSUME TypeInv, RegInv, StoreInv, Save
  PROVE  StoreInv'
<1>1. /\ pc = "save" /\ pc' \in {"free", "out"}
      /\ UNCHANGED <<internal, fp_action, saved, unread, templates, regTemplate>>
      /\ regTemplate \in Seq(Features)
  BY DEF Save, Written, NotWritten, TypeInv, TypeOK, loop, read
<1>2. /\ Nameless \in DOMAIN store' => store'[Nameless] = NULL
      /\ \A id \in DOMAIN store' \ (unread \cup {NewId, Nameless}) :
           id \in DOMAIN saved /\ saved[id] = store'[id]
      /\ fp_action = "FP_ACTION_ENROLL" /\ NewId \in DOMAIN store' =>
           /\ OneFinger(store'[NewId])
           /\ ~internal => Apart(store', DOMAIN store' \ (unread \cup {NewId}))
  <2>1. CASE UNCHANGED store
    BY <1>1, <2>1 DEF StoreInv
  <2>2. CASE \E t \in {regTemplate, NULL} : CreateFile(t)
    BY <1>1, <2>2, CreateStore
  <2>3. QED
    BY <2>1, <2>2 DEF Save
<1>3. /\ status'.message = "success" => Ended'
      /\ SuccessRecognised'
  <2>1. CASE NotWritten
    <3>1. status'.message # "success"
      BY <1>1, <2>1 DEF StoreInv, NotWritten, NoSignal, Ended
    <3>2. QED
      BY <3>1 DEF SuccessRecognised
  <2>2. CASE (CreateFile(regTemplate) \/ CreateFile(NULL)) /\ Written
    <3>1. /\ status'.id = IF regTemplate = NULL THEN NoId ELSE NewId
          /\ pc' = "free"
      BY <2>2 DEF Written, Success, Signal
    <3>2. ASSUME ~internal, Readable(regTemplate), Readable(store'[NewId])
          PROVE  TemplateMatch(templates[0], store'[NewId]) = OK
      <4>1. FileName = NewId /\ regTemplate # NULL
        BY <3>2 DEF FileName, Readable
      <4>2. store'[NewId] = regTemplate
        BY <2>2, <3>2, <4>1, WrittenLemma, NullLemma
      <4>3. regTemplate[1] = templates[0][1]
        BY <1>1, <3>2 DEF RegInv
      <4>4. 1 \in DOMAIN regTemplate
        BY <1>1, <4>1, EmptySeq DEF NULL
      <4>5. QED
        BY <4>2, <4>3, <4>4 DEF TemplateMatch, FingersOf
    <3>3. Readable(regTemplate) => status'.id = NewId
      BY <3>1, NullLemma
    <3>4. SuccessRecognised'
      BY <1>1, <3>2, <3>3 DEF SuccessRecognised
    <3>5. QED
      BY <3>1, <3>4 DEF Ended
  <2>3. QED
    BY <2>1, <2>2 DEF Save
<1>4. QED
  BY <1>1, <1>2, <1>3 DEF StoreInv

LEMMA StoreStep ==
  ASSUME TypeInv, RegInv, StoreInv, [Next]_vars
  PROVE  StoreInv'
\* Steps that leave the files alone and report no success.
<1>1. ASSUME UNCHANGED <<internal, store, saved, unread>>,
             fp_action' = "FP_ACTION_ENROLL" => fp_action = "FP_ACTION_ENROLL",
             pc' = "load" <=> pc = "load",
             \/ status'.message # "success"
             \/ UNCHANGED <<status, templates, regTemplate>> /\ (Ended => Ended')
      PROVE  StoreInv'
  BY <1>1 DEF StoreInv, SuccessRecognised
<1> USE DEF env, loop, read, NoSignal
<1>2. CASE Load
  <2>1. /\ pc = "load" /\ pc' # "load"
        /\ UNCHANGED <<internal, fp_action, store, status>>
    BY <1>2 DEF Load
  <2>2. PICK S \in SUBSET DOMAIN store :
          saved' = [id \in S |-> store[id]] /\ unread' = DOMAIN store \ S
    BY <1>2 DEF Load, ReadSome
  <2>3. status'.message # "success"
    BY <2>1 DEF StoreInv, Ended
  <2>4. NewId \notin DOMAIN store
    BY <2>1 DEF TypeInv
  <2>5. QED
    BY <2>1, <2>2, <2>3, <2>4 DEF StoreInv, SuccessRecognised
<1>3. CASE LoopHead
  BY <1>1, <1>3 DEF LoopHead, Signal
<1>4. CASE LoopExit
  BY <1>1, <1>4 DEF LoopExit, Ended
<1>5. CASE Capture
  <2>1. /\ pc = "capture" /\ pc' # "load"
        /\ UNCHANGED <<internal, fp_action, store, saved, unread, status>>
    BY <1>5 DEF Capture
  <2>2. status'.message # "success"
    BY <2>1 DEF StoreInv, Ended
  <2>3. QED
    BY <1>1, <2>1, <2>2
<1>6. CASE Assemble
  <2>1. /\ pc = "assemble" /\ pc' # "load"
        /\ UNCHANGED <<internal, fp_action, store, saved, unread, status>>
    BY <1>6 DEF Assemble
  <2>2. status'.message # "success"
    BY <2>1 DEF StoreInv, Ended
  <2>3. QED
    BY <1>1, <2>1, <2>2
<1>7. CASE Check
  <2>1. /\ pc = "check"
        /\ UNCHANGED <<internal, fp_action, store, saved, unread, templates,
                       regTemplate>>
    BY <1>7 DEF Check
  <2>2. CASE pc' = "save" /\ NoSignal
    BY <1>1, <2>1, <2>2 DEF Ended
  <2>3. CASE Recognise /\ pc' = "free"
    <3>1. PICK x : Success(x) /\ (\/ internal
                                  \/ \E probe \in Probes, id \in DOMAIN saved :
                                       OK \in Comparison(probe, id) /\ x = IdOf(id))
      BY <2>3 DEF Recognise
    <3>2. status'.id = x /\ Ended'
      BY <2>3, <3>1 DEF Success, Signal, Ended
    <3>3. ASSUME ~internal, Readable(regTemplate), x \in DOMAIN store,
                 Readable(store[x])
          PROVE  TemplateMatch(templates[0], store[x]) = OK
      <4>1. PICK id \in DOMAIN saved : OK \in Comparison(regTemplate, id) /\ x = IdOf(id)
        BY <3>1, <3>3 DEF Probes
      <4>2. x # StrayId /\ id # NewId
        BY <3>3, <4>1, EnrollAssumption DEF TypeInv, TypeOK
      <4>3. x = id /\ id # Nameless
        BY <3>3, <4>1, <4>2, NullLemma DEF IdOf, StoreInv
      <4>4. saved[id] = store[id]
        BY <2>1, <3>3, <4>1, <4>2, <4>3 DEF StoreInv
      <4>5. TemplateMatch(regTemplate, store[id]) = OK
        BY <3>3, <4>1, <4>3, <4>4 DEF Comparison, DriverMatch
      <4>6. regTemplate[1] = templates[0][1]
        BY <2>1, <3>3 DEF RegInv
      <4>7. QED
        BY <4>3, <4>5, <4>6 DEF TemplateMatch
    <3>4. SuccessRecognised'
      BY <2>1, <3>2, <3>3 DEF SuccessRecognised
    <3>5. QED
      BY <2>1, <2>3, <3>2, <3>4 DEF StoreInv
  <2>4. QED
    BY <1>7, <2>2, <2>3 DEF Check
<1>8. CASE Save
  BY <1>8, SaveStore
<1>9. CASE Out
  <2>1. status'.message # "success"
    BY <1>9 DEF Out, Signal
  <2>2. QED
    BY <1>1, <1>9, <2>1 DEF Out
<1>10. CASE Free
  BY <1>1, <1>10 DEF Free, Ended
<1>11. CASE Withdraw
  BY <1>1, <1>11 DEF Withdraw, Ended
<1>12. ASSUME NEW id \in AllIds, RemoveFprint(id) PROVE StoreInv'
  <2>1. /\ DOMAIN store' = DOMAIN store \ {id} /\ unread' = unread \ {id}
        /\ \A x \in DOMAIN store' : store'[x] = store[x]
        /\ UNCHANGED <<internal, fp_action, pc, saved, templates, regTemplate,
                       status>>
    BY <1>12 DEF RemoveFprint
  <2>2. SuccessRecognised'
    BY <2>1 DEF StoreInv, SuccessRecognised
  <2>3. Apart(store, DOMAIN store \ (unread \cup {NewId})) /\ NewId \in DOMAIN store'
          => Apart(store', DOMAIN store' \ (unread' \cup {NewId}))
    BY <2>1 DEF Apart
  <2>4. QED
    BY <2>1, <2>2, <2>3 DEF StoreInv, Ended
<1>13. CASE UNCHANGED vars
  BY <1>1, <1>13 DEF vars, Ended
<1>14. QED
  BY <1>2, <1>3, <1>4, <1>5, <1>6, <1>7, <1>8, <1>9, <1>10, <1>11, <1>12, <1>13
     DEF Next, WorkerNext

LEMMA InitEnroll == Init => EnrollInv
<1> SUFFICES ASSUME Init PROVE EnrollInv
  OBVIOUS
<1>1. TypeInv
  BY InitTypes
<1>2. NewId \notin DOMAIN store
  BY <1>1 DEF TypeInv, Init
<1>3. Nameless \in DOMAIN store => store[Nameless] = NULL
  BY DEF Init, EarlierStores
<1>4. DOMAIN saved = {}
  BY DEF Init
<1>5. NULL \in CleanCaptures
  BY DEF CleanCaptures
<1>6. QED
  BY <1>1, <1>2, <1>3, <1>4, <1>5
     DEF Init, EnrollInv, CollectInv, RegInv, StoreInv, SuccessRecognised, Indices,
         FAIL, COMPLETE, Ended

LEMMA EnrollStep == EnrollInv /\ [Next]_vars => EnrollInv'
BY TypeStep, CollectStep, RegStep, StoreStep DEF EnrollInv

LEMMA EnrollCorrect == Spec => []EnrollInv
BY InitEnroll, EnrollStep, PTL DEF Spec

\* Every variable keeps its type: an enrolment that is given a finger for ever
\* neither writes beside the array of templates nor loses count of the stages.
THEOREM TypeCorrect == Spec => []TypeOK
<1>1. EnrollInv => TypeOK
  BY DEF EnrollInv, TypeInv
<1>2. QED
  BY <1>1, EnrollCorrect, PTL

\* The id a client is given on success is that of a template that recognises the
\* finger it collected first, although files are deleted beside the enrolment,
\* some could not be read and some are not whole.
THEOREM SuccessRecognisedCorrect == Spec => []SuccessRecognised
<1>1. EnrollInv => SuccessRecognised
  BY DEF EnrollInv, StoreInv
<1>2. QED
  BY <1>1, EnrollCorrect, PTL

LEMMA OneFingerCount ==
  ASSUME NEW t \in Seq(Features), OneFinger(t)
  PROVE  Cardinality(FingersOf(t)) <= 1
<1>1. CASE t = << >>
  <2>1. FingersOf(t) = {}
    BY <1>1 DEF FingersOf
  <2>2. QED
    BY <2>1, FS_EmptySet
<1>2. CASE t # << >>
  <2>1. 1 \in DOMAIN t
    BY <1>2, EmptySeq
  <2>2. FingersOf(t) = {t[1]}
    BY <2>1 DEF FingersOf, OneFinger
  <2>3. Cardinality({t[1]}) = 1
    BY FS_Singleton
  <2>4. QED
    BY <2>2, <2>3
<1>3. QED
  BY <1>1, <1>2

\* Only a withdrawal writes the action while an enrolment runs, and it writes no
\* file.
LEMMA ActionKept ==
  ASSUME [Next]_vars
  PROVE  UNCHANGED internal /\ (UNCHANGED fp_action \/ UNCHANGED store)
BY DEF Next, WorkerNext, Load, LoopHead, LoopExit, Capture, Assemble, Check, Save,
       Out, Free, Withdraw, RemoveFprint, env, vars

\* An enrolment that was not withdrawn stores the features of one finger, for
\* any fingers placed in any order.
THEOREM OneFingerStoredCorrect == Spec => OneFingerStored
<1>1. EnrollInv /\ EnrollInv' /\ [Next]_vars =>
        [(fp_action = "FP_ACTION_ENROLL" /\ NewId \in DOMAIN store')
           => Cardinality(FingersOf(store'[NewId])) <= 1]_vars
  <2> SUFFICES ASSUME EnrollInv, EnrollInv', [Next]_vars,
                      fp_action = "FP_ACTION_ENROLL", NewId \in DOMAIN store'
               PROVE  Cardinality(FingersOf(store'[NewId])) <= 1
    OBVIOUS
  <2>1. OneFinger(store'[NewId])
    BY ActionKept DEF EnrollInv, StoreInv
  <2>2. store'[NewId] \in Seq(Features)
    BY DEF EnrollInv, TypeInv, TypeOK
  <2>3. QED
    BY <2>1, <2>2, OneFingerCount
<1>2. QED
  BY <1>1, EnrollCorrect, PTL DEF Spec, OneFingerStored

\* The finger of a new file is in no file that was read, unless the collection was
\* withdrawn, however many files there are and whichever are deleted.
THEOREM NoDuplicateFingerCorrect == Spec => NoDuplicateFinger
<1>1. EnrollInv /\ EnrollInv' /\ [Next]_vars =>
        [fp_action = "FP_ACTION_ENROLL" /\ ~internal /\ NewId \in DOMAIN store' =>
           \A id \in DOMAIN store' \ (unread' \cup {NewId}) :
             Readable(store'[id]) =>
               FingersOf(store'[NewId]) \cap FingersOf(store'[id]) = {}]_vars
  <2> SUFFICES ASSUME EnrollInv, EnrollInv', [Next]_vars,
                      fp_action = "FP_ACTION_ENROLL", ~internal,
                      NewId \in DOMAIN store', UNCHANGED fp_action
               PROVE  Apart(store', DOMAIN store' \ (unread' \cup {NewId}))
    <3>1. ASSUME EnrollInv, fp_action = "FP_ACTION_ENROLL", ~internal,
                 NewId \in DOMAIN store', UNCHANGED <<internal, store, unread>>
          PROVE  Apart(store', DOMAIN store' \ (unread' \cup {NewId}))
      BY <3>1 DEF EnrollInv, StoreInv
    <3>2. ASSUME [Next]_vars, ~UNCHANGED fp_action
          PROVE  UNCHANGED <<internal, store, unread>>
      BY <3>2 DEF Next, WorkerNext, Load, LoopHead, LoopExit, Capture, Assemble,
                  Check, Save, Out, Free, Withdraw, RemoveFprint, env, loop, read, vars
    <3>3. QED
      BY <3>1, <3>2 DEF Apart
  <2>1. UNCHANGED internal
    BY ActionKept
  <2>2. QED
    BY <2>1 DEF EnrollInv, StoreInv
<1>2. QED
  BY <1>1, EnrollCorrect, PTL DEF Spec, NoDuplicateFinger

------------------------------------------------------------------------------
(* Progress *)

\* Progress does not fall as templates and stages are added.
LEMMA PromptedLemma ==
  ASSUME NEW a \in Nat, NEW b \in Nat, NEW c \in Nat, NEW d \in Nat,
         a <= c, b <= d
  PROVE  /\ Prompted(a, b) \in Nat /\ Prompted(c, d) \in Nat
         /\ Prompted(a, b) <= Prompted(c, d)
BY DEF Prompted, AtMost

\* What prompts are made of.
LEMMA ProgressTypes ==
  ASSUME TypeInv
  PROVE  /\ i \in Nat /\ enroll_number \in Nat /\ Stages \in Nat
         /\ enroll_number <= Stages
         /\ status.progress \in Nat
         /\ Prompted(i, enroll_number) \in Nat /\ Prompted(i, Stages) \in Nat
<1>1. status.progress \in 0 .. 100
  BY DEF TypeInv, TypeOK
<1>2. /\ i \in Nat /\ enroll_number \in Nat /\ Stages \in Nat
      /\ enroll_number <= Stages /\ i <= i
  BY DEF TypeInv, TypeOK, Stages
<1>3. status.progress \in Nat
  BY <1>1
<1>4. Prompted(i, enroll_number) \in Nat /\ Prompted(i, Stages) \in Nat
  BY <1>2, PromptedLemma
<1>5. QED
  BY <1>2, <1>3, <1>4

LEMMA ProgressStep ==
  ASSUME TypeInv, CollectInv, ProgressInv, [Next]_vars
  PROVE  ProgressInv'
<1> USE DEF env, loop, read, NoSignal, Collecting
<1>1. CASE Load
  BY <1>1 DEF Load, ProgressInv, Stages
<1>2. CASE LoopHead
  <2>1. /\ status'.progress = Prompted(i, Stages)
        /\ i' = i /\ enroll_number' = Stages /\ pc' = "capture"
    BY <1>2 DEF LoopHead, Signal, Prompted
  <2>2. status'.progress <= Prompted(i', enroll_number')
    BY <2>1, ProgressTypes
  <2>3. QED
    BY <2>1, <2>2 DEF ProgressInv
<1>3. CASE LoopExit
  BY <1>3 DEF LoopExit, ProgressInv
<1>4. CASE Capture
  <2>1. PICK acquired \in DriverAcquire(internal, Fingers,
                                       fp_action # "FP_ACTION_ENROLL") :
          \E verdict \in Verdicts(acquired[1], acquired[2]) :
            LET r == acquired[1]
            IN  /\ i' = NextIndex(r, verdict)
                /\ pc' = IF LeavesLoop(r) THEN "assemble" ELSE "loop"
    BY <1>4 DEF Capture
  <2> DEFINE r == acquired[1]
  <2>2. pc = "capture" /\ UNCHANGED <<internal, enroll_number, status>>
    BY <1>4 DEF Capture
  <2>3. r \in IF internal THEN {COMPLETE, PASS, RETRY, FAIL} ELSE {OK, FAIL}
    BY AcquireLemma
  <2>4. i' \in {i, i + 1} \/ (i' = 0 /\ ~internal)
    <3>1. internal => r # OK
      BY <2>3 DEF OK, COMPLETE, PASS, RETRY, FAIL
    <3>2. QED
      BY <2>1, <3>1 DEF NextIndex
  <2>5. pc' # "capture"
    BY <2>1
  <2>6. CASE i' = 0 /\ ~internal
    BY <2>2, <2>5, <2>6 DEF ProgressInv
  <2>7. CASE i' \in {i, i + 1}
    <3>1. /\ i \in Nat /\ i' \in Nat /\ enroll_number \in Nat /\ Stages' \in Nat
          /\ i <= i' /\ enroll_number <= Stages'
      BY <2>2, <2>7, ProgressTypes DEF Stages
    <3>2. /\ Prompted(i, enroll_number) \in Nat /\ Prompted(i', Stages') \in Nat
          /\ Prompted(i, enroll_number) <= Prompted(i', Stages')
      BY <3>1, PromptedLemma
    <3>3. status.progress <= Prompted(i, enroll_number) /\ status.progress \in Nat
      BY <2>2, ProgressTypes DEF ProgressInv
    <3>4. status'.progress <= Prompted(i', Stages')
      BY <2>2, <3>2, <3>3
    <3>5. QED
      BY <2>5, <3>4 DEF ProgressInv
  <2>8. QED
    BY <2>4, <2>6, <2>7
<1>5. CASE Assemble \/ Check \/ Save \/ Out \/ Free
  <2>1. pc' \notin {"load", "loop", "capture"}
    BY <1>5 DEF Assemble, Check, Save, Written, NotWritten, Out, Free
  <2>2. QED
    BY <2>1 DEF ProgressInv
<1>6. CASE Withdraw
  BY <1>6 DEF Withdraw, ProgressInv, Stages
<1>7. ASSUME NEW id \in AllIds, RemoveFprint(id) PROVE ProgressInv'
  BY <1>7 DEF RemoveFprint, ProgressInv, Stages
<1>8. CASE UNCHANGED vars
  BY <1>8 DEF vars, ProgressInv, Stages
<1>9. QED
  BY <1>1, <1>2, <1>3, <1>4, <1>5, <1>6, <1>7, <1>8 DEF Next, WorkerNext

\* Progress falls only when a finger did not match and the collection starts
\* again, or in a final signal; a device that collects by itself never makes it
\* fall.
THEOREM ProgressFallsOnRestartCorrect == Spec => ProgressFallsOnRestart
<1>1. Init => ProgressInv
  BY DEF Init, ProgressInv, Stages, Prompted, AtMost, FAIL, PASS
<1>2. EnrollInv /\ ProgressInv /\ [Next]_vars => ProgressInv'
  BY ProgressStep DEF EnrollInv
<1>3. EnrollInv /\ ProgressInv /\ [Next]_vars =>
        [status'.progress < status.progress
           => status'.done \/ (i = 0 /\ ~internal)]_vars
  <2> SUFFICES ASSUME EnrollInv, ProgressInv, [Next]_vars,
                      status'.progress < status.progress
               PROVE  status'.done \/ (i = 0 /\ ~internal)
    OBVIOUS
  <2>1. /\ status.progress \in Nat
        /\ Prompted(i, Stages) \in Nat
    BY ProgressTypes DEF EnrollInv
  <2>2. CASE UNCHANGED status
    BY <2>1, <2>2
  <2>3. CASE LoopHead
    <3>1. status'.progress = Prompted(i, Stages) /\ pc = "loop"
      BY <2>3 DEF LoopHead, Signal, Prompted
    <3>2. QED
      BY <2>1, <3>1 DEF ProgressInv, Collecting
  <2>4. CASE \E message, id, progress : Signal(message, id, progress, TRUE)
    BY <2>4 DEF Signal
  <2>5. QED
    BY <2>2, <2>3, <2>4
       DEF Next, WorkerNext, Load, LoopExit, Capture, Assemble, Check, Save, Out,
           Free, Withdraw, RemoveFprint, NoSignal, Recognise, Success, Written,
           NotWritten, vars
<1>4. QED
  BY <1>1, <1>2, <1>3, EnrollCorrect, PTL DEF Spec, ProgressFallsOnRestart

------------------------------------------------------------------------------
(* The promise *)

LEMMA PromiseInit == Init => Promise!Init
<1> SUFFICES ASSUME Init PROVE Promise!Init
  OBVIOUS
<1>1. DOMAIN store \in SUBSET EarlierIds
  BY DEF Init, EarlierStores
<1>2. QED
  BY <1>1 DEF Init, Promise!Init, Ended, Sure

LEMMA PromisePrompt == ASSUME TypeInv, LoopHead PROVE Promise!Prompt
<1> DEFINE progress == AtMost(99, 25 * i + 8 * enroll_number')
<1>1. enroll_number' \in Nat
  BY DEF LoopHead, Stages, TypeInv, TypeOK
<1>2. 25 * i + 8 * enroll_number' \in Nat
  <2>1. ASSUME NEW a \in Nat, NEW b \in Nat PROVE 25 * a + 8 * b \in Nat
    OBVIOUS
  <2>2. i \in Nat
    BY DEF TypeInv, TypeOK
  <2>3. QED
    BY <1>1, <2>1, <2>2
<1>3. progress \in 0 .. 99
  BY <1>2 DEF AtMost
<1>4. Promise!Say(NoId, progress, FALSE)
  BY DEF LoopHead, Signal, Promise!Say
<1>5. /\ pc = "loop" /\ pc' = "capture"
      /\ UNCHANGED <<internal, fp_action, store, saved>>
  BY DEF LoopHead, env, read
<1>6. QED
  BY <1>3, <1>4, <1>5 DEF Promise!Prompt, Ended, Sure

LEMMA PromiseLoad ==
  ASSUME StoreInv, Load
  PROVE  Promise!Read \/ Promise!Abandon
<1>1. /\ pc = "load" /\ pc' \in {"out", "loop"}
      /\ UNCHANGED <<internal, fp_action, store, status>>
      /\ DOMAIN saved' \subseteq DOMAIN store
  BY DEF Load, ReadSome, env, NoSignal
<1>2. Sure' => Sure
  BY <1>1 DEF Sure, StoreInv
<1>3. Sure' \in {Sure, FALSE}
  BY <1>2 DEF Sure
<1>4. Promise!Look
  BY <1>1, <1>3 DEF Promise!Look
<1>5. QED
  BY <1>1, <1>4 DEF Promise!Read, Promise!Abandon, Ended

LEMMA PromiseCheck ==
  ASSUME StoreInv, Recognise, pc = "check", pc' = "free",
         UNCHANGED <<internal, fp_action, store, saved>>
  PROVE  Promise!Recognise
<1>1. PICK x : Success(x) /\ (\/ internal /\ x = NoId
                              \/ \E id \in DOMAIN saved : x = IdOf(id))
  BY DEF Recognise
<1>2. x \in DOMAIN saved \/ (~Sure /\ x \in {NoId, StrayId})
  BY <1>1 DEF Sure, IdOf
<1>3. Promise!Say(x, 100, TRUE)
  BY <1>1 DEF Success, Signal, Promise!Say
<1>4. UNCHANGED Sure
  BY DEF Sure
<1>5. QED
  BY <1>2, <1>3, <1>4 DEF Promise!Recognise, Ended

LEMMA PromiseSave ==
  ASSUME RegInv, Save
  PROVE  Promise!Enrol \/ Promise!Abandon
<1>1. /\ pc = "save"
      /\ UNCHANGED <<internal, fp_action, saved>>
      /\ UNCHANGED Sure
  BY DEF Save, loop, read, Sure
<1>2. CASE (CreateFile(regTemplate) \/ CreateFile(NULL)) /\ Written
  <2>1. /\ DOMAIN store' = DOMAIN store \cup {FileName} /\ pc' = "free"
        /\ Promise!Say(IF regTemplate = NULL THEN NoId ELSE NewId, 100, TRUE)
    BY <1>2, WrittenLemma DEF Written, Success, Signal, Promise!Say
  <2>2. regTemplate = NULL => ~Sure
    BY <1>1 DEF RegInv, Sure, Readable
  <2>3. QED
    BY <1>1, <2>1, <2>2 DEF Promise!Enrol, FileName, Ended
<1>3. CASE UNCHANGED store /\ NotWritten
  <2>1. Promise!Look
    BY <1>1, <1>3 DEF Promise!Look, NotWritten, Sure
  <2>2. QED
    BY <1>1, <1>3, <2>1 DEF Promise!Abandon, NotWritten, NoSignal, Ended
<1>4. CASE regTemplate # NULL /\ CreateFile(NULL) /\ NotWritten
  <2>1. DOMAIN store' = DOMAIN store \cup {NewId}
    BY <1>4, WrittenLemma DEF FileName
  <2>2. Promise!Look
    BY <1>1, <1>4 DEF Promise!Look, NotWritten, Sure
  <2>3. QED
    BY <1>1, <1>4, <2>1, <2>2 DEF Promise!Abandon, NotWritten, NoSignal, Ended
<1>5. QED
  BY <1>2, <1>3, <1>4 DEF Save

LEMMA PromiseStep == EnrollInv /\ [Next]_vars => [Promise!Next]_(Promise!vars)
<1> SUFFICES ASSUME EnrollInv, [Next]_vars
             PROVE  Promise!Next \/ UNCHANGED Promise!vars
  OBVIOUS
<1> USE DEF Ended, NoSignal, env, loop, read, Sure, Promise!vars
<1>1. CASE Load
  BY <1>1, PromiseLoad DEF EnrollInv, Promise!Next
<1>2. CASE LoopHead
  BY <1>2, PromisePrompt DEF EnrollInv, Promise!Next
<1>3. CASE LoopExit
  BY <1>3 DEF LoopExit
<1>4. CASE Capture
  <2>1. pc = "capture" /\ pc' \in {"assemble", "loop"}
    BY <1>4 DEF Capture
  <2>2. UNCHANGED <<internal, fp_action, store, saved, status>>
    BY <1>4 DEF Capture
  <2>3. QED
    BY <2>1, <2>2
<1>5. CASE Assemble
  <2>1. pc = "assemble" /\ pc' \in {"check", "out"}
    BY <1>5 DEF Assemble
  <2>2. UNCHANGED <<internal, fp_action, store, saved, status>>
    BY <1>5 DEF Assemble
  <2>3. CASE pc' = "check"
    BY <2>1, <2>2, <2>3
  <2>4. CASE pc' = "out"
    BY <2>1, <2>2, <2>4 DEF Promise!Next, Promise!Abandon, Promise!Look
  <2>5. QED
    BY <2>1, <2>3, <2>4
<1>6. CASE Check
  <2>1. pc = "check" /\ UNCHANGED <<internal, fp_action, store, saved>>
    BY <1>6 DEF Check
  <2>2. CASE pc' = "save" /\ NoSignal
    BY <2>1, <2>2
  <2>3. CASE Recognise /\ pc' = "free"
    BY <2>1, <2>3, PromiseCheck DEF EnrollInv, Promise!Next
  <2>4. QED
    BY <1>6, <2>2, <2>3 DEF Check
<1>7. CASE Save
  BY <1>7, PromiseSave DEF EnrollInv, Promise!Next
<1>8. CASE Out
  <2>1. /\ pc = "out" /\ pc' = "free"
        /\ UNCHANGED <<internal, fp_action, store, saved>>
    BY <1>8 DEF Out
  <2>2. Promise!Say(NoId, 0, TRUE)
    BY <1>8 DEF Out, Signal, Promise!Say
  <2>3. QED
    BY <2>1, <2>2 DEF Promise!Next, Promise!Fail
<1>9. CASE Free
  BY <1>9 DEF Free
<1>10. CASE Withdraw
  BY <1>10 DEF Withdraw, Promise!Withdraw, Promise!Next
<1>11. ASSUME NEW id \in AllIds, RemoveFprint(id) PROVE Promise!Remove
  <2>1. /\ id \in DOMAIN store
        /\ DOMAIN store' = DOMAIN store \ {id}
        /\ UNCHANGED <<internal, fp_action, pc, saved, status>>
    BY <1>11 DEF RemoveFprint
  <2>2. QED
    BY <2>1 DEF Promise!Remove
<1>12. CASE UNCHANGED vars
  BY <1>12 DEF vars
<1>13. QED
  BY <1>1, <1>2, <1>3, <1>4, <1>5, <1>6, <1>7, <1>8, <1>9, <1>10, <1>11, <1>12
     DEF Next, WorkerNext, Promise!Next

\* Every enrolment sends the signals and leaves the files that clients are
\* promised, whenever it is withdrawn, whatever the driver returns and whichever
\* write fails or file is deleted.
THEOREM Refinement == Spec => KeepsPromise
BY PromiseInit, EnrollCorrect, PromiseStep, PTL DEF Spec, KeepsPromise, Promise!Spec
==============================================================================
