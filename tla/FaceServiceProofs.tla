-------------------------- MODULE FaceServiceProofs --------------------------
(***************************************************************************)
(* Proofs about the face half of the service, for any number of capture    *)
(* threads and of faces an enrolment collects (FaceAssumption).            *)
(***************************************************************************)
EXTENDS FaceService, Integers, TLAPS

\* A Start has opened the camera and not yet created the thread that uses it.
Opening == {"arm", "count", "busy", "action", "create"}

CameraUser(t) == pc[t] \in InCamera

\* The inductive invariant behind the camera's: a session that is in progress
\* has a thread in its loop, and the pointer to it, when it is not NULL, is the
\* one a Stop reads and joins.  The pointer may be NULL: the callback of an
\* earlier session clears it late.
CameraInv ==
  /\ OneCapture
  /\ mpc # "crashed" =>
       /\ mpc \in Opening => camera = "open" /\ \A t \in Threads : ~CameraUser(t)
       /\ face_action # "ACTION_NONE" =>
            mpc = "create" \/ \E t \in Threads : pc[t] = "loop"
       /\ mpc \in {"store", "read", "join"} /\ camera = "open" =>
            \E t \in Threads : CameraUser(t)
       /\ \A t \in Threads : CameraUser(t) =>
            /\ mpc \in {"store", "join"} => mthread = t
            /\ mpc # "store" => face_capture_thread \in {t, NoThread}

\* The inductive invariant behind types, images and progress: a Start knows what
\* it starts and a callback what it joins; a count that is not zero comes with
\* images, and has reached its limit only on the way to being reset.
Collecting == {"wait", "enroll", "quality", "counted", "verify", "compare", "done"}
Callback   == {"cb_action", "cb_read", "cb_join", "cb_null", "cb_busy"}

CountInv ==
  /\ mpc \in Opening => op \in Kinds
  /\ enroll_face_count > 0 => images # {}
  /\ hpc = "counted" => images # {}
  /\ SaveHasImages
  /\ hpc \in Collecting => enroll_face_count < ENROLL_FACE_NUM
  /\ hpc \in Callback =>
       /\ hop \in Kinds
       /\ hop = "FACE_ACTION_VERIFY" => enroll_face_count < ENROLL_FACE_NUM
       /\ hpc = "cb_join" => hthread # NoThread

------------------------------------------------------------------------------
(* Types and counts *)

\* A reset of the count, whether or not an increment swallows it.
LEMMA ResetLemma ==
  ASSUME TypeOK, ResetCount
  PROVE  /\ enroll_face_count' \in 0 .. ENROLL_FACE_NUM
         /\ enroll_face_count' \in {0, enroll_face_count}
BY FaceAssumption DEF TypeOK, ResetCount

LEMMA FreedLemma ==
  ASSUME NEW t, NEW pointer \in Pointers
  PROVE  Freed(t, pointer) \in Pointers
BY DEF Freed, Pointers

\* Types and counts are proved together: the count stays within its limit only
\* because the handling thread collects below it.
LEMMA MainCounts == ASSUME TypeOK, CountInv, MainNext PROVE TypeOK' /\ CountInv'
<1> USE FaceAssumption
    DEF TypeOK, CountInv, SaveHasImages, service, flags, data, main, handler,
        MainGoto, Answered, Opening
<1>1. ASSUME NEW k \in Kinds, StartCamera(k) PROVE TypeOK' /\ CountInv'
  BY <1>1 DEF StartCamera
<1>2. CASE ArmFails
  BY <1>2 DEF ArmFails, Pointers
<1>3. CASE ArmEnroll
  <2>1. do_enroll' \in BOOLEAN
    BY <1>3 DEF ArmEnroll
  <2>2. TypeOK'
    BY <1>3, <2>1 DEF ArmEnroll, Ages
  <2>3. CountInv'
    BY <1>3 DEF ArmEnroll, Ages
  <2>4. QED
    BY <2>2, <2>3
<1>4. CASE ArmCount
  BY <1>4, ResetLemma DEF ArmCount
<1>5. CASE ArmVerify
  BY <1>5 DEF ArmVerify
<1>6. CASE SetBusy
  BY <1>6 DEF SetBusy
<1>7. CASE SetAction
  <2>1. TypeOK'
    BY <1>7 DEF SetAction, Actions
  <2>2. CountInv'
    BY <1>7 DEF SetAction, Actions
  <2>3. QED
    BY <2>1, <2>2
<1>8. ASSUME NEW t \in Threads, CreateThread(t) PROVE TypeOK' /\ CountInv'
  BY <1>8 DEF CreateThread, Pointers, InCamera
<1>9. CASE StoreThread
  BY <1>9 DEF StoreThread, Pointers
<1>10. ASSUME NEW k \in Kinds, StopBegin(k) PROVE TypeOK' /\ CountInv'
  BY <1>10 DEF StopBegin, Actions
<1>11. CASE StopRead
  BY <1>11 DEF StopRead
<1>12. CASE StopJoin
  BY <1>12, FreedLemma DEF StopJoin, Freed, Pointers
<1>13. CASE StopJoinFreed
  BY <1>13 DEF StopJoinFreed, Pointers
<1>14. CASE StopNull
  BY <1>14 DEF StopNull, Pointers
<1>15. CASE StopUnbusy
  <2>1. face_busy' \in BOOLEAN
    BY <1>15 DEF StopUnbusy
  <2>2. TypeOK'
    BY <1>15, <2>1 DEF StopUnbusy, Pointers
  <2>3. CountInv'
    BY <1>15 DEF StopUnbusy, Pointers
  <2>4. QED
    BY <2>2, <2>3
<1>16. QED
  BY <1>1, <1>2, <1>3, <1>4, <1>5, <1>6, <1>7, <1>8, <1>9, <1>10, <1>11, <1>12,
     <1>13, <1>14, <1>15 DEF MainNext, MainStep

LEMMA CaptureCounts ==
  ASSUME TypeOK, CountInv, NEW t \in Threads, Capture(t) \/ CaptureStep(t)
  PROVE  TypeOK' /\ CountInv'
<1> USE FaceAssumption
    DEF TypeOK, CountInv, SaveHasImages, service, flags, data, main, handler,
        Goto, InCamera, Opening
<1>1. CASE Capture(t)
  <2>1. detect_image' \in BOOLEAN
    BY <1>1 DEF Capture
  <2>2. TypeOK'
    BY <1>1, <2>1 DEF Capture
  <2>3. CountInv'
    BY <1>1 DEF Capture
  <2>4. QED
    BY <2>2, <2>3
<1>2. CASE LeaveLoop(t)
  BY <1>2 DEF LeaveLoop
<1>3. CASE StopEnroll(t)
  <2>1. do_enroll' \in BOOLEAN
    BY <1>3 DEF StopEnroll
  <2>2. TypeOK'
    BY <1>3, <2>1 DEF StopEnroll
  <2>3. CountInv'
    BY <1>3 DEF StopEnroll
  <2>4. QED
    BY <2>2, <2>3
<1>4. CASE StopVerify(t)
  <2>1. do_verify' \in BOOLEAN
    BY <1>4 DEF StopVerify
  <2>2. TypeOK'
    BY <1>4, <2>1 DEF StopVerify
  <2>3. CountInv'
    BY <1>4 DEF StopVerify
  <2>4. QED
    BY <2>2, <2>3
<1>5. CASE StopCount(t)
  BY <1>5, ResetLemma DEF StopCount
<1>6. CASE Release(t)
  BY <1>6 DEF Release
<1>7. CASE ClearBusy(t)
  <2>1. face_busy' \in BOOLEAN
    BY <1>7 DEF ClearBusy
  <2>2. TypeOK'
    BY <1>7, <2>1 DEF ClearBusy
  <2>3. CountInv'
    BY <1>7 DEF ClearBusy
  <2>4. QED
    BY <2>2, <2>3
<1>8. CASE ClearAction(t)
  BY <1>8 DEF ClearAction, Actions
<1>9. QED
  BY <1>1, <1>2, <1>3, <1>4, <1>5, <1>6, <1>7, <1>8 DEF CaptureStep

LEMMA HandlerCounts ==
  ASSUME TypeOK, CountInv, HandlerNext PROVE TypeOK' /\ CountInv'
<1> USE FaceAssumption
    DEF TypeOK, CountInv, SaveHasImages, service, flags, data, main, handler,
        HandlerGoto, Opening, Collecting, Callback, Kinds
<1>1. CASE HandleBegin
  BY <1>1 DEF HandleBegin
<1>2. CASE FaceRejected
  BY <1>2 DEF FaceRejected
<1>3. CASE FaceCollected
  BY <1>3 DEF FaceCollected, Ages
<1>4. CASE CountFace
  BY <1>4 DEF CountFace
<1>5. CASE TestFull
  BY <1>5 DEF TestFull
<1>6. CASE SaveFaces
  <2>1. do_enroll' \in BOOLEAN
    BY <1>6 DEF SaveFaces
  <2>2. TypeOK'
    BY <1>6, <2>1 DEF SaveFaces
  <2>3. CountInv'
    BY <1>6 DEF SaveFaces
  <2>4. QED
    BY <2>2, <2>3
<1>7. CASE SaveFails
  <2>1. do_enroll' \in BOOLEAN
    BY <1>7 DEF SaveFails
  <2>2. TypeOK'
    BY <1>7, <2>1 DEF SaveFails
  <2>3. CountInv'
    BY <1>7 DEF SaveFails
  <2>4. QED
    BY <2>2, <2>3
<1>8. CASE ResetEnroll
  BY <1>8 DEF ResetEnroll
<1>9. CASE HandleVerify
  BY <1>9 DEF HandleVerify
<1>10. CASE FaceMatches
  <2>1. do_verify' \in BOOLEAN
    BY <1>10 DEF FaceMatches
  <2>2. TypeOK'
    BY <1>10, <2>1 DEF FaceMatches
  <2>3. CountInv'
    BY <1>10 DEF FaceMatches
  <2>4. QED
    BY <2>2, <2>3
<1>11. CASE FaceDiffers
  BY <1>11 DEF FaceDiffers
<1>12. CASE HandleEnd
  BY <1>12 DEF HandleEnd
<1>13. CASE CallbackAction
  BY <1>13 DEF CallbackAction, Actions
<1>14. CASE CallbackRead
  BY <1>14 DEF CallbackRead
<1>15. CASE CallbackJoin
  BY <1>15, FreedLemma DEF CallbackJoin, Pointers
<1>16. CASE CallbackJoinFreed
  BY <1>16 DEF CallbackJoinFreed, Pointers
<1>17. CASE CallbackNull
  BY <1>17 DEF CallbackNull, Pointers
<1>18. CASE CallbackBusy
  <2>1. face_busy' \in BOOLEAN
    BY <1>18 DEF CallbackBusy
  <2>2. TypeOK'
    BY <1>18, <2>1 DEF CallbackBusy
  <2>3. CountInv'
    BY <1>18 DEF CallbackBusy
  <2>4. QED
    BY <2>2, <2>3
<1>19. QED
  BY <1>1, <1>2, <1>3, <1>4, <1>5, <1>6, <1>7, <1>8, <1>9, <1>10, <1>11, <1>12,
     <1>13, <1>14, <1>15, <1>16, <1>17, <1>18 DEF HandlerNext

LEMMA CountStep == TypeOK /\ CountInv /\ [Next]_vars => TypeOK' /\ CountInv'
<1> SUFFICES ASSUME TypeOK, CountInv, [Next]_vars PROVE TypeOK' /\ CountInv'
  OBVIOUS
<1>1. CASE DetectNothing
  <2>1. detect_image' \in BOOLEAN
    BY <1>1 DEF DetectNothing
  <2>2. TypeOK'
    BY <1>1, <2>1 DEF DetectNothing, TypeOK, service, flags, main, handler
  <2>3. CountInv'
    BY <1>1 DEF DetectNothing, CountInv, SaveHasImages, main, flags, handler
  <2>4. QED
    BY <2>2, <2>3
<1>2. CASE DetectFace
  <2>1. detect_image' \in BOOLEAN
    BY <1>2 DEF DetectFace
  <2>2. TypeOK'
    BY <1>2, <2>1 DEF DetectFace, TypeOK, service, flags, main
  <2>3. CountInv'
    BY <1>2 DEF DetectFace, CountInv, SaveHasImages, service, flags, main,
                Opening, Collecting, Callback
  <2>4. QED
    BY <2>2, <2>3
<1>3. CASE UNCHANGED vars
  BY <1>3 DEF vars, TypeOK, CountInv, SaveHasImages, service, flags, data, main,
              handler
<1>4. QED
  BY <1>1, <1>2, <1>3, MainCounts, CaptureCounts, HandlerCounts DEF Next

LEMMA CountsCorrect == Spec => [](TypeOK /\ CountInv)
<1>1. Init => TypeOK /\ CountInv
  <2> SUFFICES ASSUME Init PROVE TypeOK /\ CountInv
    OBVIOUS
  <2>1. /\ face_busy \in BOOLEAN /\ detect_image \in BOOLEAN
        /\ do_enroll \in BOOLEAN /\ do_verify \in BOOLEAN
    BY DEF Init
  <2>2. TypeOK
    BY <2>1, FaceAssumption DEF Init, TypeOK, Actions, Pointers, Ages
  <2>3. CountInv
    BY FaceAssumption DEF Init, CountInv, SaveHasImages, Opening, Collecting, Callback
  <2>4. QED
    BY <2>2, <2>3
<1>2. QED
  BY <1>1, CountStep, PTL DEF Spec

\* Every variable keeps its type.
THEOREM TypeCorrect == Spec => []TypeOK
BY CountsCorrect, PTL

\* Whoever resets the count, and whenever, an enrolment that is saved has images.
THEOREM SaveHasImagesCorrect == Spec => []SaveHasImages
<1>1. CountInv => SaveHasImages
  BY DEF CountInv
<1>2. QED
  BY <1>1, CountsCorrect, PTL

\* Progress below the limit is below 100, also when 100 is no multiple of it.
LEMMA ProgressLemma ==
  ASSUME NEW count \in Nat, count < ENROLL_FACE_NUM
  PROVE  Progress(count) < 100
<1> DEFINE share == 100 \div ENROLL_FACE_NUM
<1>1. ENROLL_FACE_NUM \in 1 .. 100
  BY FaceAssumption
<1>2. share \in Nat /\ share > 0 /\ ENROLL_FACE_NUM * share <= 100
  BY <1>1
<1> HIDE DEF share
<1>3. count * share + share <= ENROLL_FACE_NUM * share
  BY <1>1, <1>2
<1>4. count * share < 100
  BY <1>1, <1>2, <1>3
<1>5. QED
  BY <1>4 DEF Progress, share

\* A face that is turned down is never reported with a progress of 100.
THEOREM NoFalseCompletionCorrect == Spec => []NoFalseCompletion
<1>1. TypeOK /\ CountInv => NoFalseCompletion
  BY ProgressLemma, FaceAssumption
     DEF TypeOK, CountInv, Collecting, NoFalseCompletion
<1>2. QED
  BY <1>1, CountsCorrect, PTL

------------------------------------------------------------------------------
(* The camera *)

LEMMA CameraFrame ==
  ASSUME CameraInv,
         UNCHANGED <<camera, face_action, face_capture_thread, pc, mpc, mthread>>
  PROVE  CameraInv'
BY DEF CameraInv, OneCapture, CameraUser, Opening

LEMMA MainCamera == ASSUME TypeOK, CameraInv, MainNext PROVE CameraInv'
<1> USE DEF CameraInv, OneCapture, CameraUser, Opening, service, MainGoto,
            Answered
<1>1. ASSUME NEW k \in Kinds, StartCamera(k) PROVE CameraInv'
  BY <1>1 DEF StartCamera, MayOpen, InCamera
<1>2. CASE ArmFails
  BY <1>2 DEF ArmFails
<1>3. CASE ArmEnroll
  BY <1>3 DEF ArmEnroll
<1>4. CASE ArmCount
  BY <1>4 DEF ArmCount
<1>5. CASE ArmVerify
  BY <1>5 DEF ArmVerify
<1>6. CASE SetBusy
  BY <1>6 DEF SetBusy
<1>7. CASE SetAction
  BY <1>7 DEF SetAction
<1>8. ASSUME NEW t \in Threads, CreateThread(t) PROVE CameraInv'
  BY <1>8 DEF CreateThread, TypeOK, InCamera
<1>9. CASE StoreThread
  BY <1>9 DEF StoreThread
<1>10. ASSUME NEW k \in Kinds, StopBegin(k) PROVE CameraInv'
  BY <1>10, FaceAssumption DEF StopBegin, Kinds, InCamera
<1>11. CASE StopRead
  BY <1>11 DEF StopRead
\* The thread that has been joined was the camera's user, if there was one.
<1>12. CASE StopJoin
  <2>1. \A t \in Threads : ~CameraUser(t)
    BY <1>12 DEF StopJoin, InCamera
  <2>2. face_action = "ACTION_NONE"
    BY <1>12, <2>1 DEF StopJoin, InCamera
  <2>3. QED
    BY <1>12, <2>1, <2>2 DEF StopJoin
<1>13. CASE StopJoinFreed
  BY <1>13, FaceAssumption DEF StopJoinFreed, InCamera
<1>14. CASE StopNull
  BY <1>14 DEF StopNull
<1>15. CASE StopUnbusy
  BY <1>15 DEF StopUnbusy
<1>16. QED
  BY <1>1, <1>2, <1>3, <1>4, <1>5, <1>6, <1>7, <1>8, <1>9, <1>10, <1>11, <1>12,
     <1>13, <1>14, <1>15 DEF MainNext, MainStep

LEMMA CaptureCamera ==
  ASSUME TypeOK, CameraInv, mpc # "crashed",
         NEW t \in Threads, Capture(t) \/ CaptureStep(t)
  PROVE  CameraInv'
<1> USE DEF TypeOK, CameraInv, OneCapture, CameraUser, Opening, InCamera,
            service, main, Goto
<1>1. CASE Capture(t)
  BY <1>1, CameraFrame DEF Capture
<1>2. CASE LeaveLoop(t)
  <2>1. camera = "open" /\ face_action = "ACTION_NONE"
    BY <1>2 DEF LeaveLoop
  <2>2. QED
    BY <1>2, <2>1 DEF LeaveLoop
<1>3. CASE StopEnroll(t)
  BY <1>3 DEF StopEnroll
<1>4. CASE StopVerify(t)
  BY <1>4 DEF StopVerify
<1>5. CASE StopCount(t)
  BY <1>5 DEF StopCount
\* The camera's only user lets go of it: no session is in progress any more.
<1>6. CASE Release(t)
  <2>1. \A s \in Threads : CameraUser(s) => s = t
    BY <1>6 DEF Release
  <2>2. face_action = "ACTION_NONE" /\ mpc \notin Opening
    BY <1>6, <2>1 DEF Release
  <2>3. QED
    BY <1>6, <2>1, <2>2 DEF Release
<1>7. CASE ClearBusy(t)
  BY <1>7 DEF ClearBusy
<1>8. CASE ClearAction(t)
  BY <1>8 DEF ClearAction
<1>9. QED
  BY <1>1, <1>2, <1>3, <1>4, <1>5, <1>6, <1>7, <1>8 DEF CaptureStep

\* The handling thread comes near the camera only in its callbacks.
LEMMA HandlerCamera ==
  ASSUME TypeOK, CountInv, CameraInv, HandlerNext PROVE CameraInv'
<1> USE DEF service, main, HandlerGoto
<1> USE CameraFrame
<1>1. CASE \/ HandleBegin \/ FaceRejected \/ FaceCollected \/ CountFace
           \/ TestFull \/ SaveFaces \/ SaveFails \/ ResetEnroll
  BY <1>1 DEF HandleBegin, FaceRejected, FaceCollected, CountFace, TestFull,
              SaveFaces, SaveFails, ResetEnroll
<1>2. CASE \/ HandleVerify \/ FaceMatches \/ FaceDiffers \/ HandleEnd
           \/ CallbackRead \/ CallbackBusy
  BY <1>2 DEF HandleVerify, FaceMatches, FaceDiffers, HandleEnd, CallbackRead,
              CallbackBusy
<1>3. CASE CallbackAction
  BY <1>3 DEF CallbackAction, CameraInv, OneCapture, CameraUser, Opening
\* The pointers to a thread that is still at work do not dangle.
<1>4. CASE CallbackJoin
  <2>1. hthread # NoThread
    BY <1>4 DEF CallbackJoin, CountInv, Callback
  <2>2. QED
    BY <1>4, <2>1 DEF CallbackJoin, Freed, CameraInv, OneCapture, CameraUser,
                        Opening, InCamera
<1>5. CASE CallbackJoinFreed
  BY <1>5 DEF CallbackJoinFreed, CameraInv, OneCapture, CameraUser
<1>6. CASE CallbackNull
  BY <1>6 DEF CallbackNull, CameraInv, OneCapture, CameraUser, Opening
<1>7. QED
  BY <1>1, <1>2, <1>3, <1>4, <1>5, <1>6 DEF HandlerNext

LEMMA CameraStep ==
  TypeOK /\ CountInv /\ CameraInv /\ [Next]_vars => CameraInv'
<1> SUFFICES ASSUME TypeOK, CountInv, CameraInv, [Next]_vars PROVE CameraInv'
  OBVIOUS
<1>1. CASE DetectNothing \/ DetectFace
  BY <1>1, CameraFrame DEF DetectNothing, DetectFace, service, main
<1>2. CASE UNCHANGED vars
  BY <1>2, CameraFrame DEF vars, service, main
<1>3. QED
  BY <1>1, <1>2, MainCamera, CaptureCamera, HandlerCamera DEF Next

LEMMA CameraCorrect == Spec => [](TypeOK /\ CameraInv)
<1>1. Init => CameraInv
  BY DEF Init, CameraInv, OneCapture, CameraUser, Opening, InCamera
<1>2. QED
  BY <1>1, CameraStep, CountsCorrect, PTL DEF Spec

\* However the main loop, the handling thread and old capture threads end
\* sessions across one another, no two capture threads ever have the camera, and
\* none has a released one.
THEOREM OneCaptureCorrect == Spec => []OneCapture
<1>1. CameraInv => OneCapture
  BY DEF CameraInv
<1>2. QED
  BY <1>1, CameraCorrect, PTL

\* A Stop that has joined a capture thread has waited for the one that had the
\* camera, so the camera is released when the client gets its answer.
THEOREM StopReleasesCameraCorrect == Spec => StopReleasesCamera
<1>1. TypeOK /\ CameraInv /\ [Next]_vars => [StopJoin => camera' = "closed"]_vars
  <2> SUFFICES ASSUME TypeOK, CameraInv, StopJoin PROVE camera' = "closed"
    OBVIOUS
  <2>1. \A t \in Threads : ~CameraUser(t)
    BY DEF CameraInv, CameraUser, StopJoin, InCamera
  <2>2. camera # "open"
    BY <2>1 DEF CameraInv, StopJoin
  <2>3. QED
    BY <2>2 DEF TypeOK, StopJoin
<1>2. QED
  BY <1>1, CameraCorrect, PTL DEF Spec, StopReleasesCamera
==============================================================================
