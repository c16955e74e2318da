----------------------------- MODULE FaceService -----------------------------
(***************************************************************************)
(* The face half of the biometrics service (built with HAVE_KIRAN_FACE) at *)
(* the level of its threads: the D-Bus handlers in the main loop, one      *)
(* capture thread per session (do_face_capture), and the detection and     *)
(* handling threads that live as long as the face manager (do_face_detect, *)
(* do_face_handle).  The handling thread emits the manager's signals, so   *)
(* the callbacks face_enroll_status_cb and face_verify_status_cb run in it,*)
(* beside the main loop, and end sessions from there.                      *)
(*                                                                         *)
(* The images an enrolment collects are reduced to when they were: "now" is *)
(* an image the running enrolment collected, "before" one that an earlier  *)
(* enrolment left in the list.                                             *)
(***************************************************************************)
EXTENDS Naturals

CONSTANTS
  Threads,          \* GThread objects of capture threads
  NoThread,         \* the NULL GThread pointer
  Dangling,         \* a pointer to a GThread that has been joined and freed
  ENROLL_FACE_NUM   \* faces an enrolment collects

ASSUME FaceAssumption ==
  /\ NoThread \notin Threads /\ Dangling \notin Threads \cup {NoThread}
  /\ ENROLL_FACE_NUM \in 1 .. 100

VARIABLES
  face_busy, face_action, face_capture_thread,   \* of the service
  camera, do_enroll, do_verify, enroll_face_count,
  images,         \* ages of the images in enroll_images
  detect_image,   \* whether the detection thread has been given an image
  mpc, op, mthread,   \* main loop: place, kind of session the call it handles
                      \* is about, thread it has in hand
  pc,                 \* place of each capture thread
  hpc, hop, hthread   \* handling thread: place, callback it is in, thread it
                      \* joins

service == <<face_busy, face_action, face_capture_thread>>
flags   == <<do_enroll, do_verify, enroll_face_count>>
data    == <<images, detect_image>>
main    == <<mpc, op, mthread>>
handler == <<hpc, hop, hthread>>
vars    == <<service, camera, flags, data, main, pc, handler>>

Kinds    == {"FACE_ACTION_ENROLL", "FACE_ACTION_VERIFY"}
Actions  == Kinds \cup {"ACTION_NONE"}
Pointers == Threads \cup {NoThread, Dangling}
Ages     == {"now", "before"}

\* Where a capture thread has the camera.
InCamera == {"loop", "stop_enroll", "stop_verify", "stop_count", "release"}

TypeOK ==
  /\ face_busy \in BOOLEAN
  /\ face_action \in Actions
  /\ face_capture_thread \in Pointers
  /\ camera \in {"open", "closed"}
  /\ do_enroll \in BOOLEAN /\ do_verify \in BOOLEAN
  /\ enroll_face_count \in 0 .. ENROLL_FACE_NUM
  /\ images \subseteq Ages
  /\ detect_image \in BOOLEAN
  /\ mpc \in {"idle", "arm", "count", "busy", "action", "create", "store",
              "read", "join", "null", "unbusy", "crashed"}
  /\ op \in Kinds \cup {"none"}
  /\ mthread \in Pointers
  /\ pc \in [Threads -> InCamera \cup {"clear_busy", "clear_action", "exited"}]
  /\ hpc \in {"wait", "enroll", "quality", "counted", "full", "save", "reset",
              "verify", "compare", "done",
              "cb_action", "cb_read", "cb_join", "cb_null", "cb_busy"}
  /\ hop \in Kinds \cup {"none"}
  /\ hthread \in Pointers

Init ==
  /\ face_busy = FALSE
  /\ face_action = "ACTION_NONE"
  /\ face_capture_thread = NoThread
  /\ camera = "closed"
  /\ do_enroll = FALSE /\ do_verify = FALSE
  /\ enroll_face_count = 0
  /\ images = {}
  /\ detect_image = FALSE
  /\ mpc = "idle" /\ op = "none" /\ mthread = NoThread
  /\ pc = [t \in Threads |-> "exited"]
  /\ hpc = "wait" /\ hop = "none" /\ hthread = NoThread

------------------------------------------------------------------------------
(* Shared helpers *)

\* The handling thread increments the count without a lock: a reset that falls
\* into the increment is lost.
ResetCount ==
  enroll_face_count' \in
    IF hpc = "counted" THEN {0, enroll_face_count} ELSE {0}

\* g_thread_join returned and has freed the GThread t: pointers to it dangle.
Freed(t, pointer) == IF pointer = t THEN Dangling ELSE pointer

------------------------------------------------------------------------------
(* The main loop: EnrollFaceStart and VerifyFaceStart *)

MainGoto(place) == mpc' = place /\ UNCHANGED <<op, mthread>>

\* The call is answered.
Answered == mpc' = "idle" /\ op' = "none" /\ mthread' = NoThread

\* Mutant: kiran_face_manager_start opens the camera again.
MayOpen_Again == ~face_busy

\* A Start is refused, and changes nothing, when face_busy is set, when the
\* camera is in use, or when it cannot be opened.
MayOpen == ~face_busy /\ camera = "closed"

\* The GThread objects of finished threads that nothing names any more.  How
\* many there are in all bounds how many old threads may linger.
Spare == {t \in Threads : pc[t] = "exited"} \ {face_capture_thread, hthread}

\* kiran_face_manager_start.
StartCamera(k) ==
  /\ mpc = "idle"
  /\ MayOpen
  /\ Spare # {}
  /\ camera' = "open"
  /\ mpc' = "arm" /\ op' = k /\ UNCHANGED mthread
  /\ UNCHANGED <<service, flags, data, pc, handler>>

\* kiran_face_manager_do_enroll and _do_verify find the flag set already: the
\* call is answered with the address and the camera stays open.
ArmFails ==
  /\ mpc = "arm"
  /\ IF op = "FACE_ACTION_ENROLL" THEN do_enroll ELSE do_verify
  /\ Answered
  /\ UNCHANGED <<service, camera, flags, data, pc, handler>>

ArmEnroll ==
  /\ mpc = "arm"
  /\ op = "FACE_ACTION_ENROLL" /\ ~do_enroll
  /\ do_enroll' = TRUE
  /\ images' = IF images = {} THEN {} ELSE {"before"}
  /\ MainGoto("count")
  /\ UNCHANGED <<service, camera, do_verify, enroll_face_count, detect_image,
                 pc, handler>>

ArmCount ==
  /\ mpc = "count"
  /\ ResetCount
  /\ MainGoto("busy")
  /\ UNCHANGED <<service, camera, do_enroll, do_verify, data, pc, handler>>

\* The id to compare with is replaced in the same call.
ArmVerify ==
  /\ mpc = "arm"
  /\ op = "FACE_ACTION_VERIFY" /\ ~do_verify
  /\ do_verify' = TRUE
  /\ MainGoto("busy")
  /\ UNCHANGED <<service, camera, do_enroll, enroll_face_count, data, pc,
                 handler>>

SetBusy ==
  /\ mpc = "busy"
  /\ face_busy' = TRUE
  /\ MainGoto("action")
  /\ UNCHANGED <<face_action, face_capture_thread, camera, flags, data, pc,
                 handler>>

SetAction ==
  /\ mpc = "action"
  /\ face_action' = op
  /\ MainGoto("create")
  /\ UNCHANGED <<face_busy, face_capture_thread, camera, flags, data, pc,
                 handler>>

\* g_thread_new: the thread may run before its pointer is stored.
CreateThread(t) ==
  /\ mpc = "create"
  /\ t \in Spare
  /\ pc' = [pc EXCEPT ![t] = "loop"]
  /\ mpc' = "store" /\ mthread' = t /\ UNCHANGED op
  /\ UNCHANGED <<service, camera, flags, data, handler>>

StoreThread ==
  /\ mpc = "store"
  /\ face_capture_thread' = mthread
  /\ Answered
  /\ UNCHANGED <<face_busy, face_action, camera, flags, data, pc, handler>>

(* EnrollFaceStop and VerifyFaceStop *)

\* Mutant: the action is not withdrawn.
StopBegin_KeepsAction(k) ==
  /\ mpc = "idle"
  /\ face_action = k
  /\ mpc' = "read" /\ op' = k /\ UNCHANGED mthread
  /\ UNCHANGED <<service, camera, flags, data, pc, handler>>

\* A Stop with no such action in progress is refused and changes nothing.
StopBegin(k) ==
  /\ mpc = "idle"
  /\ face_action = k
  /\ face_action' = "ACTION_NONE"
  /\ mpc' = "read" /\ op' = k /\ UNCHANGED mthread
  /\ UNCHANGED <<face_busy, face_capture_thread, camera, flags, data, pc,
                 handler>>

\* The pointer is tested and read.  If it is cleared in between, g_thread_join
\* gets NULL and returns at once, as if the test had found it cleared.
StopRead ==
  /\ mpc = "read"
  /\ mthread' = face_capture_thread
  /\ mpc' = IF face_capture_thread = NoThread THEN "unbusy" ELSE "join"
  /\ UNCHANGED <<service, camera, flags, data, op, pc, handler>>

StopJoin ==
  /\ mpc = "join"
  /\ mthread # Dangling
  /\ pc[mthread] = "exited"
  /\ face_capture_thread' = Freed(mthread, face_capture_thread)
  /\ hthread' = Freed(mthread, hthread)
  /\ mpc' = "null" /\ mthread' = NoThread /\ UNCHANGED op
  /\ UNCHANGED <<face_busy, face_action, camera, flags, data, pc, hpc, hop>>

\* The handling thread has joined it already: this may go unnoticed or abort.
StopJoinFreed ==
  /\ mpc = "join"
  /\ mthread = Dangling
  /\ mpc' \in {"null", "crashed"} /\ mthread' = NoThread /\ UNCHANGED op
  /\ UNCHANGED <<service, camera, flags, data, pc, handler>>

StopNull ==
  /\ mpc = "null"
  /\ face_capture_thread' = NoThread
  /\ MainGoto("unbusy")
  /\ UNCHANGED <<face_busy, face_action, camera, flags, data, pc, handler>>

StopUnbusy ==
  /\ mpc = "unbusy"
  /\ face_busy' = FALSE
  /\ Answered
  /\ UNCHANGED <<face_action, face_capture_thread, camera, flags, data, pc,
                 handler>>

\* What the main loop does once a call has begun.
MainStep ==
  \/ ArmFails \/ ArmEnroll \/ ArmCount \/ ArmVerify
  \/ SetBusy \/ SetAction \/ StoreThread
  \/ StopRead \/ StopJoin \/ StopJoinFreed \/ StopNull \/ StopUnbusy
  \/ \E t \in Threads : CreateThread(t)

MainNext ==
  \/ MainStep
  \/ \E k \in Kinds : StartCamera(k) \/ StopBegin(k)

------------------------------------------------------------------------------
(* A capture thread: do_face_capture, with kiran_face_manager_stop *)

Goto(t, place) == pc' = [pc EXCEPT ![t] = place]

\* kiran_face_manager_capture_face: an image goes to the detection thread,
\* unless that one is at work on another or the camera gave none.  An image that
\* comes just after the action is withdrawn could as well have come before.
Capture(t) ==
  /\ pc[t] = "loop"
  /\ face_action # "ACTION_NONE"
  /\ camera = "open"
  /\ detect_image' \in {detect_image, TRUE}
  /\ UNCHANGED <<service, camera, flags, images, main, pc, handler>>

\* The action has been withdrawn, or there is no camera any more.
LeaveLoop(t) ==
  /\ pc[t] = "loop"
  /\ face_action = "ACTION_NONE" \/ camera = "closed"
  /\ Goto(t, IF camera = "closed" THEN "clear_busy" ELSE "stop_enroll")
  /\ UNCHANGED <<service, camera, flags, data, main, handler>>

StopEnroll(t) ==
  /\ pc[t] = "stop_enroll"
  /\ do_enroll' = FALSE
  /\ Goto(t, "stop_verify")
  /\ UNCHANGED <<service, camera, do_verify, enroll_face_count, data, main,
                 handler>>

StopVerify(t) ==
  /\ pc[t] = "stop_verify"
  /\ do_verify' = FALSE
  /\ Goto(t, "stop_count")
  /\ UNCHANGED <<service, camera, do_enroll, enroll_face_count, data, main,
                 handler>>

\* Mutant: the images are given up together with the count.
StopCount_DropsImages(t) ==
  /\ pc[t] = "stop_count"
  /\ ResetCount
  /\ images' = {}
  /\ Goto(t, "release")
  /\ UNCHANGED <<service, camera, do_enroll, do_verify, detect_image, main,
                 handler>>

StopCount(t) ==
  /\ pc[t] = "stop_count"
  /\ ResetCount
  /\ Goto(t, "release")
  /\ UNCHANGED <<service, camera, do_enroll, do_verify, data, main, handler>>

\* Mutant: the camera is kept for the next session.
Release_Kept(t) ==
  /\ pc[t] = "release"
  /\ Goto(t, "clear_busy")
  /\ UNCHANGED <<service, camera, flags, data, main, handler>>

Release(t) ==
  /\ pc[t] = "release"
  /\ camera' = "closed"
  /\ Goto(t, "clear_busy")
  /\ UNCHANGED <<service, flags, data, main, handler>>

ClearBusy(t) ==
  /\ pc[t] = "clear_busy"
  /\ face_busy' = FALSE
  /\ Goto(t, "clear_action")
  /\ UNCHANGED <<face_action, face_capture_thread, camera, flags, data, main,
                 handler>>

ClearAction(t) ==
  /\ pc[t] = "clear_action"
  /\ face_action' = "ACTION_NONE"
  /\ Goto(t, "exited")
  /\ UNCHANGED <<face_busy, face_capture_thread, camera, flags, data, main,
                 handler>>

CaptureStep(t) ==
  \/ LeaveLoop(t) \/ StopEnroll(t) \/ StopVerify(t) \/ StopCount(t)
  \/ Release(t) \/ ClearBusy(t) \/ ClearAction(t)

------------------------------------------------------------------------------
(* The detection thread: do_face_detect *)

\* No usable face in the image, or the handling thread is busy with another.
DetectNothing ==
  /\ detect_image
  /\ detect_image' = FALSE
  /\ UNCHANGED <<service, camera, flags, images, main, pc, handler>>

\* One face: it is handed to the handling thread, which is woken; a face that
\* thread has been woken for but not taken up yet is replaced.
DetectFace ==
  /\ detect_image
  /\ hpc \in {"wait", "enroll"}
  /\ detect_image' = FALSE
  /\ hpc' = "enroll" /\ UNCHANGED <<hop, hthread>>
  /\ UNCHANGED <<service, camera, flags, images, main, pc>>

------------------------------------------------------------------------------
(* The handling thread: do_face_handle *)

HandlerGoto(place) == hpc' = place /\ UNCHANGED <<hop, hthread>>

\* Progress of an enrolment.  The code has 10 for each of 10 faces; here each
\* face counts for its share of 100, whatever their number.
Progress(count) == count * (100 \div ENROLL_FACE_NUM)

HandleBegin ==
  /\ hpc = "enroll"
  /\ HandlerGoto(IF do_enroll THEN "quality" ELSE "verify")
  /\ UNCHANGED <<service, camera, flags, data, main, pc>>

\* Too big or too small: the client is told, with the progress so far.
FaceRejected ==
  /\ hpc = "quality"
  /\ HandlerGoto("full")
  /\ UNCHANGED <<service, camera, flags, data, main, pc>>

\* The face is kept (and the client told) while the enrolment needs more.
FaceCollected ==
  /\ hpc = "quality"
  /\ enroll_face_count < ENROLL_FACE_NUM
  /\ images' = images \cup {"now"}
  /\ HandlerGoto("counted")
  /\ UNCHANGED <<service, camera, flags, detect_image, main, pc>>

CountFace ==
  /\ hpc = "counted"
  /\ enroll_face_count' = enroll_face_count + 1
  /\ HandlerGoto("full")
  /\ UNCHANGED <<service, camera, do_enroll, do_verify, data, main, pc>>

TestFull ==
  /\ hpc = "full"
  /\ HandlerGoto(IF enroll_face_count = ENROLL_FACE_NUM
                   THEN "save" ELSE "verify")
  /\ UNCHANGED <<service, camera, flags, data, main, pc>>

\* kiran_face_manager_save_faces: the collected images are written.  If that
\* works the client is told and the session ended.
SaveFaces ==
  /\ hpc = "save"
  /\ do_enroll' = FALSE
  /\ hpc' = "cb_action" /\ hop' = "FACE_ACTION_ENROLL" /\ UNCHANGED hthread
  /\ UNCHANGED <<service, camera, do_verify, enroll_face_count, data, main, pc>>

\* ... and if not, the enrolment begins anew.
SaveFails ==
  /\ hpc = "save"
  /\ do_enroll' = TRUE
  /\ HandlerGoto("reset")
  /\ UNCHANGED <<service, camera, do_verify, enroll_face_count, data, main, pc>>

\* Mutant: the count is left at its limit.
ResetEnroll_KeepsCount ==
  /\ hpc = "reset"
  /\ images' = {}
  /\ HandlerGoto("verify")
  /\ UNCHANGED <<service, camera, flags, detect_image, main, pc>>

ResetEnroll ==
  /\ hpc = "reset"
  /\ enroll_face_count' = 0
  /\ images' = {}
  /\ HandlerGoto("verify")
  /\ UNCHANGED <<service, camera, do_enroll, do_verify, detect_image, main,
                 pc>>

HandleVerify ==
  /\ hpc = "verify"
  /\ HandlerGoto(IF do_verify THEN "compare" ELSE "done")
  /\ UNCHANGED <<service, camera, flags, data, main, pc>>

\* face_verify: some stored image of the id matches ...
FaceMatches ==
  /\ hpc = "compare"
  /\ do_verify' = FALSE
  /\ hpc' = "cb_action" /\ hop' = "FACE_ACTION_VERIFY" /\ UNCHANGED hthread
  /\ UNCHANGED <<service, camera, do_enroll, enroll_face_count, data, main, pc>>

\* ... or none does, or there are none, or the comparison service is silent.
FaceDiffers ==
  /\ hpc = "compare"
  /\ HandlerGoto("done")
  /\ UNCHANGED <<service, camera, flags, data, main, pc>>

HandleEnd ==
  /\ hpc = "done"
  /\ HandlerGoto("wait")
  /\ UNCHANGED <<service, camera, flags, data, main, pc>>

(* face_enroll_status_cb and face_verify_status_cb, on success *)

CallbackAction ==
  /\ hpc = "cb_action"
  /\ face_action' = "ACTION_NONE"
  /\ HandlerGoto("cb_read")
  /\ UNCHANGED <<face_busy, face_capture_thread, camera, flags, data, main, pc>>

\* As in StopRead.
CallbackRead ==
  /\ hpc = "cb_read"
  /\ hthread' = face_capture_thread
  /\ hpc' = IF face_capture_thread = NoThread THEN "cb_busy" ELSE "cb_join"
  /\ UNCHANGED <<service, camera, flags, data, main, pc, hop>>

CallbackJoin ==
  /\ hpc = "cb_join"
  /\ hthread # Dangling
  /\ pc[hthread] = "exited"
  /\ face_capture_thread' = Freed(hthread, face_capture_thread)
  /\ mthread' = Freed(hthread, mthread)
  /\ hpc' = "cb_null" /\ hthread' = NoThread /\ UNCHANGED hop
  /\ UNCHANGED <<face_busy, face_action, camera, flags, data, mpc, op, pc>>

\* The main loop has joined it already: this may go unnoticed or abort.
CallbackJoinFreed ==
  /\ hpc = "cb_join"
  /\ hthread = Dangling
  /\ mpc' \in {mpc, "crashed"} /\ UNCHANGED <<op, mthread>>
  /\ hpc' = "cb_null" /\ hthread' = NoThread /\ UNCHANGED hop
  /\ UNCHANGED <<service, camera, flags, data, pc>>

CallbackNull ==
  /\ hpc = "cb_null"
  /\ face_capture_thread' = NoThread
  /\ HandlerGoto("cb_busy")
  /\ UNCHANGED <<face_busy, face_action, camera, flags, data, main, pc>>

CallbackBusy ==
  /\ hpc = "cb_busy"
  /\ face_busy' = FALSE
  /\ hpc' = IF hop = "FACE_ACTION_ENROLL" THEN "reset" ELSE "done"
  /\ hop' = "none" /\ UNCHANGED hthread
  /\ UNCHANGED <<face_action, face_capture_thread, camera, flags, data, main,
                 pc>>

HandlerNext ==
  \/ HandleBegin \/ FaceRejected \/ FaceCollected \/ CountFace \/ TestFull
  \/ SaveFaces \/ SaveFails \/ ResetEnroll
  \/ HandleVerify \/ FaceMatches \/ FaceDiffers \/ HandleEnd
  \/ CallbackAction \/ CallbackRead \/ CallbackJoin \/ CallbackJoinFreed
  \/ CallbackNull \/ CallbackBusy

------------------------------------------------------------------------------
Next ==
  \/ /\ mpc # "crashed"
     /\ \/ MainNext
        \/ \E t \in Threads : Capture(t) \/ CaptureStep(t)
        \/ DetectNothing \/ DetectFace
        \/ HandlerNext
  \/ mpc = "crashed" /\ UNCHANGED vars

\* The kernel schedules every thread, reading the camera and comparing end by
\* their time-outs.  Requests and faces come or do not.
Fairness ==
  /\ WF_vars(mpc # "crashed" /\ MainStep)
  /\ \A t \in Threads : WF_vars(mpc # "crashed" /\ CaptureStep(t))

Spec == Init /\ [][Next]_vars /\ Fairness

------------------------------------------------------------------------------
(* Properties *)

\* The camera has one user, and is open for it: no two capture threads are ever
\* at work, none reads a released camera, although face_busy
\* may be cleared by three threads while a session runs.
OneCapture ==
  \A t \in Threads : pc[t] \in InCamera =>
    /\ camera = "open"
    /\ \A s \in Threads : pc[s] \in InCamera => s = t

\* When an enrolment is saved there is an image to take the id from: the count
\* and the list agree although three threads reset the one and only the
\* handling thread the other.
SaveHasImages == hpc = "save" => images # {}

\* No signal about a face that was turned down can be taken for the completion
\* of the enrolment (progress = 100 and an id, which is "" but not NULL).
NoFalseCompletion == hpc = "quality" => Progress(enroll_face_count) < 100

\* When Stop has joined a capture thread the camera is released.
StopReleasesCamera == [][StopJoin => camera' = "closed"]_vars

\* Every Stop or Start is answered: the main loop is never blocked for ever in
\* joining a capture thread, also while the handling thread joins it.
StopReturns == mpc # "idle" ~> mpc \in {"idle", "crashed"}

(* What a comment promises and the code does not keep *)

\* An enrolment collects faces between its start and its end: what is stored
\* under its id was collected in it, not in one that was stopped before.
StoredFacesOfSession == [][SaveFaces => images = {"now"}]_vars
==============================================================================
