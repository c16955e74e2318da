------------------------------ MODULE FaceStore ------------------------------
(***************************************************************************)
(* The stored faces, one directory of images for each id under FACE_DIR,   *)
(* and what the handling thread of the face manager does with them: it     *)
(* writes the images of an enrolment one by one (save_faces) and compares a *)
(* live face with those of an id (face_verify, face_compare), asking a     *)
(* comparison service over a ZeroMQ request socket with a time-out.  Beside *)
(* it the main loop begins, ends and deletes, and the daemon may die and be *)
(* started anew; the directories stay.                                     *)
(* When it has signalled a success the callback in the service joins a     *)
(* capture thread before it returns.                                       *)
(*                                                                         *)
(* An image is reduced to the person in it.  The id of an enrolment is the *)
(* checksum of its first image; no two images of a camera are the same, so *)
(* it stands for the number of the enrolment.                              *)
(***************************************************************************)
EXTENDS Integers, Sequences

CONSTANTS
  Persons,
  Unreadable,        \* a file that holds no whole image
  NULL,              \* no directory
  NoId,              \* an id under which there is no directory
  ENROLL_FACE_NUM,   \* images an enrolment collects
  MAX_IMAGES,        \* bound on the images in the list, with leftovers
  MAX_ENROLLS,       \* bound on the enrolments that are saved
  HWM                \* the requests the socket can hold

ASSUME FaceStoreAssumption ==
  /\ Unreadable \notin Persons
  /\ NULL \notin Seq(Persons \cup {Unreadable})
  /\ ENROLL_FACE_NUM \in Nat \ {0}
  /\ MAX_IMAGES \in Nat /\ MAX_IMAGES >= ENROLL_FACE_NUM
  /\ MAX_ENROLLS \in Nat /\ HWM \in Nat \ {0}
  /\ NoId \notin 1 .. MAX_ENROLLS

VARIABLES
  store,        \* the images in the directory of each id
  announced,    \* ids that clients were told with a progress of 100
  do_verify, id, id_freed,   \* flag, id and whether it is freed just now
  hpc,          \* place of the handling thread
  joins,        \* the capture thread its callback joins: that of a session which
                \* is "ending", or of the "next"
  face,         \* the live face
  images, md5,  \* enroll_images and their id, while they are saved
  sizes,        \* how many images each enrolment had (not in the code)
  path, left,   \* the directory that is compared, its files still to come
  file,         \* the file in hand
  socket,       \* what the request socket allows next: "send" or "recv"
  requests, replies   \* under way to and from the comparison service

disk   == <<store, announced>>
armed  == <<do_verify, id, id_freed>>
thread == <<hpc, joins>>
saving == <<images, md5, sizes>>
search == <<path, left, file>>
net    == <<socket, requests, replies>>
vars   == <<disk, armed, thread, face, saving, search, net>>

Ids == 1 .. MAX_ENROLLS
Files == Persons \cup {Unreadable}
Verdicts == {"FACE_MATCH", "FACE_NOT_MATCH"}

TypeOK ==
  /\ store \in [Ids -> Seq(Files) \cup {NULL}]
  /\ announced \subseteq Ids
  /\ do_verify \in BOOLEAN /\ id \in Ids \cup {NoId} /\ id_freed \in BOOLEAN
  /\ hpc \in {"wait", "mkdir", "write", "test", "open", "next",
              "send", "recv", "matched", "join_enroll", "join_verify"}
  /\ joins \in {"none", "ending", "next"}
  /\ face \in Persons
  /\ images \in Seq(Persons)
  /\ md5 \in 0 .. MAX_ENROLLS
  /\ sizes \in [Ids -> ENROLL_FACE_NUM .. MAX_IMAGES]
  /\ path \in Ids \cup {NoId}
  /\ left \subseteq 1 .. MAX_IMAGES /\ file \in 1 .. MAX_IMAGES
  /\ socket \in {"send", "recv"}
  /\ requests \in Seq(Persons \X Persons) /\ replies \in Seq(Verdicts)

Init ==
  /\ store = [i \in Ids |-> NULL]
  /\ announced = {}
  /\ do_verify = FALSE /\ id = NoId /\ id_freed = FALSE
  /\ hpc = "wait" /\ joins = "none"
  /\ face \in Persons /\ images = <<>> /\ md5 = 0
  /\ sizes = [i \in Ids |-> ENROLL_FACE_NUM]
  /\ path = NoId /\ left = {} /\ file = 1
  /\ socket = "send" /\ requests = <<>> /\ replies = <<>>

Goto(place) == hpc' = place /\ UNCHANGED joins

------------------------------------------------------------------------------
(* The handling thread: an enrolment that is complete *)

\* A face is taken up.  It completes an enrolment, of whoever was before the
\* camera, or not.  The list may begin with images of enrolments that were
\* stopped.
TakeFace ==
  /\ hpc = "wait"
  /\ face' \in Persons
  /\ \/ Goto("test") /\ UNCHANGED saving
     \/ /\ md5 < MAX_ENROLLS
        /\ md5' = md5 + 1
        /\ \E n \in ENROLL_FACE_NUM .. MAX_IMAGES :
             /\ images' \in [1 .. n -> Persons]
             /\ sizes' = [sizes EXCEPT ![md5'] = n]
        /\ Goto("mkdir")
  /\ UNCHANGED <<disk, armed, search, net>>

\* The result of g_mkdir is not looked at.
MakeDir ==
  /\ hpc = "mkdir"
  /\ \/ store' = [store EXCEPT ![md5] = IF @ = NULL THEN <<>> ELSE @]
     \/ UNCHANGED store
  /\ Goto("write")
  /\ UNCHANGED <<announced, armed, face, saving, search, net>>

Put(i, file_content) == store' = [store EXCEPT ![i] = Append(@, file_content)]

\* The next image is written to a file of its own.
WriteImage ==
  /\ hpc = "write"
  /\ images # <<>>
  /\ store[md5] # NULL
  /\ Put(md5, Head(images))
  /\ images' = Tail(images)
  /\ UNCHANGED <<announced, armed, thread, face, md5, sizes, search, net>>

\* Mutant: only the result of the last write counts.
WriteFails_GoesOn ==
  /\ hpc = "write"
  /\ images # <<>>
  /\ \/ store[md5] # NULL /\ Put(md5, Unreadable)
     \/ UNCHANGED store
  /\ images' = IF Len(images) = 1 THEN <<>> ELSE Tail(images)
  /\ Goto(IF Len(images) = 1 THEN "test" ELSE "write")
  /\ UNCHANGED <<announced, armed, face, md5, sizes, search, net>>

\* ... or it is not, or only in part: what was written stays, nobody is told
\* its id, and the enrolment begins anew.
WriteFails ==
  /\ hpc = "write"
  /\ images # <<>>
  /\ \/ store[md5] # NULL /\ Put(md5, Unreadable)
     \/ UNCHANGED store
  /\ images' = <<>>
  /\ Goto("test")
  /\ UNCHANGED <<announced, armed, face, md5, sizes, search, net>>

\* The signal of a success is emitted: its callback ends the session and reads
\* the pointer to the capture thread, which by then may name the thread of a
\* session that has begun since.
EmitSuccess(place) == hpc' = place /\ joins' \in {"ending", "next"}

\* All images are written: the client is told the id.
Announce ==
  /\ hpc = "write"
  /\ images = <<>>
  /\ announced' = announced \cup {md5}
  /\ EmitSuccess("join_enroll")
  /\ UNCHANGED <<store, armed, face, saving, search, net>>

------------------------------------------------------------------------------
(* The handling thread: a verification *)

TestVerify ==
  /\ hpc = "test"
  /\ Goto(IF do_verify THEN "open" ELSE "wait")
  /\ UNCHANGED <<disk, armed, face, saving, search, net>>

\* The directory of the id is opened.  While the main loop replaces the id it
\* may be freed memory that is read: the old id still, or garbage.
OpenDir ==
  /\ hpc = "open"
  /\ path' \in IF id_freed THEN {id, NoId} ELSE {id}
  /\ left' = IF path' = NoId THEN {}
             ELSE IF store[path'] = NULL THEN {} ELSE DOMAIN store[path']
  /\ Goto("next")
  /\ UNCHANGED <<disk, armed, face, saving, file, net>>

\* The files come in any order.  One that holds no image is passed over.
NextFile ==
  /\ hpc = "next"
  /\ \E f \in left :
       /\ file' = f
       /\ left' = left \ {f}
       /\ Goto(IF store[path][f] = Unreadable THEN "next" ELSE "send")
  /\ UNCHANGED <<disk, armed, face, saving, path, net>>

\* The directory is closed.
CloseDir == path' = NoId /\ left' = {} /\ file' = 1

\* No file is left: the client is told that the face does not match.
FaceDiffers ==
  /\ hpc = "next"
  /\ left = {}
  /\ CloseDir
  /\ Goto("wait")
  /\ UNCHANGED <<disk, armed, face, saving, net>>

\* Mutant: the socket accepts a request before the last one is answered.
SendRequest_Relaxed ==
  /\ hpc = "send"
  /\ Len(requests) < HWM
  /\ requests' = Append(requests, <<face, store[path][file]>>)
  /\ socket' = "recv" /\ UNCHANGED replies
  /\ Goto("recv")
  /\ UNCHANGED <<disk, armed, face, saving, search>>

\* zmq_send, which does not wait.  A request socket takes one request at a time.
SendRequest ==
  /\ hpc = "send"
  /\ socket = "send" /\ Len(requests) < HWM
  /\ requests' = Append(requests, <<face, store[path][file]>>)
  /\ socket' = "recv" /\ UNCHANGED replies
  /\ Goto("recv")
  /\ UNCHANGED <<disk, armed, face, saving, search>>

\* It fails while the last request is unanswered, and may fail otherwise: the
\* image counts as different.
SendFails ==
  /\ hpc = "send"
  /\ Goto("next")
  /\ UNCHANGED <<disk, armed, face, saving, search, net>>

RecvAnswer ==
  /\ hpc = "recv"
  /\ replies # <<>>
  /\ replies' = Tail(replies)
  /\ socket' = "send" /\ UNCHANGED requests
  /\ Goto(IF Head(replies) = "FACE_MATCH" THEN "matched" ELSE "next")
  /\ UNCHANGED <<disk, armed, face, saving, search>>

\* Mutant: the time-out of the socket is not set.
RecvTimesOut_Never ==
  /\ hpc = "recv" /\ socket = "send"
  /\ Goto("next")
  /\ UNCHANGED <<disk, armed, face, saving, search, net>>

\* No answer in 30 seconds: the image counts as different, and the socket still
\* waits for the answer.
RecvTimesOut ==
  /\ hpc = "recv"
  /\ Goto("next")
  /\ UNCHANGED <<disk, armed, face, saving, search, net>>

\* The client is told that the face matches.
FaceMatches ==
  /\ hpc = "matched"
  /\ CloseDir
  /\ do_verify' = FALSE
  /\ EmitSuccess("join_verify")
  /\ UNCHANGED <<disk, id, id_freed, face, saving, net>>

\* g_thread_join in face_enroll_status_cb and face_verify_status_cb: the thread
\* handles on, when the capture thread has left its loop.
CallbackJoin ==
  /\ hpc \in {"join_enroll", "join_verify"}
  /\ joins = "ending"
  /\ joins' = "none"
  /\ hpc' = IF hpc = "join_enroll" THEN "test" ELSE "wait"
  /\ UNCHANGED <<disk, armed, face, saving, search, net>>

HandlerStep ==
  \/ MakeDir \/ WriteImage \/ WriteFails \/ Announce
  \/ TestVerify \/ OpenDir \/ NextFile \/ FaceDiffers
  \/ SendRequest \/ SendFails \/ RecvAnswer \/ RecvTimesOut \/ FaceMatches
  \/ CallbackJoin

------------------------------------------------------------------------------
(* Beside it *)

\* kiran_face_manager_do_verify, for a client that names an id: the flag, then
\* the id, which is freed before it is replaced.
BeginVerify ==
  /\ ~do_verify /\ ~id_freed
  /\ do_verify' = TRUE /\ id_freed' = TRUE
  /\ UNCHANGED <<disk, id, thread, face, saving, search, net>>

ReplaceId ==
  /\ id_freed
  /\ id' \in Ids \cup {NoId}
  /\ id_freed' = FALSE
  /\ UNCHANGED <<disk, do_verify, thread, face, saving, search, net>>

\* kiran_face_manager_stop, in the capture thread.
EndVerify ==
  /\ do_verify
  /\ do_verify' = FALSE
  /\ UNCHANGED <<disk, id, id_freed, thread, face, saving, search, net>>

\* The client of the next session stops it, or not.
NextSessionEnds ==
  /\ joins = "next"
  /\ joins' = "ending"
  /\ UNCHANGED <<disk, armed, hpc, face, saving, search, net>>

\* DeleteEnrolledFace: g_rmdir removes a directory only when it is empty, and
\* the call succeeds in any case.
Delete(i) ==
  /\ store[i] # NULL
  /\ store' = [store EXCEPT ![i] = IF @ = <<>> THEN NULL ELSE @]
  /\ UNCHANGED <<announced, armed, thread, face, saving, search, net>>

\* The verdict on two images, told apart by who is in them.
Verdict(pair) == IF pair[1] = pair[2] THEN "FACE_MATCH" ELSE "FACE_NOT_MATCH"

\* External: the comparison service answers, in time or not, the requests it
\* gets, in their order.
Compare ==
  /\ requests # <<>>
  /\ replies' = Append(replies, Verdict(Head(requests)))
  /\ requests' = Tail(requests)
  /\ UNCHANGED <<disk, armed, thread, face, saving, search, socket>>

\* The daemon dies and is started again.  An image it was writing is there in
\* part.
Restart ==
  /\ \/ UNCHANGED store
     \/ hpc = "write" /\ images # <<>> /\ store[md5] # NULL /\ Put(md5, Unreadable)
  /\ do_verify' = FALSE /\ id' = NoId /\ id_freed' = FALSE
  /\ hpc' = "wait" /\ joins' = "none"
  /\ images' = <<>>
  /\ CloseDir
  /\ socket' = "send" /\ requests' = <<>> /\ replies' = <<>>
  /\ UNCHANGED <<announced, face, md5, sizes>>

Next ==
  \/ TakeFace \/ HandlerStep
  \/ BeginVerify \/ ReplaceId \/ EndVerify \/ NextSessionEnds
  \/ \E i \in Ids : Delete(i)
  \/ Compare \/ Restart

\* The handling thread runs, its socket's time-out ends the wait for an answer,
\* and the capture thread of a session that is ending leaves its loop.
Spec == Init /\ [][Next]_vars /\ WF_vars(HandlerStep)

------------------------------------------------------------------------------
(* Properties *)

\* An enrolment a client was told of is there, with all its images: no failed write, no death
\* of the daemon and no deletion between the steps of a save leaves an announced
\* id with images missing.  (Nor does a deletion later on: DeleteEnrolledFace
\* succeeds and leaves the images.)
AnnouncedComplete ==
  \A i \in announced :
    /\ store[i] # NULL
    /\ Len(store[i]) = sizes[i]
    /\ \A k \in DOMAIN store[i] : store[i][k] # Unreadable

\* A match that is reported is one of the live face with an image in the
\* directory that was opened for it: an answer that comes after the time-out is
\* never taken for the answer to a later comparison.
MatchIsGenuine ==
  hpc = "matched" => \E k \in DOMAIN store[path] : store[path][k] = face

\* The handling thread comes round to the next face, whatever the comparison
\* service does.  The one thing that may hold it up for ever is the join in a
\* callback that has found the thread of the next session.
HandlerReturns == hpc # "wait" ~> (hpc = "wait" \/ joins = "next")
==============================================================================
