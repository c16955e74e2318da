---------------------------- MODULE FprintSession ----------------------------
(***************************************************************************)
(* The fingerprint half of the biometrics service, at the level of its     *)
(* threads: the D-Bus handlers that run in the main loop (Start, Stop,     *)
(* Delete) and the worker threads they create (do_finger_enroll and        *)
(* do_finger_verify), which share fprint_busy, fp_action, the device and   *)
(* the driver's do_acquire flag without any lock.                          *)
(*                                                                         *)
(* What a worker does with the templates is in FprintEnroll and            *)
(* FprintVerify; here a capture only ends, one way or another.             *)
(***************************************************************************)
EXTENDS Naturals, Sequences

CONSTANTS
  Threads,        \* GThread objects; one is reused once nothing names it
  NoThread,       \* the NULL GThread pointer
  MAX_TRY_COUNT   \* attempts a worker makes before it gives up

ASSUME NoThreadAssumption == NoThread \notin Threads
ASSUME TryCountAssumption == MAX_TRY_COUNT \in Nat \ {0}

VARIABLES
  fprint_busy,    \* priv->fprint_busy
  fp_action,      \* priv->fp_action
  thread,         \* priv->fprint_enroll_thread and priv->fprint_verify_thread
  device,         \* the manager's hDevice: "open" or "closed"
  do_acquire,     \* the driver's static flag: capture may "go" on or "halt"
  mpc,            \* where the main loop is
  op,             \* the method call it is handling, or handled last
  sent,           \* the replies sent so far to that call
  pc,             \* where each worker is
  kind,           \* which of the two thread functions each worker runs
  tries           \* captures each worker has made

vars == <<fprint_busy, fp_action, thread, device, do_acquire, mpc, op, sent,
          pc, kind, tries>>

shared == <<fprint_busy, fp_action, thread, device, do_acquire>>
main   == <<mpc, op, sent>>

------------------------------------------------------------------------------
(* Types *)

Kinds   == {"FP_ACTION_ENROLL", "FP_ACTION_VERIFY"}
Actions == Kinds \cup {"ACTION_NONE"}
Methods == {"Start", "Stop", "Delete"}
Results == {"Ok", "DeviceBusy", "NotFoundDevice", "NoActionInProgress",
            "Internal"}

\* A worker in one of these places may call the driver.
InDevice == {"load", "loop", "acquire", "wait", "finish", "close"}
\* ... and in one of these it is the session fprint_busy stands for.
InSession == InDevice \cup {"clear_busy"}
Places == InSession \cup {"clear_action", "exited"}

TypeOK ==
  /\ fprint_busy \in BOOLEAN
  /\ fp_action \in Actions
  /\ thread \in [Kinds -> Threads \cup {NoThread}]
  /\ device \in {"open", "closed"}
  /\ do_acquire \in {"go", "halt"}
  /\ mpc \in {"idle", "acquire_stop", "join"}
  /\ op \in [method : Methods, kind : Kinds]
  /\ sent \in Seq(Results)
  /\ pc \in [Threads -> Places]
  /\ kind \in [Threads -> Kinds]
  /\ tries \in [Threads -> Nat]

Init ==
  /\ fprint_busy = FALSE
  /\ fp_action = "ACTION_NONE"
  /\ thread = [k \in Kinds |-> NoThread]
  /\ device = "closed"
  /\ do_acquire = "go"
  /\ mpc = "idle"
  /\ op = [method |-> "Stop", kind |-> "FP_ACTION_ENROLL"]
  /\ sent = << >>
  /\ pc = [t \in Threads |-> "exited"]
  /\ kind = [t \in Threads |-> "FP_ACTION_ENROLL"]
  /\ tries = [t \in Threads |-> 0]

------------------------------------------------------------------------------
(* The main loop *)

\* The handler of call (m, k) answers it with the replies rs and returns.
Answer(m, k, rs) ==
  /\ mpc' = "idle"
  /\ op' = [method |-> m, kind |-> k]
  /\ sent' = rs

\* EnrollFprintStart / VerifyFprintStart while a session has the device.
StartBusy(k) ==
  /\ mpc = "idle"
  /\ fprint_busy
  /\ Answer("Start", k, <<"DeviceBusy">>)
  /\ UNCHANGED <<shared, pc, kind, tries>>

\* Mutant: the busy flag is not tested.
MayStart_NoBusyTest == mpc = "idle"

\* A Start request goes on to open the device.
MayStart == mpc = "idle" /\ ~fprint_busy

\* ... when kiran_fprint_manager_open finds no device or cannot open it.
StartNoDevice(k) ==
  /\ MayStart
  /\ Answer("Start", k, <<"NotFoundDevice">>)
  /\ UNCHANGED <<shared, pc, kind, tries>>

\* ... and when it opens one: a worker t is created.  The only access of
\* another thread to the variables written here is the last store of an
\* earlier worker (ClearAction); before this step or after it, it has the
\* effect it would have inside it.
StartSession(k, t) ==
  /\ MayStart
  /\ pc[t] = "exited"
  /\ \A j \in Kinds : thread[j] # t
  /\ device' = "open"
  /\ fprint_busy' = TRUE
  /\ fp_action' = k
  /\ thread' = [thread EXCEPT ![k] = t]
  /\ pc' = [pc EXCEPT ![t] = "load"]
  /\ kind' = [kind EXCEPT ![t] = k]
  /\ tries' = [tries EXCEPT ![t] = 0]
  /\ Answer("Start", k, <<"Ok">>)
  /\ UNCHANGED do_acquire

\* EnrollFprintStop / VerifyFprintStop with no such action in progress.
StopNoAction(k) ==
  /\ mpc = "idle"
  /\ fp_action # k
  /\ Answer("Stop", k, <<"NoActionInProgress">>)
  /\ UNCHANGED <<shared, pc, kind, tries>>

\* ... and with one: the action is withdrawn, then the worker is waited for.
StopBegin(k) ==
  /\ mpc = "idle"
  /\ fp_action = k
  /\ fp_action' = "ACTION_NONE"
  /\ IF thread[k] = NoThread
       THEN Answer("Stop", k, <<"Ok">>)
       ELSE /\ mpc' = "acquire_stop"
            /\ op' = [method |-> "Stop", kind |-> k]
            /\ sent' = << >>
  /\ UNCHANGED <<fprint_busy, thread, device, do_acquire, pc, kind, tries>>

\* kiran_fprint_manager_acquire_finger_print_stop: down to do_acquire = -1.
StopAcquire ==
  /\ mpc = "acquire_stop"
  /\ do_acquire' = "halt"
  /\ mpc' = "join"
  /\ UNCHANGED <<fprint_busy, fp_action, thread, device, op, sent,
                 pc, kind, tries>>

\* Mutant: the worker is not waited for.
StopJoin_NoWait ==
  /\ mpc = "join"
  /\ thread' = [thread EXCEPT ![op.kind] = NoThread]
  /\ Answer("Stop", op.kind, <<"Ok">>)
  /\ UNCHANGED <<fprint_busy, fp_action, device, do_acquire, pc, kind, tries>>

\* g_thread_join returns once the worker has exited; the main loop serves
\* nobody until then.
StopJoin ==
  /\ mpc = "join"
  /\ pc[thread[op.kind]] = "exited"
  /\ thread' = [thread EXCEPT ![op.kind] = NoThread]
  /\ Answer("Stop", op.kind, <<"Ok">>)
  /\ UNCHANGED <<fprint_busy, fp_action, device, do_acquire, pc, kind, tries>>

\* DeleteEnrolledFinger: the error branch does not return, so a failed
\* removal is answered twice.
DeleteReplies(removed) == IF removed THEN <<"Ok">> ELSE <<"Internal", "Ok">>

Delete ==
  /\ mpc = "idle"
  /\ \E removed \in BOOLEAN :
       Answer("Delete", op.kind, DeleteReplies(removed))
  /\ UNCHANGED <<shared, pc, kind, tries>>

StopReturn == StopAcquire \/ StopJoin

MainNext ==
  \/ \E k \in Kinds :
       \/ StartBusy(k) \/ StartNoDevice(k)
       \/ \E t \in Threads : StartSession(k, t)
       \/ StopNoAction(k) \/ StopBegin(k)
  \/ StopReturn
  \/ Delete

------------------------------------------------------------------------------
(* The workers *)

Goto(t, place) == pc' = [pc EXCEPT ![t] = place]

\* The saved templates are read.  A verification with none to compare, and
\* an enrolment with no room for another, go straight to the end.
Load(t) ==
  /\ pc[t] = "load"
  /\ \/ Goto(t, "loop")
     \/ Goto(t, "close")
  /\ UNCHANGED <<shared, main, kind, tries>>

\* Mutant: the attempts of a verification are not limited.
MayTry_NoLimit(t) == fp_action = kind[t]

\* The loop condition reads fp_action, which Stop may have withdrawn; a
\* verification also counts its attempts here.
MayTry(t) ==
  /\ fp_action = kind[t]
  /\ kind[t] = "FP_ACTION_VERIFY" => tries[t] < MAX_TRY_COUNT

LoopHead(t) ==
  /\ pc[t] = "loop"
  /\ IF MayTry(t) THEN Goto(t, "acquire") ELSE Goto(t, "finish")
  /\ UNCHANGED <<shared, main, kind, tries>>

\* The driver's acquire function begins by re-arming do_acquire.
AcquireEnter(t) ==
  /\ pc[t] = "acquire"
  /\ do_acquire' = "go"
  /\ Goto(t, "wait")
  /\ UNCHANGED <<fprint_busy, fp_action, thread, device, main, kind, tries>>

\* The capture has ended.  An enrolment gives up after the capture that finds
\* try_count at its limit, and is over when it has all it needs.
AfterCapture(t, enough) ==
  /\ IF kind[t] = "FP_ACTION_ENROLL" /\ tries[t] = MAX_TRY_COUNT
       THEN Goto(t, "finish") /\ UNCHANGED tries
       ELSE /\ tries' = [tries EXCEPT ![t] = @ + 1]
            /\ Goto(t, IF enough THEN "finish" ELSE "loop")
  /\ UNCHANGED <<shared, main, kind>>

\* A finger was placed.  A poll that is under way when do_acquire is cleared
\* still returns what it captured.
CaptureFinger(t) ==
  /\ pc[t] = "wait"
  /\ \E enough \in BOOLEAN :
       /\ enough => kind[t] = "FP_ACTION_ENROLL"
       /\ AfterCapture(t, enough)

\* The poll loop saw do_acquire cleared.
CaptureHalted(t) ==
  /\ pc[t] = "wait"
  /\ do_acquire = "halt"
  /\ AfterCapture(t, FALSE)

\* Mutant: a driver that waits for a finger without a time-out.
CaptureTimeout_Never(t) == FALSE /\ AfterCapture(t, FALSE)

\* DEFAULT_TIME_OUT has passed without a finger, or the device failed.
CaptureTimeout(t) ==
  /\ pc[t] = "wait"
  /\ AfterCapture(t, FALSE)

\* Merging, comparing, saving and the last signal.
Finish(t) ==
  /\ pc[t] = "finish"
  /\ Goto(t, "close")
  /\ UNCHANGED <<shared, main, kind, tries>>

Close(t) ==
  /\ pc[t] = "close"
  /\ device' = "closed"
  /\ Goto(t, "clear_busy")
  /\ UNCHANGED <<fprint_busy, fp_action, thread, do_acquire, main, kind, tries>>

\* Mutant: the busy flag is not cleared.
ClearBusy_Forgotten(t) ==
  /\ pc[t] = "clear_busy"
  /\ Goto(t, "clear_action")
  /\ UNCHANGED <<shared, main, kind, tries>>

ClearBusy(t) ==
  /\ pc[t] = "clear_busy"
  /\ fprint_busy' = FALSE
  /\ Goto(t, "clear_action")
  /\ UNCHANGED <<fp_action, thread, device, do_acquire, main, kind, tries>>

\* Mutant: the worker leaves its action set.
ClearAction_Forgotten(t) ==
  /\ pc[t] = "clear_action"
  /\ Goto(t, "exited")
  /\ UNCHANGED <<shared, main, kind, tries>>

\* The last store of a worker; nothing ties it to the session it belongs to.
ClearAction(t) ==
  /\ pc[t] = "clear_action"
  /\ fp_action' = "ACTION_NONE"
  /\ Goto(t, "exited")
  /\ UNCHANGED <<fprint_busy, thread, device, do_acquire, main, kind, tries>>

\* What a worker does whether or not a finger is ever placed.
WorkerStep(t) ==
  \/ Load(t) \/ LoopHead(t) \/ AcquireEnter(t)
  \/ CaptureHalted(t) \/ CaptureTimeout(t)
  \/ Finish(t) \/ Close(t) \/ ClearBusy(t) \/ ClearAction(t)

WorkerNext(t) == WorkerStep(t) \/ CaptureFinger(t)

Next == MainNext \/ \E t \in Threads : WorkerNext(t)

SafeSpec == Init /\ [][Next]_vars

\* The kernel schedules every thread, every driver wait ends by its time-out
\* (600 s), and a handler that has begun runs on.  Requests and fingers come
\* or do not.
Fairness ==
  /\ WF_vars(StopReturn)
  /\ \A t \in Threads : WF_vars(WorkerStep(t))

Spec == SafeSpec /\ Fairness

------------------------------------------------------------------------------
(* Properties *)

InSess(t) == pc[t] \in InSession

\* The device has one user: no two workers are ever in a session at the same
\* time, although the busy flag is tested by one thread and cleared by another.
DeviceExclusive == \A s, t \in Threads : InSess(s) /\ InSess(t) => s = t

\* fprint_busy stands for a running session: a Start is refused exactly while
\* a worker has yet to clear it, so no session runs without
\* its flag (a second one could start) and no flag outlives its session (the
\* service would answer DeviceBusy for ever).
BusyIffSession == fprint_busy <=> \E t \in Threads : InSess(t)

\* The manager's device is open while a worker may call the driver and at no
\* other time: no capture on a closed device, no device left open.
DeviceOpenIffUsed ==
  (device = "open") <=> \E t \in Threads : pc[t] \in InDevice

\* While an action is in progress its thread pointer names the worker that
\* runs it, which has not exited: Stop waits for the right thread, never for
\* a NULL or an already joined one.
StopFindsWorker ==
  \A k \in Kinds : fp_action = k =>
    /\ thread[k] # NoThread
    /\ kind[thread[k]] = k
    /\ pc[thread[k]] # "exited"

\* The running session is the one the service's state describes: its worker is
\* the one its thread pointer names, and fp_action, if not withdrawn, is its.
SessionIsCurrent ==
  \A t \in Threads : InSess(t) =>
    /\ thread[kind[t]] = t
    /\ fp_action \in {kind[t], "ACTION_NONE"}

\* While a Stop request waits, nothing is in progress but, at most, the session
\* it ends: no other session can start, or be hit by this Stop.
StopIsExclusive ==
  mpc # "idle" =>
    /\ fp_action = "ACTION_NONE"
    /\ thread[op.kind] # NoThread
    /\ \A t \in Threads : InSess(t) => kind[t] = op.kind

\* A session makes a bounded number of captures: a verification at most
\* MAX_TRY_COUNT, an enrolment one more (the limit is tested after a capture).
AttemptsBounded ==
  \A t \in Threads :
    /\ tries[t] <= MAX_TRY_COUNT
    /\ pc[t] \in {"acquire", "wait"} /\ kind[t] = "FP_ACTION_VERIFY"
         => tries[t] < MAX_TRY_COUNT

\* When a Stop request is answered Ok the session is over: the device is
\* closed and free, and the next Start will not be answered DeviceBusy.
StopFreesDevice ==
  [][StopJoin \/ (\E k \in Kinds : StopBegin(k) /\ mpc' = "idle")
       => ~fprint_busy' /\ device' = "closed"]_vars

\* Every Stop request is answered: the main loop is never blocked for ever in
\* g_thread_join.
StopReturns == mpc # "idle" ~> mpc = "idle"

\* Every session ends: the device becomes free again without anybody's help.
SessionEnds == fprint_busy ~> ~fprint_busy

\* The session protocol implements the abstract lease of the device.
Holder == IF \E t \in Threads : InSess(t)
            THEN CHOOSE t \in Threads : InSess(t)
            ELSE NoThread

Lease == INSTANCE DeviceLease WITH holder <- Holder

LeaseSpec == Lease!Spec

(* What the interface promises and the code does not keep *)

\* acquire_finger_print_stop "stops the capture": once it has returned and the
\* main loop waits for the worker, no capture goes on polling.
StopReachesCapture ==
  mpc = "join" /\ pc[thread[op.kind]] = "wait" => do_acquire = "halt"
==============================================================================
