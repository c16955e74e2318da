------------------------- MODULE FprintSessionProofs -------------------------
(***************************************************************************)
(* Proofs about FprintSession for any number of threads and any limit on   *)
(* the number of attempts.                                                 *)
(***************************************************************************)
EXTENDS FprintSession, TLAPS

\* The replies of every handler are replies; every place a worker goes to is a
\* place; every action a handler stores is an action.
LEMMA Literals ==
  /\ \A r \in Results : <<r>> \in Seq(Results)
  /\ \A removed \in BOOLEAN : DeleteReplies(removed) \in Seq(Results)
  /\ << >> \in Seq(Results)
  /\ Kinds \subseteq Actions /\ "ACTION_NONE" \in Actions
<1>1. ASSUME NEW r \in Results PROVE <<r>> \in Seq(Results)
  OBVIOUS
<1>2. ASSUME NEW removed \in BOOLEAN PROVE DeleteReplies(removed) \in Seq(Results)
  <2>1. "Ok" \in Results /\ "Internal" \in Results
    BY DEF Results
  <2>2. \A r, q \in Results : <<r, q>> \in Seq(Results)
    OBVIOUS
  <2>3. QED
    BY <1>1, <2>1, <2>2 DEF DeleteReplies
<1>3. Kinds \subseteq Actions /\ "ACTION_NONE" \in Actions
  BY DEF Kinds, Actions
<1>4. << >> \in Seq(Results)
  OBVIOUS
<1>5. QED
  BY <1>1, <1>2, <1>3, <1>4

\* Every variable keeps its type.
LEMMA TypingStep == TypeOK /\ [Next]_vars => TypeOK'
<1> SUFFICES ASSUME TypeOK, [Next]_vars PROVE TypeOK'
  OBVIOUS
<1> USE DEF TypeOK
<1>a. ASSUME NEW m \in Methods, NEW k \in Kinds, NEW rs \in Seq(Results),
             Answer(m, k, rs)
      PROVE  /\ mpc' \in {"idle", "acquire_stop", "join"}
             /\ op' \in [method : Methods, kind : Kinds]
             /\ sent' \in Seq(Results)
  BY <1>a DEF Answer
<1>b. ASSUME NEW t \in Threads, NEW place \in Places, Goto(t, place)
      PROVE  pc' \in [Threads -> Places]
  BY <1>b DEF Goto
<1>c. "Start" \in Methods /\ "Stop" \in Methods /\ "Delete" \in Methods
  BY DEF Methods
<1>d. {"Ok", "DeviceBusy", "NotFoundDevice", "NoActionInProgress"} \subseteq Results
  BY DEF Results
<1>e. {"load", "loop", "acquire", "wait", "finish", "close", "clear_busy",
       "clear_action", "exited"} \subseteq Places
  BY DEF Places, InSession, InDevice
<1>1. ASSUME NEW k \in Kinds, StartBusy(k) PROVE TypeOK'
  BY <1>1, <1>a, <1>c, <1>d, Literals DEF StartBusy, shared
<1>2. ASSUME NEW k \in Kinds, StartNoDevice(k) PROVE TypeOK'
  BY <1>2, <1>a, <1>c, <1>d, Literals DEF StartNoDevice, shared
<1>3. ASSUME NEW k \in Kinds, NEW t \in Threads, StartSession(k, t) PROVE TypeOK'
  <2>1. thread' \in [Kinds -> Threads \cup {NoThread}]
    BY <1>3 DEF StartSession
  <2>2. /\ pc' \in [Threads -> Places]
        /\ kind' \in [Threads -> Kinds]
        /\ tries' \in [Threads -> Nat]
    BY <1>3, <1>e, TryCountAssumption DEF StartSession
  <2>3. /\ mpc' \in {"idle", "acquire_stop", "join"}
        /\ op' \in [method : Methods, kind : Kinds]
        /\ sent' \in Seq(Results)
    BY <1>3, <1>a, <1>c, <1>d, Literals DEF StartSession
  <2>4. QED
    BY <1>3, <2>1, <2>2, <2>3, Literals DEF StartSession
<1>4. ASSUME NEW k \in Kinds, StopNoAction(k) PROVE TypeOK'
  BY <1>4, <1>a, <1>c, <1>d, Literals DEF StopNoAction, shared
<1>5. ASSUME NEW k \in Kinds, StopBegin(k) PROVE TypeOK'
  <2>1. /\ mpc' \in {"idle", "acquire_stop", "join"}
        /\ op' \in [method : Methods, kind : Kinds]
        /\ sent' \in Seq(Results)
    <3>1. CASE thread[k] = NoThread
      BY <1>5, <3>1, <1>a, <1>c, <1>d, Literals DEF StopBegin
    <3>2. CASE thread[k] # NoThread
      BY <1>5, <3>2, <1>c, Literals DEF StopBegin
    <3>3. QED
      BY <3>1, <3>2
  <2>2. QED
    BY <1>5, <2>1, Literals DEF StopBegin
<1>6. CASE StopAcquire
  BY <1>6 DEF StopAcquire
<1>7. CASE StopJoin
  <2>1. thread' \in [Kinds -> Threads \cup {NoThread}]
    BY <1>7 DEF StopJoin
  <2>2. /\ mpc' \in {"idle", "acquire_stop", "join"}
        /\ op' \in [method : Methods, kind : Kinds]
        /\ sent' \in Seq(Results)
    BY <1>7, <1>a, <1>c, <1>d, Literals DEF StopJoin
  <2>3. QED
    BY <1>7, <2>1, <2>2 DEF StopJoin
<1>8. CASE Delete
  BY <1>8, <1>a, <1>c, Literals DEF Delete, shared
<1>9. ASSUME NEW t \in Threads, WorkerNext(t) PROVE TypeOK'
  <2>1. CASE Load(t)
    BY <2>1, <1>b, <1>e DEF Load, shared, main
  <2>2. CASE LoopHead(t)
    BY <2>2, <1>b, <1>e DEF LoopHead, shared, main
  <2>3. CASE AcquireEnter(t)
    BY <2>3, <1>b, <1>e DEF AcquireEnter, main
  <2>4. ASSUME NEW enough \in BOOLEAN, AfterCapture(t, enough) PROVE TypeOK'
    <3>1. pc' \in [Threads -> Places]
      BY <2>4, <1>b, <1>e DEF AfterCapture
    <3>2. tries' \in [Threads -> Nat]
      <4>1. CASE UNCHANGED tries
        BY <4>1
      <4>2. CASE tries' = [tries EXCEPT ![t] = @ + 1]
        <5>1. tries[t] + 1 \in Nat
          OBVIOUS
        <5>2. QED
          BY <4>2, <5>1
      <4>3. QED
        BY <2>4, <4>1, <4>2 DEF AfterCapture
    <3>3. QED
      BY <2>4, <3>1, <3>2 DEF AfterCapture, shared, main
  <2>5. CASE CaptureFinger(t)
    BY <2>5, <2>4 DEF CaptureFinger
  <2>6. CASE CaptureHalted(t)
    BY <2>6, <2>4 DEF CaptureHalted
  <2>7. CASE CaptureTimeout(t)
    BY <2>7, <2>4 DEF CaptureTimeout
  <2>8. CASE Finish(t)
    BY <2>8, <1>b, <1>e DEF Finish, shared, main
  <2>9. CASE Close(t)
    BY <2>9, <1>b, <1>e DEF Close, main
  <2>10. CASE ClearBusy(t)
    BY <2>10, <1>b, <1>e DEF ClearBusy, main
  <2>11. CASE ClearAction(t)
    BY <2>11, <1>b, <1>e, Literals DEF ClearAction, main
  <2>12. QED
    BY <1>9, <2>1, <2>2, <2>3, <2>5, <2>6, <2>7, <2>8, <2>9, <2>10, <2>11
    DEF WorkerNext, WorkerStep
<1>10. CASE UNCHANGED vars
  BY <1>10 DEF vars
<1>11. QED
  BY <1>1, <1>2, <1>3, <1>4, <1>5, <1>6, <1>7, <1>8, <1>9, <1>10
  DEF Next, MainNext, StopReturn

\* The initial state is well typed.
LEMMA InitTyped == Init => TypeOK
<1> SUFFICES ASSUME Init PROVE TypeOK
  OBVIOUS
<1>1. op \in [method : Methods, kind : Kinds]
  BY DEF Init, Methods, Kinds
<1>2. pc \in [Threads -> Places] /\ kind \in [Threads -> Kinds]
  BY DEF Init, Places, Kinds
<1>3. QED
  BY <1>1, <1>2, Literals DEF Init, TypeOK

\* The type invariant holds of every behaviour.
THEOREM TypeCorrect == SafeSpec => []TypeOK
BY InitTyped, TypingStep, PTL DEF SafeSpec

------------------------------------------------------------------------------
(* One session at a time *)

\* None of the session properties is inductive alone: that the device is not
\* shared needs the busy flag to cover every session, that Stop finds its
\* worker needs the running session to be the current one, and that a Stop
\* frees the device needs both, for as long as the Stop waits.
SessionInv ==
  /\ TypeOK
  /\ DeviceExclusive
  /\ BusyIffSession
  /\ DeviceOpenIffUsed
  /\ StopFindsWorker
  /\ SessionIsCurrent
  /\ StopIsExclusive

\* A step of a worker that stays among the places where it uses the device,
\* and changes nothing else of a session, preserves the invariant.
LEMMA InsideStep ==
  ASSUME SessionInv, TypeOK', NEW t \in Threads, NEW place \in InDevice,
         pc[t] \in InDevice, Goto(t, place),
         UNCHANGED <<fprint_busy, fp_action, thread, device, mpc, op, kind>>
  PROVE  SessionInv'
<1> USE DEF SessionInv
<1>1. pc' = [pc EXCEPT ![t] = place] /\ pc \in [Threads -> Places]
  BY DEF Goto, TypeOK
<1>2. \A s \in Threads : /\ (pc'[s] \in InDevice) <=> (pc[s] \in InDevice)
                         /\ InSess(s)' <=> InSess(s)
                         /\ (pc'[s] = "exited") <=> (pc[s] = "exited")
  BY <1>1 DEF InSess, InSession, InDevice
<1>3. DeviceExclusive' /\ BusyIffSession'
  BY <1>2 DEF DeviceExclusive, BusyIffSession
<1>4. DeviceOpenIffUsed'
  BY <1>2 DEF DeviceOpenIffUsed
<1>5. StopFindsWorker'
  BY <1>2 DEF StopFindsWorker, TypeOK
<1>6. SessionIsCurrent' /\ StopIsExclusive'
  BY <1>2 DEF SessionIsCurrent, StopIsExclusive
<1>7. QED
  BY <1>3, <1>4, <1>5, <1>6

\* A handler that only answers, leaving the main loop idle, preserves it.
LEMMA AnswerStep ==
  ASSUME SessionInv, TypeOK', mpc' = "idle", UNCHANGED <<shared, pc, kind>>
  PROVE  SessionInv'
BY DEF SessionInv, shared, DeviceExclusive, BusyIffSession, DeviceOpenIffUsed,
       StopFindsWorker, SessionIsCurrent, StopIsExclusive, InSess

\* A granted Start: the new worker is the only one in a session.
LEMMA StartStep ==
  ASSUME SessionInv, TypeOK', NEW k \in Kinds, NEW t \in Threads,
         StartSession(k, t)
  PROVE  SessionInv'
<1> USE DEF SessionInv
<1>1. /\ pc' = [pc EXCEPT ![t] = "load"] /\ pc \in [Threads -> Places]
      /\ kind' = [kind EXCEPT ![t] = k] /\ kind \in [Threads -> Kinds]
      /\ thread' = [thread EXCEPT ![k] = t]
      /\ thread \in [Kinds -> Threads \cup {NoThread}]
      /\ fp_action' = k /\ fprint_busy' = TRUE /\ device' = "open"
      /\ mpc' = "idle"
  BY DEF StartSession, Answer, TypeOK
<1>2. \A s \in Threads : ~InSess(s)
  BY DEF StartSession, MayStart, BusyIffSession
<1>3. \A s \in Threads : InSess(s)' <=> s = t
  BY <1>1, <1>2 DEF InSess, InSession, InDevice
<1>4. DeviceExclusive' /\ BusyIffSession'
  BY <1>1, <1>3 DEF DeviceExclusive, BusyIffSession
<1>5. DeviceOpenIffUsed'
  <2>1. pc'[t] \in InDevice
    BY <1>1 DEF InDevice
  <2>2. QED
    BY <1>1, <2>1 DEF DeviceOpenIffUsed
<1>6. StopFindsWorker'
  <2>1. SUFFICES ASSUME NEW j \in Kinds, fp_action' = j
                 PROVE  /\ thread'[j] # NoThread
                        /\ kind'[thread'[j]] = j
                        /\ pc'[thread'[j]] # "exited"
    BY DEF StopFindsWorker
  <2>2. j = k
    BY <2>1, <1>1
  <2>3. thread'[j] = t /\ kind'[t] = j /\ pc'[t] = "load"
    BY <2>2, <1>1
  <2>4. QED
    BY <2>3, NoThreadAssumption
<1>7. SessionIsCurrent'
  <2>1. thread'[kind'[t]] = t /\ fp_action' = kind'[t]
    BY <1>1
  <2>2. QED
    BY <1>3, <2>1 DEF SessionIsCurrent
<1>8. StopIsExclusive'
  BY <1>1 DEF StopIsExclusive
<1>9. QED
  BY <1>4, <1>5, <1>6, <1>7, <1>8

\* The three steps of a Stop request.
LEMMA StopSteps ==
  ASSUME SessionInv, TypeOK',
         (\E k \in Kinds : StopBegin(k)) \/ StopAcquire \/ StopJoin
  PROVE  SessionInv'
<1> USE DEF SessionInv
<1>1. UNCHANGED <<fprint_busy, device, pc, kind>>
  BY DEF StopBegin, StopAcquire, StopJoin
<1>2. \A s \in Threads : InSess(s)' <=> InSess(s)
  BY <1>1 DEF InSess
<1>3. DeviceExclusive' /\ BusyIffSession' /\ DeviceOpenIffUsed'
  BY <1>1, <1>2 DEF DeviceExclusive, BusyIffSession, DeviceOpenIffUsed
<1>4. fp_action' = "ACTION_NONE"
  BY DEF StopBegin, StopAcquire, StopJoin, StopIsExclusive
<1>5. StopFindsWorker'
  BY <1>4 DEF StopFindsWorker, Kinds
<1>6. CASE \E k \in Kinds : StopBegin(k)
  <2>1. PICK k \in Kinds : StopBegin(k)
    BY <1>6
  <2>2. fp_action = k /\ thread[k] # NoThread /\ UNCHANGED thread
    BY <2>1 DEF StopBegin, StopFindsWorker
  <2>3. mpc' = "acquire_stop" /\ op' = [method |-> "Stop", kind |-> k]
    BY <2>1, <2>2 DEF StopBegin
  <2>4. SessionIsCurrent'
    BY <1>1, <1>2, <1>4, <2>2 DEF SessionIsCurrent
  <2>5. \A t \in Threads : InSess(t) => kind[t] = k
    BY <2>2 DEF SessionIsCurrent, Kinds
  <2>6. StopIsExclusive'
    BY <1>1, <1>2, <1>4, <2>2, <2>3, <2>5 DEF StopIsExclusive
  <2>7. QED
    BY <1>3, <1>5, <2>4, <2>6
<1>7. CASE StopAcquire
  BY <1>1, <1>2, <1>3, <1>5, <1>7
  DEF StopAcquire, SessionIsCurrent, StopIsExclusive
<1>8. CASE StopJoin
  <2>1. \A t \in Threads : ~InSess(t)
    <3>1. SUFFICES ASSUME NEW t \in Threads, InSess(t) PROVE FALSE
      OBVIOUS
    <3>2. thread[op.kind] = t
      BY <1>8, <3>1 DEF StopJoin, StopIsExclusive, SessionIsCurrent
    <3>3. pc[t] = "exited"
      BY <1>8, <3>2 DEF StopJoin
    <3>4. QED
      BY <3>1, <3>3 DEF InSess, InSession, InDevice
  <2>2. SessionIsCurrent'
    BY <1>2, <2>1 DEF SessionIsCurrent
  <2>3. StopIsExclusive'
    BY <1>8 DEF StopJoin, Answer, StopIsExclusive
  <2>4. QED
    BY <1>3, <1>5, <2>2, <2>3
<1>9. QED
  BY <1>6, <1>7, <1>8

\* The end of a session: the device is closed, then the flag is cleared, then
\* (when another session may already run) the action.
LEMMA EndSteps ==
  ASSUME SessionInv, TypeOK', NEW t \in Threads,
         Close(t) \/ ClearBusy(t) \/ ClearAction(t)
  PROVE  SessionInv'
<1> USE DEF SessionInv
<1>0. pc \in [Threads -> Places]
  BY DEF TypeOK
<1>1. UNCHANGED <<thread, mpc, op, kind>>
  BY DEF Close, ClearBusy, ClearAction, main
<1>2. CASE Close(t)
  <2>1. /\ pc[t] = "close" /\ pc' = [pc EXCEPT ![t] = "clear_busy"]
        /\ device' = "closed" /\ UNCHANGED <<fprint_busy, fp_action>>
    BY <1>2 DEF Close, Goto
  <2>2. \A s \in Threads : /\ InSess(s)' <=> InSess(s)
                           /\ (pc'[s] = "exited") <=> (pc[s] = "exited")
    BY <1>0, <2>1 DEF InSess, InSession, InDevice
  <2>3. \A s \in Threads : pc'[s] \notin InDevice
    BY <1>0, <2>1 DEF DeviceExclusive, InSess, InSession, InDevice
  <2>4. DeviceOpenIffUsed'
    BY <2>1, <2>3 DEF DeviceOpenIffUsed
  <2>5. StopFindsWorker'
    BY <1>1, <2>1, <2>2 DEF StopFindsWorker, TypeOK
  <2>6. QED
    BY <1>1, <2>1, <2>2, <2>4, <2>5
    DEF DeviceExclusive, BusyIffSession, SessionIsCurrent, StopIsExclusive
<1>3. CASE ClearBusy(t)
  <2>1. /\ pc[t] = "clear_busy" /\ pc' = [pc EXCEPT ![t] = "clear_action"]
        /\ fprint_busy' = FALSE /\ UNCHANGED <<device, fp_action>>
    BY <1>3 DEF ClearBusy, Goto
  <2>2. \A s \in Threads : ~InSess(s)'
    BY <1>0, <2>1 DEF DeviceExclusive, InSess, InSession, InDevice
  <2>3. \A s \in Threads : /\ (pc'[s] = "exited") <=> (pc[s] = "exited")
                           /\ (pc'[s] \in InDevice) <=> (pc[s] \in InDevice)
    BY <1>0, <2>1 DEF InDevice
  <2>4. DeviceOpenIffUsed'
    BY <2>1, <2>3 DEF DeviceOpenIffUsed
  <2>5. StopFindsWorker'
    BY <1>1, <2>1, <2>3 DEF StopFindsWorker, TypeOK
  <2>6. QED
    BY <1>1, <2>1, <2>2, <2>4, <2>5
    DEF DeviceExclusive, BusyIffSession, SessionIsCurrent, StopIsExclusive
<1>4. CASE ClearAction(t)
  <2>1. /\ pc[t] = "clear_action" /\ pc' = [pc EXCEPT ![t] = "exited"]
        /\ fp_action' = "ACTION_NONE" /\ UNCHANGED <<device, fprint_busy>>
    BY <1>4 DEF ClearAction, Goto
  <2>2. \A s \in Threads : /\ InSess(s)' <=> InSess(s)
                           /\ (pc'[s] \in InDevice) <=> (pc[s] \in InDevice)
    BY <1>0, <2>1 DEF InSess, InSession, InDevice
  <2>3. StopFindsWorker'
    BY <2>1 DEF StopFindsWorker, Kinds
  <2>4. QED
    BY <1>1, <2>1, <2>2, <2>3
    DEF DeviceExclusive, BusyIffSession, DeviceOpenIffUsed, SessionIsCurrent,
        StopIsExclusive
<1>5. QED
  BY <1>2, <1>3, <1>4

LEMMA SessionInvStep == SessionInv /\ [Next]_vars => SessionInv'
<1> SUFFICES ASSUME SessionInv, [Next]_vars PROVE SessionInv'
  OBVIOUS
<1>1. TypeOK'
  BY TypingStep DEF SessionInv
<1>2. ASSUME NEW k \in Kinds, StartBusy(k) \/ StartNoDevice(k) \/ StopNoAction(k)
      PROVE  SessionInv'
  BY <1>1, <1>2, AnswerStep DEF StartBusy, StartNoDevice, StopNoAction, Answer
<1>3. CASE Delete
  BY <1>1, <1>3, AnswerStep DEF Delete, Answer
<1>4. ASSUME NEW k \in Kinds, NEW t \in Threads, StartSession(k, t)
      PROVE  SessionInv'
  BY <1>1, <1>4, StartStep
<1>5. CASE (\E k \in Kinds : StopBegin(k)) \/ StopAcquire \/ StopJoin
  BY <1>1, <1>5, StopSteps
<1>6. ASSUME NEW t \in Threads, WorkerNext(t) PROVE SessionInv'
  <2>1. CASE Load(t) \/ LoopHead(t) \/ AcquireEnter(t) \/ Finish(t)
    BY <2>1, <1>1, InsideStep
    DEF Load, LoopHead, AcquireEnter, Finish, shared, main, Goto, InDevice
  <2>2. CASE CaptureFinger(t) \/ CaptureHalted(t) \/ CaptureTimeout(t)
    BY <2>2, <1>1, InsideStep
    DEF CaptureFinger, CaptureHalted, CaptureTimeout, AfterCapture, shared,
        main, Goto, InDevice
  <2>3. CASE Close(t) \/ ClearBusy(t) \/ ClearAction(t)
    BY <2>3, <1>1, EndSteps
  <2>4. QED
    BY <1>6, <2>1, <2>2, <2>3 DEF WorkerNext, WorkerStep
<1>7. CASE UNCHANGED vars
  BY <1>1, <1>7
  DEF vars, SessionInv, DeviceExclusive, BusyIffSession, DeviceOpenIffUsed,
      StopFindsWorker, SessionIsCurrent, StopIsExclusive, InSess
<1>8. QED
  BY <1>2, <1>3, <1>4, <1>5, <1>6, <1>7 DEF Next, MainNext, StopReturn

\* A Stop request is answered Ok only when no worker is in a session.
LEMMA StopEnds ==
  ASSUME SessionInv,
         StopJoin \/ (\E k \in Kinds : StopBegin(k) /\ mpc' = "idle")
  PROVE  ~fprint_busy' /\ device' = "closed"
<1> USE DEF SessionInv
<1>1. ~ \E k \in Kinds : StopBegin(k) /\ mpc' = "idle"
  BY DEF StopBegin, StopFindsWorker
<1>2. StopJoin
  BY <1>1
<1>3. \A t \in Threads : ~InSess(t)
  <2>1. SUFFICES ASSUME NEW t \in Threads, InSess(t) PROVE FALSE
    OBVIOUS
  <2>2. thread[op.kind] = t
    BY <1>2, <2>1 DEF StopJoin, StopIsExclusive, SessionIsCurrent
  <2>3. QED
    BY <1>2, <2>1, <2>2 DEF StopJoin, InSess, InSession, InDevice
<1>4. ~fprint_busy /\ device # "open"
  BY <1>3 DEF BusyIffSession, DeviceOpenIffUsed, InSess, InSession
<1>5. QED
  BY <1>2, <1>4 DEF StopJoin, TypeOK

\* The session invariant holds of every behaviour.
THEOREM SessionCorrect == SafeSpec => []SessionInv
<1>1. Init => SessionInv
  <2> SUFFICES ASSUME Init PROVE SessionInv
    OBVIOUS
  <2>1. TypeOK
    BY InitTyped
  <2>2. \A t \in Threads : ~InSess(t) /\ pc[t] \notin InDevice
    BY DEF Init, InSess, InSession, InDevice
  <2>3. QED
    BY <2>1, <2>2
    DEF Init, SessionInv, DeviceExclusive, BusyIffSession, DeviceOpenIffUsed,
        StopFindsWorker, SessionIsCurrent, StopIsExclusive, Kinds
<1>2. QED
  BY <1>1, SessionInvStep, PTL DEF SafeSpec

\* The device never has two users.
THEOREM ExclusionCorrect == SafeSpec => []DeviceExclusive
<1>1. SessionInv => DeviceExclusive
  BY DEF SessionInv
<1>2. QED
  BY <1>1, SessionCorrect, PTL

\* The busy flag and the open device are those of the running session.
THEOREM BusyCorrect == SafeSpec => [](BusyIffSession /\ DeviceOpenIffUsed)
<1>1. SessionInv => BusyIffSession /\ DeviceOpenIffUsed
  BY DEF SessionInv
<1>2. QED
  BY <1>1, SessionCorrect, PTL

\* The worker in a session is the one its service's thread pointer names, and
\* fp_action, unless withdrawn, is its kind.
THEOREM CurrentCorrect == SafeSpec => []SessionIsCurrent
<1>1. SessionInv => SessionIsCurrent
  BY DEF SessionInv
<1>2. QED
  BY <1>1, SessionCorrect, PTL

\* Stop waits for the worker of the session in progress, and for no other.
THEOREM StopTargetCorrect == SafeSpec => [](StopFindsWorker /\ StopIsExclusive)
<1>1. SessionInv => StopFindsWorker /\ StopIsExclusive
  BY DEF SessionInv
<1>2. QED
  BY <1>1, SessionCorrect, PTL

\* When Stop is answered Ok, the device is free and closed.
THEOREM StopCorrect == SafeSpec => StopFreesDevice
<1>1. SessionInv /\ [Next]_vars =>
        [StopJoin \/ (\E k \in Kinds : StopBegin(k) /\ mpc' = "idle")
           => ~fprint_busy' /\ device' = "closed"]_vars
  BY StopEnds
<1>2. QED
  BY <1>1, SessionCorrect, PTL DEF SafeSpec, StopFreesDevice

------------------------------------------------------------------------------
(* Attempts *)

\* A worker's count of captures stays within the limit at every step.
LEMMA AttemptsStep ==
  TypeOK /\ AttemptsBounded /\ [Next]_vars => AttemptsBounded'
<1> SUFFICES ASSUME TypeOK, AttemptsBounded, [Next]_vars,
                    NEW s \in Threads
             PROVE  /\ tries'[s] <= MAX_TRY_COUNT
                    /\ pc'[s] \in {"acquire", "wait"}
                         /\ kind'[s] = "FP_ACTION_VERIFY"
                         => tries'[s] < MAX_TRY_COUNT
  BY DEF AttemptsBounded
<1> DEFINE Bounded ==
      /\ tries'[s] <= MAX_TRY_COUNT
      /\ pc'[s] \in {"acquire", "wait"} /\ kind'[s] = "FP_ACTION_VERIFY"
           => tries'[s] < MAX_TRY_COUNT
<1>0. /\ pc \in [Threads -> Places] /\ kind \in [Threads -> Kinds]
      /\ tries \in [Threads -> Nat] /\ MAX_TRY_COUNT \in Nat \ {0}
      /\ tries[s] \in Nat
  BY TryCountAssumption DEF TypeOK
<1>1. CASE UNCHANGED <<pc, kind, tries>>
  BY <1>1 DEF AttemptsBounded
<1>2. ASSUME NEW k \in Kinds, NEW t \in Threads, StartSession(k, t)
      PROVE  Bounded
  <2>1. CASE s = t
    BY <1>0, <1>2, <2>1 DEF StartSession
  <2>2. CASE s # t
    BY <1>0, <1>2, <2>2 DEF StartSession, AttemptsBounded
  <2>3. QED
    BY <2>1, <2>2
<1>3. ASSUME NEW t \in Threads, WorkerNext(t) PROVE Bounded
  <2>1. CASE s # t
    BY <1>0, <1>3, <2>1
    DEF WorkerNext, WorkerStep, Load, LoopHead, AcquireEnter, CaptureFinger,
        CaptureHalted, CaptureTimeout, AfterCapture, Finish, Close, ClearBusy,
        ClearAction, Goto, main, shared, AttemptsBounded
  <2>2. CASE s = t
    <3>1. CASE LoopHead(t)
      BY <1>0, <2>2, <3>1 DEF LoopHead, MayTry, Goto, AttemptsBounded
    <3>2. CASE AcquireEnter(t)
      BY <1>0, <2>2, <3>2 DEF AcquireEnter, Goto, AttemptsBounded
    <3>3. ASSUME NEW enough \in BOOLEAN, pc[t] = "wait", AfterCapture(t, enough)
          PROVE  Bounded
      <4>1. pc'[t] \notin {"acquire", "wait"}
        BY <1>0, <3>3 DEF AfterCapture, Goto
      <4>2. tries'[t] <= MAX_TRY_COUNT
        <5>1. CASE kind[t] = "FP_ACTION_ENROLL" /\ tries[t] = MAX_TRY_COUNT
          BY <1>0, <3>3, <5>1 DEF AfterCapture
        <5>2. CASE ~(kind[t] = "FP_ACTION_ENROLL" /\ tries[t] = MAX_TRY_COUNT)
          <6>1. tries[t] < MAX_TRY_COUNT
            BY <1>0, <2>2, <3>3, <5>2 DEF AttemptsBounded, Kinds
          <6>2. tries'[t] = tries[t] + 1
            BY <1>0, <3>3, <5>2 DEF AfterCapture
          <6>3. QED
            BY <1>0, <2>2, <6>1, <6>2
        <5>3. QED
          BY <5>1, <5>2
      <4>3. QED
        BY <2>2, <4>1, <4>2
    <3>4. CASE CaptureFinger(t) \/ CaptureHalted(t) \/ CaptureTimeout(t)
      BY <3>3, <3>4 DEF CaptureFinger, CaptureHalted, CaptureTimeout
    <3>5. CASE Load(t) \/ Finish(t) \/ Close(t) \/ ClearBusy(t) \/ ClearAction(t)
      BY <1>0, <2>2, <3>5
      DEF Load, Finish, Close, ClearBusy, ClearAction, Goto, main, shared,
          AttemptsBounded
    <3>6. QED
      BY <1>3, <3>1, <3>2, <3>4, <3>5 DEF WorkerNext, WorkerStep
  <2>3. QED
    BY <2>1, <2>2
<1>4. QED
  BY <1>1, <1>2, <1>3
  DEF Next, MainNext, StopReturn, StartBusy, StartNoDevice, StopNoAction,
      StopBegin, StopAcquire, StopJoin, Delete, vars

\* No session captures more often than its limit allows.
THEOREM AttemptsCorrect == SafeSpec => []AttemptsBounded
<1>1. Init => AttemptsBounded
  <2> SUFFICES ASSUME Init, NEW t \in Threads
               PROVE  /\ tries[t] <= MAX_TRY_COUNT
                      /\ pc[t] \notin {"acquire", "wait"}
    BY DEF AttemptsBounded
  <2>1. tries[t] = 0 /\ pc[t] = "exited" /\ 0 <= MAX_TRY_COUNT
    BY TryCountAssumption DEF Init
  <2>2. QED
    BY <2>1
<1>2. QED
  BY <1>1, AttemptsStep, TypeCorrect, PTL DEF SafeSpec

------------------------------------------------------------------------------
(* The lease *)

\* The abstract holder is the worker in a session, or nobody.
LEMMA HolderIs ==
  ASSUME DeviceExclusive
  PROVE  /\ \A t \in Threads : InSess(t) => Holder = t
         /\ (\A t \in Threads : ~InSess(t)) => Holder = NoThread
BY DEF DeviceExclusive, Holder

\* A step that moves no worker into or out of a session keeps the holder.
LEMMA HolderKept ==
  ASSUME DeviceExclusive, DeviceExclusive',
         \A t \in Threads : InSess(t)' <=> InSess(t)
  PROVE  Holder' = Holder
<1>1. CASE \E t \in Threads : InSess(t)
  <2>1. PICK t \in Threads : InSess(t)
    BY <1>1
  <2>2. Holder = t
    BY <2>1, HolderIs
  <2>3. Holder' = t
    BY <2>1 DEF Holder, DeviceExclusive
  <2>4. QED
    BY <2>2, <2>3
<1>2. CASE \A t \in Threads : ~InSess(t)
  BY <1>2 DEF Holder
<1>3. QED
  BY <1>1, <1>2

\* Every step of the service grants the lease, returns it or leaves it alone.
LEMMA LeaseStep ==
  SessionInv /\ SessionInv' /\ [Next]_vars => [Lease!Next]_Holder
<1> SUFFICES ASSUME SessionInv, SessionInv', [Next]_vars
             PROVE  Lease!Next \/ Holder' = Holder
  OBVIOUS
<1>0. DeviceExclusive /\ DeviceExclusive' /\ pc \in [Threads -> Places]
  BY DEF SessionInv, TypeOK
<1>1. CASE UNCHANGED pc
  BY <1>0, <1>1, HolderKept DEF InSess
<1>2. ASSUME NEW k \in Kinds, NEW t \in Threads, StartSession(k, t)
      PROVE  Lease!Next
  <2>1. \A s \in Threads : ~InSess(s)
    BY <1>2 DEF StartSession, MayStart, SessionInv, BusyIffSession
  <2>2. Holder = NoThread
    BY <1>0, <2>1, HolderIs
  <2>3. InSess(t)'
    BY <1>0, <1>2 DEF StartSession, InSess, InSession, InDevice
  <2>4. Holder' = t
    BY <1>0, <2>3 DEF DeviceExclusive, Holder
  <2>5. QED
    BY <2>2, <2>4 DEF Lease!Next, Lease!Grant
<1>3. ASSUME NEW t \in Threads, ClearBusy(t) PROVE Lease!Next
  <2>1. InSess(t)
    BY <1>3 DEF ClearBusy, InSess, InSession
  <2>2. Holder = t
    BY <1>0, <2>1, HolderIs
  <2>3. ~fprint_busy'
    BY <1>3 DEF ClearBusy
  <2>4. \A s \in Threads : ~InSess(s)'
    BY <2>3 DEF SessionInv, BusyIffSession
  <2>5. Holder' = NoThread
    BY <2>4 DEF Holder
  <2>6. QED
    BY <2>2, <2>5 DEF Lease!Next, Lease!Return
<1>4. ASSUME NEW t \in Threads, WorkerNext(t), ~ClearBusy(t)
      PROVE  Holder' = Holder
  <2>1. \A s \in Threads : InSess(s)' <=> InSess(s)
    BY <1>0, <1>4
    DEF WorkerNext, WorkerStep, Load, LoopHead, AcquireEnter, CaptureFinger,
        CaptureHalted, CaptureTimeout, AfterCapture, Finish, Close,
        ClearAction, Goto, InSess, InSession, InDevice
  <2>2. QED
    BY <1>0, <2>1, HolderKept
<1>5. QED
  BY <1>1, <1>2, <1>3, <1>4
  DEF Next, MainNext, StopReturn, StartBusy, StartNoDevice, StopNoAction,
      StopBegin, StopAcquire, StopJoin, Delete, vars

\* The service implements the device lease (its safety part).
THEOREM LeaseCorrect == SafeSpec => Lease!SafeSpec
<1>1. Init => Lease!Init
  BY DEF Init, Lease!Init, Holder, InSess, InSession, InDevice
<1>2. QED
  BY <1>1, LeaseStep, SessionCorrect, PTL DEF SafeSpec, Lease!SafeSpec
==============================================================================
