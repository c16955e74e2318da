------------------------- MODULE FprintManagerProofs -------------------------
(***************************************************************************)
(* Proofs that the fingerprint manager keeps its modules, handles and use  *)
(* counts in order, for any set of driver modules.                         *)
(***************************************************************************)
EXTENDS FprintManager, TLAPS

\* Opening is under way only between sessions, and tries the current module
\* first only if there is one.
PlaceInv ==
  /\ leased => mpc \in {"idle", "crashed"} /\ current_module # NoModule
  /\ mpc = "current" => current_module # NoModule

\* The inductive invariant.
ManagerInv ==
  /\ TypeOK
  /\ PlaceInv
  /\ LoadedIffCurrent
  /\ OpenIffLeased
  /\ LeasedInitialised
  /\ HandlesOfLoaded
  /\ WorkerCallsOnOpen

------------------------------------------------------------------------------
(* What the operators of opening do *)

\* After module m has replaced the current one, m alone is used.
LEMMA UseCountMoves ==
  ASSUME TypeOK, LoadedIffCurrent, NEW m \in Modules
  PROVE  \A n \in Modules : UseCountAfter(m)[n] = IF n = m THEN 1 ELSE 0
<1>1. SUFFICES ASSUME NEW n \in Modules
               PROVE  UseCountAfter(m)[n] = IF n = m THEN 1 ELSE 0
  OBVIOUS
<1>2. use_count[n] = IF n = current_module THEN 1 ELSE 0
  BY DEF LoadedIffCurrent
<1>3. QED
  BY <1>2 DEF UseCountAfter

\* A library that is initialised keeps its count in range.
LEMMA InitsInRange ==
  ASSUME TypeOK, NEW m \in Modules, NEW outcome \in Outcomes,
         inits[m] < MaxInits
  PROVE  /\ InitsAfter(m, outcome) \in [Modules -> 0 .. MaxInits]
         /\ outcome = "OK" => InitsAfter(m, outcome)[m] > 0
BY ManagerAssumption DEF TypeOK, InitsAfter, Outcomes

\* Opening gives the module that was tried an open handle if it succeeds, none
\* or the one it had if it does not, and touches no other.
LEMMA HandleOfTried ==
  ASSUME TypeOK, NEW m \in Modules, NEW outcome \in Outcomes
  PROVE  /\ HandleAfter(m, outcome) \in [Modules -> Handles]
         /\ outcome = "OK" => HandleAfter(m, outcome)[m] = "open"
         /\ outcome # "OK" => HandleAfter(m, outcome)[m] \in {"NULL", hDevice[m]}
         /\ \A n \in Modules \ {m} : HandleAfter(m, outcome)[n] = hDevice[n]
BY DEF TypeOK, HandleAfter, Outcomes, Handles

------------------------------------------------------------------------------
(* The invariant *)

LEMMA InitInv == Init => ManagerInv
<1> SUFFICES ASSUME Init PROVE ManagerInv
  OBVIOUS
<1>1. TypeOK
  <2>1. 0 \in 0 .. MaxInits /\ 0 \in 0 .. 1
    BY ManagerAssumption
  <2>2. call \in [fn : Calls, handle : Handles]
    BY DEF Init, Calls, Handles
  <2>3. QED
    BY <2>1, <2>2 DEF Init, TypeOK, Handles
<1>2. PlaceInv /\ LeasedInitialised /\ WorkerCallsOnOpen
  BY DEF Init, PlaceInv, LeasedInitialised, WorkerCallsOnOpen, WorkerCalls
<1>3. LoadedIffCurrent /\ OpenIffLeased /\ HandlesOfLoaded
  BY ManagerAssumption
     DEF Init, LoadedIffCurrent, OpenIffLeased, HandlesOfLoaded
<1>4. QED
  BY <1>1, <1>2, <1>3 DEF ManagerInv

\* Trying the current module.
LEMMA TryCurrentInv ==
  ASSUME ManagerInv, NEW outcome \in Outcomes, TryCurrent(outcome)
  PROVE  ManagerInv'
<1> DEFINE c == current_module
<1>a. c \in Modules /\ c \in modules /\ ~leased
  BY DEF ManagerInv, PlaceInv, TypeOK, TryCurrent
<1>b. TypeOK /\ use_count[c] = 1
  BY <1>a DEF ManagerInv, LoadedIffCurrent
<1>c. /\ inits' \in [Modules -> 0 .. MaxInits]
      /\ outcome = "OK" => inits'[c] > 0
  BY <1>a, <1>b, InitsInRange DEF TryCurrent
<1>d. /\ hDevice' \in [Modules -> Handles]
      /\ outcome = "OK" => hDevice'[c] = "open"
      /\ outcome # "OK" => hDevice'[c] \in {"NULL", hDevice[c]}
      /\ \A n \in Modules \ {c} : hDevice'[n] = hDevice[n]
  BY <1>a, <1>b, HandleOfTried DEF TryCurrent
<1>e. \A n \in Modules : hDevice[n] # "open"
  BY <1>a DEF ManagerInv, OpenIffLeased
<1>1. TypeOK'
  BY <1>b, <1>c, <1>d DEF TypeOK, TryCurrent, Outcomes
<1>2. PlaceInv'
  BY <1>a, ManagerAssumption DEF PlaceInv, TryCurrent
<1>3. LoadedIffCurrent'
  BY DEF ManagerInv, LoadedIffCurrent, TryCurrent
<1>4. OpenIffLeased'
  BY <1>a, <1>d, <1>e DEF OpenIffLeased, TryCurrent
<1>5. LeasedInitialised'
  BY <1>c DEF LeasedInitialised, TryCurrent
<1>6. HandlesOfLoaded'
  BY <1>a, <1>b, <1>d DEF ManagerInv, HandlesOfLoaded, TryCurrent
<1>7. WorkerCallsOnOpen'
  BY DEF ManagerInv, WorkerCallsOnOpen, TryCurrent
<1>8. QED
  BY <1>1, <1>2, <1>3, <1>4, <1>5, <1>6, <1>7 DEF ManagerInv

\* Trying the next module of the walk.
LEMMA WalkInv ==
  ASSUME ManagerInv, NEW m \in Modules, NEW outcome \in Outcomes,
         Walk(m, outcome)
  PROVE  ManagerInv'
<1> DEFINE handles == HandleAfter(m, outcome)
<1>a. TypeOK /\ LoadedIffCurrent /\ ~leased /\ m \in modules
  BY DEF ManagerInv, PlaceInv, TypeOK, Walk
<1>b. /\ inits' \in [Modules -> 0 .. MaxInits]
      /\ outcome = "OK" => inits'[m] > 0
  BY <1>a, InitsInRange DEF Walk
<1>c. /\ handles \in [Modules -> Handles]
      /\ outcome = "OK" => handles[m] = "open"
      /\ outcome # "OK" => handles[m] \in {"NULL", hDevice[m]}
      /\ \A n \in Modules \ {m} : handles[n] = hDevice[n]
  BY <1>a, HandleOfTried
<1>d. \A n \in Modules :
        hDevice'[n] = IF use_count'[n] = 0 THEN "NULL" ELSE handles[n]
  BY DEF Walk, Unloaded
<1>e. \A n \in Modules : hDevice[n] # "open"
  BY <1>a DEF ManagerInv, OpenIffLeased
<1>f. \A n \in Modules : use_count'[n] = IF n = current_module' THEN 1 ELSE 0
  <2>1. CASE outcome = "OK"
    BY <1>a, <2>1, UseCountMoves DEF Walk
  <2>2. CASE outcome # "OK"
    BY <1>a, <2>2 DEF Walk, LoadedIffCurrent
  <2>3. QED
    BY <2>1, <2>2
<1>1. TypeOK'
  <2>1. hDevice' \in [Modules -> Handles]
    BY <1>c, <1>d DEF Walk, Unloaded, Handles
  <2>2. use_count' \in [Modules -> 0 .. 1]
    <3>1. use_count' = [n \in Modules |-> use_count'[n]]
      BY <1>a DEF Walk, UseCountAfter, TypeOK
    <3>2. QED
      BY <1>f, <3>1
  <2>3. QED
    BY <1>a, <1>b, <2>1, <2>2 DEF TypeOK, Walk
<1>2. PlaceInv'
  BY <1>a, ManagerAssumption DEF PlaceInv, Walk
<1>3. LoadedIffCurrent'
  BY <1>f DEF LoadedIffCurrent
<1>4. OpenIffLeased'
  BY <1>a, <1>c, <1>d, <1>e, <1>f DEF OpenIffLeased, Walk
<1>5. LeasedInitialised'
  BY <1>a, <1>b DEF LeasedInitialised, Walk
<1>6. HandlesOfLoaded'
  BY <1>d, <1>f DEF HandlesOfLoaded
<1>7. WorkerCallsOnOpen'
  BY DEF ManagerInv, WorkerCallsOnOpen, Walk
<1>8. QED
  BY <1>1, <1>2, <1>3, <1>4, <1>5, <1>6, <1>7 DEF ManagerInv

\* Closing the device.
LEMMA CloseInv ==
  ASSUME ManagerInv, Close
  PROVE  ManagerInv'
<1> DEFINE c == current_module
<1>a. /\ TypeOK /\ leased /\ c \in Modules
      /\ hDevice[c] = "open" /\ inits[c] > 0 /\ use_count[c] = 1
  BY DEF ManagerInv, PlaceInv, TypeOK, OpenIffLeased, LeasedInitialised,
         LoadedIffCurrent, Close
<1>b. /\ call' = [fn |-> "close", handle |-> "open"]
      /\ hDevice' = [hDevice EXCEPT ![c] = "stale"]
      /\ inits' = [inits EXCEPT ![c] = @ - 1]
      /\ leased' = FALSE
      /\ UNCHANGED <<modules, current_module, use_count, mpc, todo>>
  BY <1>a DEF Close
<1>1. TypeOK'
  <2>1. call' \in [fn : Calls, handle : Handles]
    BY <1>b DEF Calls, WorkerCalls, Handles
  <2>2. inits' \in [Modules -> 0 .. MaxInits]
    BY <1>a, <1>b, ManagerAssumption DEF TypeOK
  <2>3. hDevice' \in [Modules -> Handles]
    BY <1>a, <1>b DEF TypeOK, Handles
  <2>4. QED
    BY <1>a, <1>b, <2>1, <2>2, <2>3 DEF TypeOK
<1>2. PlaceInv' /\ LoadedIffCurrent' /\ LeasedInitialised' /\ WorkerCallsOnOpen'
  BY <1>b DEF ManagerInv, PlaceInv, LoadedIffCurrent, LeasedInitialised,
              WorkerCallsOnOpen
<1>3. OpenIffLeased'
  BY <1>a, <1>b DEF ManagerInv, OpenIffLeased, TypeOK
<1>4. HandlesOfLoaded'
  BY <1>a, <1>b DEF ManagerInv, HandlesOfLoaded, TypeOK
<1>5. QED
  BY <1>1, <1>2, <1>3, <1>4 DEF ManagerInv

\* Every other step leaves modules, handles and counts alone.
LEMMA QuietInv ==
  ASSUME ManagerInv,
         UNCHANGED <<modules, current_module, use_count, hDevice, inits, leased>>,
         todo' \in SUBSET modules,
         mpc' \in {"idle", "walk", "current", "crashed"},
         mpc' \in {"walk", "current"} => ~leased,
         mpc' = "current" => current_module # NoModule,
         call' \in [fn : Calls, handle : Handles],
         call'.fn \in WorkerCalls => call'.handle = "open"
  PROVE  ManagerInv'
BY DEF ManagerInv, TypeOK, PlaceInv, LoadedIffCurrent, OpenIffLeased,
       LeasedInitialised, HandlesOfLoaded, WorkerCallsOnOpen

LEMMA StepInv == ManagerInv /\ [Next]_vars => ManagerInv'
<1> SUFFICES ASSUME ManagerInv, [Next]_vars PROVE ManagerInv'
  OBVIOUS
<1>a. /\ TypeOK /\ PlaceInv /\ OpenIffLeased
      /\ WorkerCallsOnOpen
  BY DEF ManagerInv
<1>1. CASE OpenBegin
  BY <1>1, <1>a, QuietInv
     DEF OpenBegin, TypeOK, WorkerCallsOnOpen
<1>2. ASSUME NEW outcome \in Outcomes, TryCurrent(outcome) PROVE ManagerInv'
  BY <1>2, TryCurrentInv
<1>3. ASSUME NEW outcome \in Outcomes, NEW m \in Modules, Walk(m, outcome)
      PROVE  ManagerInv'
  BY <1>3, WalkInv
<1>4. ASSUME NEW m \in Modules, WalkUnloadable(m) PROVE ManagerInv'
  BY <1>4, <1>a, QuietInv
     DEF WalkUnloadable, TypeOK, PlaceInv, WorkerCallsOnOpen
<1>5. CASE InitFails
  BY <1>5, <1>a, QuietInv
     DEF InitFails, TypeOK, WorkerCallsOnOpen
<1>6. CASE OpenEnd
  BY <1>6, <1>a, QuietInv
     DEF OpenEnd, TypeOK, WorkerCallsOnOpen
<1>7. CASE Close
  BY <1>7, CloseInv
<1>8. ASSUME NEW fn \in WorkerCalls \ {"close"}, UseDevice(fn) PROVE ManagerInv'
  <2>1. current_module \in Modules /\ hDevice[current_module] = "open"
    BY <1>8, <1>a DEF UseDevice, PlaceInv, OpenIffLeased, TypeOK
  <2>2. call' = [fn |-> fn, handle |-> "open"]
    BY <1>8, <2>1 DEF UseDevice
  <2>3. call' \in [fn : Calls, handle : Handles]
    BY <2>2 DEF Calls, Handles
  <2>4. QED
    BY <1>8, <1>a, <2>2, <2>3, QuietInv DEF UseDevice, TypeOK, PlaceInv
<1>9. CASE StopCapture
  <2>1. call' \in [fn : Calls, handle : Handles] /\ call'.fn = "stop"
    BY <1>9, <1>a DEF StopCapture, TypeOK, Calls
  <2>2. QED
    BY <1>9, <1>a, <2>1, QuietInv DEF StopCapture, TypeOK, WorkerCalls
<1>10. CASE UNCHANGED vars
  BY <1>10, <1>a, QuietInv DEF vars, TypeOK, PlaceInv, WorkerCallsOnOpen
<1>11. QED
  BY <1>1, <1>2, <1>3, <1>4, <1>5, <1>6, <1>7, <1>8, <1>9, <1>10 DEF Next

\* The manager's modules, handles and counts agree at all times.
THEOREM ManagerCorrect == Spec => []ManagerInv
BY InitInv, StepInv, PTL DEF Spec

\* The type invariant of FprintManager.
THEOREM ManagerTypeCorrect == Spec => []TypeOK
<1>1. ManagerInv => TypeOK
  BY DEF ManagerInv
<1>2. QED
  BY <1>1, ManagerCorrect, PTL

\* kiran_fprint_manager_open: exactly the current module is loaded, however
\* many modules there are and whichever of them fail to load or to open.
THEOREM LoadedCorrect == Spec => []LoadedIffCurrent
<1>1. ManagerInv => LoadedIffCurrent
  BY DEF ManagerInv
<1>2. QED
  BY <1>1, ManagerCorrect, PTL

\* kiran_fprint_manager_open and _close: exactly the current module's device is
\* open, exactly while a session holds the manager.
THEOREM OpenCorrect == Spec => []OpenIffLeased
<1>1. ManagerInv => OpenIffLeased
  BY DEF ManagerInv
<1>2. QED
  BY <1>1, ManagerCorrect, PTL

\* kiran_fprint_module_unload: no handle outlives its library.
THEOREM HandlesCorrect == Spec => []HandlesOfLoaded
<1>1. ManagerInv => HandlesOfLoaded
  BY DEF ManagerInv
<1>2. QED
  BY <1>1, ManagerCorrect, PTL

\* kiran_fprint_manager_open and _close: the library of the module that a
\* session holds is initialised as long as the session lasts.
THEOREM InitialisedCorrect == Spec => []LeasedInitialised
<1>1. ManagerInv => LeasedInitialised
  BY DEF ManagerInv
<1>2. QED
  BY <1>1, ManagerCorrect, PTL

\* A session's driver calls are made on an open device.
THEOREM CallsCorrect == Spec => []WorkerCallsOnOpen
<1>1. ManagerInv => WorkerCallsOnOpen
  BY DEF ManagerInv
<1>2. QED
  BY <1>1, ManagerCorrect, PTL
==============================================================================
