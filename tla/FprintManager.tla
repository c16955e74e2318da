---------------------------- MODULE FprintManager ----------------------------
(***************************************************************************)
(* The fingerprint manager: which driver module is loaded and current, and *)
(* what becomes of its library and its device when sessions open and close *)
(* it.  The worker of a session closes the device, and everything else is  *)
(* done by the main loop; FprintSession shows that the two never overlap.  *)
(***************************************************************************)
EXTENDS Naturals, FiniteSets

CONSTANTS
  Modules,     \* the driver files in the module directory
  NoModule,    \* the NULL module
  MaxInits     \* bound on initialisations of a library that are not undone

ASSUME ManagerAssumption == NoModule \notin Modules /\ MaxInits \in Nat \ {0}

VARIABLES
  modules,         \* priv->modules
  current_module,  \* priv->current_module
  use_count,       \* GTypeModule's: a module is loaded while it is positive
  hDevice,         \* module->hDevice: NULL, open, or stale (closed since)
  inits,           \* fprint_init calls less fprint_finalize calls
  leased,          \* kiran_fprint_manager_open has returned OK, close not begun
  mpc,             \* where kiran_fprint_manager_open is
  todo,            \* modules its loop has yet to visit
  call             \* the last driver call of a session: function and handle

vars == <<modules, current_module, use_count, hDevice, inits, leased, mpc, todo,
          call>>

Outcomes == {"OK", "NO_DEVICE", "FAIL"}
Handles  == {"NULL", "open", "stale"}
\* The driver functions the worker calls through the manager, and the one the
\* Stop handler calls.
WorkerCalls == {"acquire", "verify", "merge", "match", "close"}
Calls == WorkerCalls \cup {"stop"}

TypeOK ==
  /\ modules \subseteq Modules
  /\ current_module \in modules \cup {NoModule}
  /\ use_count \in [Modules -> 0 .. 1]
  /\ hDevice \in [Modules -> Handles]
  /\ inits \in [Modules -> 0 .. MaxInits]
  /\ leased \in BOOLEAN
  /\ mpc \in {"idle", "current", "walk", "crashed"}
  /\ todo \subseteq modules
  /\ call \in [fn : Calls, handle : Handles]

\* The modules of the directory that can be loaded are tried once, and let go.
Init ==
  /\ modules \in SUBSET Modules
  /\ current_module = NoModule
  /\ use_count = [m \in Modules |-> 0]
  /\ hDevice = [m \in Modules |-> "NULL"]
  /\ inits = [m \in Modules |-> 0]
  /\ leased = FALSE
  /\ mpc = "idle"
  /\ todo = {}
  /\ call = [fn |-> "stop", handle |-> "NULL"]

------------------------------------------------------------------------------
(* kiran_fprint_manager_open *)

\* Mutant: the library is finalised in every case.
InitsAfter_Undone(m, outcome) == inits

\* kiran_fprint_manager_open_with_module: the library is initialised, whatever
\* that returns; without a device it is finalised again, but when no device
\* can be opened it is not.
InitsAfter(m, outcome) ==
  [inits EXCEPT ![m] = IF outcome = "NO_DEVICE" THEN @ ELSE @ + 1]

\* Mutant: a handle that is there already is kept.
HandleAfter_KeepsOld(m, outcome) ==
  [hDevice EXCEPT ![m] = IF outcome = "OK" /\ @ = "NULL" THEN "open" ELSE @]

HandleAfter(m, outcome) ==
  [hDevice EXCEPT ![m] = CASE outcome = "OK"        -> "open"
                           [] outcome = "FAIL"      -> "NULL"
                           [] outcome = "NO_DEVICE" -> @]

\* Mutant: unloading leaves the handle.
Unloaded_KeepsHandle(counts, handles) == handles

\* kiran_fprint_module_unload, which g_type_module_unuse calls at zero.
Unloaded(counts, handles) ==
  [m \in Modules |-> IF counts[m] = 0 THEN "NULL" ELSE handles[m]]

OpenBegin ==
  /\ mpc = "idle"
  /\ ~leased
  /\ mpc' = IF current_module = NoModule THEN "walk" ELSE "current"
  /\ todo' = modules
  /\ UNCHANGED <<modules, current_module, use_count, hDevice, inits, leased, call>>

\* The module that was last in use is tried first.
TryCurrent(outcome) ==
  /\ mpc = "current"
  /\ inits[current_module] < MaxInits
  /\ inits' = InitsAfter(current_module, outcome)
  /\ hDevice' = HandleAfter(current_module, outcome)
  /\ leased' = (outcome = "OK")
  /\ mpc' = IF outcome = "OK" THEN "idle" ELSE "walk"
  /\ UNCHANGED <<modules, current_module, use_count, todo, call>>

\* Mutant: the module that is replaced is not let go of.
UseCountAfter_NoUnuse(m) == [use_count EXCEPT ![m] = @ + 1]

\* Module m is used, and the one it replaces, if any, let go of.
UseCountAfter(m) ==
  [n \in Modules |-> use_count[n] + (IF n = m THEN 1 ELSE 0)
                                  - (IF n = current_module THEN 1 ELSE 0)]

\* Then every module in turn.  The counts of using the module and of letting
\* go of it, or of the module it replaces, are taken together.
Walk(m, outcome) ==
  /\ mpc = "walk"
  /\ m \in todo
  /\ inits[m] < MaxInits
  /\ inits' = InitsAfter(m, outcome)
  /\ IF outcome = "OK"
       THEN /\ current_module' = m
            /\ use_count' = UseCountAfter(m)
            /\ leased' = TRUE
            /\ mpc' = "idle"
       ELSE UNCHANGED <<current_module, use_count, leased, mpc>>
  /\ hDevice' = Unloaded(use_count', HandleAfter(m, outcome))
  /\ todo' = todo \ {m}
  /\ UNCHANGED <<modules, call>>

\* A module that is not loaded may fail to load again; it is passed over.
WalkUnloadable(m) ==
  /\ mpc = "walk"
  /\ m \in todo
  /\ use_count[m] = 0
  /\ todo' = todo \ {m}
  /\ UNCHANGED <<modules, current_module, use_count, hDevice, inits, leased,
                 mpc, call>>

\* The initialisation of a driver fails because its vendor library is missing;
\* the calls that follow go through function pointers nobody has set.
InitFails ==
  /\ mpc \in {"current", "walk"}
  /\ mpc = "walk" => todo # {}
  /\ mpc' = "crashed"
  /\ UNCHANGED <<modules, current_module, use_count, hDevice, inits, leased,
                 todo, call>>

OpenEnd ==
  /\ mpc = "walk"
  /\ todo = {}
  /\ mpc' = "idle"
  /\ UNCHANGED <<modules, current_module, use_count, hDevice, inits, leased,
                 todo, call>>

------------------------------------------------------------------------------
(* The other entry points *)

\* Mutant: the library is finalised without the device being closed.
Close_FinalizeOnly ==
  /\ leased
  /\ leased' = FALSE
  /\ inits' = [inits EXCEPT ![current_module] = @ - 1]
  /\ call' = [fn |-> "close", handle |-> hDevice[current_module]]
  /\ UNCHANGED <<modules, current_module, use_count, hDevice, mpc, todo>>

\* kiran_fprint_manager_close, by the worker.
Close ==
  /\ leased
  /\ leased' = FALSE
  /\ IF hDevice[current_module] # "NULL"
       THEN /\ call' = [fn |-> "close", handle |-> hDevice[current_module]]
            /\ hDevice' = [hDevice EXCEPT ![current_module] = "stale"]
            /\ inits' = [inits EXCEPT ![current_module] = @ - 1]
       ELSE UNCHANGED <<call, hDevice, inits>>
  /\ UNCHANGED <<modules, current_module, use_count, mpc, todo>>

\* Acquiring, verifying, merging and matching, by the worker.
UseDevice(fn) ==
  /\ leased
  /\ hDevice[current_module] # "NULL"
  /\ call' = [fn |-> fn, handle |-> hDevice[current_module]]
  /\ UNCHANGED <<modules, current_module, use_count, hDevice, inits, leased,
                 mpc, todo>>

\* kiran_fprint_manager_acquire_finger_print_stop, by the Stop handler, which
\* may come to it before or after the worker has closed the device.
StopCapture ==
  /\ mpc = "idle"
  /\ current_module # NoModule
  /\ hDevice[current_module] # "NULL"
  /\ call' = [fn |-> "stop", handle |-> hDevice[current_module]]
  /\ UNCHANGED <<modules, current_module, use_count, hDevice, inits, leased,
                 mpc, todo>>

Next ==
  \/ OpenBegin
  \/ \E outcome \in Outcomes : \/ TryCurrent(outcome)
                               \/ \E m \in Modules : Walk(m, outcome)
  \/ \E m \in Modules : WalkUnloadable(m)
  \/ InitFails
  \/ OpenEnd
  \/ Close
  \/ \E fn \in WorkerCalls \ {"close"} : UseDevice(fn)
  \/ StopCapture
  \/ mpc = "crashed" /\ UNCHANGED vars

Spec == Init /\ [][Next]_vars

------------------------------------------------------------------------------
(* Properties *)

\* Exactly the current module is loaded, with one use, however often opening
\* fell back to other modules, failed half-way or met the same module twice.
LoadedIffCurrent ==
  \A m \in Modules : use_count[m] = IF m = current_module THEN 1 ELSE 0

\* A device is open while a session holds the manager, it is the device of the
\* current module, and no other device is left open when modules change.
OpenIffLeased ==
  \A m \in Modules : hDevice[m] = "open" <=> leased /\ m = current_module

\* A session's library is initialised as long as the session lasts.
LeasedInitialised == leased => inits[current_module] > 0

\* No handle outlives its library: a module that is not loaded has none.
HandlesOfLoaded == \A m \in Modules : hDevice[m] # "NULL" => use_count[m] = 1

\* The worker passes open handles to the driver, and closes each once.
WorkerCallsOnOpen == call.fn \in WorkerCalls => call.handle = "open"
==============================================================================
