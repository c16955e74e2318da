----------------------------- MODULE DeviceLease -----------------------------
(***************************************************************************)
(* What the fingerprint service promises about the one fingerprint device: *)
(* it is leased to at most one recognition session at a time, a lease is   *)
(* granted only while the device is free, only its holder gives it back,   *)
(* and every lease is eventually given back.                               *)
(***************************************************************************)
CONSTANTS
  Threads,    \* the worker threads that run recognition sessions
  NoThread    \* "nobody"

VARIABLE holder

TypeOK == holder \in Threads \cup {NoThread}

Init == holder = NoThread

\* A Start request is granted: a new session gets the device.
Grant(t) ==
  /\ holder = NoThread
  /\ holder' = t

\* The session that holds the device gives it back.
Return(t) ==
  /\ holder = t
  /\ holder' = NoThread

Next == \E t \in Threads : Grant(t) \/ Return(t)

SafeSpec == Init /\ [][Next]_holder

Spec == SafeSpec /\ WF_holder(\E t \in Threads : Return(t))
==============================================================================
