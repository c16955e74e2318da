--------------------------- MODULE FprintDrivers ---------------------------
(***************************************************************************)
(* Capturing a finger: kiran_fprint_acquire_finger_print of the two        *)
(* drivers, aratfingerprint.c and zkfingerprint.c, beside the Stop handler *)
(* and a clock.  The time-out compares differences of a tick count of a    *)
(* fixed width, taken from a wall clock that wraps and may be set.         *)
(***************************************************************************)
EXTENDS FprintTemplates

CONSTANTS
  Fingers,
  TICKS,      \* the tick count wraps at this value (2^32 in the code)
  TIMEOUT,    \* the time a capture may take
  POLL,       \* bound: ticks that one poll of the device takes at most
  LONG        \* bound: times from here on are not told apart

\* The time during which a difference exceeds the time-out, before the count
\* comes round to the start again, is long enough for a poll.
ASSUME DriverAssumption ==
  /\ TICKS \in Nat /\ TIMEOUT \in Nat /\ POLL \in Nat /\ LONG \in Nat
  /\ POLL > 0 /\ TIMEOUT > 0
  /\ TIMEOUT + POLL < TICKS
  /\ LONG >= TIMEOUT + 4 * POLL
  /\ Noise \notin Fingers

VARIABLES
  driver,       \* the vendor's driver that is loaded
  clock,        \* what GetTickCount returns
  pc,
  do_acquire,   \* "go" (0) or "halt" (-1)
  preTime,
  ret,
  feature,      \* what a template would be made of
  template,     \* *fpTemplate
  elapsed,      \* the time since the call
  stopped,      \* whether Stop was called since then
  clock_set     \* whether the clock was set since then

output == <<ret, feature, template>>
vars == <<driver, clock, pc, do_acquire, preTime, output, elapsed, stopped,
          clock_set>>

TypeOK ==
  /\ driver \in {"arat", "zk"}
  /\ clock \in 0 .. TICKS - 1
  /\ pc \in {"idle", "arm", "prepare", "loop", "poll", "check", "out", "returned"}
  /\ do_acquire \in {"go", "halt"}
  /\ preTime \in 0 .. TICKS - 1
  /\ ret \in {OK, FAIL}
  /\ feature \in {<<f>> : f \in Fingers \cup {Noise}}
  /\ template \in {NULL} \cup {<<f>> : f \in Fingers \cup {Noise}}
  /\ elapsed \in 0 .. LONG
  /\ stopped \in BOOLEAN /\ clock_set \in BOOLEAN

Init ==
  /\ driver \in {"arat", "zk"}
  /\ clock \in 0 .. TICKS - 1
  /\ pc = "idle"
  /\ do_acquire = "go"
  /\ preTime = 0
  /\ ret = FAIL /\ feature = <<Noise>> /\ template = NULL
  /\ elapsed = 0
  /\ stopped = FALSE /\ clock_set = FALSE

------------------------------------------------------------------------------
(* Time *)

AtMost(limit, n) == IF n > limit THEN limit ELSE n

\* d ticks pass.
Pass(d) ==
  /\ clock' = (clock + d) % TICKS
  /\ elapsed' = AtMost(LONG, elapsed + d)

SameTime == UNCHANGED <<clock, elapsed>>

\* Mutant: the time-out is computed as a point in time.
TimedOut_Deadline == clock >= preTime + TIMEOUT

\* Mutant: the difference is taken of wider numbers.
TimedOut_Wide == clock >= preTime /\ clock - preTime >= TIMEOUT

\* curTime - preTime >= timeout, in unsigned arithmetic.
TimedOut == (clock - preTime + TICKS) % TICKS >= TIMEOUT

------------------------------------------------------------------------------
(* The capture *)

\* The callers give a NULL template.  What the buffer on the stack holds
\* belongs to no finger.
Call ==
  /\ pc \in {"idle", "returned"}
  /\ preTime' = clock
  /\ feature' = <<Noise>> /\ template' = NULL
  /\ elapsed' = 0 /\ stopped' = FALSE /\ clock_set' = FALSE
  /\ pc' = "arm"
  /\ UNCHANGED <<driver, clock, do_acquire, ret>>

Arm ==
  /\ pc = "arm"
  /\ do_acquire' = "go"
  /\ pc' = "prepare"
  /\ SameTime
  /\ UNCHANGED <<driver, preTime, output, stopped, clock_set>>

\* The parameters of the sensor and a buffer for its image.  Without them the
\* call fails and leaves its outputs alone; the zk driver then looks at ret,
\* which nothing has set.  Afterwards ret is that of the arat driver's enquiry.
Prepare ==
  /\ pc = "prepare"
  /\ \E d \in 0 .. POLL : Pass(d)
  /\ \/ ret' = (IF driver = "arat" THEN OK ELSE FAIL) /\ pc' = "loop"
     \/ ret' = FAIL /\ pc' = "returned"
  /\ UNCHANGED <<driver, do_acquire, preTime, feature, template, stopped, clock_set>>

LoopExit ==
  /\ pc = "loop"
  /\ do_acquire = "halt"
  /\ pc' = "out"
  /\ SameTime
  /\ UNCHANGED <<driver, do_acquire, preTime, output, stopped, clock_set>>

\* The arat driver looks at the time before a poll, the zk driver after it.
LoopTest ==
  /\ pc = "loop"
  /\ do_acquire = "go"
  /\ pc' = IF driver = "arat" THEN "check" ELSE "poll"
  /\ SameTime
  /\ UNCHANGED <<driver, do_acquire, preTime, output, stopped, clock_set>>

\* Mutant: a capture that takes too long keeps the result of its last poll.
Check_KeepsRet ==
  /\ pc = "check"
  /\ pc' = IF TimedOut THEN "out" ELSE IF driver = "arat" THEN "poll" ELSE "loop"
  /\ SameTime
  /\ UNCHANGED <<driver, do_acquire, preTime, output, stopped, clock_set>>

Check ==
  /\ pc = "check"
  /\ IF TimedOut
       THEN ret' = FAIL /\ pc' = "out"
       ELSE UNCHANGED ret /\ pc' = IF driver = "arat" THEN "poll" ELSE "loop"
  /\ SameTime
  /\ UNCHANGED <<driver, do_acquire, preTime, feature, template, stopped, clock_set>>

\* A finger is captured.
PollFinger ==
  /\ pc = "poll"
  /\ \E d \in 1 .. POLL : Pass(d)
  /\ \E f \in Fingers : feature' = <<f>>
  /\ ret' = OK
  /\ pc' = "out"
  /\ UNCHANGED <<driver, do_acquire, preTime, template, stopped, clock_set>>

\* No finger yet: the device reports a failure, or gives the arat driver an
\* image of poor quality, which is not one.
PollNothing ==
  /\ pc = "poll"
  /\ \E d \in 1 .. POLL : Pass(d)
  /\ ret' \in IF driver = "arat" THEN {OK, FAIL} ELSE {FAIL}
  /\ pc' = IF driver = "arat" THEN "loop" ELSE "check"
  /\ UNCHANGED <<driver, do_acquire, preTime, feature, template, stopped, clock_set>>

Out ==
  /\ pc = "out"
  /\ template' = IF ret = OK THEN feature ELSE NULL
  /\ pc' = "returned"
  /\ SameTime
  /\ UNCHANGED <<driver, do_acquire, preTime, ret, feature, stopped, clock_set>>

CaptureNext ==
  \/ Arm \/ Prepare \/ LoopExit \/ LoopTest \/ Check
  \/ PollFinger \/ PollNothing \/ Out

------------------------------------------------------------------------------
(* Beside it *)

\* kiran_fprint_acquire_finger_print_stop, by the main loop.
Stop ==
  /\ do_acquire' = "halt"
  /\ stopped' = (stopped \/ pc \notin {"idle", "returned"})
  /\ UNCHANGED <<driver, clock, pc, preTime, output, elapsed, clock_set>>

\* Somebody sets the clock, once in a capture.
SetClock ==
  /\ pc \notin {"idle", "returned"} /\ ~clock_set
  /\ clock' \in 0 .. TICKS - 1
  /\ clock_set' = TRUE
  /\ UNCHANGED <<driver, pc, do_acquire, preTime, output, elapsed, stopped>>

Next == Call \/ CaptureNext \/ Stop \/ SetClock

\* The worker's thread runs.
Spec == Init /\ [][Next]_vars /\ WF_vars(CaptureNext)

------------------------------------------------------------------------------
(* Properties *)

\* What a capture gives is what enrolment and verification count on
\* (DriverAcquire): a template of a finger or none at all and, only when the
\* capture is halted, OK with a template of no finger.
AcquirePromise ==
  pc = "returned" => <<ret, template>> \in DriverAcquire(FALSE, Fingers, stopped)

\* A capture that nobody stops gives up after its time-out, and not before,
\* also when the tick count wraps meanwhile.
GivesUpInTime ==
  ~clock_set =>
    /\ pc = "out" /\ ret = FAIL /\ ~stopped => elapsed >= TIMEOUT
    /\ pc \in {"loop", "poll"} => elapsed < TIMEOUT + 2 * POLL

\* Every capture ends, whatever the clock is set to.
CaptureEnds == (pc = "arm") ~> (pc = "returned")
==============================================================================
