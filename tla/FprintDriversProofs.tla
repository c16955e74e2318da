------------------------- MODULE FprintDriversProofs -------------------------
(***************************************************************************)
(* Proofs about a capture, for any fingers, either driver, and a tick      *)
(* count, a time-out and polls of any length (DriverAssumption).           *)
(***************************************************************************)
EXTENDS FprintDrivers, Integers, TLAPS

\* A capture is under way, and its loop has begun to look at do_acquire.
UnderWay == pc \notin {"idle", "returned"}
Armed    == pc \in {"prepare", "loop", "poll", "check"}

\* What will be handed out: a halt that a capture sees was called for during
\* it, although do_acquire outlives captures.
OutcomeInv ==
  /\ UnderWay => template = NULL
  /\ Armed /\ do_acquire = "halt" => stopped
  /\ pc = "out" /\ ret = OK => stopped \/ \E f \in Fingers : feature = <<f>>
  /\ AcquirePromise

------------------------------------------------------------------------------
(* Types *)

LEMMA ModLemma ==
  ASSUME NEW m \in Nat \ {0}, NEW n \in 0 .. 2 * m - 1
  PROVE  /\ n < m => n % m = n
         /\ n >= m => n % m = n - m
         /\ n % m \in 0 .. m - 1
<1>1. CASE n \in 0 .. m - 1
  BY <1>1
<1>2. CASE n \in m .. 2 * m - 1
  BY <1>2
<1>3. QED
  BY <1>1, <1>2

\* A poll moves the clock on, by less than a lap.
LEMMA PassLemma ==
  ASSUME TypeOK, NEW d \in 0 .. POLL, Pass(d)
  PROVE  /\ clock' \in 0 .. TICKS - 1
         /\ clock' = clock + d \/ clock' = clock + d - TICKS
         /\ elapsed' \in 0 .. LONG
         /\ elapsed + d <= LONG => elapsed' = elapsed + d
<1>1. TICKS \in Nat \ {0} /\ clock + d \in 0 .. 2 * TICKS - 1
  BY DriverAssumption DEF TypeOK
<1>2. clock' = (clock + d) % TICKS
  BY DEF Pass
<1>3. elapsed' = IF elapsed + d > LONG THEN LONG ELSE elapsed + d
  BY DEF Pass, AtMost
<1>4. elapsed' \in 0 .. LONG /\ (elapsed + d <= LONG => elapsed' = elapsed + d)
  BY <1>3, DriverAssumption DEF TypeOK
<1>5. PICK n \in 0 .. 2 * TICKS - 1 : n = clock + d /\ clock' = n % TICKS
  BY <1>1, <1>2
<1>6. /\ n < TICKS => clock' = n
      /\ n >= TICKS => clock' = n - TICKS
      /\ clock' \in 0 .. TICKS - 1
  BY <1>1, <1>5, ModLemma
<1>7. clock' = clock + d \/ clock' = clock + d - TICKS
  BY <1>1, <1>5, <1>6, DriverAssumption DEF TypeOK
<1>8. QED
  BY <1>4, <1>6, <1>7

\* What a buffer may hold that nobody has written.
LEMMA NoiseLemma == <<Noise>> \in {<<f>> : f \in Fingers \cup {Noise}}
<1>1. Noise \in Fingers \cup {Noise}
  OBVIOUS
<1>2. QED
  BY <1>1

LEMMA TypeStep == TypeOK /\ [Next]_vars => TypeOK'
<1> SUFFICES ASSUME TypeOK, [Next]_vars PROVE TypeOK'
  OBVIOUS
<1> USE DEF TypeOK, output, SameTime
<1>1. CASE Call
  <2>1. feature' \in {<<f>> : f \in Fingers \cup {Noise}}
    BY <1>1, NoiseLemma DEF Call
  <2>2. elapsed' \in 0 .. LONG
    BY <1>1, DriverAssumption DEF Call
  <2>3. QED
    BY <1>1, <2>1, <2>2 DEF Call
<1>2. CASE Arm
  BY <1>2 DEF Arm
<1>3. CASE Prepare
  <2>1. PICK d \in 0 .. POLL : Pass(d)
    BY <1>3 DEF Prepare
  <2>2. clock' \in 0 .. TICKS - 1 /\ elapsed' \in 0 .. LONG
    BY <2>1, PassLemma
  <2>3. QED
    BY <1>3, <2>2 DEF Prepare
<1>4. CASE LoopExit
  BY <1>4 DEF LoopExit
<1>5. CASE LoopTest
  BY <1>5 DEF LoopTest
<1>6. CASE Check
  BY <1>6 DEF Check
<1>7. CASE PollFinger
  <2>1. PICK d \in 1 .. POLL : Pass(d)
    BY <1>7 DEF PollFinger
  <2>2. clock' \in 0 .. TICKS - 1 /\ elapsed' \in 0 .. LONG
    BY <2>1, PassLemma, DriverAssumption
  <2>3. QED
    BY <1>7, <2>2 DEF PollFinger
<1>8. CASE PollNothing
  <2>1. PICK d \in 1 .. POLL : Pass(d)
    BY <1>8 DEF PollNothing
  <2>2. clock' \in 0 .. TICKS - 1 /\ elapsed' \in 0 .. LONG
    BY <2>1, PassLemma, DriverAssumption
  <2>3. QED
    BY <1>8, <2>2 DEF PollNothing
<1>9. CASE Out
  BY <1>9 DEF Out
<1>10. CASE Stop
  BY <1>10 DEF Stop
<1>11. CASE SetClock
  BY <1>11 DEF SetClock
<1>12. CASE UNCHANGED vars
  BY <1>12 DEF vars
<1>13. QED
  BY <1>1, <1>2, <1>3, <1>4, <1>5, <1>6, <1>7, <1>8, <1>9, <1>10, <1>11, <1>12
     DEF Next, CaptureNext

\* The tick count stays within its width, and so does everything else.
THEOREM TypeCorrect == Spec => []TypeOK
<1>1. Init => TypeOK
  <2> SUFFICES ASSUME Init PROVE TypeOK
    OBVIOUS
  <2>1. feature \in {<<f>> : f \in Fingers \cup {Noise}}
    BY NoiseLemma DEF Init
  <2>2. preTime \in 0 .. TICKS - 1 /\ elapsed \in 0 .. LONG
    BY DriverAssumption DEF Init
  <2>3. QED
    BY <2>1, <2>2 DEF Init, TypeOK
<1>2. QED
  BY <1>1, TypeStep, PTL DEF Spec

------------------------------------------------------------------------------
(* What a capture gives *)

LEMMA OutcomeStep == TypeOK /\ OutcomeInv /\ [Next]_vars => OutcomeInv'
<1> SUFFICES ASSUME TypeOK, OutcomeInv, [Next]_vars PROVE OutcomeInv'
  OBVIOUS
<1> USE DEF OutcomeInv, UnderWay, Armed, output
<1>1. CASE Call
  BY <1>1 DEF Call, AcquirePromise
<1>2. CASE Arm
  BY <1>2 DEF Arm, AcquirePromise
<1>3. CASE Prepare
  BY <1>3 DEF Prepare, AcquirePromise, DriverAcquire
<1>4. CASE LoopExit
  BY <1>4 DEF LoopExit, AcquirePromise
<1>5. CASE LoopTest
  BY <1>5 DEF LoopTest, AcquirePromise
<1>6. CASE Check
  BY <1>6 DEF Check, AcquirePromise, OK, FAIL
<1>7. CASE PollFinger
  BY <1>7 DEF PollFinger, AcquirePromise
<1>8. CASE PollNothing
  BY <1>8 DEF PollNothing, AcquirePromise
<1>9. CASE Out
  <2>1. /\ pc = "out" /\ pc' = "returned"
        /\ ret \in {OK, FAIL}
        /\ UNCHANGED <<ret, stopped, do_acquire>>
        /\ template' = IF ret = OK THEN feature ELSE NULL
    BY <1>9 DEF Out, TypeOK
  <2>2. PICK f \in Fingers \cup {Noise} : feature = <<f>>
    BY DEF TypeOK
  <2>3. CASE ret = OK
    <3>1. template' = <<f>> /\ (stopped \/ f \in Fingers)
      BY <2>1, <2>2, <2>3
    <3>2. f \in IF stopped THEN Fingers \cup {Noise} ELSE Fingers
      BY <3>1
    <3>3. <<ret', template'>> \in DriverAcquire(FALSE, Fingers, stopped')
      BY <2>1, <2>3, <3>1, <3>2 DEF DriverAcquire
    <3>4. QED
      BY <2>1, <3>3 DEF AcquirePromise
  <2>4. CASE ret = FAIL
    BY <2>1, <2>4 DEF AcquirePromise, DriverAcquire, OK, FAIL
  <2>5. QED
    BY <2>1, <2>3, <2>4
<1>10. CASE Stop
  <2>1. (pc = "returned" => stopped' = stopped) /\ (stopped => stopped')
        /\ UNCHANGED <<pc, ret, feature, template>>
        /\ (UnderWay => stopped')
    BY <1>10 DEF Stop, TypeOK
  <2>2. AcquirePromise'
    BY <2>1 DEF AcquirePromise
  <2>3. QED
    BY <2>1, <2>2
<1>11. CASE SetClock
  BY <1>11 DEF SetClock, AcquirePromise
<1>12. CASE UNCHANGED vars
  BY <1>12 DEF vars, AcquirePromise
<1>13. QED
  BY <1>1, <1>2, <1>3, <1>4, <1>5, <1>6, <1>7, <1>8, <1>9, <1>10, <1>11, <1>12
     DEF Next, CaptureNext

\* However a capture is timed and whenever it is halted, it gives what the
\* models of enrolment and verification draw their captures from.
THEOREM AcquirePromiseCorrect == Spec => []AcquirePromise
<1>1. Init => OutcomeInv
  BY DEF Init, OutcomeInv, UnderWay, Armed, AcquirePromise
<1>2. OutcomeInv => AcquirePromise
  BY DEF OutcomeInv
<1>3. QED
  BY <1>1, <1>2, OutcomeStep, TypeCorrect, PTL DEF Spec

------------------------------------------------------------------------------
(* Time *)

\* The clock is as far as the time of the capture has brought it, some laps of
\* the tick count ago.
Reading ==
  \/ clock = preTime + elapsed
  \/ clock = preTime + elapsed - TICKS
  \/ clock = preTime + elapsed - 2 * TICKS

\* A time at which the loop goes on: after the first poll, before the time-out,
\* or, with polls so long that two of them take a lap, soon after the lap.
GoesOn == \/ elapsed <= POLL
          \/ elapsed < TIMEOUT
          \/ TICKS <= elapsed /\ elapsed < TICKS + TIMEOUT /\ TICKS <= 2 * POLL

\* A time at which the loop may look at the clock: a poll later.
Looks == \/ elapsed <= 2 * POLL
         \/ elapsed < TIMEOUT + POLL
         \/ TICKS <= elapsed /\ elapsed < TICKS + TIMEOUT + POLL /\ TICKS <= 2 * POLL

\* The arat driver looks before a poll, the zk driver after it.
TimeInv ==
  ~clock_set =>
    /\ pc \in {"arm", "prepare"} => elapsed = 0 /\ clock = preTime
    /\ Armed => Reading
    /\ driver = "arat" =>
         /\ pc \in {"loop", "check"} =>
              elapsed <= POLL \/ elapsed < TIMEOUT + POLL
         /\ pc = "poll" => elapsed < TIMEOUT
    /\ driver = "zk" =>
         /\ pc \in {"loop", "poll"} => GoesOn
         /\ pc = "check" => Looks
    /\ pc = "out" /\ ret = FAIL /\ ~stopped => elapsed >= TIMEOUT

LEMMA TimedOutLemma ==
  ASSUME TypeOK, Reading, elapsed < 2 * TICKS
  PROVE  TimedOut <=> IF elapsed < TICKS THEN elapsed >= TIMEOUT
                                         ELSE elapsed - TICKS >= TIMEOUT
<1> DEFINE gap == clock - preTime + TICKS
<1>1. /\ TICKS \in Nat \ {0} /\ TIMEOUT \in Nat
      /\ elapsed \in Nat /\ clock \in 0 .. TICKS - 1 /\ preTime \in 0 .. TICKS - 1
  BY DriverAssumption DEF TypeOK
<1>2. gap \in 0 .. 2 * TICKS - 1
  BY <1>1
<1>3. /\ elapsed < TICKS => gap = elapsed + TICKS \/ gap = elapsed
      /\ elapsed >= TICKS => gap = elapsed \/ gap = elapsed - TICKS
  BY <1>1 DEF Reading
<1>4. TimedOut <=> gap % TICKS >= TIMEOUT
  BY DEF TimedOut
<1> HIDE DEF gap
<1>5. /\ gap < TICKS => gap % TICKS = gap
      /\ gap >= TICKS => gap % TICKS = gap - TICKS
  BY <1>1, <1>2, ModLemma
<1>6. gap % TICKS = IF elapsed < TICKS THEN elapsed ELSE elapsed - TICKS
  BY <1>1, <1>2, <1>3, <1>5
<1>7. QED
  BY <1>4, <1>6

\* A poll brings the clock and the time on together.
LEMMA PollLemma ==
  ASSUME TypeOK, Reading, NEW d \in 0 .. POLL, Pass(d), UNCHANGED preTime,
         elapsed + POLL <= LONG, elapsed + POLL < 2 * TICKS
  PROVE  Reading' /\ elapsed' = elapsed + d
<1>1. /\ TICKS \in Nat /\ POLL \in Nat /\ LONG \in Nat
      /\ elapsed \in Nat /\ clock \in 0 .. TICKS - 1 /\ preTime \in 0 .. TICKS - 1
  BY DriverAssumption DEF TypeOK
<1>2. elapsed' = elapsed + d
  BY <1>1, PassLemma
<1>3. /\ clock' = clock + d \/ clock' = clock + d - TICKS
      /\ clock' \in 0 .. TICKS - 1
  BY PassLemma
<1>4. QED
  BY <1>1, <1>2, <1>3 DEF Reading

LEMMA TimeStep == TypeOK /\ OutcomeInv /\ TimeInv /\ [Next]_vars => TimeInv'
<1> SUFFICES ASSUME TypeOK, OutcomeInv, TimeInv, [Next]_vars, ~clock_set'
             PROVE  TimeInv'
  BY DEF TimeInv
<1>0. /\ TICKS \in Nat /\ TIMEOUT \in Nat /\ POLL \in Nat /\ LONG \in Nat
      /\ POLL > 0 /\ TIMEOUT > 0 /\ TIMEOUT + POLL < TICKS
      /\ LONG >= TIMEOUT + 4 * POLL
      /\ elapsed \in 0 .. LONG /\ clock \in 0 .. TICKS - 1
      /\ driver \in {"arat", "zk"}
  BY DriverAssumption DEF TypeOK
<1> USE DEF TimeInv, Armed, output, SameTime
<1>1. CASE Call
  BY <1>1 DEF Call
<1>2. CASE Arm
  BY <1>2, <1>0 DEF Arm, Reading
<1>3. CASE Prepare
  <2>1. PICK d \in 0 .. POLL : Pass(d)
    BY <1>3 DEF Prepare
  <2>2. ~clock_set /\ elapsed = 0 /\ clock = preTime /\ UNCHANGED <<driver, preTime, stopped>>
    BY <1>3 DEF Prepare
  <2>3. Reading' /\ elapsed' = d
    <3>1. Reading /\ elapsed + POLL <= LONG /\ elapsed + POLL < 2 * TICKS
      BY <1>0, <2>2 DEF Reading
    <3>2. QED
      BY <1>0, <2>1, <2>2, <3>1, PollLemma
  <2>4. elapsed' <= POLL /\ pc' \in {"loop", "returned"}
    BY <1>0, <1>3, <2>3 DEF Prepare
  <2>5. QED
    BY <2>2, <2>3, <2>4 DEF GoesOn
<1>4. CASE LoopExit
  BY <1>4 DEF LoopExit, OutcomeInv
<1>5. CASE LoopTest
  BY <1>5, <1>0 DEF LoopTest, Reading, GoesOn
<1>6. CASE Check
  <2>1. /\ pc = "check" /\ ~clock_set /\ Reading
        /\ UNCHANGED <<driver, clock, elapsed, preTime, stopped>>
    BY <1>6 DEF Check
  <2>2. elapsed < 2 * TICKS
    BY <1>0, <2>1 DEF Looks
  <2>3. TimedOut <=> IF elapsed < TICKS THEN elapsed >= TIMEOUT
                                        ELSE elapsed - TICKS >= TIMEOUT
    BY <2>1, <2>2, TimedOutLemma
  <2>4. CASE TimedOut
    <3>1. elapsed >= TIMEOUT
      BY <1>0, <2>3, <2>4
    <3>2. pc' = "out"
      BY <1>6, <2>4 DEF Check
    <3>3. QED
      BY <2>1, <3>1, <3>2
  <2>5. CASE ~TimedOut
    <3>1. pc' = IF driver = "arat" THEN "poll" ELSE "loop"
      BY <1>6, <2>5 DEF Check
    <3>2. elapsed < TIMEOUT \/ (TICKS <= elapsed /\ elapsed < TICKS + TIMEOUT)
      BY <1>0, <2>3, <2>5
    <3>3. CASE driver = "arat"
      <4>1. elapsed < TIMEOUT
        BY <1>0, <2>1, <3>2, <3>3
      <4>2. Reading'
        BY <2>1 DEF Reading
      <4>3. QED
        BY <2>1, <3>1, <3>3, <4>1, <4>2
    <3>4. CASE driver = "zk"
      <4>1. GoesOn
        BY <1>0, <2>1, <3>2, <3>4 DEF Looks, GoesOn
      <4>2. Reading' /\ GoesOn'
        BY <2>1, <4>1 DEF Reading, GoesOn
      <4>3. QED
        BY <2>1, <3>1, <3>4, <4>2
    <3>5. QED
      BY <1>0, <3>3, <3>4
  <2>6. QED
    BY <2>4, <2>5
<1>7. CASE PollFinger
  BY <1>7 DEF PollFinger, OK, FAIL
<1>8. CASE PollNothing
  <2>1. PICK d \in 1 .. POLL : Pass(d)
    BY <1>8 DEF PollNothing
  <2>2. /\ pc = "poll" /\ ~clock_set /\ Reading
        /\ UNCHANGED <<driver, preTime, stopped>>
    BY <1>8 DEF PollNothing
  <2>3. elapsed < TIMEOUT + 2 * POLL /\ elapsed + POLL < 2 * TICKS
    BY <1>0, <2>2 DEF GoesOn
  <2>4. Reading' /\ elapsed' = elapsed + d
    BY <1>0, <2>1, <2>2, <2>3, PollLemma
  <2>5. CASE driver = "arat"
    <3>1. elapsed' < TIMEOUT + POLL
      BY <1>0, <2>1, <2>2, <2>4, <2>5
    <3>2. pc' = "loop"
      BY <1>8, <2>5 DEF PollNothing
    <3>3. QED
      BY <2>2, <2>4, <2>5, <3>1, <3>2
  <2>6. CASE driver = "zk"
    <3>1. Looks'
      BY <1>0, <2>1, <2>2, <2>4, <2>6 DEF GoesOn, Looks
    <3>2. pc' = "check"
      BY <1>8, <2>6 DEF PollNothing
    <3>3. QED
      BY <2>2, <2>4, <2>6, <3>1, <3>2
  <2>7. QED
    BY <1>0, <2>5, <2>6
<1>9. CASE Out
  BY <1>9 DEF Out
<1>10. CASE Stop
  BY <1>10 DEF Stop, Reading, GoesOn, Looks
<1>11. CASE SetClock
  BY <1>11 DEF SetClock
<1>12. CASE UNCHANGED vars
  BY <1>12 DEF vars, Reading, GoesOn, Looks
<1>13. QED
  BY <1>1, <1>2, <1>3, <1>4, <1>5, <1>6, <1>7, <1>8, <1>9, <1>10, <1>11, <1>12
     DEF Next, CaptureNext

\* A capture that is left alone lasts for its time-out and two polls at most,
\* also when the tick count wraps meanwhile, and never gives up before it.
THEOREM GivesUpInTimeCorrect == Spec => []GivesUpInTime
<1>1. Init => OutcomeInv /\ TimeInv
  BY DEF Init, OutcomeInv, UnderWay, Armed, AcquirePromise, TimeInv
<1>2. TypeOK /\ TimeInv => GivesUpInTime
  BY DriverAssumption DEF TypeOK, TimeInv, GoesOn, GivesUpInTime
<1>3. QED
  BY <1>1, <1>2, OutcomeStep, TimeStep, TypeCorrect, PTL DEF Spec
==============================================================================
