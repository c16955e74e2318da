-------------------------- MODULE FprintVerifyProofs --------------------------
(***************************************************************************)
(* Proofs about one verification, for any fingers, any saved templates, any *)
(* limit of attempts and either kind of driver.                            *)
(***************************************************************************)
EXTENDS FprintVerify, SequenceTheorems, TLAPS

\* An attempt that is under way is within the limit.
TypeInv == TypeOK /\ (pc \in {"attempt", "report"} => i < MAX_TRY_COUNT)

\* The signals with done = TRUE that were sent by each place, and why the
\* worker is past its loop.
OverInv ==
  /\ pc = "load" => i = 0
  /\ pc \in {"load", "loop", "attempt", "report", "cancel"} => dones = 0
  /\ pc = "over" => dones = 0 \/ (dones = 1 /\ fp_action # "FP_ACTION_VERIFY")
  /\ pc \in {"cancel", "over"} /\ i < MAX_TRY_COUNT
       => fp_action # "FP_ACTION_VERIFY"

\* Whether a feature counts as one of a saved template.
Holds(f, id) ==
  \/ f \in FingersOf(saved[id])
  \/ ~Readable(saved[id])
  \/ f = Noise /\ fp_action # "FP_ACTION_VERIFY"

\* The md5 that is left in the pointer is one of an earlier match.
GenuineInv ==
  /\ pc = "load" => md5 = NoId /\ ~status.found
  /\ md5 # NoId => \E f \in placed, id \in DOMAIN saved :
                      md5 = IdOf(id) /\ Holds(f, id)
  /\ FoundIsGenuine

------------------------------------------------------------------------------
(* Types *)

LEMMA InitTypes == Init => TypeInv
<1> SUFFICES ASSUME Init PROVE TypeInv
  OBVIOUS
<1>1. \A template \in EarlierTemplates \cup {NULL} : template \in Seq(Features)
  BY VerifyAssumption, EmptySeq DEF NULL
<1>2. DOMAIN store \subseteq Ids /\ \A id \in DOMAIN store : store[id] \in Seq(Features)
  <2>1. PICK S \in SUBSET Ids : store \in [S -> EarlierTemplates \cup {NULL}]
    BY DEF Init, EarlierStores
  <2>2. QED
    BY <1>1, <2>1
<1>3. DOMAIN saved = {}
  BY DEF Init
<1>4. i \in 0 .. MAX_TRY_COUNT /\ dones \in Nat
  BY VerifyAssumption DEF Init
<1>5. QED
  BY <1>2, <1>3, <1>4 DEF Init, TypeInv, TypeOK, Places, ResultCodes

LEMMA SignalTypes ==
  ASSUME dones \in Nat, NEW done \in BOOLEAN, NEW found \in BOOLEAN,
         NEW id \in Matched \cup {NoId, Garbage}, Signal(done, found, id)
  PROVE  /\ status' \in [id : Matched \cup {NoId, Garbage}, found : BOOLEAN,
                         done : BOOLEAN]
         /\ dones' \in Nat
BY DEF Signal

\* What is captured: a finger, or nothing of one when the capture was halted.
LEMMA CapturedFeatures ==
  /\ Captured \subseteq Features
  /\ Noise \in Captured => fp_action # "FP_ACTION_VERIFY"
<1> DEFINE halted == fp_action # "FP_ACTION_VERIFY"
           Shown  == IF halted THEN Fingers \cup {Noise} ELSE Fingers
<1>1. CASE internal
  BY <1>1, VerifyAssumption DEF Captured, Features
<1>2. CASE ~internal
  <2>1. ASSUME NEW f \in Captured PROVE f \in Shown
    <3>1. PICK a \in DriverAcquire(FALSE, Fingers, halted) : a[1] = OK /\ f = a[2][1]
      BY <1>2 DEF Captured
    <3>2. a \in {<<OK, <<g>> >> : g \in Shown} \/ a = <<FAIL, NULL>>
      BY <3>1 DEF DriverAcquire
    <3>3. OK # FAIL
      BY DEF OK, FAIL
    <3>4. PICK g \in Shown : a = <<OK, <<g>> >>
      BY <3>1, <3>2, <3>3
    <3>5. QED
      BY <3>1, <3>4
  <2>2. QED
    BY <2>1, VerifyAssumption DEF Features
<1>3. QED
  BY <1>1, <1>2

LEMMA TypeStep == TypeInv /\ [Next]_vars => TypeInv'
<1> SUFFICES ASSUME TypeInv, [Next]_vars PROVE TypeInv'
  OBVIOUS
<1> USE SignalTypes DEF TypeInv, TypeOK, Places, env, NoSignal
<1>1. CASE Load
  <2>1. PICK S \in SUBSET DOMAIN store : saved' = [id \in S |-> store[id]]
    BY <1>1 DEF Load, ReadSome
  <2>2. DOMAIN saved' \subseteq Ids /\ \A id \in DOMAIN saved' : saved'[id] \in Seq(Features)
    BY <2>1
  <2>3. UNCHANGED <<internal, fp_action, store, i, ret, md5, live, placed>> /\ pc' \in Places
    BY <1>1 DEF Load
  <2>4. /\ status' \in [id : Matched \cup {NoId, Garbage}, found : BOOLEAN, done : BOOLEAN]
        /\ dones' \in Nat
    BY <1>1 DEF Load
  <2>5. /\ internal' \in BOOLEAN
        /\ fp_action' \in {"FP_ACTION_VERIFY", "ACTION_NONE"} /\ DOMAIN store' \subseteq Ids
        /\ \A id \in DOMAIN store' : store'[id] \in Seq(Features)
    BY <2>3
  <2>6. /\ i' \in 0 .. MAX_TRY_COUNT /\ ret' \in ResultCodes /\ md5' \in Matched \cup {NoId}
        /\ live' \in BOOLEAN /\ placed' \subseteq Features
    BY <2>3
  <2>7. QED
    BY <1>1, <2>2, <2>3, <2>4, <2>5, <2>6 DEF Load
<1>2. CASE LoopHead
  BY <1>2 DEF LoopHead, MayTry
<1>3. CASE LoopExit
  BY <1>3 DEF LoopExit
<1>4. CASE AttemptMatch
  <2>1. PICK f \in Captured, id \in DOMAIN saved :
               md5' = IdOf(id) /\ placed' = placed \cup {f}
    BY <1>4 DEF AttemptMatch
  <2>2. md5' \in Matched \cup {NoId} /\ placed' \subseteq Features
    BY <2>1, CapturedFeatures DEF IdOf, Matched
  <2>3. ret' \in ResultCodes /\ live' \in BOOLEAN
    BY <1>4 DEF AttemptMatch, ResultCodes
  <2>4. QED
    BY <1>4, <2>2, <2>3 DEF AttemptMatch
<1>5. CASE AttemptFail
  <2>1. placed' \subseteq Features
    BY <1>5, CapturedFeatures DEF AttemptFail
  <2>2. \A f, id : Comparison(f, id) \subseteq ResultCodes
    BY DEF Comparison, DriverMatch, TemplateMatch, ResultCodes
  <2>3. ret' \in ResultCodes
    BY <1>5, <2>2 DEF AttemptFail, ResultCodes
  <2>4. QED
    BY <1>5, <2>1, <2>3 DEF AttemptFail
<1>6. CASE ReportMatch
  <2>1. i < MAX_TRY_COUNT /\ i' = i + 1
    BY <1>6 DEF ReportMatch
  <2>2. i' \in 0 .. MAX_TRY_COUNT
    BY <2>1, VerifyAssumption
  <2>3. QED
    BY <1>6, <2>2 DEF ReportMatch
<1>7. CASE ReportNoMatch
  <2>1. i < MAX_TRY_COUNT /\ i' = i + 1
    BY <1>7 DEF ReportNoMatch
  <2>2. i' \in 0 .. MAX_TRY_COUNT
    BY <2>1, VerifyAssumption
  <2>3. QED
    BY <1>7, <2>2 DEF ReportNoMatch
<1>8. CASE Cancel
  BY <1>8 DEF Cancel
<1>9. CASE Over
  BY <1>9 DEF Over
<1>10. CASE Withdraw
  BY <1>10 DEF Withdraw
<1>11. ASSUME NEW id \in Ids, RemoveFprint(id) PROVE TypeInv'
  BY <1>11 DEF RemoveFprint
<1>12. CASE UNCHANGED vars
  BY <1>12 DEF vars
<1>13. QED
  BY <1>1, <1>2, <1>3, <1>4, <1>5, <1>6, <1>7, <1>8, <1>9, <1>10, <1>11, <1>12
     DEF Next, WorkerNext

\* Every variable keeps its type; an attempt is never counted past the limit.
THEOREM TypeCorrect == Spec => []TypeOK
<1>1. TypeInv => TypeOK
  BY DEF TypeInv
<1>2. QED
  BY <1>1, InitTypes, TypeStep, PTL DEF Spec

------------------------------------------------------------------------------
(* Matches are genuine *)

\* Steps that leave the pointer alone and report no match.
LEMMA QuietGenuine ==
  ASSUME GenuineInv, UNCHANGED <<saved, md5>>, placed \subseteq placed', pc' # "load",
         fp_action # "FP_ACTION_VERIFY" => fp_action' # "FP_ACTION_VERIFY",
         ~status'.found \/ status' = status
  PROVE  GenuineInv'
BY DEF GenuineInv, FoundIsGenuine, Holds, IdOf

\* A comparison that says OK is of a feature the template holds, as far as the
\* library can tell.
LEMMA ComparisonHolds ==
  ASSUME NEW f \in Captured, NEW id, OK \in Comparison(f, id)
  PROVE  Holds(f, id)
<1>1. CASE ~Readable(saved[id])
  BY <1>1 DEF Holds
<1>2. CASE f = Noise
  BY <1>2, CapturedFeatures DEF Holds
<1>3. CASE Readable(saved[id]) /\ f # Noise
  <2>1. <<f>> # NULL /\ DOMAIN <<f>> = {1} /\ <<f>>[1] = f
    BY DEF NULL
  <2>2. FingersOf(<<f>>) = {f}
    BY <2>1 DEF FingersOf
  <2>3. Readable(<<f>>)
    BY <1>3, <2>1, <2>2 DEF Readable
  <2>4. Comparison(f, id) = {TemplateMatch(<<f>>, saved[id])}
    BY <1>3, <2>3 DEF Comparison, DriverMatch
  <2>5. TemplateMatch(<<f>>, saved[id]) = OK
    BY <2>4
  <2>6. QED
    BY <2>1, <2>5 DEF TemplateMatch, Holds, OK, FAIL
<1>4. QED
  BY <1>1, <1>2, <1>3

LEMMA GenuineStep == TypeInv /\ GenuineInv /\ [Next]_vars => GenuineInv'
<1> SUFFICES ASSUME TypeInv, GenuineInv, [Next]_vars PROVE GenuineInv'
  OBVIOUS
<1> USE DEF env, NoSignal, Signal
<1>1. CASE Load
  <2>1. md5' = NoId /\ ~status'.found /\ pc' # "load"
    BY <1>1 DEF Load, GenuineInv
  <2>2. QED
    BY <2>1 DEF GenuineInv, FoundIsGenuine
<1>2. CASE LoopHead \/ LoopExit \/ ReportNoMatch \/ Cancel \/ Over
  BY <1>2, QuietGenuine DEF LoopHead, LoopExit, ReportNoMatch, Cancel, Over
<1>3. CASE AttemptMatch
  <2>1. PICK f \in Captured, id \in DOMAIN saved :
               OK \in Comparison(f, id) /\ md5' = IdOf(id) /\ placed' = placed \cup {f}
    BY <1>3 DEF AttemptMatch
  <2>2. UNCHANGED <<fp_action, saved, status>> /\ pc' = "report"
    BY <1>3 DEF AttemptMatch
  <2>3. Holds(f, id)
    BY <2>1, ComparisonHolds
  <2>4. FoundIsGenuine'
    BY <2>1, <2>2 DEF GenuineInv, FoundIsGenuine, IdOf
  <2>5. QED
    BY <2>1, <2>2, <2>3, <2>4 DEF GenuineInv, Holds, IdOf
<1>4. CASE AttemptFail
  <2>1. placed \subseteq placed'
    BY <1>4 DEF AttemptFail
  <2>2. QED
    BY <1>4, <2>1, QuietGenuine DEF AttemptFail
<1>5. CASE ReportMatch
  <2>1. PICK f \in placed, t \in DOMAIN saved : md5 = IdOf(t) /\ Holds(f, t)
    BY <1>5 DEF ReportMatch, GenuineInv
  <2>2. PICK id \in {md5, Garbage} : Signal(FALSE, TRUE, id)
    BY <1>5 DEF ReportMatch
  <2>3. /\ status'.id \in {md5, Garbage} /\ UNCHANGED <<fp_action, placed, saved, md5>>
        /\ pc' # "load"
    BY <1>5, <2>2 DEF ReportMatch
  <2>4. QED
    BY <2>1, <2>3 DEF GenuineInv, FoundIsGenuine, Holds, IdOf
<1>6. CASE Withdraw
  <2>1. /\ UNCHANGED <<pc, saved, md5, placed, status>>
        /\ fp_action' # "FP_ACTION_VERIFY"
    BY <1>6 DEF Withdraw
  <2>2. QED
    BY <2>1 DEF GenuineInv, FoundIsGenuine, Holds, IdOf
<1>7. ASSUME NEW id \in Ids, RemoveFprint(id) PROVE GenuineInv'
  <2>1. UNCHANGED <<fp_action, pc, saved, md5, placed, status>>
    BY <1>7 DEF RemoveFprint
  <2>2. QED
    BY <2>1 DEF GenuineInv, FoundIsGenuine, Holds, IdOf
<1>8. CASE UNCHANGED vars
  BY <1>8 DEF vars, GenuineInv, FoundIsGenuine, Holds, IdOf
<1>9. QED
  BY <1>1, <1>2, <1>3, <1>4, <1>5, <1>6, <1>7, <1>8 DEF Next, WorkerNext

\* A match is reported only of a saved template that holds a finger placed in
\* the session, although the pointer to its md5 outlives the memory it refers to;
\* files that are not whole and a halted capture apart.
THEOREM FoundIsGenuineCorrect == Spec => []FoundIsGenuine
<1>1. Init => GenuineInv
  BY DEF Init, GenuineInv, FoundIsGenuine
<1>2. GenuineInv => FoundIsGenuine
  BY DEF GenuineInv
<1>3. QED
  BY <1>1, <1>2, InitTypes, TypeStep, GenuineStep, PTL DEF Spec

------------------------------------------------------------------------------
(* The signals keep the promise *)

LEMMA OverStep == TypeInv /\ OverInv /\ [Next]_vars => OverInv'
<1> SUFFICES ASSUME TypeInv, OverInv, [Next]_vars PROVE OverInv'
  OBVIOUS
<1> USE DEF TypeInv, TypeOK, OverInv, env, NoSignal, Signal
<1>1. CASE Load
  BY <1>1 DEF Load
<1>2. CASE LoopHead
  BY <1>2 DEF LoopHead
<1>3. CASE LoopExit
  BY <1>3 DEF LoopExit, MayTry
<1>4. CASE AttemptMatch
  BY <1>4 DEF AttemptMatch
<1>5. CASE AttemptFail
  BY <1>5 DEF AttemptFail
<1>6. CASE ReportMatch
  BY <1>6 DEF ReportMatch
<1>7. CASE ReportNoMatch
  BY <1>7 DEF ReportNoMatch
<1>8. CASE Cancel
  BY <1>8 DEF Cancel
<1>9. CASE Over
  BY <1>9 DEF Over
<1>10. CASE Withdraw
  BY <1>10 DEF Withdraw
<1>11. ASSUME NEW id \in Ids, RemoveFprint(id) PROVE OverInv'
  BY <1>11 DEF RemoveFprint
<1>12. CASE UNCHANGED vars
  BY <1>12 DEF vars
<1>13. QED
  BY <1>1, <1>2, <1>3, <1>4, <1>5, <1>6, <1>7, <1>8, <1>9, <1>10, <1>11, <1>12
     DEF Next, WorkerNext

LEMMA PromiseStep ==
  TypeInv /\ OverInv /\ [Next]_vars => [Promise!Next]_(Promise!vars)
<1> SUFFICES ASSUME TypeInv, OverInv, [Next]_vars
             PROVE  Promise!Next \/ UNCHANGED Promise!vars
  OBVIOUS
<1> USE DEF OverInv, env, NoSignal, Signal, Promise!vars, Promise!Say
<1>0. /\ i \in 0 .. MAX_TRY_COUNT /\ dones \in Nat
      /\ md5 \in Matched \cup {NoId}
      /\ pc \in {"attempt", "report"} => i < MAX_TRY_COUNT
  BY DEF TypeInv, TypeOK
<1>1. CASE Load
  <2>1. CASE DOMAIN saved' = {}
    <3>1. /\ pc = "load" /\ pc' = "exited" /\ dones = 0 /\ i = 0
          /\ Promise!Say(TRUE, FALSE, NoId) /\ dones' = dones + 1
          /\ UNCHANGED <<fp_action, i>>
      BY <1>1, <2>1 DEF Load
    <3>2. Promise!Finish
      BY <3>1 DEF Promise!Finish, Promise!Over
    <3>3. QED
      BY <3>2 DEF Promise!Next
  <2>2. CASE DOMAIN saved' # {}
    BY <1>0, <1>1, <2>2 DEF Load
  <2>3. QED
    BY <2>1, <2>2
<1>2. CASE LoopHead
  <2>1. CASE i = 0
    BY <1>0, <1>2, <2>1
       DEF LoopHead, MayTry, Promise!Next, Promise!Prompt, Promise!MayTry
  <2>2. CASE i # 0
    <3>1. /\ pc = "loop" /\ pc' = "attempt" /\ dones = 0
          /\ i > 0 /\ i < MAX_TRY_COUNT /\ fp_action = "FP_ACTION_VERIFY"
          /\ UNCHANGED <<fp_action, i, dones, status>>
      BY <1>0, <1>2, <2>2 DEF LoopHead, MayTry
    <3>2. Promise!Retry
      BY <3>1 DEF Promise!Retry, Promise!MayTry
    <3>3. QED
      BY <3>2 DEF Promise!Next
  <2>3. QED
    BY <2>1, <2>2
<1>3. CASE LoopExit
  BY <1>0, <1>3 DEF LoopExit
<1>4. CASE AttemptMatch
  BY <1>0, <1>4 DEF AttemptMatch
<1>5. CASE AttemptFail
  BY <1>0, <1>5 DEF AttemptFail
<1>6. CASE ReportMatch
  <2>1. PICK id \in {md5, Garbage} : Signal(FALSE, TRUE, id)
    BY <1>0, <1>6 DEF ReportMatch
  <2>2. id \in Matched \cup {Garbage}
    BY <1>0, <1>6 DEF ReportMatch
  <2>3. Promise!Report(TRUE, id)
    <3>1. /\ pc = "report" /\ pc' \in {"loop", "crashed"} /\ i' = i + 1
          /\ Promise!Say(FALSE, TRUE, id)
          /\ UNCHANGED <<fp_action, dones>>
      BY <1>6, <2>1 DEF ReportMatch
    <3>2. QED
      BY <3>1 DEF Promise!Report
  <2>4. QED
    BY <2>2, <2>3 DEF Promise!Next
<1>7. CASE ReportNoMatch
  BY <1>0, <1>7 DEF ReportNoMatch, Promise!Next, Promise!Report
<1>8. CASE Cancel
  <2>1. CASE ret # OK /\ fp_action # "FP_ACTION_VERIFY"
    <3>1. /\ pc = "cancel" /\ pc' = "over" /\ dones = 0
          /\ Promise!Say(TRUE, FALSE, NoId) /\ dones' = dones + 1
          /\ UNCHANGED <<fp_action, i>>
      BY <1>8, <2>1 DEF Cancel
    <3>2. Promise!Finish
      BY <2>1, <3>1 DEF Promise!Finish, Promise!Over
    <3>3. QED
      BY <3>2 DEF Promise!Next
  <2>2. CASE ~(ret # OK /\ fp_action # "FP_ACTION_VERIFY")
    BY <1>8, <2>2 DEF Cancel
  <2>3. QED
    BY <2>1, <2>2
<1>9. CASE Over
  <2>1. CASE i = MAX_TRY_COUNT
    <3>1. /\ pc = "over" /\ pc' = "exited"
          /\ dones = 0 \/ (dones = 1 /\ fp_action # "FP_ACTION_VERIFY")
          /\ Promise!Say(TRUE, FALSE, NoId) /\ dones' = dones + 1
          /\ UNCHANGED <<fp_action, i>>
      BY <1>9, <2>1 DEF Over
    <3>2. Promise!Finish
      BY <2>1, <3>1 DEF Promise!Finish, Promise!Over
    <3>3. QED
      BY <3>2 DEF Promise!Next
  <2>2. CASE i # MAX_TRY_COUNT
    <3>1. i < MAX_TRY_COUNT
      BY <1>0, <2>2, VerifyAssumption
    <3>2. /\ pc = "over" /\ pc' = "exited" /\ fp_action # "FP_ACTION_VERIFY"
          /\ UNCHANGED <<fp_action, i, dones, status>>
      BY <1>9, <2>2, <3>1 DEF Over
    <3>3. Promise!End
      BY <3>2 DEF Promise!End
    <3>4. QED
      BY <3>3 DEF Promise!Next
  <2>3. QED
    BY <2>1, <2>2
<1>10. CASE Withdraw
  BY <1>0, <1>10 DEF Withdraw, Promise!Next, Promise!Withdraw
<1>11. ASSUME NEW id \in Ids, RemoveFprint(id) PROVE UNCHANGED Promise!vars
  BY <1>0, <1>11 DEF RemoveFprint
<1>12. CASE UNCHANGED vars
  BY <1>0, <1>12 DEF vars
<1>13. QED
  BY <1>1, <1>2, <1>3, <1>4, <1>5, <1>6, <1>7, <1>8, <1>9, <1>10, <1>11, <1>12
     DEF Next, WorkerNext

\* Every verification sends the signals that clients are promised, whenever it
\* is withdrawn, whatever the attempts give and whatever freed memory reads as.
THEOREM Refinement == Spec => KeepsPromise
<1>1. Init => OverInv
  BY DEF Init, OverInv
<1>2. Init => Promise!Init
  BY DEF Init, Promise!Init
<1>3. QED
  BY <1>1, <1>2, InitTypes, TypeStep, OverStep, PromiseStep, PTL
     DEF Spec, KeepsPromise, Promise!Spec
==============================================================================
