--------------------------- MODULE PamLoginProofs ---------------------------
(***************************************************************************)
(* Proofs about the logins, for any number of clients, calls and attempts. *)
(***************************************************************************)
EXTENDS PamLogin, SequenceTheorems, TLAPS

\* TypeOK is not inductive: an attempt that is under way is one that was left,
\* attempts are those of a finger, and what a Stop waits for is in the queue.
TypeInv ==
  /\ TypeOK
  /\ trying => tries < MAX_TRY_COUNT /\ modality = "fprint"
  /\ joining => inbox # << >>

------------------------------------------------------------------------------
(* Types *)

LEMMA InitTypes == Init => TypeInv
<1> SUFFICES ASSUME Init PROVE TypeInv
  OBVIOUS
<1>1. << >> \in Seq(Heard) /\ << >> \in Seq(Requests)
  BY EmptySeq
<1>2. queue \in [Clients -> Seq(Heard)] /\ inbox \in Seq(Requests)
  BY <1>1 DEF Init
<1>3. signal \in Service!Signals
  BY DEF Init, Service!Init, Service!Signals
<1>4. pc \in [Clients -> Places] /\ owner \in Senders /\ target \in Ids
  BY DEF Init, Places, Senders, Ids
<1>5. /\ tries \in 0 .. MAX_TRY_COUNT /\ dones \in Nat /\ calls \in 0 .. MAX_CALLS
      /\ running \in BOOLEAN /\ withdrawn \in BOOLEAN /\ ~trying
      /\ last_stores \in Nat
  BY LoginAssumption DEF Init, Service!Init
<1>6. /\ shown \in [Clients -> SUBSET Ids]
      /\ reply \in [Clients -> {"none", "ok", "busy", "error"}]
      /\ auth \in [Clients -> {"unset", "NOT_NEED_DATA", "NEED_DATA", "id"}]
      /\ result \in [Clients -> {"none", "PAM_SUCCESS", "PAM_AUTH_ERR",
                                 "PAM_AUTHINFO_UNAVAIL", "crashed"}]
      /\ should_handle \in [Clients -> BOOLEAN]
      /\ match \in [Clients -> BOOLEAN]
  BY DEF Init
<1>7. /\ modality \in {"fprint", "face"} /\ demand \in [Clients -> BOOLEAN]
      /\ joining = FALSE /\ trying = FALSE /\ do_verify = FALSE
      /\ comparing = {} /\ ending = {} /\ informed = {} /\ disturbed = {}
  BY DEF Init, Service!Init
<1>8. QED
  BY <1>2, <1>3, <1>4, <1>5, <1>6, <1>7 DEF TypeInv, TypeOK

LEMMA CallTypes ==
  ASSUME TypeInv, NEW c \in Clients, NEW method \in {"Start", "Stop"},
         NEW place \in Waiting, Call(c, method, place)
  PROVE  /\ inbox' \in Seq(Requests) /\ inbox' # << >>
         /\ pc' \in [Clients -> Places]
         /\ reply' \in [Clients -> {"none", "ok", "busy", "error"}]
<1> DEFINE r == [method |-> method, from |-> c,
                 id |-> IF auth[c] = "id" THEN c ELSE NoId]
<1>1. inbox \in Seq(Requests) /\ inbox' = Append(inbox, r)
  BY DEF TypeInv, TypeOK, Call
<1>2. r \in Requests
  BY DEF Requests, Senders, Ids
<1>3. inbox' \in Seq(Requests) /\ inbox' # << >>
  BY <1>1, <1>2, AppendProperties
<1>4. QED
  BY <1>3 DEF Call, TypeInv, TypeOK, Places

LEMMA AnswerTypes ==
  ASSUME TypeInv, NEW r \in {"none", "ok", "busy", "error"}, Answer(r),
         inbox # << >>
  PROVE  /\ inbox' \in Seq(Requests)
         /\ reply' \in [Clients -> {"none", "ok", "busy", "error"}]
BY HeadTailProperties DEF TypeInv, TypeOK, Answer

LEMMA BroadcastTypes ==
  ASSUME TypeInv, NEW s \in Service!Signals, NEW of \in Senders,
         Broadcast(s, of)
  PROVE  /\ queue' \in [Clients -> Seq(Heard)]
         /\ shown' \in [Clients -> SUBSET Ids]
<1>1. [signal |-> s, of |-> of] \in Heard
  BY DEF Heard
<1>2. \A c \in Clients : Append(queue[c], [signal |-> s, of |-> of]) \in Seq(Heard)
  BY <1>1, AppendProperties DEF TypeInv, TypeOK
<1>3. s.id \in Ids
  BY DEF Service!Signals, Ids
<1>4. QED
  BY <1>2, <1>3 DEF TypeInv, TypeOK, Broadcast

\* Requests that stay in the queue when one of them is disowned.
LEMMA DisownedTypes ==
  ASSUME TypeInv, NEW c \in Clients, ReplyTimeout(c)
  PROVE  /\ inbox' \in Seq(Requests)
         /\ inbox # << >> => inbox' # << >>
<1> DEFINE Q == [n \in DOMAIN inbox |->
                   IF inbox[n].from = c THEN [inbox[n] EXCEPT !.from = NoClient]
                                        ELSE inbox[n]]
<1>1. inbox \in Seq(Requests) /\ inbox' = Q
  BY DEF TypeInv, TypeOK, ReplyTimeout
<1>2. DOMAIN inbox = 1 .. Len(inbox) /\ Len(inbox) \in Nat
  BY <1>1, LenProperties
<1>3. \A n \in 1 .. Len(inbox) : Q[n] \in Requests
  <2> TAKE n \in 1 .. Len(inbox)
  <2>1. inbox[n] \in Requests
    BY <1>1, <1>2, ElementOfSeq
  <2>2. [inbox[n] EXCEPT !.from = NoClient] \in Requests
    BY <2>1 DEF Requests, Senders
  <2>3. QED
    BY <1>2, <2>1, <2>2
<1>4. Q \in Seq(Requests)
  BY <1>2, <1>3, SeqDef
<1>5. inbox # << >> => Q # << >>
  BY <1>1, <1>2, <1>4, EmptySeq, LenProperties
<1>6. QED
  BY <1>1, <1>4, <1>5

LEMMA ClientTypes ==
  ASSUME TypeInv, NEW c \in Clients, ClientStep(c)
  PROVE  TypeInv'
<1> USE DEF TypeInv, TypeOK, Places, Waiting, Listening, account, dialogue, heard,
            service, session, face, Return
<1>1. CASE ReadAuthModes(c)
  BY <1>1 DEF ReadAuthModes, Recorded
<1>2. CASE Unavailable(c)
  BY <1>2 DEF Unavailable
<1>3. CASE NotNeeded(c)
  BY <1>3 DEF NotNeeded
<1>4. CASE BadPointer(c)
  BY <1>4 DEF BadPointer
<1>5. CASE Connect(c)
  BY <1>5, CallTypes DEF Connect
<1>6. CASE Started(c)
  BY <1>6 DEF Started, EnterLoop
<1>7. CASE CancelOther(c)
  BY <1>7, CallTypes DEF CancelOther
<1>8. CASE StartAgain(c)
  BY <1>8, CallTypes DEF StartAgain
<1>9. CASE GiveUp(c)
  BY <1>9 DEF GiveUp
<1>10. CASE SkipSignal(c)
  BY <1>10 DEF SkipSignal, Take
<1>11. CASE HandleSignal(c)
  <2> DEFINE s == Head(queue[c]).signal
             m == Matched(c, s)
  <2>1. Head(queue[c]) \in Heard /\ Tail(queue[c]) \in Seq(Heard)
    BY <1>11, HeadTailProperties DEF HandleSignal
  <2>2. m \in BOOLEAN
    BY <2>1 DEF Matched, Heard, Service!Signals
  <2>3. match' \in [Clients -> BOOLEAN]
    BY <1>11, <2>2 DEF HandleSignal
  <2>4. CASE QuitLoop(c)
    BY <1>11, <2>3, <2>4, CallTypes, EmptySeq DEF HandleSignal, QuitLoop
  <2>5. CASE Take(c) /\ UNCHANGED <<pc, inbox, reply>>
    BY <1>11, <2>1, <2>3, <2>5 DEF HandleSignal, Take
  <2>6. QED
    BY <1>11, <2>4, <2>5 DEF HandleSignal
<1>12. CASE LoopTimeout(c)
  BY <1>12, CallTypes, EmptySeq DEF LoopTimeout, QuitLoop
<1>13. CASE Verdict(c)
  BY <1>13 DEF Verdict
<1>14. QED
  BY <1>1, <1>2, <1>3, <1>4, <1>5, <1>6, <1>7, <1>8, <1>9, <1>10, <1>11, <1>12,
     <1>13 DEF ClientStep

LEMMA RequestTypes == ASSUME TypeInv, RequestNext PROVE TypeInv'
<1> USE DEF TypeInv, TypeOK, account, dialogue, heard, service, session,
            face, Requested
<1>1. CASE StartBusy
  BY <1>1, AnswerTypes DEF StartBusy
<1>2. CASE StartFails
  BY <1>2, AnswerTypes DEF StartFails
<1>3. CASE StartSession
  <2>1. Head(inbox) \in Requests
    BY <1>3, HeadTailProperties DEF StartSession
  <2>2. owner' \in Senders /\ target' \in Ids
    BY <1>3, <2>1 DEF StartSession, Requests
  <2>3. [done |-> FALSE, found |-> FALSE, id |-> NoId] \in Service!Signals
    BY DEF Service!Signals
  <2>4. queue' \in [Clients -> Seq(Heard)] /\ shown' \in [Clients -> SUBSET Ids]
    BY <1>3, <2>1, <2>3, BroadcastTypes DEF StartSession, Requests
  <2>5. inbox' \in Seq(Requests)
        /\ reply' \in [Clients -> {"none", "ok", "busy", "error"}]
    BY <1>3, AnswerTypes DEF StartSession
  <2>6. UNCHANGED <<modality, demand, informed, auth, pc, should_handle, match,
                    result, joining, calls, last_stores, disturbed>>
        /\ ~joining
    BY <1>3 DEF StartSession
  <2>7. /\ running' = TRUE /\ withdrawn' = FALSE /\ trying' = FALSE
        /\ tries' = 0 /\ dones' = 0 /\ signal' = signal
    BY <1>3 DEF StartSession, Service!Begin
  <2>8. tries' \in 0 .. MAX_TRY_COUNT /\ dones' \in Nat
    BY <2>7, LoginAssumption
  <2>9. /\ do_verify' \in BOOLEAN /\ comparing' \subseteq Ids
        /\ ending' \subseteq Senders
    <3>1. CASE FaceSession
      BY <3>1 DEF FaceSession, Ids
    <3>2. CASE UNCHANGED face
      BY <3>2
    <3>3. QED
      BY <1>3, <3>1, <3>2 DEF StartSession
  <2>10. QED
    BY <2>2, <2>4, <2>5, <2>6, <2>7, <2>8, <2>9
<1>4. CASE StopNoAction
  BY <1>4, AnswerTypes DEF StopNoAction
<1>5. CASE StopSession
  BY <1>5 DEF StopSession, Service!Withdraw, Senders
<1>6. CASE JoinReturns
  BY <1>6, AnswerTypes DEF JoinReturns
<1>7. QED
  BY <1>1, <1>2, <1>3, <1>4, <1>5, <1>6 DEF RequestNext

\* A signal that is said and broadcast.
LEMMA SayTypes ==
  ASSUME TypeInv, NEW done \in BOOLEAN, NEW found \in BOOLEAN, NEW id \in Ids,
         Service!Say(done, found, id), Broadcast(signal', owner)
  PROVE  /\ signal' \in Service!Signals
         /\ queue' \in [Clients -> Seq(Heard)]
         /\ shown' \in [Clients -> SUBSET Ids]
<1>1. signal' \in Service!Signals
  BY DEF Service!Say, Service!Signals, Ids
<1>2. QED
  BY <1>1, BroadcastTypes DEF TypeInv, TypeOK

LEMMA SessionTypes == ASSUME TypeInv, SessionNext PROVE TypeInv'
<1> USE DEF TypeInv, TypeOK, account, dialogue, heard, service, session, face,
            Unheard
<1>1. CASE FprintSilent
  BY <1>1 DEF FprintSilent, Service!Retry, Service!MayTry
<1>2. CASE FprintSignal
  <2> USE DEF FprintSignal
  <2>1. CASE Service!Prompt
    BY <1>2, <2>1, SayTypes DEF Service!Prompt, Service!MayTry, Ids, StoreToCome
  <2>2. ASSUME NEW found \in BOOLEAN, NEW id \in Ids, Service!Report(found, id)
        PROVE  TypeInv'
    <3>1. Service!Say(FALSE, found, id) /\ Broadcast(signal', owner)
      BY <1>2, <2>2 DEF Service!Report
    <3>2. /\ signal' \in Service!Signals
          /\ queue' \in [Clients -> Seq(Heard)]
          /\ shown' \in [Clients -> SUBSET Ids]
      BY <3>1, SayTypes
    <3>3. tries \in 0 .. MAX_TRY_COUNT /\ tries < MAX_TRY_COUNT
          /\ tries' = tries + 1
      BY <2>2 DEF Service!Report
    <3>4. tries' \in 0 .. MAX_TRY_COUNT
      BY <3>3, LoginAssumption
    <3>5. /\ trying' = FALSE /\ last_stores' \in Nat
          /\ UNCHANGED <<running, withdrawn, dones>>
      BY <1>2, <2>2 DEF Service!Report, StoreToCome
    <3>6. QED
      BY <1>2, <3>2, <3>4, <3>5
  <2>3. CASE Service!Finish
    <3>1. Service!Say(TRUE, FALSE, NoId) /\ Broadcast(signal', owner)
      BY <1>2, <2>3 DEF Service!Finish
    <3>2. /\ signal' \in Service!Signals
          /\ queue' \in [Clients -> Seq(Heard)]
          /\ shown' \in [Clients -> SUBSET Ids]
      BY <3>1, SayTypes DEF Ids
    <3>3. /\ dones' \in Nat /\ running' \in BOOLEAN /\ last_stores' \in Nat
          /\ UNCHANGED <<withdrawn, trying, tries>>
      BY <1>2, <2>3 DEF Service!Finish, StoreToCome
    <3>4. QED
      BY <1>2, <3>2, <3>3
  <2>4. QED
    BY <1>2, <2>1, <2>2, <2>3 DEF Ids
<1>3. CASE SessionEnds
  <2>1. last_stores' \in Nat
    BY <1>3 DEF SessionEnds, StoreToCome
  <2>2. /\ running' = FALSE /\ do_verify' = FALSE
        /\ UNCHANGED <<withdrawn, trying, tries, dones, signal>>
    BY <1>3 DEF SessionEnds, Service!End
  <2>3. QED
    BY <1>3, <2>1, <2>2 DEF SessionEnds
<1>4. ASSUME NEW by, ClearAction(by)
      PROVE  /\ withdrawn' \in BOOLEAN /\ disturbed' \subseteq Clients
             /\ UNCHANGED <<running, trying, tries, dones, signal>>
  BY <1>4 DEF ClearAction, Service!Withdraw
<1>5. CASE LastStore
  BY <1>4, <1>5 DEF LastStore
<1>6. CASE MatchEnds
  BY <1>4, <1>6 DEF MatchEnds
<1>7. CASE TakeFace
  BY <1>7, LoginAssumption DEF TakeFace
<1>8. CASE FaceDiffers
  BY <1>8, SayTypes DEF FaceDiffers, Ids
<1>9. CASE FaceMatches
  BY <1>9, SayTypes DEF FaceMatches, Senders
<1>10. QED
  BY <1>1, <1>2, <1>3, <1>5, <1>6, <1>7, <1>8, <1>9 DEF SessionNext

LEMMA TypeStep == TypeInv /\ [Next]_vars => TypeInv'
<1> SUFFICES ASSUME TypeInv, [Next]_vars PROVE TypeInv'
  OBVIOUS
<1>1. ASSUME NEW c \in Clients, ClientStep(c) PROVE TypeInv'
  BY <1>1, ClientTypes
<1>2. ASSUME NEW c \in Clients, ReplyTimeout(c) PROVE TypeInv'
  BY <1>2, DisownedTypes
     DEF ReplyTimeout, TypeInv, TypeOK, account, dialogue, heard, service,
         session, face
<1>3. CASE RequestNext
  BY <1>3, RequestTypes
<1>4. CASE SessionNext
  BY <1>4, SessionTypes
<1>5. CASE OtherRequest
  <2>1. PICK method \in {"Start", "Stop"}, id \in {NoId, Stranger} :
          inbox' = Append(inbox, [method |-> method, from |-> NoClient,
                                  id |-> id])
    BY <1>5 DEF OtherRequest
  <2>2. [method |-> method, from |-> NoClient, id |-> id] \in Requests
    BY DEF Requests, Senders, Ids
  <2>3. ASSUME NEW r \in Requests, inbox' = Append(inbox, r)
        PROVE  inbox' \in Seq(Requests) /\ inbox' # << >>
    <3>1. inbox \in Seq(Requests)
      BY DEF TypeInv, TypeOK
    <3>2. QED
      BY <2>3, <3>1, AppendProperties
  <2>4. calls' \in 0 .. MAX_CALLS
    BY <1>5, LoginAssumption DEF OtherRequest, TypeInv, TypeOK
  <2>5. inbox' \in Seq(Requests) /\ inbox' # << >>
    BY <2>1, <2>2, <2>3
  <2>6. QED
    BY <1>5, <2>4, <2>5 DEF OtherRequest, TypeInv, TypeOK, account, dialogue, heard,
                      session, face
<1>6. CASE OtherEnrolment
  BY <1>6, LoginAssumption
     DEF OtherEnrolment, TypeInv, TypeOK, account, dialogue, heard, session, face
<1>7. CASE UNCHANGED vars
  BY <1>7 DEF vars, TypeInv, TypeOK, account, dialogue, heard, service, session,
              face
<1>8. QED
  BY <1>1, <1>2, <1>3, <1>4, <1>5, <1>6, <1>7 DEF Next

\* Every variable keeps its type: the attempts of a session stay within their
\* limit although its successors take them over, and a Stop that waits for a
\* session is answered from a queue that is not empty.
THEOREM TypeCorrect == Spec => []TypeOK
<1>1. TypeInv => TypeOK
  BY DEF TypeInv
<1>2. QED
  BY <1>1, InitTypes, TypeStep, PTL DEF Spec

------------------------------------------------------------------------------
(* No mode is skipped *)

\* Matches that wait to be handled have been shown, and are of somebody.
Backed(q, ids) ==
  \A n \in 1 .. Len(q) : q[n].signal.found => q[n].signal.id \in ids \ {NoId}

\* What a client has been shown proves a match for it.
Told(c) ==
  IF modality = "fprint" THEN auth[c] = "id" /\ c \in shown[c] ELSE shown[c] # {}

\* The inductive invariant: what a client concludes from signals it was told.
Evidence(c) ==
  /\ auth[c] = "NOT_NEED_DATA" => (c \in informed => ~demand[c])
  /\ Backed(queue[c], shown[c])
  /\ match[c] => Told(c)
  /\ result[c] = "PAM_SUCCESS" => auth[c] = "NOT_NEED_DATA" \/ Told(c)
  /\ pc[c] \in {"authmode", "begin"} => ~match[c] /\ result[c] # "PAM_SUCCESS"
  /\ pc[c] = "authmode" => c \notin informed

EvidenceInv == TypeInv /\ \A c \in Clients : Evidence(c)

LEMMA BackedAppend ==
  ASSUME NEW q \in Seq(Heard), NEW ids, NEW h \in Heard, Backed(q, ids),
         NEW more, ids \subseteq more,
         h.signal.found => h.signal.id \in more \ {NoId}
  PROVE  Backed(Append(q, h), more)
<1>1. /\ Len(Append(q, h)) = Len(q) + 1 /\ Len(q) \in Nat
      /\ \A n \in 1 .. Len(q) : Append(q, h)[n] = q[n]
      /\ Append(q, h)[Len(q) + 1] = h
  BY AppendProperties, LenProperties
<1>2. QED
  BY <1>1 DEF Backed

LEMMA BackedTail ==
  ASSUME NEW q \in Seq(Heard), NEW ids, Backed(q, ids), q # << >>
  PROVE  /\ Backed(Tail(q), ids)
         /\ Head(q).signal.found => Head(q).signal.id \in ids \ {NoId}
<1>1. /\ Len(Tail(q)) = Len(q) - 1
      /\ \A n \in 1 .. Len(Tail(q)) : Tail(q)[n] = q[n + 1]
  BY HeadTailProperties
<1>2. Len(q) \in Nat \ {0} /\ Head(q) = q[1]
  BY EmptySeq
<1>3. QED
  BY <1>1, <1>2 DEF Backed

LEMMA BackedEmpty == ASSUME NEW ids PROVE Backed(<< >>, ids)
BY EmptySeq DEF Backed

\* A step of one client leaves the others, and what they were shown, alone.
LEMMA OthersEvidence ==
  ASSUME EvidenceInv, NEW c \in Clients, ClientStep(c), NEW d \in Clients, d # c
  PROVE  Evidence(d)'
<1>1. /\ auth'[d] = auth[d] /\ queue'[d] = queue[d] /\ match'[d] = match[d]
      /\ result'[d] = result[d] /\ pc'[d] = pc[d]
  BY DEF EvidenceInv, TypeInv, TypeOK, ClientStep, ReadAuthModes, Unavailable,
         NotNeeded, BadPointer, Connect, Started, CancelOther, StartAgain,
         GiveUp, SkipSignal, HandleSignal, LoopTimeout, Verdict, Return, Call,
         EnterLoop, QuitLoop, Take, account, dialogue, heard
<1>2. /\ UNCHANGED <<modality, demand, shown>>
      /\ d \in informed' <=> d \in informed
  BY DEF ClientStep, ReadAuthModes, Unavailable,
         NotNeeded, BadPointer, Connect, Started, CancelOther, StartAgain,
         GiveUp, SkipSignal, HandleSignal, LoopTimeout, Verdict, account, heard
<1>3. QED
  BY <1>1, <1>2 DEF EvidenceInv, Evidence, Told

LEMMA OwnEvidence ==
  ASSUME EvidenceInv, NEW c \in Clients, ClientStep(c)
  PROVE  Evidence(c)'
<1> USE DEF EvidenceInv, TypeInv, TypeOK, Evidence, Told, account, dialogue,
            heard, Return, Call
<1>1. CASE ReadAuthModes(c)
  BY <1>1 DEF ReadAuthModes, Recorded
<1>2. CASE Unavailable(c)
  BY <1>2 DEF Unavailable
<1>3. CASE NotNeeded(c)
  BY <1>3 DEF NotNeeded
<1>4. CASE BadPointer(c)
  BY <1>4 DEF BadPointer
<1>5. CASE Connect(c)
  BY <1>5 DEF Connect
<1>6. CASE Started(c)
  BY <1>6 DEF Started, EnterLoop
<1>7. CASE CancelOther(c)
  BY <1>7 DEF CancelOther
<1>8. CASE StartAgain(c)
  BY <1>8 DEF StartAgain
<1>9. CASE GiveUp(c)
  BY <1>9, BackedEmpty DEF GiveUp
<1>10. CASE SkipSignal(c)
  BY <1>10, BackedTail DEF SkipSignal, Take
<1>11. CASE HandleSignal(c)
  <2> DEFINE s == Head(queue[c]).signal
  <2>1. Backed(Tail(queue[c]), shown[c]) /\ (s.found => s.id \in shown[c] \ {NoId})
    BY <1>11, BackedTail DEF HandleSignal
  <2>2. Matched(c, s) => Told(c)
    BY <2>1 DEF Matched, Wanted
  <2>3. UNCHANGED <<modality, demand, informed, auth, shown, result>>
    BY <1>11 DEF HandleSignal
  <2>4. match'[c] => Told(c)'
    BY <1>11, <2>2, <2>3 DEF HandleSignal
  <2>5. Backed(queue'[c], shown'[c])
    <3>1. queue' = [queue EXCEPT ![c] = << >>] \/ queue' = [queue EXCEPT ![c] = Tail(@)]
      BY <1>11 DEF HandleSignal, QuitLoop, Take
    <3>2. queue'[c] = << >> \/ queue'[c] = Tail(queue[c])
      BY <3>1
    <3>3. QED
      BY <2>1, <2>3, <3>2, BackedEmpty
  <2>6. pc'[c] \notin {"authmode", "begin"}
    BY <1>11 DEF HandleSignal, QuitLoop
  <2>7. QED
    BY <2>3, <2>4, <2>5, <2>6
<1>12. CASE LoopTimeout(c)
  BY <1>12, BackedEmpty DEF LoopTimeout, QuitLoop
<1>13. CASE Verdict(c)
  BY <1>13 DEF Verdict
<1>14. QED
  BY <1>1, <1>2, <1>3, <1>4, <1>5, <1>6, <1>7, <1>8, <1>9, <1>10, <1>11, <1>12,
     <1>13 DEF ClientStep

\* The service says the same to the queue and to the record of what was shown.
LEMMA BroadcastEvidence ==
  ASSUME EvidenceInv, NEW s \in Service!Signals, NEW of \in Senders,
         s.found => s.id # NoId, Broadcast(s, of),
         UNCHANGED <<account, dialogue, pc>>
  PROVE  \A c \in Clients : Evidence(c)'
<1> SUFFICES ASSUME NEW c \in Clients PROVE Evidence(c)'
  OBVIOUS
<1> DEFINE h == [signal |-> s, of |-> of]
<1>1. h \in Heard /\ h.signal = s /\ queue[c] \in Seq(Heard)
  BY DEF Heard, EvidenceInv, TypeInv, TypeOK
<1>2. shown[c] \subseteq shown'[c]
  BY DEF Broadcast
<1>3. CASE pc[c] \in Listening
  <2>1. queue'[c] = Append(queue[c], h)
    BY <1>3 DEF Broadcast
  <2>2. s.found => s.id \in shown'[c] \ {NoId}
    BY <1>3 DEF Broadcast
  <2>3. Backed(queue[c], shown[c])
    BY DEF EvidenceInv, Evidence
  <2>4. QED
    BY <1>1, <1>2, <2>1, <2>2, <2>3, BackedAppend
       DEF EvidenceInv, Evidence, Told, account, dialogue
<1>4. CASE pc[c] \notin Listening
  <2>1. queue'[c] = queue[c] /\ shown'[c] = shown[c]
    BY <1>4 DEF Broadcast
  <2>2. QED
    BY <2>1 DEF EvidenceInv, Evidence, Told, account, dialogue
<1>5. QED
  BY <1>3, <1>4

\* Steps that clients do not notice.
LEMMA QuietEvidence ==
  ASSUME EvidenceInv, UNCHANGED <<account, dialogue, pc, heard>>
  PROVE  \A c \in Clients : Evidence(c)'
BY DEF EvidenceInv, Evidence, Told, account, dialogue, heard

LEMMA RequestEvidence ==
  ASSUME EvidenceInv, RequestNext
  PROVE  \A c \in Clients : Evidence(c)'
<1>1. CASE StartBusy \/ StartFails \/ StopNoAction \/ StopSession \/ JoinReturns
  BY <1>1, QuietEvidence
     DEF StartBusy, StartFails, StopNoAction, StopSession, JoinReturns
<1>2. CASE StartSession
  <2>1. CASE modality = "face"
    <3> DEFINE s == [done |-> FALSE, found |-> FALSE, id |-> NoId]
    <3>1. s \in Service!Signals /\ ~s.found
      BY DEF Service!Signals
    <3>2. Head(inbox).from \in Senders
      <4>1. inbox \in Seq(Requests) /\ inbox # << >>
        BY <1>2 DEF StartSession, Requested, EvidenceInv, TypeInv, TypeOK
      <4>2. Head(inbox) \in Requests
        BY <4>1, HeadTailProperties
      <4>3. QED
        BY <4>2 DEF Requests
    <3>3. Broadcast(s, Head(inbox).from) /\ UNCHANGED <<account, dialogue, pc>>
      BY <1>2, <2>1 DEF StartSession
    <3>4. QED
      BY <3>1, <3>2, <3>3, BroadcastEvidence
  <2>2. CASE modality # "face"
    BY <1>2, <2>2, QuietEvidence DEF StartSession
  <2>3. QED
    BY <2>1, <2>2
<1>3. QED
  BY <1>1, <1>2 DEF RequestNext

\* A signal that a session sends.
LEMMA SayEvidence ==
  ASSUME EvidenceInv, NEW done \in BOOLEAN, NEW found \in BOOLEAN, NEW id \in Ids,
         found => id # NoId,
         Service!Say(done, found, id), Broadcast(signal', owner), Unheard
  PROVE  \A c \in Clients : Evidence(c)'
<1>1. signal' \in Service!Signals /\ (signal'.found => signal'.id # NoId)
  BY DEF Service!Say, Service!Signals, Ids
<1>2. owner \in Senders /\ UNCHANGED <<account, dialogue, pc>>
  BY DEF EvidenceInv, TypeInv, TypeOK, Unheard
<1>3. QED
  BY <1>1, <1>2, BroadcastEvidence

LEMMA SessionEvidence ==
  ASSUME EvidenceInv, SessionNext
  PROVE  \A c \in Clients : Evidence(c)'
<1>1. CASE FprintSilent \/ SessionEnds \/ LastStore \/ TakeFace \/ MatchEnds
  BY <1>1, QuietEvidence
     DEF FprintSilent, SessionEnds, LastStore, TakeFace, MatchEnds, Unheard
<1>2. CASE FprintSignal
  <2> USE DEF FprintSignal
  <2>1. CASE Service!Prompt \/ Service!Finish \/ Service!Report(FALSE, NoId)
    BY <1>2, <2>1, SayEvidence
       DEF Service!Prompt, Service!Finish, Service!Report, Ids
  <2>2. ASSUME NEW id \in Clients \cup {Stranger}, Service!Report(TRUE, id)
        PROVE  \A c \in Clients : Evidence(c)'
    BY <1>2, <2>2, SayEvidence, LoginAssumption DEF Service!Report, Ids
  <2>3. QED
    BY <1>2, <2>1, <2>2
<1>3. CASE FaceDiffers
  BY <1>3, SayEvidence DEF FaceDiffers, Ids
<1>4. CASE FaceMatches
  BY <1>4, SayEvidence DEF FaceMatches, EvidenceInv, TypeInv, TypeOK
<1>5. QED
  BY <1>1, <1>2, <1>3, <1>4 DEF SessionNext

LEMMA EvidenceStep == EvidenceInv /\ [Next]_vars => EvidenceInv'
<1> SUFFICES ASSUME EvidenceInv, [Next]_vars PROVE EvidenceInv'
  OBVIOUS
<1>1. TypeInv'
  BY TypeStep DEF EvidenceInv
<1>2. \A c \in Clients : Evidence(c)'
  <2>1. ASSUME NEW c \in Clients, ClientStep(c)
        PROVE  \A d \in Clients : Evidence(d)'
    BY <2>1, OwnEvidence, OthersEvidence
  <2>2. ASSUME NEW c \in Clients, ReplyTimeout(c)
        PROVE  \A d \in Clients : Evidence(d)'
    BY <2>2, QuietEvidence DEF ReplyTimeout
  <2>3. CASE OtherRequest \/ OtherEnrolment
    BY <2>3, QuietEvidence DEF OtherRequest, OtherEnrolment
  <2>4. CASE UNCHANGED vars
    BY <2>4, QuietEvidence DEF vars
  <2>5. QED
    BY <2>1, <2>2, <2>3, <2>4, RequestEvidence, SessionEvidence DEF Next
<1>3. QED
  BY <1>1, <1>2 DEF EvidenceInv

\* However many logins and other programs there are, and whatever signals reach
\* each of them in which order, nobody gets past a mode that authmode could read
\* to be demanded without a match.
THEOREM NoModeSkippedCorrect == Spec => []NoModeSkipped
<1>1. Init => EvidenceInv
  BY InitTypes, BackedEmpty DEF Init, EvidenceInv, Evidence
<1>2. EvidenceInv => NoModeSkipped
  BY DEF EvidenceInv, Evidence, Told, NoModeSkipped
<1>3. QED
  BY <1>1, <1>2, EvidenceStep, PTL DEF Spec

------------------------------------------------------------------------------
(* Whose request, whose session *)

\* The client is in its session, as far as it can know: its Start was answered
\* and it has not called Stop yet.
InSession(c) ==
  pc[c] = "loop" \/ (pc[c] \in {"start", "again"} /\ reply[c] = "ok")

\* A client that has a request in the service's queue waits for its answer, and
\* has only that one.
Awaited(r) ==
  r.from \in Clients =>
    /\ pc[r.from] \in Waiting /\ reply[r.from] = "none"
    /\ r.method = IF pc[r.from] \in {"start", "again"} THEN "Start" ELSE "Stop"

RequestInv ==
  /\ \A n \in 1 .. Len(inbox) : Awaited(inbox[n])
  /\ \A m, n \in 1 .. Len(inbox) :
       inbox[m].from \in Clients /\ inbox[m].from = inbox[n].from => m = n
  /\ joining => inbox[1].method = "Stop"

StopComing == \E n \in 1 .. Len(inbox) : inbox[n].method = "Stop"

\* Among the signals that wait for the client is the end of its own session.
EndInQueue(c) ==
  \E n \in 1 .. Len(queue[c]) : queue[c][n].signal.done /\ queue[c][n].of = c

\* The inductive invariant about a client and the session it started.
OwnSession(c) ==
  /\ running /\ owner = c =>
       InSession(c) \/ (pc[c] \in {"stop", "ended"} /\ (withdrawn \/ StopComing))
  /\ InSession(c) =>
       \/ running /\ owner = c /\ ~withdrawn /\ dones = 0
       \/ EndInQueue(c)
       \/ c \in disturbed
  /\ c \in ending =>
       \/ InSession(c) /\ (EndInQueue(c) \/ c \in disturbed)
       \/ pc[c] \in {"stop", "ended"}

LoginInv == TypeInv /\ RequestInv /\ \A c \in Clients : OwnSession(c)

LEMMA InboxFacts ==
  ASSUME TypeInv
  PROVE  /\ inbox \in Seq(Requests) /\ Len(inbox) \in Nat
         /\ DOMAIN inbox = 1 .. Len(inbox)
         /\ \A n \in 1 .. Len(inbox) : inbox[n] \in Requests
<1>1. inbox \in Seq(Requests)
  BY DEF TypeInv, TypeOK
<1>2. QED
  BY <1>1, LenProperties, ElementOfSeq

\* A client calls: it has no other request in the queue.
LEMMA CallRequests ==
  ASSUME LoginInv, NEW c \in Clients,
         NEW method \in {"Start", "Stop"}, NEW place \in Waiting,
         method = IF place \in {"start", "again"} THEN "Start" ELSE "Stop",
         pc[c] \in Waiting => reply[c] # "none",
         Call(c, method, place), UNCHANGED joining
  PROVE  /\ RequestInv'
         /\ StopComing => StopComing'
         /\ method = "Stop" => StopComing'
<1> DEFINE r == [method |-> method, from |-> c,
                 id |-> IF auth[c] = "id" THEN c ELSE NoId]
           N == Len(inbox)
<1>1. inbox \in Seq(Requests) /\ N \in Nat
  BY InboxFacts DEF LoginInv
<1>2. r \in Requests
  BY DEF Requests, Senders, Ids
<1>3. /\ Len(inbox') = N + 1 /\ inbox'[N + 1] = r
      /\ \A n \in 1 .. N : inbox'[n] = inbox[n]
  BY <1>1, <1>2, AppendProperties DEF Call
<1>4. /\ pc'[c] = place /\ reply'[c] = "none"
      /\ \A d \in Clients : d # c => pc'[d] = pc[d] /\ reply'[d] = reply[d]
  BY DEF Call, LoginInv, TypeInv, TypeOK
<1>5. \A n \in 1 .. N : inbox[n].from # c
  BY DEF LoginInv, RequestInv, Awaited
<1>6. r.from = c /\ r.method = method
  OBVIOUS
<1> HIDE DEF r
<1>7. \A n \in 1 .. N + 1 : n \in 1 .. N \/ n = N + 1
  BY <1>1
<1>8. \A n \in 1 .. N : n \in 1 .. N + 1
  BY <1>1
<1>9. \A n \in 1 .. N + 1 : Awaited(inbox[n])'
  <2> SUFFICES ASSUME NEW n \in 1 .. N + 1 PROVE Awaited(inbox[n])'
    OBVIOUS
  <2>1. CASE n = N + 1
    BY <2>1, <1>3, <1>4, <1>6 DEF Awaited
  <2>2. CASE n \in 1 .. N
    BY <2>2, <1>3, <1>4, <1>5 DEF LoginInv, RequestInv, Awaited
  <2>3. QED
    BY <1>7, <2>1, <2>2
<1>10. \A m, n \in 1 .. N + 1 :
         inbox'[m].from \in Clients /\ inbox'[m].from = inbox'[n].from => m = n
  BY <1>3, <1>5, <1>6, <1>7 DEF LoginInv, RequestInv
<1>11. joining' => inbox'[1].method = "Stop"
  <2> SUFFICES ASSUME joining' PROVE inbox'[1].method = "Stop"
    OBVIOUS
  <2>1. joining /\ inbox # << >>
    BY DEF LoginInv, TypeInv
  <2>2. 1 \in 1 .. N
    BY <1>1, <2>1, EmptySeq
  <2>3. QED
    BY <1>3, <2>1, <2>2 DEF LoginInv, RequestInv
<1>12. RequestInv'
  BY <1>3, <1>9, <1>10, <1>11 DEF RequestInv
<1>13. StopComing => StopComing'
  BY <1>3, <1>8 DEF StopComing
<1>14. N + 1 \in 1 .. N + 1
  BY <1>1
<1>15. QED
  BY <1>3, <1>6, <1>12, <1>13, <1>14 DEF StopComing

\* The first request is answered, and its client has no other.
LEMMA AnswerRequests ==
  ASSUME LoginInv, inbox # << >>, NEW r \in {"ok", "busy", "error"}, Answer(r),
         UNCHANGED pc, ~joining'
  PROVE  /\ RequestInv'
         /\ Head(inbox).method = "Start" /\ StopComing => StopComing'
         /\ Head(inbox) \in Requests /\ Awaited(Head(inbox))
         /\ Head(inbox).method = "Stop" <=> inbox[1].method = "Stop"
<1> DEFINE N == Len(inbox)
<1>1. inbox \in Seq(Requests) /\ N \in Nat \ {0} /\ Head(inbox) = inbox[1]
  BY InboxFacts, EmptySeq DEF LoginInv
<1>2. Len(inbox') = N - 1 /\ \A n \in 1 .. N - 1 : inbox'[n] = inbox[n + 1]
  BY <1>1, HeadTailProperties DEF Answer
<1>3. \A n \in 1 .. N - 1 : n + 1 \in 1 .. N /\ n + 1 # 1
  BY <1>1
<1>4. 1 \in 1 .. N
  BY <1>1
<1>5. \A c \in Clients :
        reply'[c] = IF c = inbox[1].from THEN r ELSE reply[c]
  BY <1>1 DEF Answer
<1>6. \A n \in 1 .. N - 1 : Awaited(inbox[n])'
  BY <1>2, <1>3, <1>4, <1>5 DEF LoginInv, RequestInv, Awaited
<1>7. \A m, n \in 1 .. N - 1 : m + 1 = n + 1 => m = n
  BY <1>1
<1>8. \A m, n \in 1 .. N - 1 :
        inbox'[m].from \in Clients /\ inbox'[m].from = inbox'[n].from => m = n
  BY <1>2, <1>3, <1>7 DEF LoginInv, RequestInv
<1>9. RequestInv'
  BY <1>2, <1>6, <1>8 DEF RequestInv
<1>10. \A n \in 1 .. N : n = 1 \/ (n - 1 \in 1 .. N - 1 /\ (n - 1) + 1 = n)
  BY <1>1
<1>11. inbox[1].method = "Start" /\ StopComing => StopComing'
  <2> SUFFICES ASSUME inbox[1].method = "Start",
                      NEW n \in 1 .. N, inbox[n].method = "Stop"
               PROVE  StopComing'
    BY DEF StopComing
  <2>1. n - 1 \in 1 .. N - 1 /\ (n - 1) + 1 = n
    BY <1>10
  <2>2. inbox'[n - 1].method = "Stop"
    BY <1>2, <2>1
  <2>3. QED
    BY <1>2, <2>1, <2>2 DEF StopComing
<1>12. Head(inbox) \in Requests /\ Awaited(Head(inbox))
  BY <1>1, <1>4, InboxFacts DEF LoginInv, RequestInv
<1>13. QED
  BY <1>1, <1>9, <1>11, <1>12

\* A client stops waiting: its request stays in the queue, from nobody.
LEMMA TimeoutRequests ==
  ASSUME LoginInv, NEW c \in Clients, ReplyTimeout(c)
  PROVE  RequestInv' /\ (StopComing => StopComing')
<1> DEFINE N == Len(inbox)
<1>1. /\ inbox \in Seq(Requests) /\ N \in Nat /\ DOMAIN inbox = 1 .. N
      /\ \A n \in 1 .. N : inbox[n] \in Requests
  BY InboxFacts DEF LoginInv
<1>2. inbox' \in Seq(Requests)
  BY DisownedTypes DEF LoginInv
<1>3. DOMAIN inbox' = 1 .. N
  BY <1>1 DEF ReplyTimeout
<1>4. Len(inbox') = N
  BY <1>1, <1>2, <1>3, LenProperties
<1>5. \A n \in 1 .. N :
        /\ inbox'[n].method = inbox[n].method
        /\ inbox'[n].from = IF inbox[n].from = c THEN NoClient ELSE inbox[n].from
  BY <1>1 DEF ReplyTimeout, Requests
<1>6. \A d \in Clients : d # c => reply'[d] = reply[d]
  BY DEF ReplyTimeout, LoginInv, TypeInv, TypeOK
<1>7. pc' = pc /\ joining' = joining
  BY DEF ReplyTimeout
<1>8. \A n \in 1 .. N : Awaited(inbox[n])'
  BY <1>5, <1>6, <1>7, LoginAssumption DEF LoginInv, RequestInv, Awaited
<1>9. \A m, n \in 1 .. N :
        inbox'[m].from \in Clients /\ inbox'[m].from = inbox'[n].from => m = n
  BY <1>5, LoginAssumption DEF LoginInv, RequestInv
<1>10. joining' => inbox'[1].method = "Stop"
  <2> SUFFICES ASSUME joining PROVE inbox'[1].method = "Stop"
    BY <1>7
  <2>1. 1 \in 1 .. N
    BY <1>1, EmptySeq DEF LoginInv, TypeInv
  <2>2. QED
    BY <1>5, <2>1 DEF LoginInv, RequestInv
<1>11. RequestInv'
  BY <1>4, <1>8, <1>9, <1>10 DEF RequestInv
<1>12. QED
  BY <1>4, <1>5, <1>11 DEF StopComing

\* The queue is left alone, and whoever moves on has no request in it.
LEMMA QuietRequests ==
  ASSUME LoginInv, UNCHANGED inbox, joining' => joining,
         \A c \in Clients :
           \/ pc'[c] = pc[c] /\ reply'[c] = reply[c]
           \/ pc[c] \in Waiting => reply[c] # "none"
  PROVE  RequestInv' /\ (StopComing => StopComing')
BY DEF LoginInv, RequestInv, Awaited, StopComing

\* What a step of a client does to the requests.
LEMMA ClientRequests ==
  ASSUME LoginInv, NEW c \in Clients, ClientStep(c)
  PROVE  /\ RequestInv'
         /\ StopComing => StopComing'
         /\ pc[c] = "loop" /\ pc'[c] = "stop" => StopComing'
<1> USE DEF LoginInv, TypeInv, TypeOK, Waiting, account, dialogue, heard
<1>1. CASE ReadAuthModes(c)
  BY <1>1, QuietRequests DEF ReadAuthModes
<1>2. CASE Unavailable(c)
  BY <1>2, QuietRequests DEF Unavailable, Return
<1>3. CASE NotNeeded(c)
  BY <1>3, QuietRequests DEF NotNeeded, Return
<1>4. CASE BadPointer(c)
  BY <1>4, QuietRequests DEF BadPointer, Return
<1>5. CASE Connect(c)
  BY <1>5, CallRequests DEF Connect
<1>6. CASE Started(c)
  BY <1>6, QuietRequests DEF Started, EnterLoop
<1>7. CASE CancelOther(c)
  BY <1>7, CallRequests DEF CancelOther
<1>8. CASE StartAgain(c)
  BY <1>8, CallRequests DEF StartAgain
<1>9. CASE GiveUp(c)
  BY <1>9, QuietRequests DEF GiveUp, Return
<1>10. CASE SkipSignal(c)
  BY <1>10, QuietRequests DEF SkipSignal
<1>11. ASSUME pc[c] = "loop", QuitLoop(c), UNCHANGED joining
       PROVE  RequestInv' /\ (StopComing => StopComing') /\ StopComing'
  BY <1>11, CallRequests DEF QuitLoop
<1>12. CASE HandleSignal(c)
  <2>1. CASE QuitLoop(c)
    BY <1>11, <1>12, <2>1 DEF HandleSignal
  <2>2. CASE UNCHANGED <<pc, inbox, reply>>
    BY <1>12, <2>2, QuietRequests DEF HandleSignal
  <2>3. QED
    BY <1>12, <2>1, <2>2 DEF HandleSignal
<1>13. CASE LoopTimeout(c)
  BY <1>11, <1>13 DEF LoopTimeout
<1>14. CASE Verdict(c)
  BY <1>14, QuietRequests DEF Verdict, Return
<1>15. QED
  BY <1>1, <1>2, <1>3, <1>4, <1>5, <1>6, <1>7, <1>8, <1>9, <1>10, <1>12, <1>13,
     <1>14 DEF ClientStep

\* A signal leaves the client's queue: the end of its session stays in it,
\* unless it was that signal.
LEMMA EndAfterTake ==
  ASSUME TypeInv, NEW c \in Clients, queue[c] # << >>, Take(c), EndInQueue(c)
  PROVE  \/ EndInQueue(c)'
         \/ Head(queue[c]).signal.done /\ Head(queue[c]).of = c
<1> DEFINE q == queue[c]
<1>1. q \in Seq(Heard) /\ queue'[c] = Tail(q)
  BY DEF TypeInv, TypeOK, Take
<1>2. /\ Len(Tail(q)) = Len(q) - 1 /\ Len(q) \in Nat \ {0} /\ Head(q) = q[1]
      /\ \A n \in 1 .. Len(q) - 1 : Tail(q)[n] = q[n + 1]
  BY <1>1, HeadTailProperties, EmptySeq
<1>3. PICK n \in 1 .. Len(q) : q[n].signal.done /\ q[n].of = c
  BY DEF EndInQueue
<1>4. CASE n = 1
  BY <1>2, <1>3, <1>4
<1>5. CASE n # 1
  <2>1. n - 1 \in 1 .. Len(q) - 1 /\ (n - 1) + 1 = n
    BY <1>2, <1>5
  <2>2. Tail(q)[n - 1] = q[n]
    BY <1>2, <2>1
  <2>3. QED
    BY <1>1, <1>2, <1>3, <2>1, <2>2 DEF EndInQueue
<1>6. QED
  BY <1>4, <1>5

\* A broadcast signal goes to the end of the queue of a client that listens.
LEMMA EndAfterBroadcast ==
  ASSUME TypeInv, NEW c \in Clients, NEW s \in Service!Signals,
         NEW of \in Senders, Broadcast(s, of)
  PROVE  /\ EndInQueue(c) => EndInQueue(c)'
         /\ pc[c] \in Listening /\ s.done /\ of = c => EndInQueue(c)'
<1> DEFINE q == queue[c]
           h == [signal |-> s, of |-> of]
<1>1. q \in Seq(Heard) /\ h \in Heard /\ Len(q) \in Nat
  BY LenProperties DEF TypeInv, TypeOK, Heard
<1>2. CASE pc[c] \in Listening
  <2>1. queue'[c] = Append(q, h)
    BY <1>2 DEF Broadcast
  <2>2. /\ Len(Append(q, h)) = Len(q) + 1 /\ Append(q, h)[Len(q) + 1] = h
        /\ \A n \in 1 .. Len(q) : Append(q, h)[n] = q[n]
    BY <1>1, AppendProperties
  <2>3. /\ Len(q) + 1 \in 1 .. Len(q) + 1
        /\ \A n \in 1 .. Len(q) : n \in 1 .. Len(q) + 1
    BY <1>1
  <2>4. EndInQueue(c) => EndInQueue(c)'
    BY <2>1, <2>2, <2>3 DEF EndInQueue
  <2>5. h.signal = s /\ h.of = of
    OBVIOUS
  <2>6. s.done /\ of = c => EndInQueue(c)'
    BY <2>1, <2>2, <2>3, <2>5 DEF EndInQueue
  <2>7. QED
    BY <2>4, <2>6
<1>3. CASE pc[c] \notin Listening
  BY <1>3 DEF Broadcast, EndInQueue
<1>4. QED
  BY <1>2, <1>3

LEMMA ClientOwnSession ==
  ASSUME LoginInv, NEW c \in Clients, ClientStep(c)
  PROVE  OwnSession(c)'
<1>1. /\ StopComing => StopComing'
      /\ pc[c] = "loop" /\ pc'[c] = "stop" => StopComing'
  BY ClientRequests
<1> USE DEF LoginInv, TypeInv, TypeOK, OwnSession, InSession, EndInQueue,
            account, dialogue, heard, service, session, face, Return, Call
<1>2. CASE ReadAuthModes(c)
  BY <1>2 DEF ReadAuthModes
<1>3. CASE Unavailable(c) \/ NotNeeded(c)
  <2>1. /\ pc[c] = "begin" /\ pc'[c] = "ended"
        /\ UNCHANGED <<running, owner, ending>>
    BY <1>3 DEF Unavailable, NotNeeded
  <2>2. QED
    BY <2>1
<1>4. CASE BadPointer(c)
  BY <1>4 DEF BadPointer
<1>5. CASE Connect(c)
  BY <1>5 DEF Connect
<1>6. CASE Started(c)
  BY <1>6 DEF Started, EnterLoop
<1>7. CASE CancelOther(c)
  BY <1>7 DEF CancelOther
<1>8. CASE StartAgain(c)
  BY <1>8 DEF StartAgain
<1>9. CASE GiveUp(c)
  BY <1>9 DEF GiveUp
<1>10. CASE SkipSignal(c)
  <2>1. UNCHANGED <<running, owner, withdrawn, dones, ending, pc, reply>>
        /\ disturbed \subseteq disturbed' /\ pc[c] = "loop"
    BY <1>10 DEF SkipSignal
  <2>2. EndInQueue(c) => EndInQueue(c)' \/ c \in disturbed'
    BY <1>10, EndAfterTake DEF SkipSignal
  <2>3. QED
    BY <2>1, <2>2
<1>11. ASSUME pc[c] = "loop", QuitLoop(c), UNCHANGED <<service, disturbed>>
       PROVE  OwnSession(c)'
  BY <1>1, <1>11 DEF QuitLoop
<1>12. CASE HandleSignal(c)
  <2>1. CASE QuitLoop(c)
    BY <1>11, <1>12, <2>1 DEF HandleSignal
  <2>2. CASE /\ Take(c) /\ UNCHANGED <<pc, inbox, reply>>
             /\ ~Head(queue[c]).signal.done
    <3>1. UNCHANGED <<running, owner, withdrawn, dones, ending, pc, reply,
                      disturbed>>
          /\ pc[c] = "loop"
      BY <1>12, <2>2 DEF HandleSignal
    <3>2. EndInQueue(c) => EndInQueue(c)'
      BY <1>12, <2>2, EndAfterTake DEF HandleSignal
    <3>3. QED
      BY <3>1, <3>2
  <2>3. QED
    BY <1>12, <2>1, <2>2 DEF HandleSignal
<1>13. CASE LoopTimeout(c)
  BY <1>11, <1>13 DEF LoopTimeout
<1>14. CASE Verdict(c)
  BY <1>1, <1>14 DEF Verdict
<1>15. QED
  BY <1>2, <1>3, <1>4, <1>5, <1>6, <1>7, <1>8, <1>9, <1>10, <1>12, <1>13, <1>14
     DEF ClientStep

\* Other clients do not touch the session, and send Stops but take none back.
LEMMA ClientOthersSession ==
  ASSUME LoginInv, NEW c \in Clients, ClientStep(c), NEW d \in Clients, d # c
  PROVE  OwnSession(d)'
<1>1. /\ queue'[d] = queue[d] /\ pc'[d] = pc[d] /\ reply'[d] = reply[d]
      /\ d \in disturbed => d \in disturbed'
  BY DEF LoginInv, TypeInv, TypeOK, ClientStep, ReadAuthModes, Unavailable,
         NotNeeded, BadPointer, Connect, Started, CancelOther, StartAgain,
         GiveUp, SkipSignal, HandleSignal, LoopTimeout, Verdict, Return, Call,
         EnterLoop, QuitLoop, Take, account, dialogue, heard
<1>2. UNCHANGED service
  BY DEF ClientStep, ReadAuthModes, Unavailable,
         NotNeeded, BadPointer, Connect, Started, CancelOther, StartAgain,
         GiveUp, SkipSignal, HandleSignal, LoopTimeout, Verdict
<1>3. QED
  BY <1>1, <1>2, ClientRequests
     DEF LoginInv, OwnSession, InSession, EndInQueue, service, session, face

\* A step of the session leaves clients and requests alone: what has to be shown
\* is that the client whose session ends will hear of it, or was disturbed.
LEMMA SessionFrame ==
  ASSUME LoginInv, NEW c \in Clients,
         UNCHANGED <<pc, reply, inbox, owner>>,
         running' => running, running' /\ withdrawn => withdrawn',
         EndInQueue(c) => EndInQueue(c)', c \in disturbed => c \in disturbed',
         InSession(c) /\ running /\ owner = c /\ ~withdrawn /\ dones = 0 =>
           \/ running' /\ ~withdrawn' /\ dones' = 0
           \/ EndInQueue(c)'
           \/ c \in disturbed',
         c \in ending' =>
           \/ c \in ending
           \/ running /\ owner = c /\ (InSession(c) => EndInQueue(c)')
  PROVE  OwnSession(c)'
BY DEF LoginInv, OwnSession, InSession, StopComing

LEMMA SessionOwnSession ==
  ASSUME LoginInv, SessionNext, NEW c \in Clients
  PROVE  OwnSession(c)'
<1> USE DEF Unheard, session, face
<1>1. TypeInv /\ owner \in Senders /\ InSession(c) => pc[c] \in Listening
  BY DEF LoginInv, TypeInv, TypeOK, InSession, Listening
<1>2. CASE FprintSilent
  BY <1>2, SessionFrame DEF FprintSilent, Service!Retry, heard, EndInQueue
<1>3. ASSUME NEW done \in BOOLEAN, NEW found \in BOOLEAN, NEW id \in Ids,
             Service!Say(done, found, id), Broadcast(signal', owner)
      PROVE  /\ EndInQueue(c) => EndInQueue(c)'
             /\ done /\ owner = c /\ InSession(c) => EndInQueue(c)'
  <2>1. signal' \in Service!Signals /\ signal'.done = done
    BY <1>3 DEF Service!Say, Service!Signals, Ids
  <2>2. TypeInv /\ owner \in Senders
    BY DEF LoginInv, TypeInv, TypeOK
  <2>3. InSession(c) => pc[c] \in Listening
    BY DEF InSession, Listening
  <2>4. QED
    BY <1>3, <2>1, <2>2, <2>3, EndAfterBroadcast
<1>4. CASE FprintSignal
  <2> USE DEF FprintSignal
  <2>1. CASE Service!Prompt
    BY <1>3, <1>4, <2>1, SessionFrame DEF Service!Prompt, Ids
  <2>2. ASSUME NEW found \in BOOLEAN, NEW id \in Ids, Service!Report(found, id)
        PROVE  OwnSession(c)'
    BY <1>3, <1>4, <2>2, SessionFrame DEF Service!Report
  <2>3. CASE Service!Finish
    BY <1>3, <1>4, <2>3, SessionFrame DEF Service!Finish, Ids
  <2>4. QED
    BY <1>4, <2>1, <2>2, <2>3 DEF Ids
<1>5. CASE SessionEnds
  BY <1>5, SessionFrame
     DEF SessionEnds, Service!End, heard, EndInQueue, LoginInv, TypeInv, TypeOK
<1>6. CASE LastStore
  BY <1>6, SessionFrame
     DEF LastStore, ClearAction, Service!Withdraw, heard, EndInQueue
<1>7. CASE TakeFace
  BY <1>7, SessionFrame DEF TakeFace, heard, EndInQueue
<1>8. CASE FaceDiffers
  BY <1>3, <1>8, SessionFrame DEF FaceDiffers, Ids
<1>9. CASE FaceMatches
  <2>1. /\ EndInQueue(c) => EndInQueue(c)'
        /\ owner = c /\ InSession(c) => EndInQueue(c)'
    BY <1>3, <1>9 DEF FaceMatches, LoginInv, TypeInv, TypeOK
  <2>2. c \in ending' => running /\ owner = c
    BY <1>9, LoginAssumption DEF FaceMatches
  <2>3. QED
    BY <1>9, <2>1, <2>2, SessionFrame DEF FaceMatches
\* The match that ends the session was signalled to its client, or to another.
<1>10. CASE MatchEnds
  <2>1. UNCHANGED <<queue, running, owner, dones>> /\ c \notin ending'
    BY <1>10 DEF MatchEnds, ClearAction, Service!Withdraw, heard
  <2>2. InSession(c) /\ c \in ending => EndInQueue(c) \/ c \in disturbed
    BY DEF LoginInv, OwnSession, InSession
  <2>3. \/ withdrawn' = withdrawn /\ disturbed' = disturbed
        \/ withdrawn' /\ disturbed' = disturbed \cup (({owner} \cap Clients) \ ending)
    BY <1>10 DEF MatchEnds, ClearAction, Service!Withdraw
  <2>4. UNCHANGED <<pc, reply, inbox>> /\ EndInQueue(c)' = EndInQueue(c)
    BY <1>10, <2>1 DEF MatchEnds, EndInQueue
  <2>5. QED
    BY <2>1, <2>2, <2>3, <2>4, SessionFrame
<1>11. QED
  BY <1>2, <1>4, <1>5, <1>6, <1>7, <1>8, <1>9, <1>10 DEF SessionNext

\* A request that is refused, or a Stop that is answered, begins no session; a
\* Stop is taken from the queue only when there is nothing to withdraw.
LEMMA RefusedOwnSession ==
  ASSUME LoginInv, StartBusy \/ StartFails \/ StopNoAction \/ JoinReturns
  PROVE  RequestInv' /\ \A c \in Clients : OwnSession(c)'
<1> DEFINE r == Head(inbox)
<1>1. PICK a \in {"ok", "busy", "error"} :
        /\ Answer(a)
        /\ r.method = "Start" => a # "ok"
        /\ r.method = "Stop" => ~running \/ withdrawn
        /\ r.method \in {"Start", "Stop"}
        /\ inbox # << >> /\ ~joining'
        /\ UNCHANGED <<pc, service, disturbed, queue>>
  <2>1. CASE StartBusy
    BY <2>1 DEF StartBusy, Requested, heard
  <2>2. CASE StartFails
    BY <2>2 DEF StartFails, Requested, heard
  <2>3. CASE StopNoAction
    BY <2>3 DEF StopNoAction, Requested, heard
  <2>4. CASE JoinReturns
    <3>1. inbox # << >> /\ inbox[1].method = "Stop" /\ Head(inbox) = inbox[1]
      BY <2>4 DEF JoinReturns, LoginInv, TypeInv, RequestInv
    <3>2. QED
      BY <2>4, <3>1 DEF JoinReturns, heard
  <2>5. QED
    BY <2>1, <2>2, <2>3, <2>4
<1>2. /\ RequestInv' /\ Awaited(r)
      /\ r.method = "Start" /\ StopComing => StopComing'
  BY <1>1, AnswerRequests
<1>3. ASSUME NEW c \in Clients PROVE OwnSession(c)'
  <2>1. reply'[c] = IF c = r.from THEN a ELSE reply[c]
    BY <1>1 DEF Answer
  <2>2. InSession(c)' <=> InSession(c)
    BY <1>1, <1>2, <2>1 DEF InSession, Awaited
  <2>3. QED
    BY <1>1, <1>2, <2>2
       DEF LoginInv, OwnSession, EndInQueue, service, session, face
<1>4. QED
  BY <1>2, <1>3

LEMMA StartOwnSession ==
  ASSUME LoginInv, StartSession
  PROVE  RequestInv' /\ \A c \in Clients : OwnSession(c)'
<1> DEFINE r == Head(inbox)
<1>1. /\ RequestInv' /\ Awaited(r) /\ r \in Requests
      /\ r.method = "Start" /\ inbox # << >>
  BY AnswerRequests DEF StartSession, Requested
<1>2. \A c \in Clients : reply'[c] = IF c = r.from THEN "ok" ELSE reply[c]
  BY DEF StartSession, Answer
<1>3. /\ ~running /\ running' /\ ~withdrawn' /\ dones' = 0
      /\ owner' = r.from /\ UNCHANGED <<pc, disturbed, ending>>
  BY DEF StartSession, FaceSession, Service!Begin, face
<1>4. ASSUME NEW c \in Clients, EndInQueue(c) PROVE EndInQueue(c)'
  <2> DEFINE s == [done |-> FALSE, found |-> FALSE, id |-> NoId]
  <2>1. s \in Service!Signals /\ r.from \in Senders
    BY <1>1 DEF Service!Signals, Requests
  <2>2. CASE modality = "face"
    <3>1. Broadcast(s, r.from)
      BY <2>2 DEF StartSession
    <3>2. QED
      BY <1>4, <2>1, <3>1, EndAfterBroadcast DEF LoginInv
  <2>3. CASE modality # "face"
    BY <1>4, <2>3 DEF StartSession, heard, EndInQueue
  <2>4. QED
    BY <2>2, <2>3
<1>5. ASSUME NEW c \in Clients, c = r.from PROVE OwnSession(c)'
  <2>1. InSession(c)'
    BY <1>1, <1>2, <1>3, <1>5 DEF Awaited, InSession
  <2>2. c \notin ending
    BY <1>1, <1>5 DEF LoginInv, OwnSession, InSession, Awaited
  <2>3. QED
    BY <1>1, <1>3, <1>5, <2>1, <2>2 DEF OwnSession
<1>6. ASSUME NEW c \in Clients, c # r.from PROVE OwnSession(c)'
  BY <1>1, <1>2, <1>3, <1>4, <1>6 DEF LoginInv, OwnSession, InSession
<1>7. QED
  BY <1>1, <1>5, <1>6

\* Whoever stops the session of another client has disturbed it.
LEMMA StopOwnSession ==
  ASSUME LoginInv, StopSession
  PROVE  RequestInv' /\ \A c \in Clients : OwnSession(c)'
<1>1. /\ inbox # << >> /\ Head(inbox) = inbox[1] /\ inbox[1].method = "Stop"
      /\ UNCHANGED <<pc, reply, inbox, owner, queue>>
      /\ disturbed' = IF owner = inbox[1].from THEN disturbed
                        ELSE disturbed \cup ({owner} \cap Clients)
  BY DEF StopSession, Requested, heard
<1>2. 1 \in 1 .. Len(inbox)
  BY <1>1, InboxFacts, EmptySeq DEF LoginInv
<1>3. RequestInv'
  BY <1>1 DEF LoginInv, RequestInv, Awaited
<1>4. ASSUME NEW c \in Clients, owner = c, InSession(c) PROVE c \in disturbed'
  <2>1. owner # inbox[1].from
    BY <1>1, <1>2, <1>4 DEF LoginInv, RequestInv, Awaited, InSession, Waiting
  <2>2. QED
    BY <1>1, <1>4, <2>1
<1>5. ASSUME NEW c \in Clients PROVE OwnSession(c)'
  BY <1>1, <1>4, SessionFrame DEF StopSession, Service!Withdraw, EndInQueue, face
<1>6. QED
  BY <1>3, <1>5

\* A request of another program belongs to no client.
LEMMA OtherRequests ==
  ASSUME LoginInv, OtherRequest
  PROVE  RequestInv' /\ (StopComing => StopComing')
<1> DEFINE N == Len(inbox)
<1>1. PICK r \in Requests : r.from = NoClient /\ inbox' = Append(inbox, r)
  BY DEF OtherRequest, Requests, Senders, Ids
<1>2. inbox \in Seq(Requests) /\ N \in Nat
  BY InboxFacts DEF LoginInv
<1>3. /\ Len(inbox') = N + 1 /\ inbox'[N + 1] = r
      /\ \A n \in 1 .. N : inbox'[n] = inbox[n]
  BY <1>1, <1>2, AppendProperties
<1>4. /\ \A n \in 1 .. N + 1 : n \in 1 .. N \/ n = N + 1
      /\ \A n \in 1 .. N : n \in 1 .. N + 1
  BY <1>2
<1>5. UNCHANGED <<pc, reply, joining>>
  BY DEF OtherRequest
<1>6. joining => 1 \in 1 .. N
  BY <1>2, EmptySeq DEF LoginInv, TypeInv
<1>7. r.from \notin Clients
  BY <1>1, LoginAssumption
<1>8. RequestInv'
  BY <1>3, <1>4, <1>5, <1>6, <1>7 DEF LoginInv, RequestInv, Awaited
<1>9. QED
  BY <1>3, <1>4, <1>8 DEF StopComing

LEMMA LoginStep == LoginInv /\ [Next]_vars => LoginInv'
<1> SUFFICES ASSUME LoginInv, [Next]_vars
             PROVE  RequestInv' /\ \A c \in Clients : OwnSession(c)'
  BY TypeStep DEF LoginInv
<1>1. ASSUME NEW c \in Clients, ClientStep(c)
      PROVE  RequestInv' /\ \A d \in Clients : OwnSession(d)'
  BY <1>1, ClientRequests, ClientOwnSession, ClientOthersSession
\* Only a client whose Start was not answered yet, or who is not in a session,
\* can give up waiting.
<1>2. ASSUME NEW c \in Clients, ReplyTimeout(c)
      PROVE  RequestInv' /\ \A d \in Clients : OwnSession(d)'
  <2>1. RequestInv' /\ (StopComing => StopComing')
    BY <1>2, TimeoutRequests
  <2>2. ASSUME NEW d \in Clients PROVE InSession(d)' <=> InSession(d)
    BY <1>2 DEF ReplyTimeout, InSession, LoginInv, TypeInv, TypeOK
  <2>3. UNCHANGED <<pc, queue, disturbed, running, withdrawn, owner, dones,
                    ending>>
    BY <1>2 DEF ReplyTimeout, heard, service, session, face
  <2>4. QED
    BY <2>1, <2>2, <2>3 DEF LoginInv, OwnSession, EndInQueue
<1>3. CASE RequestNext
  BY <1>3, RefusedOwnSession, StartOwnSession, StopOwnSession DEF RequestNext
<1>4. CASE SessionNext
  <2>1. UNCHANGED <<pc, reply, inbox, joining>>
    BY <1>4 DEF SessionNext, FprintSilent, FprintSignal, SessionEnds, LastStore,
                TakeFace, FaceDiffers, FaceMatches, MatchEnds, Unheard
  <2>2. QED
    BY <1>4, <2>1, QuietRequests, SessionOwnSession
<1>5. CASE OtherRequest
  <2>1. RequestInv' /\ (StopComing => StopComing')
    BY <1>5, OtherRequests
  <2>2. UNCHANGED <<pc, reply, queue, disturbed, running, withdrawn, owner, dones,
                    ending>>
    BY <1>5 DEF OtherRequest, heard, session, face
  <2>3. QED
    BY <2>1, <2>2 DEF LoginInv, OwnSession, InSession, EndInQueue
<1>6. CASE OtherEnrolment
  BY <1>6 DEF OtherEnrolment, session, face, heard, LoginInv, RequestInv, Awaited,
              StopComing, OwnSession, InSession, EndInQueue
<1>7. CASE UNCHANGED vars
  BY <1>7 DEF vars, service, session, face, heard, LoginInv, RequestInv, Awaited,
              StopComing, OwnSession, InSession, EndInQueue
<1>8. QED
  BY <1>1, <1>2, <1>3, <1>4, <1>5, <1>6, <1>7 DEF Next

LEMMA LoginCorrect == Spec => []LoginInv
<1>1. Init => LoginInv
  <2> SUFFICES ASSUME Init PROVE RequestInv /\ \A c \in Clients : OwnSession(c)
    BY InitTypes DEF LoginInv
  <2>1. Len(inbox) = 0 /\ ~joining /\ ~running /\ ending = {}
    BY EmptySeq DEF Init
  <2>2. \A c \in Clients : ~InSession(c)
    BY DEF Init, InSession
  <2>3. RequestInv
    BY <2>1 DEF RequestInv
  <2>4. QED
    BY <2>1, <2>2, <2>3 DEF OwnSession
<1>2. QED
  BY <1>1, LoginStep, PTL DEF Spec

\* However many logins and other programs use the service, no login leaves its
\* session running behind it without a Stop for it on the way.
THEOREM NoSessionLeftCorrect == Spec => []NoSessionLeft
<1>1. LoginInv => NoSessionLeft
  BY InboxFacts
     DEF LoginInv, OwnSession, InSession, StopComing, NoSessionLeft
<1>2. QED
  BY <1>1, LoginCorrect, PTL

\* A client waits for its 120 seconds only if somebody else ended its session or
\* it skipped a signal of its own: otherwise it is told of the end.
THEOREM SilenceOnlyIfDisturbedCorrect == Spec => []SilenceOnlyIfDisturbed
<1>1. LoginInv => SilenceOnlyIfDisturbed
  BY EmptySeq
     DEF LoginInv, OwnSession, InSession, EndInQueue, SilenceOnlyIfDisturbed
<1>2. QED
  BY <1>1, LoginCorrect, PTL
==============================================================================
