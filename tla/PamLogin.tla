------------------------------ MODULE PamLogin ------------------------------
(***************************************************************************)
(* Logins through the PAM modules: pam-kiran-authmode records what the     *)
(* account demands, pam-kiran-fprintd or pam-kiran-face starts a           *)
(* verification and waits for signals.  The service broadcasts its signals *)
(* to every client and runs one request at a time; the next request waits  *)
(* while a Stop joins its session's thread.  Both PAM modules are the same *)
(* program but for verify_result and the service behind it; "modality"     *)
(* says which of the two the logins use.                                   *)
(*                                                                         *)
(* The fingerprint service is VerifySession, which FprintVerify            *)
(* implements.  The id of a template or of the images of a face is the     *)
(* client whose user they are of.  Any other programs may call the service *)
(* as well, at any time and in any order: their requests come from nobody. *)
(***************************************************************************)
EXTENDS Naturals, Sequences

CONSTANTS
  Clients,         \* one login each
  NoClient,        \* any other program, and the sender of a request that was
                   \* given up
  Stranger,        \* the id of somebody who is not logging in
  NoId,            \* an id of which nothing is stored, and that of most signals
  MAX_TRY_COUNT,   \* attempts of a fingerprint verification, and the bound on
                   \* the faces the camera finds in a face verification
  MAX_CALLS,       \* bound: calls of other programs
  MAX_SIGNALS      \* bound: a session sends no signal while so many wait for a
                   \* client, unless a Stop waits for the session

ASSUME LoginAssumption ==
  /\ NoClient \notin Clients /\ Stranger \notin Clients
  /\ NoId \notin Clients \cup {Stranger}
  /\ MAX_TRY_COUNT \in Nat \ {0}
  /\ MAX_CALLS \in Nat /\ MAX_SIGNALS \in Nat \ {0}

VARIABLES
  modality, demand,            \* which module; what each account demands
  informed,                    \* logins whose account properties were read
  auth,                        \* FINGER_MODE or FACE_MODE of the PAM data
  pc, should_handle, match, result, queue, reply,   \* of each client
  calls,                       \* calls of other programs so far
  inbox, joining,              \* requests to the service; whether the first of
                               \* them is a Stop that waits for the session
  running, withdrawn, trying, tries, dones, signal, \* the session
  owner, target,               \* who started it, and the id to compare with
  last_stores,                 \* earlier workers that have yet to clear the action
  do_verify,                   \* whether faces are compared
  comparing,                   \* the id a face is being compared with, if any
  ending,                      \* whose match the handling thread has signalled,
                               \* without having ended the session yet
  shown,                       \* matches signalled to each client
  disturbed                    \* clients whose verification somebody else ended

account == <<modality, demand, informed, auth>>
dialogue == <<should_handle, match, result>>
session == <<running, withdrawn, trying, tries, dones, signal>>
face    == <<do_verify, comparing, ending>>
service == <<calls, session, owner, target, last_stores, face>>
heard   == <<queue, shown>>
vars == <<account, pc, dialogue, heard, reply, inbox, joining, service,
          disturbed>>

Service == INSTANCE VerifySession WITH Matches <- Clients \cup {Stranger}

Waiting   == {"start", "cancel", "again", "stop"}
Listening == {"start", "cancel", "again", "loop"}
Places    == {"authmode", "begin", "ended"} \cup Waiting \cup Listening
Ids       == Clients \cup {Stranger, NoId}
Senders   == Clients \cup {NoClient}
Requests  == [method : {"Start", "Stop"}, from : Senders, id : Ids]
Heard     == [signal : Service!Signals, of : Senders]

TypeOK ==
  /\ modality \in {"fprint", "face"}
  /\ demand \in [Clients -> BOOLEAN]
  /\ informed \subseteq Clients
  /\ auth \in [Clients -> {"unset", "NOT_NEED_DATA", "NEED_DATA", "id"}]
  /\ pc \in [Clients -> Places]
  /\ should_handle \in [Clients -> BOOLEAN]
  /\ match \in [Clients -> BOOLEAN]
  /\ result \in [Clients -> {"none", "PAM_SUCCESS", "PAM_AUTH_ERR",
                             "PAM_AUTHINFO_UNAVAIL", "crashed"}]
  /\ queue \in [Clients -> Seq(Heard)]
  /\ reply \in [Clients -> {"none", "ok", "busy", "error"}]
  /\ inbox \in Seq(Requests)
  /\ joining \in BOOLEAN
  /\ calls \in 0 .. MAX_CALLS
  /\ running \in BOOLEAN /\ withdrawn \in BOOLEAN /\ trying \in BOOLEAN
  /\ tries \in 0 .. MAX_TRY_COUNT
  /\ dones \in Nat
  /\ signal \in Service!Signals
  /\ owner \in Senders
  /\ target \in Ids
  /\ last_stores \in Nat
  /\ do_verify \in BOOLEAN
  /\ comparing \subseteq Ids
  /\ ending \subseteq Senders
  /\ shown \in [Clients -> SUBSET Ids]
  /\ disturbed \subseteq Clients

Init ==
  /\ modality \in {"fprint", "face"}
  /\ demand \in [Clients -> BOOLEAN]
  /\ informed = {}
  /\ auth = [c \in Clients |-> "unset"]
  /\ pc = [c \in Clients |-> "authmode"]
  /\ should_handle = [c \in Clients |-> TRUE]
  /\ match = [c \in Clients |-> FALSE]
  /\ result = [c \in Clients |-> "none"]
  /\ queue = [c \in Clients |-> << >>]
  /\ reply = [c \in Clients |-> "none"]
  /\ inbox = << >> /\ joining = FALSE /\ calls = 0
  /\ Service!Init /\ ~running /\ ~withdrawn
  /\ owner = NoClient /\ target = NoId
  /\ last_stores = 0
  /\ do_verify = FALSE /\ comparing = {} /\ ending = {}
  /\ shown = [c \in Clients |-> {}]
  /\ disturbed = {}

------------------------------------------------------------------------------
(* A login: pam_sm_authenticate of pam-kiran-authmode *)

\* What do_authmode_set records.  A mode that is demanded but whose item has no
\* id, or cannot be read, is recorded as NEED_DATA.  When the accounts service
\* cannot be reached nothing is recorded; but when it goes away just before its
\* properties are read they read as 0, and no mode is demanded.
Recorded(c) ==
  IF c \in informed'
    THEN IF demand[c] THEN {"NEED_DATA", "id"} ELSE {"NOT_NEED_DATA"}
    ELSE {"unset", "NOT_NEED_DATA"}

ReadAuthModes(c) ==
  /\ pc[c] = "authmode"
  /\ informed' \in {informed, informed \cup {c}}
  /\ \E a \in Recorded(c) : auth' = [auth EXCEPT ![c] = a]
  /\ pc' = [pc EXCEPT ![c] = "begin"]
  /\ UNCHANGED <<modality, demand, dialogue, heard, reply, inbox, joining,
                 service, disturbed>>

(* pam_sm_authenticate of the other two *)

\* The program ends, or goes on to what is not modelled; its data are freed.
Return(c, r) ==
  /\ pc' = [pc EXCEPT ![c] = "ended"]
  /\ result' = [result EXCEPT ![c] = r]
  /\ reply' = [reply EXCEPT ![c] = "none"]
  /\ should_handle' = [should_handle EXCEPT ![c] = TRUE]
  /\ match' = [match EXCEPT ![c] = FALSE]
  /\ disturbed' = disturbed \ {c}

\* The reply to the call is awaited; signals are kept for later.
Call(c, method, place) ==
  /\ inbox' = Append(inbox, [method |-> method, from |-> c,
                             id |-> IF auth[c] = "id" THEN c ELSE NoId])
  /\ pc' = [pc EXCEPT ![c] = place]
  /\ reply' = [reply EXCEPT ![c] = "none"]

\* A remote host, no user name, no bus, or no dialogue for it.
Unavailable(c) ==
  /\ pc[c] = "begin"
  /\ Return(c, "PAM_AUTHINFO_UNAVAIL")
  /\ UNCHANGED <<account, heard, inbox, joining, service>>

NotNeeded(c) ==
  /\ pc[c] = "begin"
  /\ auth[c] = "NOT_NEED_DATA"
  /\ Return(c, "PAM_SUCCESS")
  /\ UNCHANGED <<account, heard, inbox, joining, service>>

\* Without PAM data the pointer to them is not initialised: using it may end
\* the program, or give an id of nobody.
BadPointer(c) ==
  /\ pc[c] = "begin"
  /\ auth[c] = "unset"
  /\ \/ Return(c, "crashed") /\ UNCHANGED auth
     \/ /\ auth' = [auth EXCEPT ![c] = "NEED_DATA"]
        /\ UNCHANGED <<pc, dialogue, reply, disturbed>>
  /\ UNCHANGED <<modality, demand, informed, heard, inbox, joining, service>>

\* do_verify: from now on signals are heard.
Connect(c) ==
  /\ pc[c] = "begin"
  /\ auth[c] \in {"NEED_DATA", "id"}
  /\ Call(c, "Start", "start")
  /\ UNCHANGED <<account, dialogue, heard, joining, service, disturbed>>

EnterLoop(c) ==
  /\ pc' = [pc EXCEPT ![c] = "loop"]
  /\ reply' = [reply EXCEPT ![c] = "none"]

Started(c) ==
  /\ pc[c] \in {"start", "again"}
  /\ reply[c] = "ok"
  /\ EnterLoop(c)
  /\ UNCHANGED <<account, dialogue, heard, inbox, joining, service, disturbed>>

\* Another verification has the device: it is stopped, and the signal that is
\* expected to say so is not to be handled.
CancelOther(c) ==
  /\ pc[c] = "start"
  /\ reply[c] = "busy"
  /\ should_handle' = [should_handle EXCEPT ![c] = FALSE]
  /\ Call(c, "Stop", "cancel")
  /\ UNCHANGED <<account, match, result, heard, joining, service, disturbed>>

\* After any other error, and whatever Stop answered, a second Start.
StartAgain(c) ==
  /\ \/ pc[c] = "start" /\ reply[c] = "error"
     \/ pc[c] = "cancel" /\ reply[c] # "none"
  /\ Call(c, "Start", "again")
  /\ UNCHANGED <<account, dialogue, heard, joining, service, disturbed>>

GiveUp(c) ==
  /\ pc[c] = "again"
  /\ reply[c] \in {"busy", "error"}
  /\ Return(c, "PAM_AUTH_ERR")
  /\ queue' = [queue EXCEPT ![c] = << >>]
  /\ UNCHANGED <<account, shown, inbox, joining, service>>

\* The bus answers in the place of a service that is silent for 25 seconds.
\* The request is still in the service's queue, with nobody waiting for it.
ReplyTimeout(c) ==
  /\ pc[c] \in Waiting /\ reply[c] = "none"
  /\ joining
  /\ reply' = [reply EXCEPT ![c] = "error"]
  /\ inbox' = [n \in DOMAIN inbox |->
                 IF inbox[n].from = c THEN [inbox[n] EXCEPT !.from = NoClient]
                                      ELSE inbox[n]]
  /\ UNCHANGED <<account, pc, dialogue, heard, joining, service, disturbed>>

\* The loop is left: Stop is called, whoever's session it may reach.
QuitLoop(c) ==
  /\ Call(c, "Stop", "stop")
  /\ queue' = [queue EXCEPT ![c] = << >>]

\* verify_result: what a signal says about the user who logs in.
Wanted(c) == IF auth[c] = "id" THEN c ELSE NoId

\* Mutant: any finger that is known will do.
Matched_AnyId(c, s) == s.found

Matched(c, s) ==
  IF modality = "fprint" THEN match[c] \/ (s.found /\ s.id = Wanted(c))
                         ELSE s.found

Take(c) == queue' = [queue EXCEPT ![c] = Tail(@)]

\* The signal that is not to be handled.
SkipSignal(c) ==
  /\ pc[c] = "loop" /\ queue[c] # << >>
  /\ ~should_handle[c]
  /\ should_handle' = [should_handle EXCEPT ![c] = TRUE]
  /\ Take(c)
  /\ disturbed' = IF Head(queue[c]).of = c THEN disturbed \cup {c} ELSE disturbed
  /\ UNCHANGED <<account, pc, match, result, shown, reply, inbox, joining,
                 service>>

\* Mutant: only a match ends the login.
HandleSignal_WaitsForMatch(c) ==
  /\ pc[c] = "loop" /\ queue[c] # << >>
  /\ should_handle[c]
  /\ LET s == Head(queue[c]).signal
     IN  /\ match' = [match EXCEPT ![c] = Matched(c, s)]
         /\ IF match'[c] THEN QuitLoop(c)
                         ELSE Take(c) /\ UNCHANGED <<pc, inbox, reply>>
  /\ UNCHANGED <<account, should_handle, result, shown, joining, service,
                 disturbed>>

HandleSignal(c) ==
  /\ pc[c] = "loop" /\ queue[c] # << >>
  /\ should_handle[c]
  /\ LET s == Head(queue[c]).signal
     IN  /\ match' = [match EXCEPT ![c] = Matched(c, s)]
         /\ IF s.done \/ (modality = "fprint" /\ match'[c])
              THEN QuitLoop(c)
              ELSE Take(c) /\ UNCHANGED <<pc, inbox, reply>>
  /\ UNCHANGED <<account, should_handle, result, shown, joining, service,
                 disturbed>>

\* Mutant: no time-out is attached to the loop.
LoopTimeout_Never(c) == FALSE /\ UNCHANGED vars

\* verify_timeout_cb, after 120 seconds.
LoopTimeout(c) ==
  /\ pc[c] = "loop"
  /\ QuitLoop(c)
  /\ UNCHANGED <<account, dialogue, shown, joining, service, disturbed>>

Verdict(c) ==
  /\ pc[c] = "stop" /\ reply[c] # "none"
  /\ Return(c, IF match[c] THEN "PAM_SUCCESS" ELSE "PAM_AUTH_ERR")
  /\ UNCHANGED <<account, heard, inbox, joining, service>>

ClientStep(c) ==
  \/ ReadAuthModes(c)
  \/ Unavailable(c) \/ NotNeeded(c) \/ BadPointer(c) \/ Connect(c)
  \/ Started(c) \/ CancelOther(c) \/ StartAgain(c) \/ GiveUp(c)
  \/ SkipSignal(c) \/ HandleSignal(c) \/ LoopTimeout(c) \/ Verdict(c)

------------------------------------------------------------------------------
(* The service: requests *)

\* A signal goes to every client that is connected.
Broadcast(s, of) ==
  /\ queue' = [c \in Clients |->
       IF pc[c] \in Listening THEN Append(queue[c], [signal |-> s, of |-> of])
                              ELSE queue[c]]
  /\ shown' = [c \in Clients |->
       IF pc[c] \in Listening /\ s.found THEN shown[c] \cup {s.id} ELSE shown[c]]

\* The first request is answered, if anybody still waits for that.
Answer(r) ==
  /\ inbox' = Tail(inbox)
  /\ reply' = [c \in Clients |-> IF c = Head(inbox).from THEN r ELSE reply[c]]

\* Another program calls the service, while anybody may notice.
OtherRequest ==
  /\ calls < MAX_CALLS
  /\ \E c \in Clients : pc[c] # "ended"
  /\ calls' = calls + 1
  /\ \E method \in {"Start", "Stop"}, id \in {NoId, Stranger} :
       /\ method = "Stop" => id = NoId
       /\ inbox' = Append(inbox, [method |-> method, from |-> NoClient, id |-> id])
  /\ UNCHANGED <<account, pc, dialogue, heard, reply, joining, session, owner,
                 target, last_stores, face, disturbed>>

\* The enrolment of another program is over, but its worker, or the thread that
\* handled its last face, has yet to clear the action.
OtherEnrolment ==
  /\ calls < MAX_CALLS
  /\ ~running
  /\ \E c \in Clients : pc[c] # "ended"
  /\ calls' = calls + 1
  /\ last_stores' = last_stores + 1
  /\ UNCHANGED <<account, pc, dialogue, heard, reply, inbox, joining, session,
                 owner, target, face, disturbed>>

Requested(method) == ~joining /\ inbox # << >> /\ Head(inbox).method = method

\* A verification is running, or an enrolment has the device.
StartBusy ==
  /\ Requested("Start")
  /\ Answer("busy")
  /\ UNCHANGED <<account, pc, dialogue, heard, joining, service, disturbed>>

\* The device cannot be opened.  (A face that is handled late may declare the
\* camera free while it is in use.)
StartFails ==
  /\ Requested("Start")
  /\ ~running \/ modality = "face"
  /\ Answer("error")
  /\ UNCHANGED <<account, pc, dialogue, heard, joining, service, disturbed>>

\* The thread that handles faces waits for one.
Idle == comparing = {} /\ ending = {}

\* Faces are compared before the id is replaced: one that is taken up meanwhile
\* is compared with the former id, or with what is left of it.
FaceSession ==
  /\ do_verify' = TRUE
  /\ comparing' \in {comparing} \cup IF Idle THEN {{target}, {NoId}} ELSE {}
  /\ UNCHANGED ending

\* The face service asks to look at the camera before anything else.
StartSession ==
  /\ Requested("Start")
  /\ Service!Begin
  /\ owner' = Head(inbox).from
  /\ target' = Head(inbox).id
  /\ IF modality = "face"
       THEN /\ FaceSession
            /\ Broadcast([done |-> FALSE, found |-> FALSE, id |-> NoId],
                         Head(inbox).from)
       ELSE UNCHANGED <<heard, face>>
  /\ Answer("ok")
  /\ UNCHANGED <<account, pc, dialogue, joining, calls, last_stores, disturbed>>

StopNoAction ==
  /\ Requested("Stop")
  /\ ~running \/ withdrawn
  /\ Answer("error")
  /\ UNCHANGED <<account, pc, dialogue, heard, joining, service, disturbed>>

\* Mutant: Stop is answered but withdraws nothing.
StopSession_NotWithdrawn ==
  /\ Requested("Stop")
  /\ running /\ ~withdrawn
  /\ Answer("ok")
  /\ UNCHANGED <<account, pc, dialogue, heard, joining, service, disturbed>>

\* The running verification is withdrawn, whoever started it.
StopSession ==
  /\ Requested("Stop")
  /\ Service!Withdraw
  /\ joining' = TRUE
  /\ disturbed' = IF owner = Head(inbox).from THEN disturbed
                                              ELSE disturbed \cup ({owner} \cap Clients)
  /\ UNCHANGED <<account, pc, dialogue, heard, reply, inbox, calls, owner,
                 target, last_stores, face>>

JoinReturns ==
  /\ joining
  /\ ~running
  /\ joining' = FALSE
  /\ Answer("ok")
  /\ UNCHANGED <<account, pc, dialogue, heard, service, disturbed>>

RequestNext ==
  \/ StartBusy \/ StartFails \/ StartSession
  \/ StopNoAction \/ StopSession \/ JoinReturns

------------------------------------------------------------------------------
(* The service: sessions *)

Room == joining \/ \A c \in Clients : Len(queue[c]) < MAX_SIGNALS

Unheard == UNCHANGED <<account, pc, dialogue, reply, inbox, joining, calls,
                       owner, target>>

\* Unless the thread of a session that ends is joined, its last store is still
\* to come.
StoreToCome(ends) ==
  last_stores' = IF ends /\ ~joining THEN last_stores + 1 ELSE last_stores

\* A fingerprint verification, as VerifySession has it.
FprintSilent ==
  /\ modality = "fprint"
  /\ Service!Retry
  /\ Unheard /\ UNCHANGED <<heard, last_stores, face, disturbed>>

FprintSignal ==
  /\ modality = "fprint"
  /\ Room
  /\ \/ Service!Prompt
     \/ Service!Report(FALSE, NoId)
     \/ \E id \in Clients \cup {Stranger} : Service!Report(TRUE, id)
     \/ Service!Finish
  /\ Broadcast(signal', owner)
  /\ StoreToCome(running /\ ~running')
  /\ Unheard /\ UNCHANGED <<face, disturbed>>

\* A session ends, and with it the comparing of faces.
SessionEnds ==
  /\ Service!End
  /\ StoreToCome(TRUE)
  /\ do_verify' = FALSE
  /\ Unheard /\ UNCHANGED <<heard, comparing, ending, disturbed>>

\* An action that is cleared now is that of the session that runs by then.
ClearAction(by) ==
  \/ /\ Service!Withdraw
     /\ disturbed' = disturbed \cup (({owner} \cap Clients) \ by)
  \/ /\ ~running \/ withdrawn
     /\ UNCHANGED <<session, disturbed>>

LastStore ==
  /\ last_stores > 0
  /\ last_stores' = last_stores - 1
  /\ ClearAction({})
  /\ Unheard /\ UNCHANGED <<heard, face>>

\* A face verification: the handling thread takes a face up.  The session may
\* be over, and another may run, by the time it has compared it.
TakeFace ==
  /\ modality = "face"
  /\ running /\ do_verify /\ Idle
  /\ tries < MAX_TRY_COUNT
  /\ tries' = tries + 1
  /\ comparing' = {target}
  /\ Unheard /\ UNCHANGED <<heard, running, withdrawn, trying, dones, signal,
                            last_stores, do_verify, ending, disturbed>>

FaceDiffers ==
  /\ comparing # {}
  /\ Room
  /\ comparing' = {}
  /\ Service!Say(FALSE, FALSE, NoId)
  /\ Broadcast(signal', owner)
  /\ Unheard /\ UNCHANGED <<running, withdrawn, trying, tries, dones,
                            last_stores, do_verify, ending, disturbed>>

\* The match is signalled first ...
FaceMatches ==
  /\ Room
  /\ \E id \in comparing \ {NoId} : Service!Say(TRUE, TRUE, id)
  /\ do_verify' = FALSE
  /\ comparing' = {}
  /\ ending' = {IF running THEN owner ELSE NoClient}
  /\ Broadcast(signal', owner)
  /\ Unheard /\ UNCHANGED <<running, withdrawn, trying, tries, dones,
                            last_stores, disturbed>>

\* ... and then ends the session that is running by then.
MatchEnds ==
  /\ ending # {}
  /\ ending' = {}
  /\ ClearAction(ending)
  /\ Unheard /\ UNCHANGED <<heard, last_stores, do_verify, comparing>>

SessionNext ==
  \/ FprintSilent \/ FprintSignal \/ SessionEnds \/ LastStore
  \/ TakeFace \/ FaceDiffers \/ FaceMatches \/ MatchEnds

------------------------------------------------------------------------------
Next ==
  \/ \E c \in Clients : ClientStep(c) \/ ReplyTimeout(c)
  \/ RequestNext
  \/ SessionNext
  \/ OtherRequest \/ OtherEnrolment

\* The service handles its requests, and its sessions go on: an attempt ends
\* with a finger, when it is halted, or by its time-out.  A client's program
\* runs, and its 120 seconds pass.
Spec ==
  /\ Init /\ [][Next]_vars
  /\ WF_vars(RequestNext)
  /\ WF_vars(SessionNext)
  /\ \A c \in Clients : WF_vars(ClientStep(c))

------------------------------------------------------------------------------
(* Properties *)

\* Nobody gets past a mode their account demands without a match, as long as
\* authmode could read what it demands: a login succeeds only if the mode is not
\* demanded, or was recorded so for want of the account's properties, or a match
\* was signalled while it listened - for a finger, a match of the recorded id.
NoModeSkipped ==
  \A c \in Clients : result[c] = "PAM_SUCCESS" =>
    \/ auth[c] = "NOT_NEED_DATA" /\ (c \in informed => ~demand[c])
    \/ IF modality = "fprint" THEN auth[c] = "id" /\ c \in shown[c]
                              ELSE shown[c] # {}

\* No login leaves a session running behind it: a session whose client is
\* through has been withdrawn, or a Stop for it is on its way.  (A Start whose
\* client gave up waiting begins a session of nobody.)
NoSessionLeft ==
  \A c \in Clients : (running /\ owner = c /\ pc[c] = "ended") =>
    withdrawn \/ \E n \in DOMAIN inbox : inbox[n].method = "Stop"

\* A client that has nothing to wait for but its 120 seconds - its own session
\* is over, and no signal is left - is one that was disturbed: somebody else
\* ended its session, or it skipped a signal of its own.
SilenceOnlyIfDisturbed ==
  \A c \in Clients :
    (pc[c] = "loop" /\ queue[c] = << >> /\ ~(running /\ owner = c))
      => c \in disturbed

\* Every login comes to an end, whatever other clients do to its session.
LoginEnds == \A c \in Clients : <>(pc[c] = "ended")
==============================================================================
