--------------------------- MODULE FaceStoreProofs ---------------------------
(***************************************************************************)
(* What holds of FaceStore for any persons, any number of images and of    *)
(* enrolments, and any queue length: the enrolments that clients were told *)
(* of are whole, and a match that is reported is genuine.                  *)
(***************************************************************************)
EXTENDS FaceStore, TLAPS

\* Appending to and taking from a sequence.
LEMMA AppendLemma ==
  ASSUME NEW S, NEW s \in Seq(S), NEW e \in S
  PROVE  /\ Append(s, e) \in Seq(S)
         /\ Len(Append(s, e)) = Len(s) + 1
         /\ DOMAIN Append(s, e) = 1 .. Len(s) + 1
         /\ \A k \in 1 .. Len(s) : Append(s, e)[k] = s[k]
         /\ Append(s, e)[Len(s) + 1] = e
  OBVIOUS

LEMMA TailLemma ==
  ASSUME NEW S, NEW s \in Seq(S), s # << >>
  PROVE  /\ Head(s) \in S
         /\ Tail(s) \in Seq(S)
         /\ Len(s) \in Nat /\ Len(s) > 0
         /\ Len(Tail(s)) = Len(s) - 1
  OBVIOUS

\* A sequence is empty exactly when its length is 0.
LEMMA EmptyLemma ==
  ASSUME NEW S, NEW s \in Seq(S)
  PROVE  Len(s) \in Nat /\ (s = << >> <=> Len(s) = 0) /\ DOMAIN s = 1 .. Len(s)
  OBVIOUS

------------------------------------------------------------------------------
(* Types *)

Whole(s) == \A k \in DOMAIN s : s[k] # Unreadable

Dirs   == Seq(Files) \cup {NULL}
Stores == [Ids -> Dirs]

\* An enrolment has at least one image, and fits in the list.
LEMMA SizeLemma ==
  ASSUME TypeOK, NEW i \in Ids
  PROVE  sizes[i] \in Nat /\ sizes[i] > 0 /\ sizes[i] <= MAX_IMAGES
  BY FaceStoreAssumption DEF TypeOK

LEMMA NullLemma == NULL \notin Seq(Files)
  BY FaceStoreAssumption DEF Files

LEMMA DirLemma ==
  ASSUME NEW d \in Dirs, d # NULL
  PROVE  d \in Seq(Files)
  BY DEF Dirs

\* A directory that was just made, and one with a file more.
LEMMA NewDirLemma ==
  /\ << >> \in Dirs /\ << >> # NULL /\ Len(<< >>) = 0 /\ Whole(<< >>)
  /\ \A d \in Seq(Files), v \in Files :
       Append(d, v) \in Dirs /\ Append(d, v) # NULL /\ Append(d, v) \in Seq(Files)
<1>1. << >> \in Seq(Files) /\ Len(<< >>) = 0 /\ Whole(<< >>)
  BY DEF Whole
<1>2. \A d \in Seq(Files), v \in Files : Append(d, v) \in Seq(Files)
  BY AppendLemma
<1>3. QED
  BY <1>1, <1>2, NullLemma DEF Dirs

------------------------------------------------------------------------------
(* The inductive invariant *)

\* What is written of an enrolment and what is still to be written are all of it;
\* a deletion may have taken the directory away while it was empty.
Saving ==
  IF store[md5] = NULL
    THEN Len(images) = sizes[md5]
    ELSE Len(store[md5]) + Len(images) = sizes[md5] /\ Whole(store[md5])

SavingIds == hpc \in {"mkdir", "write"} => md5 \in Ids /\ md5 \notin announced

\* Ids are given in order, and only the one that is being saved is written to.
StoreInv ==
  /\ \A i \in Ids : store[i] # NULL => Len(store[i]) <= sizes[i]
  /\ \A i \in Ids : i > md5 => store[i] = NULL
  /\ announced \subseteq 1 .. md5
  /\ SavingIds
  /\ hpc = "mkdir" => store[md5] = NULL /\ Len(images) = sizes[md5]
  /\ hpc = "write" => Saving
  /\ AnnouncedComplete

\* The file in hand and those to come are in the directory that was opened.
Searching(files) == path \in Ids /\ store[path] # NULL /\ files \subseteq DOMAIN store[path]

\* An answer that is waited for belongs to the file in hand: the request is
\* still under way, or its verdict is.
Exchange ==
  LET pair == <<face, store[path][file]>>
  IN  \/ requests = <<pair>> /\ replies = << >>
      \/ requests = << >> /\ replies = <<Verdict(pair)>>

SearchInv ==
  /\ hpc = "next" => left = {} \/ Searching(left)
  /\ hpc \in {"send", "recv"} => Searching(left \cup {file}) /\ store[path][file] \in Persons
  /\ hpc = "recv" => socket = "recv" /\ Exchange
  /\ socket = "send" => requests = << >> /\ replies = << >>
  /\ hpc = "matched" => path \in Ids /\ store[path] # NULL
  /\ MatchIsGenuine

IndInv == TypeOK /\ StoreInv /\ SearchInv

\* A step that writes nothing keeps StoreInv unless it begins a save.
LEMMA StoreFrame ==
  ASSUME StoreInv, UNCHANGED <<disk, saving>>,
         hpc' = hpc \/ hpc' \notin {"mkdir", "write"}
  PROVE  StoreInv'
  BY DEF StoreInv, SavingIds, Saving, Whole, AnnouncedComplete, disk, saving

\* A step that leaves the search, or does not touch it, keeps SearchInv.
LEMMA SearchEnds ==
  ASSUME SearchInv, UNCHANGED net,
         hpc' \in {"wait", "mkdir", "write", "test", "open", "join_enroll", "join_verify"}
  PROVE  SearchInv'
  BY DEF SearchInv, MatchIsGenuine, net

------------------------------------------------------------------------------
(* The steps that write *)

LEMMA TakeFaceStep == IndInv /\ TakeFace => IndInv'
<1> SUFFICES ASSUME IndInv, TakeFace PROVE IndInv'
  OBVIOUS
<1>1. SearchInv'
  BY SearchEnds DEF IndInv, TakeFace, Goto
<1>2. CASE hpc' = "test" /\ UNCHANGED saving
  <2>1. TypeOK'
    BY <1>2 DEF IndInv, TakeFace, TypeOK, disk, armed, search, net, saving, Goto, thread
  <2>2. StoreInv'
    BY <1>2, StoreFrame DEF IndInv, TakeFace
  <2>3. QED
    BY <1>1, <2>1, <2>2 DEF IndInv
<1>3. ASSUME md5 < MAX_ENROLLS, md5' = md5 + 1, hpc' = "mkdir",
             NEW n \in ENROLL_FACE_NUM .. MAX_IMAGES,
             images' \in [1 .. n -> Persons], sizes' = [sizes EXCEPT ![md5'] = n]
      PROVE  IndInv'
  <2>1. md5 \in Nat /\ md5' \in Ids /\ md5' \in 0 .. MAX_ENROLLS
    BY <1>3, FaceStoreAssumption DEF IndInv, TypeOK, Ids
  <2>2. images' \in Seq(Persons) /\ Len(images') = n
    <3>1. n \in Nat
      BY FaceStoreAssumption
    <3>2. QED
      BY <1>3, <3>1
  <2>3. /\ sizes' \in [Ids -> ENROLL_FACE_NUM .. MAX_IMAGES] /\ sizes'[md5'] = n
        /\ \A i \in Ids : i # md5' => sizes'[i] = sizes[i]
    BY <1>3, <2>1 DEF IndInv, TypeOK
  <2>4. UNCHANGED <<store, announced, joins, armed, search, net>> /\ face' \in Persons
    BY DEF TakeFace, disk, Goto
  <2>5. TypeOK'
    BY <1>3, <2>1, <2>2, <2>3, <2>4 DEF IndInv, TypeOK, armed, search, net
  <2>6. store[md5'] = NULL /\ md5' \notin announced /\ announced \subseteq 1 .. md5
    BY <1>3, <2>1 DEF IndInv, StoreInv
  <2>7. \A i \in Ids : i > md5' => store[i] = NULL
    BY <1>3, <2>1 DEF IndInv, StoreInv, Ids
  <2>8. \A i \in Ids : store[i] # NULL => i # md5' /\ Len(store[i]) <= sizes[i]
    BY <2>6 DEF IndInv, StoreInv
  <2>9. AnnouncedComplete'
    <3>1. announced \subseteq Ids
      BY DEF IndInv, TypeOK
    <3>2. QED
      BY <2>3, <2>4, <2>6, <3>1 DEF IndInv, StoreInv, AnnouncedComplete
  <2>10. announced' \subseteq 1 .. md5'
    BY <1>3, <2>1, <2>4, <2>6
  <2>11. StoreInv'
    BY <1>3, <2>1, <2>2, <2>3, <2>4, <2>6, <2>7, <2>8, <2>9, <2>10 DEF StoreInv, SavingIds
  <2>12. QED
    BY <1>1, <2>5, <2>11 DEF IndInv
<1>4. QED
  BY <1>2, <1>3 DEF TakeFace, Goto

LEMMA MakeDirStep == IndInv /\ MakeDir => IndInv'
<1> SUFFICES ASSUME IndInv, MakeDir PROVE IndInv'
  OBVIOUS
<1>1. SearchInv'
  BY SearchEnds DEF IndInv, MakeDir, Goto
<1>2. /\ hpc = "mkdir" /\ hpc' = "write"
      /\ UNCHANGED <<joins, announced, armed, face, images, md5, sizes, search, net>>
      /\ md5 \in Ids /\ md5 \notin announced /\ store[md5] = NULL
      /\ Len(images) = sizes[md5] /\ store \in Stores
  BY DEF MakeDir, Goto, saving, IndInv, StoreInv, SavingIds, TypeOK, Stores, Dirs
<1>3. CASE UNCHANGED store
  <2>1. TypeOK'
    BY <1>2, <1>3 DEF IndInv, TypeOK, armed, saving, search, net, thread
  <2>2. StoreInv'
    BY <1>2, <1>3 DEF IndInv, StoreInv, SavingIds, Saving, AnnouncedComplete, saving
  <2>3. QED
    BY <1>1, <2>1, <2>2 DEF IndInv
<1>4. CASE store' = [store EXCEPT ![md5] = << >>]
  <2>1. << >> \in Dirs /\ << >> # NULL /\ Len(<< >>) = 0 /\ Whole(<< >>)
    BY NewDirLemma
  <2>2. /\ store' \in Stores /\ store'[md5] = << >>
        /\ \A j \in Ids : j # md5 => store'[j] = store[j]
    BY <1>2, <1>4, <2>1 DEF Stores
  <2>3. TypeOK'
    BY <1>2, <2>2 DEF IndInv, TypeOK, armed, saving, search, net, Stores, Dirs, thread
  <2>4. Saving'
    <3>1. sizes[md5] \in Nat
      BY <1>2, SizeLemma DEF IndInv
    <3>2. QED
      BY <1>2, <2>1, <2>2, <3>1 DEF Saving
  <2>5. UNCHANGED <<md5, images, sizes, announced>>
    BY <1>2
  <2>6. \A i \in Ids : store'[i] # NULL => Len(store'[i]) <= sizes'[i]
    <3>1. sizes[md5] \in Nat
      BY <1>2, SizeLemma DEF IndInv
    <3>2. QED
      BY <2>1, <2>2, <2>5, <3>1 DEF IndInv, StoreInv
  <2>7. \A i \in Ids : i > md5' => store'[i] = NULL
    BY <1>2, <2>2, <2>5 DEF IndInv, StoreInv, Ids
  <2>8. AnnouncedComplete'
    BY <1>2, <2>2, <2>5 DEF IndInv, StoreInv, AnnouncedComplete, TypeOK
  <2>9. StoreInv'
    BY <1>2, <2>4, <2>5, <2>6, <2>7, <2>8 DEF StoreInv, IndInv, SavingIds
  <2>10. QED
    BY <1>1, <2>3, <2>9 DEF IndInv
<1>5. QED
  BY <1>2, <1>3, <1>4 DEF MakeDir

\* What one more file in the directory of the enrolment that is saved does.
LEMMA PutLemma ==
  ASSUME IndInv, hpc = "write", images # << >>, store[md5] # NULL,
         NEW v \in Files, Put(md5, v)
  PROVE  /\ store' \in Stores /\ store'[md5] # NULL
         /\ Len(store'[md5]) = Len(store[md5]) + 1
         /\ Len(store'[md5]) + Len(images) = sizes[md5] + 1
         /\ Len(store'[md5]) <= sizes[md5]
         /\ v # Unreadable => Whole(store'[md5])
         /\ \A j \in Ids : j # md5 => store'[j] = store[j]
<1>1. md5 \in Ids /\ store \in Stores /\ store[md5] \in Seq(Files) /\ images \in Seq(Persons)
  BY DEF IndInv, TypeOK, StoreInv, SavingIds, Stores, Dirs
<1>2. Append(store[md5], v) \in Dirs /\ Append(store[md5], v) # NULL
  BY <1>1, NewDirLemma
<1>3. store' = [store EXCEPT ![md5] = Append(store[md5], v)]
  BY DEF Put
<1>4. /\ store' \in Stores /\ store'[md5] = Append(store[md5], v)
      /\ \A j \in Ids : j # md5 => store'[j] = store[j]
  BY <1>1, <1>2, <1>3 DEF Stores
<1>5. /\ Len(store[md5]) + Len(images) = sizes[md5] /\ Whole(store[md5])
  BY DEF IndInv, StoreInv, Saving
<1>6. Len(images) \in Nat /\ Len(images) > 0 /\ Len(store[md5]) \in Nat
  BY <1>1, TailLemma, EmptyLemma
<1>7. Len(Append(store[md5], v)) = Len(store[md5]) + 1
  BY <1>1, AppendLemma
<1>8. v # Unreadable => Whole(store'[md5])
  <2> SUFFICES ASSUME v # Unreadable, NEW k \in DOMAIN store'[md5]
               PROVE  store'[md5][k] # Unreadable
    BY DEF Whole
  <2>1. /\ DOMAIN store'[md5] = 1 .. Len(store[md5]) + 1
        /\ \A n \in 1 .. Len(store[md5]) : store'[md5][n] = store[md5][n]
        /\ store'[md5][Len(store[md5]) + 1] = v
    BY <1>1, <1>4, AppendLemma
  <2>2. CASE k \in 1 .. Len(store[md5])
    BY <1>1, <1>5, <2>1, <2>2, EmptyLemma DEF Whole
  <2>3. CASE k = Len(store[md5]) + 1
    BY <2>1, <2>3
  <2>4. QED
    BY <1>6, <2>1, <2>2, <2>3
<1>9. sizes[md5] \in Nat
  BY <1>1, SizeLemma DEF IndInv
<1>10. QED
  BY <1>2, <1>4, <1>5, <1>6, <1>7, <1>8, <1>9

\* A step of a save that writes to its own directory only.
LEMMA OthersKept ==
  ASSUME IndInv, hpc = "write", UNCHANGED <<announced, md5, sizes>>,
         \A j \in Ids : j # md5 => store'[j] = store[j],
         store'[md5] # NULL => Len(store'[md5]) <= sizes[md5]
  PROVE  /\ \A i \in Ids : store'[i] # NULL => Len(store'[i]) <= sizes'[i]
         /\ \A i \in Ids : i > md5' => store'[i] = NULL
         /\ announced' \subseteq 1 .. md5'
         /\ SavingIds /\ md5 \notin announced
         /\ AnnouncedComplete'
<1>1. md5 \in Ids /\ md5 \notin announced /\ announced \subseteq Ids
  BY DEF IndInv, TypeOK, StoreInv, SavingIds
<1>2. \A i \in Ids : i > md5' => store'[i] = NULL
  BY <1>1 DEF IndInv, StoreInv, Ids
<1>3. AnnouncedComplete'
  <2>1. \A i \in announced : store'[i] = store[i] /\ sizes'[i] = sizes[i]
    BY <1>1
  <2>2. QED
    BY <2>1 DEF IndInv, StoreInv, AnnouncedComplete
<1>4. \A i \in Ids : store'[i] # NULL => Len(store'[i]) <= sizes'[i]
  BY <1>1 DEF IndInv, StoreInv
<1>5. QED
  BY <1>1, <1>2, <1>3, <1>4 DEF IndInv, StoreInv

LEMMA WriteImageStep == IndInv /\ WriteImage => IndInv'
<1> SUFFICES ASSUME IndInv, WriteImage PROVE IndInv'
  OBVIOUS
<1>1. /\ hpc = "write" /\ hpc' = "write" /\ images # << >> /\ store[md5] # NULL
      /\ images' = Tail(images)
      /\ UNCHANGED <<joins, announced, armed, face, md5, sizes, search, net>>
      /\ Put(md5, Head(images)) /\ images \in Seq(Persons)
  BY DEF WriteImage, thread, IndInv, TypeOK
<1>2. /\ Head(images) \in Persons /\ Head(images) \in Files /\ Head(images) # Unreadable
      /\ images' \in Seq(Persons) /\ Len(images') = Len(images) - 1 /\ Len(images) \in Nat
  BY <1>1, TailLemma, FaceStoreAssumption DEF Files
<1>3. /\ store' \in Stores /\ store'[md5] # NULL /\ Whole(store'[md5])
      /\ Len(store'[md5]) + Len(images) = sizes[md5] + 1
      /\ Len(store'[md5]) <= sizes[md5]
      /\ \A j \in Ids : j # md5 => store'[j] = store[j]
      /\ Len(store'[md5]) = Len(store[md5]) + 1
  BY <1>1, <1>2, PutLemma
<1>4. Len(store'[md5]) \in Nat
  <2>1. store'[md5] \in Dirs
    BY <1>1, <1>3 DEF IndInv, StoreInv, SavingIds, Stores
  <2>2. QED
    BY <1>3, <2>1, DirLemma, EmptyLemma
<1>5. Saving'
  <2>1. sizes[md5] \in Nat
    BY <1>1, SizeLemma DEF IndInv, StoreInv, SavingIds
  <2>2. QED
    BY <1>1, <1>2, <1>3, <1>4, <2>1 DEF Saving
<1>6. TypeOK'
  BY <1>1, <1>2, <1>3 DEF IndInv, TypeOK, armed, search, net, Stores, Dirs, thread, saving
<1>7. StoreInv'
  BY <1>1, <1>3, <1>5, OthersKept DEF StoreInv, SavingIds
<1>8. SearchInv'
  BY <1>1, SearchEnds DEF IndInv
<1>9. QED
  BY <1>6, <1>7, <1>8 DEF IndInv

\* The image that could not be written may be there in part.
Partly == UNCHANGED store \/ (hpc = "write" /\ images # << >> /\ store[md5] # NULL /\ Put(md5, Unreadable))

\* ... which leaves the store in order once nothing is being saved any more.
LEMMA PartlyLemma ==
  ASSUME IndInv, Partly, UNCHANGED <<announced, md5, sizes>>, hpc' \notin {"mkdir", "write"}
  PROVE  store' \in Stores /\ StoreInv'
<1>1. CASE UNCHANGED store
  <2>1. store' \in Stores
    BY <1>1 DEF IndInv, TypeOK, Stores, Dirs
  <2>2. StoreInv'
    BY <1>1 DEF IndInv, StoreInv, SavingIds, AnnouncedComplete
  <2>3. QED
    BY <2>1, <2>2
<1>2. CASE hpc = "write" /\ images # << >> /\ store[md5] # NULL /\ Put(md5, Unreadable)
  <2>1. Unreadable \in Files
    BY DEF Files
  <2>2. /\ store' \in Stores /\ Len(store'[md5]) <= sizes[md5]
        /\ \A j \in Ids : j # md5 => store'[j] = store[j]
    BY <1>2, <2>1, PutLemma
  <2>3. StoreInv'
    BY <1>2, <2>2, OthersKept DEF StoreInv, SavingIds
  <2>4. QED
    BY <2>2, <2>3
<1>3. QED
  BY <1>1, <1>2 DEF Partly

LEMMA WriteFailsStep == IndInv /\ WriteFails => IndInv'
<1> SUFFICES ASSUME IndInv, WriteFails PROVE IndInv'
  OBVIOUS
<1>1. /\ hpc' = "test" /\ images' = << >> /\ Partly
      /\ UNCHANGED <<joins, announced, armed, face, md5, sizes, search, net>>
  BY DEF WriteFails, Partly, Goto
<1>2. store' \in Stores /\ StoreInv'
  BY <1>1, PartlyLemma
<1>3. << >> \in Seq(Persons)
  OBVIOUS
<1>4. TypeOK'
  BY <1>1, <1>2, <1>3 DEF IndInv, TypeOK, armed, search, net, Stores, Dirs, thread, saving
<1>5. SearchInv'
  BY <1>1, SearchEnds DEF IndInv
<1>6. QED
  BY <1>2, <1>4, <1>5 DEF IndInv

LEMMA RestartStep == IndInv /\ Restart => IndInv'
<1> SUFFICES ASSUME IndInv, Restart PROVE IndInv'
  OBVIOUS
<1>1. /\ hpc' = "wait" /\ joins' = "none" /\ images' = << >> /\ Partly
      /\ UNCHANGED <<announced, face, md5, sizes>>
  BY DEF Restart, Partly
<1>2. store' \in Stores /\ StoreInv'
  BY <1>1, PartlyLemma
<1>3. << >> \in Seq(Persons) /\ << >> \in Seq(Persons \X Persons) /\ << >> \in Seq(Verdicts)
  OBVIOUS
<1>4. TypeOK'
  <2>1. /\ store' \in [Ids -> Seq(Files) \cup {NULL}] /\ announced' \subseteq Ids
        /\ face' \in Persons /\ images' \in Seq(Persons) /\ md5' \in 0 .. MAX_ENROLLS
        /\ sizes' \in [Ids -> ENROLL_FACE_NUM .. MAX_IMAGES]
    BY <1>1, <1>2, <1>3 DEF IndInv, TypeOK, Stores, Dirs
  <2>2. /\ do_verify' = FALSE /\ id' = NoId /\ id_freed' = FALSE
        /\ path' = NoId /\ left' = {} /\ file' = 1
        /\ socket' = "send" /\ requests' = << >> /\ replies' = << >>
    BY DEF Restart, CloseDir
  <2>3. 1 \in 1 .. MAX_IMAGES
    BY FaceStoreAssumption
  <2>4. QED
    BY <1>1, <1>3, <2>1, <2>2, <2>3 DEF TypeOK
<1>5. SearchInv'
  BY <1>1 DEF Restart, SearchInv, MatchIsGenuine
<1>6. QED
  BY <1>2, <1>4, <1>5 DEF IndInv

LEMMA AnnounceStep == IndInv /\ Announce => IndInv'
<1> SUFFICES ASSUME IndInv, Announce PROVE IndInv'
  OBVIOUS
<1>1. /\ hpc = "write" /\ hpc' = "join_enroll" /\ joins' \in {"ending", "next"}
      /\ images = << >> /\ announced' = announced \cup {md5}
      /\ UNCHANGED <<store, armed, face, images, md5, sizes, search, net>>
  BY DEF Announce, EmitSuccess, saving
<1>2. md5 \in Ids /\ md5 \in 1 .. md5 /\ md5 \in Nat
  BY <1>1 DEF IndInv, StoreInv, SavingIds, Ids
<1>3. store[md5] # NULL /\ Len(store[md5]) = sizes[md5] /\ Whole(store[md5])
  <2>1. Len(images) = 0
    BY <1>1, EmptyLemma DEF IndInv, TypeOK
  <2>2. store[md5] # NULL
    <3>1. sizes[md5] \in Nat /\ sizes[md5] > 0
      BY <1>2, SizeLemma DEF IndInv
    <3>2. QED
      BY <1>1, <2>1, <3>1 DEF IndInv, StoreInv, Saving
  <2>3. Len(store[md5]) \in Nat
    BY <1>2, <2>2, EmptyLemma, DirLemma DEF IndInv, TypeOK, Dirs
  <2>4. sizes[md5] \in Nat
    BY <1>2, SizeLemma DEF IndInv
  <2>5. QED
    BY <1>1, <2>1, <2>2, <2>3, <2>4 DEF IndInv, StoreInv, Saving
<1>4. AnnouncedComplete'
  BY <1>1, <1>3 DEF IndInv, StoreInv, AnnouncedComplete, Whole
<1>5. StoreInv'
  BY <1>1, <1>2, <1>4 DEF IndInv, StoreInv, SavingIds, saving
<1>6. TypeOK'
  BY <1>1, <1>2 DEF IndInv, TypeOK, armed, saving, search, net, thread
<1>7. SearchInv'
  BY <1>1, SearchEnds DEF IndInv
<1>8. QED
  BY <1>5, <1>6, <1>7 DEF IndInv

\* A deletion touches no directory with files in it.
LEMMA DeleteStep == \A i \in Ids : IndInv /\ Delete(i) => IndInv'
<1> SUFFICES ASSUME NEW i \in Ids, IndInv, Delete(i) PROVE IndInv'
  OBVIOUS
<1>1. /\ UNCHANGED <<announced, armed, thread, face, saving, search, net>>
      /\ UNCHANGED <<hpc, joins, images, md5, sizes>>
      /\ store' = [store EXCEPT ![i] = IF store[i] = << >> THEN NULL ELSE store[i]]
      /\ store \in Stores
  BY DEF Delete, thread, saving, IndInv, TypeOK, Stores, Dirs
<1>2. NULL \in Dirs
  BY DEF Dirs
<1>3. /\ store' \in Stores
      /\ \A j \in Ids : store'[j] = store[j] \/ (store[j] = << >> /\ store'[j] = NULL)
  <2> DEFINE d == IF store[i] = << >> THEN NULL ELSE store[i]
  <2>1. store \in Stores /\ store' = [store EXCEPT ![i] = d]
    BY <1>1
  <2>2. d \in Dirs /\ (d = store[i] \/ (store[i] = << >> /\ d = NULL))
    BY <1>2, <2>1 DEF Stores
  <2> HIDE DEF d
  <2>3. store' \in Stores
    BY <2>1, <2>2 DEF Stores
  <2>4. \A j \in Ids : store'[j] = IF j = i THEN d ELSE store[j]
    BY <2>1 DEF Stores
  <2>5. QED
    BY <2>2, <2>3, <2>4
<1>4. \A j \in Ids : store[j] # NULL /\ DOMAIN store[j] # {} => store'[j] = store[j]
  <2>1. DOMAIN << >> = {}
    OBVIOUS
  <2>2. QED
    BY <1>3, <2>1
<1>5. TypeOK'
  BY <1>1, <1>3 DEF IndInv, TypeOK, armed, saving, search, net, Stores, Dirs, thread
<1>6. SavingIds' /\ announced' \subseteq 1 .. md5'
  BY <1>1 DEF IndInv, StoreInv, SavingIds, saving
<1>7. \A j \in Ids : store'[j] # NULL => store'[j] = store[j] /\ store[j] # NULL
  BY <1>3, NewDirLemma
<1>8. AnnouncedComplete'
  <2>1. ASSUME NEW j \in announced PROVE store'[j] = store[j] /\ j \in Ids
    <3>1. j \in Ids /\ Len(store[j]) = sizes[j]
      BY <2>1 DEF IndInv, TypeOK, StoreInv, AnnouncedComplete
    <3>2. store[j] # << >>
      <4>1. sizes[j] \in Nat /\ sizes[j] > 0
        BY <3>1, SizeLemma DEF IndInv
      <4>2. QED
        BY <3>1, <4>1, NewDirLemma
    <3>3. QED
      BY <1>3, <3>1, <3>2
  <2>2. AnnouncedComplete /\ UNCHANGED <<announced, sizes>>
    BY <1>1 DEF IndInv, StoreInv, saving
  <2>3. QED
    BY <2>1, <2>2 DEF AnnouncedComplete
<1>9. ASSUME hpc = "write" PROVE Saving'
  <2>1. md5 \in Ids /\ UNCHANGED <<md5, images, sizes>>
    BY <1>1, <1>9 DEF IndInv, StoreInv, SavingIds, saving
  <2>2. CASE store'[md5] = store[md5]
    BY <1>9, <2>1, <2>2 DEF IndInv, StoreInv, Saving
  <2>3. CASE store[md5] = << >> /\ store'[md5] = NULL
    <3>1. Len(images) = sizes[md5]
      <4>1. Len(images) \in Nat
        BY EmptyLemma DEF IndInv, TypeOK
      <4>2. Len(store[md5]) + Len(images) = sizes[md5] /\ Len(store[md5]) = 0
        BY <1>9, <2>3, NewDirLemma DEF IndInv, StoreInv, Saving
      <4>3. sizes[md5] \in Nat
        BY <2>1, SizeLemma DEF IndInv
      <4>4. QED
        BY <4>1, <4>2, <4>3
    <3>2. QED
      BY <2>1, <2>3, <3>1 DEF Saving
  <2>4. QED
    BY <1>3, <2>1, <2>2, <2>3
<1>10. /\ \A j \in Ids : store'[j] # NULL => Len(store'[j]) <= sizes'[j]
       /\ \A j \in Ids : j > md5' => store'[j] = NULL
  BY <1>1, <1>7 DEF IndInv, StoreInv, saving
<1>11. hpc = "mkdir" => store'[md5] = NULL
  BY <1>3 DEF IndInv, StoreInv, SavingIds
<1>12. StoreInv'
  BY <1>1, <1>6, <1>8, <1>9, <1>10, <1>11 DEF IndInv, StoreInv, saving
<1>13. SearchInv'
  <2>1. UNCHANGED <<hpc, face, path, left, file, socket, requests, replies>>
    BY <1>1 DEF search, net
  <2>2. CASE /\ path \in Ids /\ store[path] # NULL /\ DOMAIN store[path] # {}
    <3>1. store'[path] = store[path]
      BY <1>4, <2>2
    <3>2. QED
      BY <2>1, <3>1 DEF IndInv, SearchInv, Searching, Exchange, MatchIsGenuine
  <2>3. CASE ~(path \in Ids /\ store[path] # NULL /\ DOMAIN store[path] # {})
    BY <2>1, <2>3 DEF IndInv, SearchInv, Searching, MatchIsGenuine
  <2>4. QED
    BY <2>2, <2>3
<1>14. QED
  BY <1>5, <1>12, <1>13 DEF IndInv

------------------------------------------------------------------------------
(* The verification *)

\* The steps that only move the handling thread to or from the wait.
LEMMA MoveStep ==
  ASSUME IndInv, UNCHANGED <<disk, face, saving, net>>,
         hpc' \in {"wait", "test", "open", "join_verify"},
         joins' \in {"none", "ending", "next"},
         path' \in Ids \cup {NoId}, left' \subseteq 1 .. MAX_IMAGES,
         file' \in 1 .. MAX_IMAGES,
         do_verify' \in BOOLEAN, id' \in Ids \cup {NoId}, id_freed' \in BOOLEAN
  PROVE  IndInv'
<1>1. TypeOK'
  BY DEF IndInv, TypeOK, disk, saving, net, thread
<1>2. StoreInv'
  BY StoreFrame DEF IndInv
<1>3. SearchInv'
  BY SearchEnds DEF IndInv
<1>4. QED
  BY <1>1, <1>2, <1>3 DEF IndInv

\* The main loop and the capture thread set flag and id at any time.
LEMMA ArmedStep ==
  ASSUME IndInv, UNCHANGED <<disk, hpc, face, saving, search, net>>,
         joins' \in {"none", "ending", "next"}, do_verify' \in BOOLEAN, id' \in Ids \cup {NoId}, id_freed' \in BOOLEAN
  PROVE  IndInv'
<1>1. TypeOK'
  BY DEF IndInv, TypeOK, disk, saving, net, search, thread
<1>2. StoreInv'
  BY StoreFrame DEF IndInv
<1>3. SearchInv'
  BY DEF IndInv, SearchInv, MatchIsGenuine, disk, net, search, Searching, Exchange
<1>4. QED
  BY <1>1, <1>2, <1>3 DEF IndInv

LEMMA ArmedSteps ==
  IndInv /\ (BeginVerify \/ ReplaceId \/ EndVerify \/ NextSessionEnds) => IndInv'
<1> SUFFICES ASSUME IndInv
             PROVE  BeginVerify \/ ReplaceId \/ EndVerify \/ NextSessionEnds => IndInv'
  OBVIOUS
<1>1. /\ joins \in {"none", "ending", "next"}
      /\ do_verify \in BOOLEAN /\ id \in Ids \cup {NoId} /\ id_freed \in BOOLEAN
  BY DEF IndInv, TypeOK
<1>2. BeginVerify => IndInv'
  BY <1>1, ArmedStep DEF BeginVerify, thread
<1>3. ReplaceId => IndInv'
  BY <1>1, ArmedStep DEF ReplaceId, thread
<1>4. EndVerify => IndInv'
  BY <1>1, ArmedStep DEF EndVerify, thread
<1>5. NextSessionEnds => IndInv'
  BY <1>1, ArmedStep DEF NextSessionEnds, armed
<1>6. QED
  BY <1>2, <1>3, <1>4, <1>5

LEMMA MoveSteps ==
  IndInv /\ (TestVerify \/ FaceDiffers \/ FaceMatches \/ CallbackJoin) => IndInv'
<1> SUFFICES ASSUME IndInv
             PROVE  TestVerify \/ FaceDiffers \/ FaceMatches \/ CallbackJoin => IndInv'
  OBVIOUS
<1>1. /\ path \in Ids \cup {NoId} /\ left \subseteq 1 .. MAX_IMAGES
      /\ file \in 1 .. MAX_IMAGES /\ 1 \in 1 .. MAX_IMAGES
      /\ do_verify \in BOOLEAN /\ id \in Ids \cup {NoId} /\ id_freed \in BOOLEAN
      /\ joins \in {"none", "ending", "next"}
  BY FaceStoreAssumption DEF IndInv, TypeOK
<1>2. TestVerify => IndInv'
  BY <1>1, MoveStep DEF TestVerify, Goto, armed, search
<1>3. FaceDiffers => IndInv'
  BY <1>1, MoveStep DEF FaceDiffers, Goto, CloseDir, armed
<1>4. FaceMatches => IndInv'
  BY <1>1, MoveStep DEF FaceMatches, EmitSuccess, CloseDir
<1>5. CallbackJoin => IndInv'
  BY <1>1, MoveStep DEF CallbackJoin, armed, search
<1>6. QED
  BY <1>2, <1>3, <1>4, <1>5

\* The numbers of the files of a directory.
LEMMA FilesLemma ==
  ASSUME IndInv, NEW i \in Ids, store[i] # NULL
  PROVE  /\ DOMAIN store[i] \subseteq 1 .. MAX_IMAGES
         /\ \A f \in DOMAIN store[i] : store[i][f] \in Files
<1>1. store[i] \in Seq(Files)
  BY DirLemma DEF IndInv, TypeOK, Dirs
<1>2. Len(store[i]) \in Nat /\ Len(store[i]) <= sizes[i] /\ DOMAIN store[i] = 1 .. Len(store[i])
  BY <1>1, EmptyLemma DEF IndInv, StoreInv
<1>3. \A f \in 1 .. Len(store[i]) : store[i][f] \in Files
  BY <1>1
<1>4. sizes[i] \in Nat /\ sizes[i] <= MAX_IMAGES
  BY SizeLemma DEF IndInv
<1>5. QED
  BY <1>2, <1>3, <1>4, FaceStoreAssumption

LEMMA OpenDirStep == IndInv /\ OpenDir => IndInv'
<1> SUFFICES ASSUME IndInv, OpenDir PROVE IndInv'
  OBVIOUS
<1>1. /\ hpc = "open" /\ hpc' = "next" /\ path' \in Ids \cup {NoId}
      /\ UNCHANGED <<joins, disk, armed, face, saving, file, net>>
  BY DEF OpenDir, Goto, IndInv, TypeOK
<1>2. left' = {} \/ (path' \in Ids /\ store[path'] # NULL /\ left' = DOMAIN store[path'])
  BY <1>1 DEF OpenDir
<1>3. left' \subseteq 1 .. MAX_IMAGES
  BY <1>2, FilesLemma
<1>4. TypeOK'
  BY <1>1, <1>3 DEF IndInv, TypeOK, disk, armed, saving, net, thread
<1>5. StoreInv'
  BY <1>1, StoreFrame DEF IndInv
<1>6. SearchInv'
  BY <1>1, <1>2 DEF IndInv, SearchInv, Searching, MatchIsGenuine, disk, net
<1>7. QED
  BY <1>4, <1>5, <1>6 DEF IndInv

LEMMA NextFileStep == IndInv /\ NextFile => IndInv'
<1> SUFFICES ASSUME IndInv, NextFile PROVE IndInv'
  OBVIOUS
<1>1. PICK f \in left : /\ file' = f /\ left' = left \ {f}
                        /\ hpc' = IF store[path][f] = Unreadable THEN "next" ELSE "send"
                        /\ UNCHANGED joins
  BY DEF NextFile, Goto
<1>2. hpc = "next" /\ UNCHANGED <<disk, armed, face, saving, path, net>>
  BY DEF NextFile
<1>3. path \in Ids /\ store[path] # NULL /\ left \subseteq DOMAIN store[path] /\ f \in DOMAIN store[path]
  BY <1>1, <1>2 DEF IndInv, SearchInv, Searching
<1>4. store[path][f] \in Files
  BY <1>3, FilesLemma
<1>5. TypeOK'
  BY <1>1, <1>2 DEF IndInv, TypeOK, disk, armed, saving, net, thread
<1>6. StoreInv'
  BY <1>1, <1>2, StoreFrame DEF IndInv
<1>7. SearchInv'
  <2>1. hpc' = "send" => store[path][f] \in Persons
    BY <1>1, <1>4 DEF Files
  <2>2. UNCHANGED <<store, path, socket, requests, replies>> /\ hpc' \in {"next", "send"}
    BY <1>1, <1>2 DEF disk, net
  <2>3. QED
    BY <1>1, <1>3, <2>1, <2>2 DEF IndInv, SearchInv, Searching, MatchIsGenuine
<1>8. QED
  BY <1>5, <1>6, <1>7 DEF IndInv

LEMMA SendRequestStep == IndInv /\ SendRequest => IndInv'
<1> SUFFICES ASSUME IndInv, SendRequest PROVE IndInv'
  OBVIOUS
<1> DEFINE pair == <<face, store[path][file]>>
<1>1. /\ hpc = "send" /\ hpc' = "recv" /\ socket = "send" /\ socket' = "recv"
      /\ requests' = Append(requests, pair)
      /\ UNCHANGED <<joins, disk, armed, face, saving, search, replies>>
  BY DEF SendRequest, Goto
<1>2. requests = << >> /\ replies = << >>
  BY <1>1 DEF IndInv, SearchInv
<1>3. requests' = <<pair>>
  BY <1>1, <1>2
<1>4. pair \in Persons \X Persons
  BY <1>1 DEF IndInv, TypeOK, SearchInv
<1>5. requests' \in Seq(Persons \X Persons)
  BY <1>3, <1>4
<1>6. TypeOK'
  BY <1>1, <1>5 DEF IndInv, TypeOK, disk, armed, saving, search, thread
<1>7. StoreInv'
  BY <1>1, StoreFrame DEF IndInv
<1>8. UNCHANGED <<store, path, left, file, face, replies>>
  BY <1>1 DEF disk, search
<1>9. Exchange'
  BY <1>2, <1>3, <1>8 DEF Exchange
<1>10. SearchInv'
  BY <1>1, <1>8, <1>9 DEF IndInv, SearchInv, Searching, MatchIsGenuine
<1>11. QED
  BY <1>6, <1>7, <1>10 DEF IndInv

\* A request that is not sent, an answer that does not come in time: the image
\* counts as different.
LEMMA GiveUpStep == IndInv /\ (SendFails \/ RecvTimesOut) => IndInv'
<1> SUFFICES ASSUME IndInv, SendFails \/ RecvTimesOut PROVE IndInv'
  OBVIOUS
<1>1. /\ hpc \in {"send", "recv"} /\ hpc' = "next" /\ UNCHANGED joins
      /\ UNCHANGED <<disk, armed, face, saving, search, net>>
  BY DEF SendFails, RecvTimesOut, Goto
<1>2. TypeOK'
  BY <1>1 DEF IndInv, TypeOK, disk, armed, saving, search, net, thread
<1>3. StoreInv'
  BY <1>1, StoreFrame DEF IndInv
<1>4. SearchInv'
  BY <1>1 DEF IndInv, SearchInv, Searching, MatchIsGenuine, disk, search, net
<1>5. QED
  BY <1>2, <1>3, <1>4 DEF IndInv

\* The verdict that is taken is on the file in hand.
LEMMA RecvAnswerStep == IndInv /\ RecvAnswer => IndInv'
<1> SUFFICES ASSUME IndInv, RecvAnswer PROVE IndInv'
  OBVIOUS
<1> DEFINE pair == <<face, store[path][file]>>
<1>1. /\ hpc = "recv" /\ socket' = "send" /\ replies # << >> /\ replies' = Tail(replies)
      /\ hpc' = IF Head(replies) = "FACE_MATCH" THEN "matched" ELSE "next"
      /\ UNCHANGED <<joins, disk, armed, face, saving, search, requests>>
  BY DEF RecvAnswer, Goto
<1>2. requests = << >> /\ replies = <<Verdict(pair)>>
  BY <1>1 DEF IndInv, SearchInv, Exchange
<1>3. replies' = << >> /\ Head(replies) = Verdict(pair) /\ << >> \in Seq(Verdicts)
  BY <1>1, <1>2
<1>4. hpc' = "matched" => store[path][file] = face
  BY <1>1, <1>3 DEF Verdict
<1>5. TypeOK'
  BY <1>1, <1>3 DEF IndInv, TypeOK, disk, armed, saving, search, thread
<1>6. StoreInv'
  BY <1>1, StoreFrame DEF IndInv
<1>7. UNCHANGED <<store, path, left, file, face, requests>> /\ hpc' \in {"matched", "next"}
  BY <1>1 DEF disk, search
<1>8. SearchInv'
  BY <1>1, <1>2, <1>3, <1>4, <1>7 DEF IndInv, SearchInv, Searching, MatchIsGenuine
<1>9. QED
  BY <1>5, <1>6, <1>8 DEF IndInv

\* The comparison service answers the request it was sent.
LEMMA CompareStep == IndInv /\ Compare => IndInv'
<1> SUFFICES ASSUME IndInv, Compare PROVE IndInv'
  OBVIOUS
<1>1. /\ requests # << >> /\ requests' = Tail(requests)
      /\ replies' = Append(replies, Verdict(Head(requests)))
      /\ UNCHANGED <<hpc, joins, disk, armed, face, saving, search, socket>>
  BY DEF Compare, thread
<1>2. socket = "recv"
  BY <1>1 DEF IndInv, SearchInv, TypeOK
<1>3. Verdict(Head(requests)) \in Verdicts
  BY DEF Verdict, Verdicts
<1>4. requests' \in Seq(Persons \X Persons)
  BY <1>1, TailLemma DEF IndInv, TypeOK
<1>5. replies' \in Seq(Verdicts)
  BY <1>1, <1>3, AppendLemma DEF IndInv, TypeOK
<1>6. TypeOK'
  BY <1>1, <1>4, <1>5 DEF IndInv, TypeOK, disk, armed, saving, search, thread
<1>7. StoreInv'
  BY <1>1, StoreFrame DEF IndInv
<1>8. UNCHANGED <<store, path, left, file, face, hpc, socket>>
  BY <1>1 DEF disk, search
<1>9. ASSUME hpc = "recv" PROVE Exchange'
  <2>1. requests = <<<<face, store[path][file]>>>> /\ replies = << >>
    BY <1>1, <1>9 DEF IndInv, SearchInv, Exchange
  <2>2. requests' = << >> /\ replies' = <<Verdict(<<face, store[path][file]>>)>>
    BY <1>1, <2>1
  <2>3. QED
    BY <1>8, <2>2 DEF Exchange
<1>10. SearchInv'
  BY <1>2, <1>8, <1>9 DEF IndInv, SearchInv, Searching, MatchIsGenuine
<1>11. QED
  BY <1>6, <1>7, <1>10 DEF IndInv

------------------------------------------------------------------------------
(* Theorems *)

LEMMA InitLemma == Init => IndInv
<1> SUFFICES ASSUME Init PROVE IndInv
  OBVIOUS
<1>1. \A i \in Ids : store[i] = NULL
  BY DEF Init
<1>2. TypeOK
  <2>1. << >> \in Seq(Persons) /\ << >> \in Seq(Persons \X Persons) /\ << >> \in Seq(Verdicts)
    OBVIOUS
  <2>2. store \in [Ids -> Seq(Files) \cup {NULL}]
    BY DEF Init
  <2>3. /\ 0 \in 0 .. MAX_ENROLLS /\ 1 \in 1 .. MAX_IMAGES
        /\ ENROLL_FACE_NUM \in ENROLL_FACE_NUM .. MAX_IMAGES
    BY FaceStoreAssumption
  <2>4. QED
    BY <2>1, <2>2, <2>3 DEF Init, TypeOK
<1>3. StoreInv
  BY <1>1 DEF Init, StoreInv, SavingIds, AnnouncedComplete
<1>4. SearchInv
  BY DEF Init, SearchInv, MatchIsGenuine
<1>5. QED
  BY <1>2, <1>3, <1>4 DEF IndInv

LEMMA StutterLemma == IndInv /\ UNCHANGED vars => IndInv'
<1> SUFFICES ASSUME IndInv, UNCHANGED vars PROVE IndInv'
  OBVIOUS
<1>1. UNCHANGED <<disk, hpc, joins, face, saving, search, net, do_verify, id, id_freed>>
  BY DEF vars, armed, thread
<1>2. joins \in {"none", "ending", "next"} /\ do_verify \in BOOLEAN /\ id \in Ids \cup {NoId} /\ id_freed \in BOOLEAN
  BY DEF IndInv, TypeOK
<1>3. QED
  BY <1>1, <1>2, ArmedStep

LEMMA StepLemma == IndInv /\ [Next]_vars => IndInv'
<1> SUFFICES ASSUME IndInv, Next PROVE IndInv'
  BY StutterLemma
<1>1. CASE TakeFace
  BY <1>1, TakeFaceStep
<1>2. CASE MakeDir \/ WriteImage \/ WriteFails \/ Announce
  BY <1>2, MakeDirStep, WriteImageStep, WriteFailsStep, AnnounceStep
<1>3. CASE TestVerify \/ FaceDiffers \/ FaceMatches \/ CallbackJoin
  BY <1>3, MoveSteps
<1>4. CASE OpenDir \/ NextFile
  BY <1>4, OpenDirStep, NextFileStep
<1>5. CASE SendRequest \/ SendFails \/ RecvAnswer \/ RecvTimesOut
  BY <1>5, SendRequestStep, GiveUpStep, RecvAnswerStep
<1>6. CASE BeginVerify \/ ReplaceId \/ EndVerify \/ NextSessionEnds
  BY <1>6, ArmedSteps
<1>7. CASE \E i \in Ids : Delete(i)
  BY <1>7, DeleteStep
<1>8. CASE Compare \/ Restart
  BY <1>8, CompareStep, RestartStep
<1>9. QED
  BY <1>1, <1>2, <1>3, <1>4, <1>5, <1>6, <1>7, <1>8 DEF Next, HandlerStep

LEMMA IndInvCorrect == Spec => []IndInv
  BY InitLemma, StepLemma, PTL DEF Spec

\* Every variable keeps its type.
THEOREM TypeCorrect == Spec => []TypeOK
<1>1. IndInv => TypeOK
  BY DEF IndInv
<1>2. QED
  BY <1>1, IndInvCorrect, PTL

\* An enrolment a client was told of stays whole, however saves fail, the daemon
\* dies and clients delete.
THEOREM AnnouncedCompleteCorrect == Spec => []AnnouncedComplete
<1>1. IndInv => AnnouncedComplete
  BY DEF IndInv, StoreInv
<1>2. QED
  BY <1>1, IndInvCorrect, PTL

\* A match is of the live face with an image of the directory that was opened.
THEOREM MatchIsGenuineCorrect == Spec => []MatchIsGenuine
<1>1. IndInv => MatchIsGenuine
  BY DEF IndInv, SearchInv
<1>2. QED
  BY <1>1, IndInvCorrect, PTL
==============================================================================
