# Verification of kiran-biometrics

TLA+ models of the kiran-biometrics daemon, checked with TLC, and proofs about
them checked with TLAPS. Every definition that models code is listed in
`PROJECT.json` ("map") with the lines it translates.

## 1. The system

kiran-biometrics is a D-Bus service (`com.kylinsec.Kiran.SystemDaemon.Biometrics`)
that enrols and verifies fingerprints and faces. PAM modules use it when a user
logs in, and the account settings use it to enrol.

| Part | Source | State | Operations |
|---|---|---|---|
| Biometrics service, fingerprint sessions | `src/kiran-biometrics.c` | `fprint_busy`, `fp_action`, two thread pointers, no lock | `EnrollFprintStart/Stop`, `VerifyFprintStart/Stop`, `DeleteEnrolledFinger`; worker threads `do_finger_enroll`, `do_finger_verify` |
| Enrolment worker, template store | the same | `templates`, `i`, `try_count`, `enroll_number`; files under `FPRINT_DIR` named by their md5 | capture three times and compare, merge, check for duplicates, save; read, remove |
| Verification worker | the same | `i`, `ret`, `md5` | up to `MAX_TRY_COUNT` attempts, each compared with all saved templates |
| Fingerprint manager, module loader | `src/kiran-fprint-manager.c`, `src/kiran-fprint-module.c` | `modules`, `current_module`, use counts, `hDevice` | init, open, close, acquire, stop, merge, match, verify |
| Fingerprint drivers | `fprint-modules/*.c` | `do_acquire`, the vendor's handle | the functions of `kiran-fprint-module.h` |
| Face service, face manager | `src/kiran-biometrics.c`, `src/kiran-face-manager.c` | `face_busy`, `face_action`, `face_capture_thread`, `camera`, `do_enroll`, `do_verify`, `enroll_face_count`, `enroll_images`, images in transit | `EnrollFaceStart/Stop`, `VerifyFaceStart/Stop`, `DeleteEnrolledFace`; capture, detection and handling threads |
| Fingerprint and face PAM modules | `pam/pam-kiran-fprintd.c`, `pam/pam-kiran-face.c` | `should_handle`, `match`, `result`, signals not yet handled | authenticate: start a verification, listen, stop it |
| Authentication mode PAM module, helpers | `pam/pam-kiran-authmode.c`, `pam/kiran-pam.c` | the PAM data of a conversation | ask for and record the mode |
| Daemon start-up | `src/main.c` | none | |

How they interact. The **main loop** runs every D-Bus handler, one at a time. A
Start handler opens the device and creates a **worker thread**; a Stop handler
withdraws the action, tells the driver to halt, and *joins* the worker - until
then the whole service waits. The worker talks to the device through the manager
and the current driver module, sends the signals clients wait for, closes the
device and clears the shared flags. The face half has one capture thread per
session and two threads that live as long as the manager; they are chained by
`g_mutex_trylock` and condition variables, and the last of them (the *handling*
thread) runs the service's callbacks, which end sessions from outside the main
loop. Nothing that these threads share, save the images, is under a lock. The
**PAM modules** are programs of their own, one for each login: they call Start and
Stop, and hear the signals of every session, theirs or not, since a D-Bus signal
goes to all.

What is hard about it:

- *Interleavings on unlocked flags.* A session is let in, ended and cleaned up by
  different threads in several steps each.
- *Blocking.* The main loop joins threads; the handling thread joins them too.
- *Withdrawal at any point.* A Stop may fall between any two steps of a worker,
  and what the worker does next depends on values its last capture left.
- *Early exits.* The loops leave variables as they were: templates of another
  finger, an `md5` that is freed, images of another enrolment.
- *Broadcast.* A login tells its own signals from others' by the id in them, or not at
  all; Start and Stop do not say whose session they are about.
- *Faults.* Writes fail half-way or write too little, the daemon dies between two of
  them, a comparison service answers late, template files cannot be read and are passed
  over, a comparison is asked about a template that is not there, the clock is set.
- *Fallback.* Opening tries module after module; each failure has its own
  clean-up.

`PROJECT.json` ("hazards") lists these places with their lines and the
properties that guard them.

## 2. What makes each part correct

- *Sessions*: one user of the device; the busy flag agrees with the session; Stop
  joins the right thread, returns, and leaves the device free; every session ends.
- *Enrolment*: exactly one final signal; what is stored is one finger's, and a
  finger that no file it could read holds; progress that a client can rely on; it
  terminates.
- *Verification*: a match that is reported is of a finger placed in this session, as
  far as the saved templates are whole; it sends what clients are
  promised of a verification, in that order; it terminates.
- *Manager*: use counts and initialisations balance; the device of the current
  module is open exactly while a session runs; no handle outlives its library.
- *Drivers*: a capture ends, in time, with what the workers count on.
- *Face*: one user of the camera; Stop releases it and returns; an enrolment
  is saved with images, and one that was announced is whole; a match is of the
  right images; the handling thread comes round, unless its callback waits for the
  capture thread of the next session.
- *Logins*: none succeeds without a match past a mode that it could read to be
  demanded; each ends and leaves no session behind.

## 3. The modules

**`DeviceLease`** is the abstract specification: the device is granted to one
session at a time, only when free, and is always given back.

**`FprintSession`** models handlers and workers with one action for each access
to shared state. `mpc` is the place of the main loop (`idle`, or inside a Stop:
`acquire_stop`, `join`), `pc[t]` that of worker `t` (`load`, `loop`, `acquire`,
`wait`, `finish`, `close`, `clear_busy`, `clear_action`, `exited`). A Start is
one action because the only other thread that can write what it writes is
an old worker at its last store, and that commutes (the comment at
`StartSession` says how). What a worker does with templates is left to the two
next modules; here a capture ends with a finger, by Stop, or by its time-out.
`Holder`, the worker in a session, is the refinement mapping to `DeviceLease`.

**`FprintTemplates`** has the result codes and the driver functions on templates. A
template is the sequence of fingers whose features it holds; the empty one is a NULL
template, and what is read of a file of which not all was written. Between templates
that are all features of fingers (`Readable`) recognition is taken to be without error.
Of anything else nothing is assumed: the arat driver ignores what the library says and
returns a variable that a failed or empty comparison has not set
(`aratfingerprint.c:171`), so that `DriverMatch` gives any result. `DriverAcquire` says
what a capture can give, for a driver that captures and for one that enrols inside the
device; a halted capture of the arat driver can return OK with a feature buffer nobody
wrote (`Noise`).

**`FprintEnroll`** is `do_finger_enroll`: `Load` (reading the store, the limit),
`LoopHead` (progress signal), `Capture` (capture, comparison with the first
template, restart, giving up), `Assemble` (merge, check), `Check` (duplicates, with a
device that reports an index out of range in `Recognise`), `Save`, `Out` (the failure
signals), `Free`. The main loop may `Withdraw` and `RemoveFprint` between any two.
Reading passes over files (`ReadSome`); which ones is kept in `unread`, a history
variable that the properties refer to. The store an enrolment finds (`EarlierStores`) may
have more files than the limit, files that were not fully written, and the file
"(null).bat" (`Nameless`), which `Save` makes of a template that is NULL. A write may
fail before or after the file is created, or write too little and be taken for a
success, since the count is not looked at.

**`FprintVerify`** is `do_finger_verify` in the same way, with what the `md5`
pointer refers to and whether that memory is still allocated. `placed`, the features
captured in this session, is history. `StrayId` is the md5 of a file that is not whole,
which need not be the file's name.

**`VerifySession`** is the abstract verification: a prompt, at most `MAX_TRY_COUNT`
reports, and a final signal unless it was withdrawn. `FprintVerify` implements it
(`Promise`, `KeepsPromise`; attempts that are under way, counted and reported come
from its `pc`, `i` and `status`), and `PamLogin` uses it as its service.

**`EnrollSession`** is the abstract enrolment: prompts below 100, then one final
signal, with an id only if that finger is enrolled; a new file appears with such a
signal, or when its write failed, and then failure is reported. Only an enrolment that
is not `sure` of its templates - it was withdrawn, must believe the device, or read a
file that is not whole - may end in a success that names no file. `FprintEnroll`
implements it (`Promise`, `KeepsPromise`; `stage` comes from its `pc`, `sure` from
`Sure`, `files` and `known` are the ids of its store and of what it read).

**`FprintDrivers`** is the capture of the two drivers, one action for each step of
the poll loop, with the tick count as the wall clock modulo `TICKS`, a clock that
may be set, and a Stop at any time. `AcquirePromise` ties it to `DriverAcquire` of
`FprintTemplates`, from which the workers' models draw their captures.

**`FprintManager`** is opening (`OpenBegin`, `TryCurrent`, `Walk`,
`WalkUnloadable`, `InitFails`, `OpenEnd`), `Close` and the calls that go through to the
driver. `use_count` is the count of `GTypeModule`; at zero the module is
unloaded. That opening and closing never overlap is a result of `FprintSession`
(`MayStart` with `BusyIffSession`), and here a guard (`~leased`).

**`FaceService`** has the main loop (`mpc`), each capture thread (`pc[t]`) and the
handling thread (`hpc`) store by store, and the detection thread as the actions
that empty its slot. A pointer to a `GThread` that has been joined is `Dangling`;
joining that has two outcomes, going unnoticed or ending the process. Images
are reduced to whether the running enrolment collected them.

**`FaceStore`** has the images under `FACE_DIR` and the handling thread as it saves
(`MakeDir`, `WriteImage`, `WriteFails`, `Announce`) and compares (`OpenDir`,
`NextFile`, `SendRequest`, `RecvAnswer`, `RecvTimesOut`, `FaceMatches`). Beside it
the main loop begins a verification (`BeginVerify`, `ReplaceId`: the flag is set and
the id freed before it is replaced) and deletes, a capture thread ends one, the
comparison service answers in its own time, and the daemon may die (`Restart`),
which clears everything but the files. A success is signalled by a callback that runs
in the handling thread and joins the capture thread its pointer names
(`EmitSuccess`, `CallbackJoin`). That may by then be the thread of the next session,
which ends when its client likes (`NextSessionEnds`, not fair). The list of images may
begin with those of a stopped enrolment, so a save has `ENROLL_FACE_NUM` images or
more; `sizes`, how many each had, is history. Which face completes an enrolment is the
matter of `FaceService`; here any may. The two models meet in the handling thread
only, and each leaves to nondeterminism what the other decides.

**`PamLogin`** has `pam_sm_authenticate` of the three PAM modules and the service
they call: the queue of requests (`inbox`), of which the main loop handles one at a
time, the session, and for each client the signals it has yet to handle (`queue`).
`do_verify` is `Connect` (Start), `CancelOther` (the device is busy: Stop, and skip
the next signal), `StartAgain`, the loop (`HandleSignal`, `SkipSignal`,
`LoopTimeout`) and `Verdict` after the last Stop. `ReplyTimeout` is the bus giving a
call up after 25 seconds; the request stays with the service. A Stop of the service
waits for the session's thread (`joining`). Workers that ended by themselves, and those of
other programs' enrolments (`OtherEnrolment`), have their last store of `fp_action` still
to do, so many as `last_stores` counts; each may withdraw a successor (`ClearAction`). A
face that is taken up while a session begins may be compared with the former id
(`FaceSession`), and the handling thread signals a match in one step and ends the
session in another (`ending`, `MatchEnds`). `disturbed` and `shown` are history, and so is
`informed`, the logins whose account properties could be read. What an account demands
(`demand`) is what the accounts service says of it; when that service goes away just
before the properties are read they read as 0, and any mode may be recorded as not
needed (`Recorded`).

The comments call an operator a *Mutant* when it is a plausible mistake: TLC
finds the corresponding property violated when it replaces the real one
(`PROJECT.json`, "mutants"). They are not part of the specifications.

## 4. Runs

| Run | Question | Bounds |
|---|---|---|
| `session` | safety and liveness of sessions; they implement the lease | 3 threads, `MAX_TRY_COUNT` 1 |
| `enroll` | the enrolment keeps its promise, with either kind of driver | 2 fingers, an earlier id and "(null).bat", a limit of 2 templates, 14 tries; files that cannot be read, are not whole, or hold features of no finger included |
| `verify` | the verification keeps its promise, with either kind of driver | 2 fingers, 2 ids, a limit of 2 templates, 4 attempts; the same kinds of files |
| `drivers` | captures of both drivers | a count that wraps at 8, a time-out of 4, polls of up to 2, clocks that start and are set at any value |
| `manager` | opening with any subset of three modules | 3 modules (symmetric), `MaxInits` 3 |
| `face` | the threads of the face half | 2 capture threads, 2 faces for an enrolment |
| `face_store` | the images of faces and their comparison | 2 persons, 2 enrolments of 1 image and up to 1 leftover, a socket that holds 2 requests |
| `login` | a login, by finger or by face, beside other programs | 1 login, 2 calls (or enrolments) of others, 2 attempts, 1 signal waiting |

Why these suffice: an old worker that has
yet to do its last store, the running one, and one for a Start in between make
three threads; two fingers tell "the same" from "another", and the files may hold
either, both or none of them; two earlier files and the new one are a store below, at
and over its limit; fourteen tries are restarts and a full collection, and enough stages of
a device that enrols itself for the progress to pass its cap; a tick count of 8 wraps
within a capture, after it, or not at all, and a poll of 2 may jump over a value;
three modules allow one on either side of the current one; for faces, a session and
its successor, and an enrolment stopped half-way; a late answer about one person and
a request about the other; for a login, a Start and a Stop of somebody else, in either
order, before, during and after its own session (another login is no more than such
calls to it, and the proofs are for any number of logins).

Bounds in guards: `MaxInits` caps initialisations of a library that are never undone
(the code does not bound them); a face session starts only when a `GThread` object is
spare, which bounds lingering threads; `MAX_ENROLLS` bounds saved enrolments and
`MAX_IMAGES` the images in the list; `MAX_CALLS` the calls of other programs; a session of `PamLogin` sends no signal while
`MAX_SIGNALS` wait at a client, unless a Stop waits for it; a clock is set once in a
capture. `CHECK_DEADLOCK FALSE` is set for the face runs because the service may
really stop - it can reach a state in which its camera is open for nobody, and from
then on every request is refused and changes nothing - and for `login`, where
everything is over when the logins have ended and nobody calls any more.

What the passing runs show beyond the state of the flags:

- `DeviceExclusive`, `BusyIffSession`: the test-and-set
  without a lock is sound because only the main loop sets and only the session's
  own worker clears.
- `StopFindsWorker`, `StopFreesDevice`: a Stop never joins a
  NULL or a foreign thread.
- `OneFingerStored`, `NoDuplicateFinger`, `SuccessRecognised`: templates left in
  the array by a mismatch are harmless *as long as the enrolment is not withdrawn*;
  what is stored is then a new finger, *as far as the files could be read*; and a
  success carries the id of a template that recognises the finger, as long as both are
  whole, since comparisons that return anything touch no others.
- `StoreWithinLimit`: the limit, tested on what was read long before the save, still
  holds of those files when it is done. A file that could not be read is not counted,
  and with such files there may be more than the limit.
- `FoundIsGenuine`: the stale `md5` is always that of a template compared in this
  session, with a finger placed in it, unless that template is not whole.
- `LoadedIffCurrent`, `OpenIffLeased`, `HandlesOfLoaded`: the fallback through the
  modules balances uses although a module may be met twice in one walk.
- `OneCapture`, `SaveHasImages`: three threads clear `face_busy` and reset the
  count, and still the camera has one user and the id of a face an image.
- `KeepsPromise`: whatever a verification does with its stale `md5`, clients get the
  signals they can expect, in order; a file that cannot be read changes nothing
  about that.
- `AcquirePromise`, `GivesUpInTime`, `CaptureEnds`: the unsigned difference is right
  across the wrap, and a clock that is set delays a capture's end but never prevents it.
- `AnnouncedComplete`: a client never learns the id of an enrolment that is not there
  whole, although nothing is written atomically. It holds because a failed write ends
  the save, an id is announced after its last write, and deletion spares directories
  with files in them.
- `MatchIsGenuine`: the time-out of the request socket cannot pair a late answer
  with a later comparison, because a request socket refuses to send until it has
  received.
- `HandlerReturns`: neither a comparison service that is silent nor an ending session
  keeps the handling thread; only the next session's can.
- `NoModeSkipped`, `SilenceOnlyIfDisturbed`: signals of other sessions do not let
  a login in by finger, if the account's properties could be read; and when a login waits in vain, somebody ended its session
  or it swallowed its own signal. For faces the signals carry no id, so a match is
  all that can be asked for.

### Where the code does not keep what it says

Four runs end with a counterexample on purpose:

- `session_stop` - the driver's acquire function sets `do_acquire` and so undoes a
  stop that came just before it; the main loop waits for the 600 s time-out.
- `enroll_mixed` - an enrolment withdrawn right after a restart merges and stores
  templates of two fingers.
- `verify_found` - after a match the freed `md5` is not cleared, and later attempts
  are reported as matches whatever they gave.
- `face_mixed` - images of a stopped enrolment are stored under the next one's id.

Others that the models contain and no run singles out: a worker clears
`fprint_busy` before `fp_action`, so a session started in between has its action
withdrawn and Stop denies that it exists (`ClearAction`); deleting an enrolled face
leaves its images, and it still verifies, while the answer says it is done (`Delete`
of `FaceStore`); once an answer of the comparison service is late the socket is stuck
and no face matches until a restart (`RecvTimesOut`, then `SendFails`); a face may be
compared with the images of the id asked for before (`ReplaceId`); a directory of a
save that failed stays (`WriteFails`); a login that took a verification over may
swallow the first signal of its own (`SkipSignal`), may find its session ended by
another's last Stop, and leaves a session of nobody when its Start was given up by the
bus and carried out later (`ReplyTimeout`); without PAM data the fingerprint and
face modules use a pointer that was never set (`BadPointer`); the zk driver
tests a variable before setting it and may refuse any capture (`Prepare`); a failed deletion is
answered twice (`DeleteReplies`); the first progress is 0 where the interface
promises 1 to 100; a deleted template matches until the session ends, and may be
an enrolment's result; a failed write leaves an empty template file (`Save`); the
exit at the template limit frees an array nobody filled (`Free`); merging is
skipped but matching is not when a withdrawal leaves fewer than three templates
(`Assemble`), the driver may then return a result it never set (`DriverMatch`), and the
enrolment may store "(null).bat" and report success with no id (`Save`); a short write is
a success too (`Save`); a template file that cannot be read is neither counted nor
compared, so that its finger can be enrolled again and the limit passed (`ReadSome`); a
device that matches with an index out of range makes a success with no id
(`Recognise`); a login whose accounts service goes away at the wrong moment takes a
mode that is demanded for one that is not, and succeeds (`Recorded`); the handling
thread may wait, with the lock of the images held, for a capture thread that belongs to
the next session (`EmitSuccess`); a withdrawn verification may send no final signal or two (`Cancel`,
`Over`); a library stays initialised when none of its devices opens
(`InitsAfter`); Stop may pass the driver a closed handle (`StopCapture`); the
result of a driver's initialisation is ignored (`InitFails`); two threads may
join the same capture thread (`StopJoinFreed`); a save that fails after a Stop
leaves the next Start with an open camera and no session (`ArmFails`).

## 5. Fairness

- Worker and capture threads: weak fairness on each thread's own steps - the kernel
  schedules every thread.
- A capture ends: `CaptureTimeout` is part of a worker's fair step because both
  drivers poll with a time-out (600 s) and return; fingers placed are *not* fair.
- The main loop: a handler that has begun runs on. Requests are *not* fair.
- Drivers: the capturing thread runs; each poll takes time, so that the clock goes on.
- Nothing is assumed of users, of Stop, or of faces and images. In `FaceService` the
  handling thread has no fairness: `StopReturns` does not need any. In `FaceStore` it
  is scheduled, and nothing is assumed of the comparison service: the wait for it
  ends by the socket's time-out.
- Logins: each program runs, so that its 120 seconds end its loop (`LoopTimeout`); the
  service handles requests and its sessions go on - attempts end, as `FprintDrivers`
  shows. Calls of others, faces and the bus's time-out are not fair.

## 6. Proofs

`FprintSessionProofs` proves, for every set of threads and every `MAX_TRY_COUNT`
(assumptions `NoThreadAssumption` and `TryCountAssumption` of `FprintSession`):

- `TypeCorrect`: the type invariant.
- `SessionCorrect`: the inductive invariant `SessionInv`.
- `ExclusionCorrect`, `BusyCorrect`, `CurrentCorrect`, `StopTargetCorrect`,
  `AttemptsCorrect`: the invariants of the run `session` for one user, the busy flag,
  the session the shared state describes, the thread Stop finds, and the bound on
  attempts.
- `StopCorrect`: the action property that Stop frees the device.
- `LeaseCorrect`: the safety part of the refinement - every step is a step of
  `DeviceLease` or leaves the holder alone.

The argument. `DeviceExclusive` alone is not inductive: a Start is let in by the
busy flag, so the flag must stand for the session (`BusyIffSession`), and that must
be kept by the clearing worker, which needs exclusion in turn. Stop joins the
thread its pointer names, so the pointer must be the session's
(`SessionIsCurrent`), which a stale `ClearAction` of an older worker must not
disturb: it only withdraws an action, and every clause about `fp_action` allows
that. While a Stop waits nothing else may start (`StopIsExclusive`), because the
main loop is the one that waits. `SessionInv` is the conjunction of these. The
proof has one step per action of `Next`, and under it one for each conjunct the
action can disturb.

`FprintManagerProofs` proves, for every set of modules and every `MaxInits`
(`ManagerAssumption`), the inductive invariant `ManagerInv` (`ManagerCorrect`) and
from it every invariant of the run `manager`: `ManagerTypeCorrect`,
`LoadedCorrect`, `OpenCorrect`, `HandlesCorrect`, `InitialisedCorrect`,
`CallsCorrect`. These six
invariants need each other - a handle may only be dropped on unloading because no
other module's device is open, which is known because opening runs between
sessions - and one more, `PlaceInv`: opening is never under way while the manager is
leased, and the current module is tried first only if there is one. The lemmas
`UseCountMoves`, `InitsInRange` and `HandleOfTried` say what one attempt to open
does to the counts and the handle.

`FprintEnrollProofs` proves, for all fingers, ids, limits and either kind of
driver (`EnrollAssumption`), that an enrolment sends exactly one final signal
(`DoneOnceCorrect`; `DoneOnce` is inductive as it stands), that it implements
`EnrollSession` (`Refinement`, action by action, from `CountInv`: the counters that
progress is computed from are natural numbers), and that the store, but for the files
that could not be read, stays within its limit (`StoreCorrect`). The last needs
`RoomInv`: the worker tests the limit on what it read, hours before it saves, and there
is still room because nobody else adds a file and deletions only make more. The step of
the refinement that reports a success needs to know that a worker that is `Sure` has
whole templates only, so that the comparison it relied on was one of them.

What an enrolment stores is proved from a second invariant, `EnrollInv`, which is the
path of a template from the sensor to the file:

- `CollectInv`: while the enrolment is not withdrawn, the templates collected so far
  are clean captures, all equal to the first, none is missing, and three of them are
  there when they are merged. (Withdrawn, the loop may leave the array half full.)
- `RegInv`: so what is about to be stored is of one finger, it starts with the
  finger that was collected first, and once checked it matches no file that was read; where it is not
  whole, nothing is said.
- `StoreInv`: the files are those that were read, less the deleted ones, those that were
  not, and the new one, so that what was checked against the copy holds of the directory.

From it: `TypeCorrect` (the index stays in the array of templates), `SuccessRecognisedCorrect`,
`OneFingerStoredCorrect` and `NoDuplicateFingerCorrect`, the last two action properties. The
lemmas `CaptureLemma`, `MergeLemma` and their neighbours say what the operators on
templates give. `ProgressFallsOnRestartCorrect` needs `ProgressInv` - the next prompt is
at least the last one shown - and the arithmetic of the cap at 99.

`FprintVerifyProofs` proves, for all fingers, ids, attempts and either kind of driver
(`VerifyAssumption`): `TypeCorrect`; `FoundIsGenuineCorrect`, which needs to know that
a pointer that was ever set came from a finger placed in this session (`GenuineInv`); and `Refinement`, that
the verification implements `VerifySession`, step by step under the mapping, from an
invariant on how many final signals go with each place.

`FprintDriversProofs` proves, for either driver, any fingers, and a tick count, time-out
and polls of any length with a lap longer than a time-out and a poll
(`DriverAssumption`): `TypeCorrect`; `AcquirePromiseCorrect`, that a capture gives only
what the models of enrolment and verification draw their captures from; and
`GivesUpInTimeCorrect`. The first needs `OutcomeInv`: `do_acquire` outlives captures, and a
halt that a capture sees is one called for during it, because each capture arms the
flag anew. The last needs `TimeInv`: the clock is `preTime` and the time that passed, less
up to two laps (`Reading`), and the time passed is bounded at each place of the two
loops, which look at the clock before a poll (arat) and after it (zk). The proof turns up
a case that the run's values do not have: with polls as long as half a lap the
subtraction wraps, and a capture may go on for another lap's start - still within
the bound, but by the last disjunct of `GoesOn` and `Looks` only.

`FaceServiceProofs` proves, for any number of capture threads and of faces to collect,
up to the 100 that the progress divides (`FaceAssumption`):

- `TypeCorrect`, `SaveHasImagesCorrect` and `NoFalseCompletionCorrect` from `CountInv`: a
  count that is not zero comes with images, and the count is at its limit only on
  the way to being reset. Three threads reset the count, which is why the type
  invariant itself is not inductive without it.
- `OneCaptureCorrect` and the action property `StopReleasesCameraCorrect` from
  `CameraInv`. Here the flags do not exclude anybody: the callback of an earlier session
  clears them late. What holds sessions apart is the main loop: a Start opens the
  camera only if it is closed, and a thread that has it is the one the pointer
  names, or the pointer is NULL - never an older thread.

`PamLoginProofs` proves, for any set of logins and any bounds (`LoginAssumption`),
`TypeCorrect`, `NoModeSkippedCorrect`, `NoSessionLeftCorrect` and
`SilenceOnlyIfDisturbedCorrect`. `NoModeSkipped` goes by what `match` stands
for: every match in a client's queue is in `shown`, `match` is only set from the queue,
the recorded mode does not change once the login has begun to listen, and a login that
could read its account's properties has the mode they demand. The other two go by
`LoginInv`, about a client and the session it started (`OwnSession`): as long as its
session runs, the client listens to it or a Stop is on the way; a client that
listens has its session running, or the end of it in its queue, or was disturbed; and
where the end of its session is still the handling thread's to make (`ending`), the
match it is for has been signalled.
This needs `RequestInv`, that a client has at most the one request it waits for in the
service's queue: an answer to an older Start could otherwise begin a session for a
client that has gone.

`FaceStoreProofs` proves, for any persons, images, enrolments and socket
(`FaceStoreAssumption`), `TypeCorrect`, `AnnouncedCompleteCorrect` and
`MatchIsGenuineCorrect` from one inductive invariant. `StoreInv` says that what is
written and what is still to be written of the enrolment in hand make all of it
(`Saving`), unless its directory was deleted while it was empty, and then all of it is
still to be written and cannot be; and that only the newest id is ever written to.
`SearchInv` says that the one request under way, or its answer, is about the file in
hand (`Exchange`) whenever an answer is waited for, and that there is none at all when
the socket may send. The lemmas `PutLemma` and `OthersKept` say what one write does.

With these, every safety invariant and every action property of the runs that pass is a
theorem for all values of the constants. Each inductive invariant was checked by TLC,
on the instance of the run of its module, before it was proved; `LoginInv`, for which two
clients are too many states, with one client in full and with two to a depth of 23.

Only model-checked: liveness (`StopReturns`, `SessionEnds`, `Terminates`, `CaptureEnds`,
`HandlerReturns`, `LoginEnds`, and the fairness half of `LeaseSpec`), which is outside
the prover's reach. The refinements `LeaseCorrect`, `KeepsPromise` are proved for initial
states and steps.

## 7. What is not modelled

- Finding faces and eyes in an image, its size, and the socket on which frames are
  published for a preview: image arithmetic and output without an answer.
- The symbols of the zk vendor library, which `dlsym` looks up one by one, and the
  vendor libraries themselves.
- What a vendor library does with a NULL template other than return: it might crash.
- The length of a file is read through a pointer to a wider type; what that overwrites
  depends on the layout of the stack.
- The dialogue of the PAM modules with the user, beyond whether it was answered; the
  password mode, which another program reads.
- Start-up, build and interface files.
- Wording of messages, logging, memory that is only leaked, and permission checks
  of the bus.
- Spurious wake-ups of condition variables, and reuse of a joined `GThread`'s
  memory.

## 8. Plan

What is left, in order:

1. An abstract specification: a lease of the camera for `FaceService`, with its
   refinement.
