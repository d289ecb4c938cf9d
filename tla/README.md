# sm-s3 in TLA+

Specifications, model-checking runs and machine-checked proofs for the sm-s3
SourceMod extension: an S3 client for game servers whose plugins submit requests
on the game thread while one transfer thread drives them through libcurl.
Paths below are relative to the repository, whose extension sources are in `src/`.

## 1. The system

```
 plugin code ──natives──▶ S3Extension ──Enqueue/Cancel/Stop──▶ TransferThread ──▶ libcurl
   (game thread)             m_jobs   ◀──Drain── MainThreadQueue ◀──Post── S3Job   (files, network)
```

| Part | State | Operations | Interacts through |
|---|---|---|---|
| event queue (`main_thread_queue.cpp`) | `m_events`, atomics `m_hasEvents`, `m_enabled` | `Post`, `Drain`, `SetEnabled` | the transfer thread posts; the frame hook drains |
| job (`s3job.cpp`) | attempt number, easy handle, FILE, retry deadline, flags finished / waiting / cancelRequested, HTTP status, resume offset | `BeginAttempt`, `OnAttemptDone`, `Cancel`, curl's callbacks | libcurl, the file system, `Post` |
| transfer thread (`transfer_thread.cpp`) | `m_incoming`, `m_cancelRequests` under `m_mutex`; `m_active` of the thread; `m_running`; the multi handle | `Run`'s loop; `Start`, `Stop`, `Enqueue`, `Cancel` from the game thread | the mutex, `curl_multi_wakeup`, join |
| extension (`extension.cpp`) | `m_jobs` (records with owner, client, forwards, dispatching, dropped) | load, unload, frame, plugin unloaded, handle destroyed, submit, cancel | calls the thread; drains the queue; runs plugin callbacks, which call back in |
| natives (`natives.cpp`) | the configuration in each `S3Client` handle, copied into every request | create, set, the six requests, cancel, accessors | the extension |
| downloads (in `s3job.cpp`) | `<path>.part`, the path, the FILE*, resume offset | open/resume, write, restart, close, rename, unlink | the file system, shared with other jobs |
| uploads (in `s3job.cpp`) | size and FILE of the attempt | `OpenFiles`, `ReadCallback` | the local file, which others change |
| progress (in `s3job.cpp`, `extension.*`) | last value and time posted | `ProgressCallback`, `PostProgress`, `ClampToCell` | libcurl, the queue, the plugin's callback |
| retry timer (in `s3job.cpp`, `transfer_thread.cpp`) | attempt number, deadline | `ScheduleRetry`, `StartDueRetries`, `ComputeWaitMs` | the clock, `curl_multi_poll` |
| request building (in `s3job.cpp`, `s3client.cpp`, `uri.cpp`) | none | URL, query, headers, method of an attempt | libcurl, the server |
| listing (in `natives.cpp`, `s3job.cpp`, `extension.cpp`, `xml.cpp`) | response body | collect, parse, hand keys and token to the plugin | the server, the plugin's loop |
| `text.cpp` | none | pure functions | |

What is hard here, and what makes each part correct:

* **Two threads and one poll.** Work is pushed under a lock and the wakeup sent after
  the unlock. Correct: the thread never sleeps on work it has (`NoMissedWakeup`), a
  cancellation never overtakes its job (`CancelFindsJob`), `Stop` returns (`StopReturns`).
* **A job with many ends.** Success, failure to start, retries spent, cancellation and
  shutdown can meet in one pass of the loop. Correct: one completion, last of the job's
  events (`CompleteIsLast`), justified by what the last attempt met (`OutcomeJustified`);
  no job is forgotten (`NoStrandedJob`, `EveryJobEnds`); libcurl holds no handle of a
  dead job (`ReapsLiveJobs`); attempts are bounded (`RetryBudget`).
* **Re-entrant callbacks.** The frame hands drained events to plugins that may close
  clients and unload each other while it does. Correct: forwards and records match
  (`ForwardsBalanced`), a record in use survives (`RecordOutlivesCallback`), silenced
  requests stay silent and each completes once (`ImplementsRequests`), nothing is lost or left running
  (`NoLostCompletion`, `NoOrphanTransfer`, `RequestsResolved`).
* **Unloading.** The order of disabling, stopping, draining, releasing and removing types
  matters (`CleanUnload`), with an unlocked test in `Post` that lets an event slip past.
* **Files that outlive attempts.** A part file is found by name by retries, later calls
  and other jobs; a file to upload changes under the transfer. Correct: the path only ever
  names a whole object (`PathIsWhole`); nothing but a start over shortens a part file
  (`OnlyStartingOverShrinks`); an object is the file as it was at one moment, unless an
  attempt was torn (`StoresSnapshot`, section 6), and never has a byte out of its place
  (`ChunksFromFile`).
* **Counts with an offset.** libcurl counts the bytes of one answer, a plugin wants those of
  the object, and a restart moves the offset in the middle of a transfer. Correct: what is
  shown is what the part file holds (`ProgressTruthful`), the throttle never swallows the
  last byte (`FinalProgressShown`), nothing wraps (`ProgressInCells`).
* **Several deadlines, one sleep.** Correct: no poll sleeps past the earliest of them
  (`RetriesOnTime`), and attempts are spaced as documented (`BacksOff`).
* **Bytes through two encoders and two decoders.** Keys, prefixes and tokens end in paths,
  queries and a header, on one of three addresses. Correct: the server understands each
  request as it was meant (`NothingAstray`), and the pages of a listing add up although
  objects come and go and attempts break off (`CompleteListing`).

`PROJECT.json` lists every hazard at its line, with the properties that cover it.

## 2. The modules

| Module | Models | Notes |
|---|---|---|
| `MainThreadQueue` | `main_thread_queue.*` | `Post` is the unlocked test of `m_enabled`; `CommitPost` the critical section; `posting` the event between them |
| `S3Job` | the control of `s3job.cpp` | pure operators over one job's record `job[j]`, and libcurl's side `transfer[j]` (external) |
| `TransferThread` | `transfer_thread.*` | extends `S3Job`; `pc` walks the inner loops of `Run`, `caller` the game thread's calls; also the refinement mapping |
| `TransferService` | what the thread promises | abstract: requests are live, then ended or lost; cancellations are asked for, then applied or moot |
| `S3Extension` | `extension.*`, request natives | extends `TransferService`, which stands for the thread |
| `RequestService` | what a plugin is promised | abstract: a request is pending, then completed once or silenced at one stroke; only pending requests reach plugin code |
| `Download` | `GetFile` with the file system | independent of the thread: jobs meet only in the file system |
| `Progress` | progress of a download, its throttle, cells | extends `Download` with the last value posted and what the plugin was shown |
| `Upload` | `PutFile` with the local file and the server | each attempt opens the path and asks for its size in two steps |
| `RetryTimer` | `ScheduleRetry`, `StartDueRetries`, `ComputeWaitMs`, with time | the only module with a clock |
| `Addressing` | `uri.*`, `s3client.cpp`, the request building of `s3job.cpp` | operators over sequences of bytes, and the server's side (external) |
| `Listing` | a plugin's `List` loop, the other requests, the settings | extends `Addressing`; every request goes through encoder and decoder |
| `TransferThreadProofs` | theorems about `TransferThread` | the loop, the jobs, the wakeups, the events, and the refinement of `TransferService` |
| `S3ExtensionProofs` | theorems about `S3Extension` | its safety, and the refinement of `RequestService` |
| `DownloadProofs` | theorems about `Download` | |
| `ProgressProofs` | theorems about `Progress` | extends `DownloadProofs` |
| `UploadProofs` | theorems about `Upload` | |
| `RetryTimerProofs` | theorems about `RetryTimer` | |
| `AddressingProofs` | theorems about `Addressing` | encoding and decoding, URLs taken apart; extends `Listing` for its assumptions and the parameters of a service |
| `ListingProofs` | theorems about `Listing` | extends `AddressingProofs` |
| `MCTransferThread`, `MCS3Extension`, `MCDownload`, `MCProgress`, `MCUpload`, `MCRetryTimer`, `MCListing` | symmetry sets and constants for TLC | |

Three layers refine each other. `TransferThread` implements `TransferService` (checked and
proved: `ImplementsService`; checked for its fairness: `KeepsServiceFairness`); `S3Extension`
stands on top of `TransferService`; and `S3Extension` implements `RequestService`
(checked and proved: `ImplementsRequests`). So what holds of the extension holds with the real thread
under it, and what a plugin is promised holds of the extension, without TLC ever exploring
more than one layer at once.

### How state and actions correspond to the code

* **Interleaving.** An action is what one thread does between two points where the other
  can see it: a critical section, an atomic access, a wakeup, one iteration of a loop over
  jobs. A posted completion is visible in two steps, because `Post` reads `m_enabled`
  before the lock. `Enqueue`, `Cancel` and `Stop` are two steps each: the push, and the
  `curl_multi_wakeup` after the unlock.
* **Containers.** A job sits in exactly one container (a `unique_ptr` moves), so
  `place[j]` names it. `m_incoming`'s and `m_active`'s order is abstracted: an iteration
  touches one job. `m_cancelRequests` is a set: a second cancel of a job finds it finished.
* **A job's record** keeps the members that steer control. HTTP statuses are the classes
  the code tells apart (2xx, 3xx, 4xx, 429, 5xx); curl codes those `HandleTransportFailure`
  tells apart. `attempt`, `finished`, `waiting`, `cancelRequested`, `httpStatus` are the
  members of those names; `easy` is `m_easy` with whether it was added to the multi
  handle; `file` is whether `m_file` is open.
* **Early returns of `BeginAttempt`** are disjuncts: no easy handle, the file cannot be
  opened, the handle cannot be added, or a cancellation seen first.
* **Time** is abstracted in the thread: a waiting retry may be due at any pass.
* **Plugins** may call any native between frames or inside a callback. A `DropJob` loop is
  a sequence of steps (`dropping`) during which only the transfer thread moves. Job ids,
  client handles and plugin identities are used once, as the counters and SourceMod do.
* **`forwards[j]`** counts how many sets of forwards a request holds, so that a leak or a
  double release would show; `acked` and `told` are history for properties only.
* **A file** in `Download` is a sequence of chunks, each `<<version, index>>`, in an
  inode; an open FILE* keeps its inode through rename and unlink, and `freopen` and
  `fopen` truncate whatever the name stands for.
* **The refinement to `RequestService`** maps a record to a pending request unless it is
  marked dropped or its client or plugin is already going: the loop that drops records one
  by one is one step of the abstract service, taken where the loop begins. That is why a
  callback between two drops, or one of a record the loop missed, would refute it.
* **Progress** is called by libcurl at any time while a transfer runs and once as it ends.
  Sizes are numbers of bytes with a small `CellMax`, so that a step below one percent and a
  size beyond a cell both occur; "100 ms have passed" is a choice, except in the first
  report of an attempt, whose last report is at the clock's epoch.
* **An upload** stores, at one stroke, the bytes libcurl sent, each read from what its inode
  holds by then. Others append to the file, cut it off or write over a part of it in place,
  rename another onto it or delete it, at any time, between `fopen` and `FileSizeOf` too.
  `seen` is the history of what the path held since the call. `torn` says that an attempt may
  have read parts of two files: its inode was rewritten while it was sent, or the path named
  another inode, or none, when its size was asked for.
* **HTTP statuses** in `Download` are the classes the code tells apart: 200, 206, 416, another
  4xx, 429, which is retried first and a client error after, 3xx and 5xx.
* **Time** in `RetryTimer` goes by in ticks: a pass takes at most `PassTime` of them, a poll
  at most what `ComputeWaitMs` gave it.
* **Strings** in `Addressing` are sequences of bytes; names of query parameters and decimal
  numbers are single symbols. `Understood` is what an S3 server makes of a request, and
  `Meaning` what its caller meant; `Listing` compares them for every request it sends, of
  every operation, under settings that change at any time. Between the two, libcurl takes
  `.` and `..` segments out of a path (`Squash`), and a URL without key and query is the
  bucket's: `IsAddressable` are the keys that survive both.
* **A list body** is a sequence of the elements the parser looks for, so a body may break
  off between any two of them. A page is the next keys after the token's in the bucket as
  it is by then.
* **What a download assumes** is named by constants of `Download`: `Overlap` (calls for one
  path at the same time), `StaleParts` (the object replaced while a part file of it is
  left) and `LossyClose` (an fclose that cannot flush). `downloads` shows that the code is
  right with all three FALSE; section 6 shows that it needs each of them.

## 3. The runs

| Run | Question | Instance | Why it is enough |
|---|---|---|---|
| `one_request` | attempts, outcomes, FILE and handle of one request; cancel and stop with a dead network; its end with a live one | 1 job, Head, Get and Put, all 5 response classes, 2 retries, 1 progress event | these properties speak of one job; two retries reach a retry after a retry and the end of the budget; the other operations stream no file and differ from Head in nothing the thread looks at |
| `two_downloads` | order of events, cancels and wakeups; the thread implements the service | 2 streaming jobs, no retries, 1 progress event | two jobs suffice for one to be admitted, cancelled or reaped while the other is elsewhere |
| `extension` | records, forwards, unloading; the extension implements the request service | 2 plugins, 2 clients, 2 jobs, 1 waiting progress event per job | a plugin using another's client, closing a client inside a callback for one of two jobs, and unloading another need two of each |
| `extension_live` | requests are resolved | 1 plugin, 1 client, 2 jobs, without symmetry | two requests compete for frames |
| `downloads` | the path only names whole objects; progress tells the truth | 2 calls in sequence, versions of 2 and 3 chunks, 2 retries, servers honouring or ignoring Range | three chunks give a start, a middle and an end to break off at; the second call resumes what the first left; the object may be replaced between downloads; every status class, so a 429 as a retry and as an end; one chunk is below a percent and the larger object beyond a cell |
| `uploads` | an object is the file at one moment, and its chunks are in their places | 1 call, 2 retries, a file that grows up to 3 chunks, is rewritten or replaced, twice in all, and deleted | a version longer, one shorter and one appended to; a cut and an overwritten chunk under an attempt; attempts that begin in different versions |
| `retries` | spacing and lateness of attempts | 2 jobs with 5 and 1 retries, ticks of 250 ms, passes of up to 2, a poll of up to 4 | delays of 4, 8, 16 and then the cap, lowered from 120 ticks to 20 so that it is met twice; two deadlines in every order |
| `listing` | requests are understood as meant; pages add up | 3 keys, 2 prefixes, pages of 1 and 2 keys, path style and virtual hosts, a public site | the keys hold every character with a meaning in a URL, a space, a plus, a byte over 127 and a slash at the end; three keys make three pages of one |
| `cancel_race`, `replaced`, `range_at_end`, `http_status` | disagreements, section 6 | smallest that shows each | |

Bounds of the model: `MaxProgress` (progress events of an attempt in `S3Job`, waiting
events of a job in `S3Extension`), the length of `Sizes` and its members, `Lengths` and
`MaxLength` of a local file, `PassTime`, and the numbers `Bytes` and `CellMax` that stand
for sizes. Every other set is a parameter. Symmetry is used only in runs without liveness
properties.
Deadlock is checked in every run; the ends of the system (`Stopped`, `Unloaded`,
`AllOver`) stutter explicitly.

### Fairness

* `ControlFairness`: the transfer thread, being a running thread, keeps taking steps (weak
  fairness of its loop as a whole), a game-thread call that has begun goes on, and `Stop`'s
  teardown finishes. Each is sequential code that waits for nothing else. A step is chosen
  inside the loop by the code's own guards, but the loop of `curl_multi_perform` and
  `StartDueRetries` may choose to do nothing.
* `NetworkFairness`: every attached transfer is ended by libcurl if `perform` is reached
  again and again: the code sets a connect timeout and a low-speed limit and time, so
  no transfer can stall forever; and a waiting retry becomes due, because its deadline is a
  finite time ahead and `ComputeWaitMs` bounds the sleep by it. These are strong: `perform`
  is enabled only once per pass. A transfer that moves above the stall speed without end
  is outside the assumption.
* `ExtensionFairness`: the service's promises (shown of the thread by
  `KeepsServiceFairness`), frames that keep coming while the server runs, and callbacks
  and loops that return once they have begun. Nothing obliges a plugin to do anything.

`one_request` runs under `ControlFairness` alone, and `CancelTakesEffect` and `StopReturns`
are stated as they are: cancelling and stopping may not depend on the network. The two
properties that do, `EveryJobEnds` and `KeepsServiceFairness`, have `NetworkFairness` as
their hypothesis.

## 4. What is proved

### The transfer thread

`TransferThreadProofs` proves, for every set of jobs, of operations and responses, every
`MaxRetries` in `Int` and every `MaxProgress` in `Nat` (`JobAssumption`, the only
assumption), that `ThreadSafetySpec` implies

| Theorem | States |
|---|---|
| `InvHolds` | the inductive invariant `ThreadInv` |
| `TypeCorrect` | `[]ThreadTypeOK` |
| `NoJobStranded` | `[]NoStrandedJob` |
| `OnlyLiveJobsReaped` | `[]ReapsLiveJobs` |
| `CancelFollowsJob` | `[]CancelFindsJob` |
| `WakeupNotMissed` | `[]NoMissedWakeup` |
| `RetriesBounded` | `[]RetryBudget` |
| `FilesTracked` | `[]FilesFollowTransfers` |

None of the properties is inductive as it stands. `ThreadInv` is the conjunction of

* `ThreadTypeOK`;
* `Lifecycle`: per job, how place, easy handle, FILE, libcurl's phase and the flags go
  together, what a job outside `m_active` looks like, and how many attempts it has made.
  `NoStrandedJob`, `ReapsLiveJobs`, `FilesFollowTransfers` and `RetryBudget` follow from it;
* `Handover`: which places are inhabited at each `pc` of the loop, and that a requested or
  taken cancellation belongs to a job at or past the corresponding place, which is what
  makes `CancelFindsJob` hold through `TakePending`;
* `RunState`: how `running`, `pc` and `caller` go together from `Start` to the end of
  `Stop`;
* `WakeupInv`: the wakeup property itself.

The proof has one lemma per operation of a job (what `BeginAttempt`, `OnAttemptDone`,
`CancelJob` and `DestroyJobs` do to one job's record and leave alone in the others), and
then one step per action of `ThreadSpecNext`. Each theorem follows from `InvHolds` by one
implication and a temporal step.

### The thread's events, and what it promises

`TransferThreadProofs` goes on to prove, under the same assumption:

| Theorem | States |
|---|---|
| `EventsInvHolds` | the inductive invariant `EventsInv` |
| `CompletionsAreLast` | `[]CompleteIsLast` |
| `OutcomesAreJustified` | `[]OutcomeJustified` |
| `ThreadImplementsService` | `ThreadSafetySpec => ImplementsService` |

`EventsInv` adds to `ThreadInv` that a completion on its way is that of a finished job
(`CompletionInv`), and what libcurl and the job's record may say of an attempt at each phase
(`AttemptInv`): a job that was cancelled is finished, so what `curl_multi_perform` reports is
never an abort of the job's own making, and `CURLE_OK` comes with a response. One lemma,
`JobSteps`, says what any step does to one job: it completes an unfinished one, reports its
progress or changes it silently. The refinement maps `place`, `finished` and the posted
completion of a job to the phase of its request. Every action of the thread is then shown to
be an action of `TransferService` or a stutter, with `EventsInv` before and after the step.

### The extension

`S3ExtensionProofs` proves, for every set of plugins, clients and requests and every
`MaxProgress`, that `ExtensionSafety` implies

| Theorem | States |
|---|---|
| `ExtensionInvHolds` | the inductive invariant `ExtensionInv` |
| `ExtensionTypes` | `[]ExtensionTypeOK` |
| `ForwardsAreBalanced` | `[]ForwardsBalanced` |
| `RecordsOutliveCallbacks` | `[]RecordOutlivesCallback` |
| `RecordsAreOwned` | `[]RecordsHaveOwners` |
| `NoOrphans` | `[]NoOrphanTransfer` |
| `NoCompletionIsLost` | `[]NoLostCompletion` |
| `UnloadsCleanly` | `[]CleanUnload` |
| `ExtensionImplementsRequests` | `ImplementsRequests` |

`ExtensionAssumption` says that no plugin is named as the model names the states of a handle,
and no outcome as it names the others: names of the model, about which the code says nothing.

`ExtensionInv` is the conjunction of the types and

* `LifeInv`: how loading and unloading go together with the thread, the queue, the records and
  the handles;
* `RecordInv`: a record is that of a request in flight or just ended, is marked only while its
  progress callback runs, has a loaded owner and an open client unless a loop is about to drop
  it, and has a cancellation only if its owner asked for one. `RecordOutlivesCallback` and
  `RecordsHaveOwners` follow from it and from `CallbackInv`, the same seen from the callback;
* `EventInv` and `CompletionInv`: a completion anywhere between the thread and the frame's
  vector is that of a request that has ended, says Cancelled only where that was asked for, and
  exists for every record whose request has ended;
* `UnusedInv`, `DroppingInv`, and the properties that are inductive with the rest.

The refinement to `RequestService` maps a step at a time. The step that begins a loop over
`DropJob` silences at once all that the loop will drop, so the steps of the loop, and whatever
the transfer thread does between them, are stutters.

### Downloads

`DownloadProofs` proves, for every set of calls, sequence of object sizes, `MaxRetries` and
server (`DownloadAssumption`):

| Theorem | Under | States |
|---|---|---|
| `DownloadTypes` | nothing else | `[]DownloadTypeOK` |
| `OnlyStartingOver` | `~LossyClose` | `OnlyStartingOverShrinks`, calls that share a path included |
| `DownloadInvHolds` | `Undisturbed` | the inductive invariant `DownloadInv` |
| `PathsAreWhole` | `Undisturbed` | `[]PathIsWhole` |
| `PartsArePrefixes` | `Undisturbed` | `[]PartIsPrefix` |
| `NoWriterStays` | `Undisturbed` | `[]NoWriterBehindPath` |

`Undisturbed` is `~Overlap /\ ~StaleParts /\ ~LossyClose`: calls follow each other, the object
is not replaced while a part file of it is left, and closing a file loses nothing. The code
needs each of the three: section 6 names the run or the constant that refutes `PathIsWhole`
without it.

`OnlyStartingOver` needs no invariant beyond the types. It does not say that a retry keeps
what was stored: `StartsOver` names the two places where the code empties the part file, the
open of any attempt, a retry included, of a call made without `resume`, and the restart after
an answer that ignored `Range`. A call with `resume` is left with the second alone.

`PathIsWhole` is about the moment of the rename. What makes it inductive is `AttemptInv`, an
account of the attempt that writes: before the answer the file is as the open left it; an
answer that ignored `Range` has the whole object still to come; what is left of any other
answer continues exactly where the file ends and is written there, by append or at the
position. With it `PartInv` (the part file begins the version that is current) and `DestInv`
(the path names a whole version, and not the file that is written) carry over every step.

### Progress

`ProgressProofs` builds on that, for every assignment of byte counts to chunks that grows with
them and every `CellMax` (`ProgressAssumption`):

| Theorem | Under | States |
|---|---|---|
| `ProgressFitsCells` | `Undisturbed` | `[]ProgressInCells` |
| `ProgressIsTruthful` | `Undisturbed` | `ProgressTruthful` |
| `FinalProgressIsShown` | `Undisturbed`, `Announced`, no empty object | `FinalProgressShown` |

The inductive invariant adds to `DownloadInv` that what is shown is in order and is what
`m_lastProgressValue` says, clamped. `CountsOfAttempt` is the heart of it: `dlnow` plus the
offset is the length of the part file, through a restart that clears the offset. Without
`Content-Length`, and for an empty object, the last theorem is false (section 6).

### Uploads

`UploadProofs` proves, for every set of calls, every set of `Writers`, sequence of lengths,
`MaxLength` and `MaxRetries` in `Int` (`UploadAssumption`), that `UploadSpec` implies

| Theorem | States |
|---|---|
| `UploadTypes` | `[]UploadTypeOK` |
| `SnapshotsAreStored` | `StoresSnapshot` |
| `StoredChunksStood` | `ChunksFromFile` |

The inductive invariant `SnapshotInv` says of every call (`CallInv`) that it has seen what the
path names and what its attempt reads from, and two things of an attempt that sends. What it
sent stood, chunk by chunk, at its place in some content the call has seen (`Stood`). And if
it is not torn, there is one content among them of the promised size with which the attempt's
inode still begins, since such an inode was only appended to or lost its name, and what was
sent begins that one (`Snapshot`). `StoresSnapshot` is false of torn attempts, in both ways
(section 6).

### The retry timer

`RetryTimerProofs` proves, for every set of jobs, each with its own `MaxRetries` in `Int`,
every base and cap of the backoff, every longest poll `MaxWait` and every longest pass
`PassTime` (`RetryTimerAssumption`), that `RetrySpec` implies

| Theorem | States |
|---|---|
| `RetryInvHolds` | the inductive invariant `RetryInv` |
| `RetryTypeCorrect` | `[]RetryTypeOK` |
| `RetriesNotLate` | `[]RetriesOnTime` |
| `RetriesBackOff` | `BacksOff`, under `CapIsReached` |

`ShiftAssumption` says what the powers of two are that `ScheduleRetry` computes: the provers
know nothing of exponentiation, TLC evaluates it.

`RetriesOnTime` allows a retry to be late by two passes wherever the loop is. That is not
inductive: after a pass that began late the next one could add its own time. `RetryInv`
bounds the lateness by the place of the loop (`Earliest`): before `StartDueRetries` by a
pass and what has gone by of this one, after it by the time of this pass alone, since
every deadline missed before was dealt with, and in `curl_multi_poll` by what is still to
be slept less that time. The poll is entered with no more than the nearest deadline leaves:
`ComputeWaitMs` takes a least element, which every set of naturals has (`LeastNatural`, by
the well-foundedness of strict inclusion of finite sets, in place of an induction). The
theorem then reads: at any place the bound is at least minus two passes.

`BacksOff` compares the shift in the code, whose exponent is limited to 10, with a delay that
doubles from attempt to attempt without limit. They agree for every number of retries where
ten doublings reach the cap (`CapIsReached`; in the code 1000 ms and 30000 ms, five would do):
the shift solves the recursive equation of the reference, and of two solutions that differ
there would be a least attempt at which they do (`DoubledIsBackoff`). `DelayInv` adds that what
is left of a wait and what went by are together the delay that was drawn.

### Addressing

`AddressingProofs` proves

* `DecodeUndoes`: for every string of bytes, the server's percent decoding of what `UriEncode`
  makes of it is the string, whether slashes are encoded or not;
* `RequestsUnderstood`: for every request a plugin can make for a key that a URL can name, one
  that is not empty and has no segment `.` or `..` (`IsAddressable`), whatever other bytes the
  key has and whatever source, prefix, token and page size, with path style, a virtual host or
  the public URL, `Understood(BuildRequest(spec)) = Meaning(spec)`. For other keys it is false
  (section 6).

The second is about whole URLs: no part may end early. `UriEncode` leaves none of the characters
that end a host, a path, a query or a parameter (`Encoded`), so libcurl finds host, path and
query where `BuildSignedUrl` and `BuildPublicUrl` put them together (`ResolveIs`), and the
server finds each parameter of `BuildListQuery` (`QueryMeans`); the key is what follows the
bucket's root (`KeyIs`). The scheme is found in what `ParseEndpoint` and `TrimSlashes` leave
(`SchemeOf`). `Squash` leaves the path alone, because encoding makes no dot segment: the dot
segments of a root that ends with a slash followed by an encoded key are those of the key
(`EncodedDots`, character by character with `DotsGrow`).

It assumes that the settings name this service (`AddressAssumption`): the endpoint's host is
the service's, a public URL ends in the public site's host and path, the names of hosts and of
the bucket hold no `/`, `?` or `#`, neither the bucket nor the path of the public site has a
dot segment, and the public site is another host than the service's two.
Without the last one no server could tell a signed request from a public one; with another host
in the endpoint the plugin talks to another service.

### Listing

`ListingProofs` proves, for every finite set of keys that are strings of bytes, addressable and
not white space alone, which the XML parser drops (`IsPlainKey`, section 7), every set of prefixes and page sizes, every
limit of the server on a page and every size of the buffer (`ListingAssumption`), that
`ListingSpec` implies

| Theorem | Under | States |
|---|---|---|
| `ListingTypeCorrect` | nothing else | `[]ListingTypeOK` |
| `NothingGoesAstray` | nothing else | `[]NothingAstray` |
| `ListingsAreComplete` | `MaxBody >= PageLimit + 2` | `[]CompleteListing` |

The hypothesis says that a page with its root element and its token fits `kMaxListBody`; in the
code that is 4 MiB for 1000 keys. Without it the theorem is false (section 6).

`ListingInv`, the types with `astray = FALSE`, is inductive by `RequestsUnderstood`. What makes
`CompleteListing` inductive is `LoopInv`, which says of a loop with a request in flight
(`Behind`): a token follows the last key listed, and a key that was there throughout has been
listed or comes after that token. It is kept because a page that arrives adds all the keys that
are left up to its last one, in order (`PageAdds`, `ListedGrows`), because an attempt that
broke off leaves nothing in the body (`AttemptBodyIs`), and because whatever other requests do
to the bucket, they take a key away from those that were there throughout or leave it.
`PageParsed` says that the parser finds in a whole page what the server put there.

Keys are ordered by `Less`, a strict total order of byte strings (`LessIrreflexive`,
`LessTransitive`, `LessTotal`), and a finite set of them can be listed in that order
(`InOrderIs`).

The operators here run over sequences of any length, and there is no induction to be had. What
they need of it comes from a least counterexample: the lengths for which a claim fails are a set
of naturals, a set of naturals that is not empty has a least element (`LeastNatural`), and at
the least one the claim is shown to hold from the one before. So `DecodeUndoes`,
`FlattenExists`, `HasLast` and `HasEnumeration` are proved.

### Only model-checked

Liveness and everything that speaks of fairness, which is outside the prover:
`CancelTakesEffect`, `StopReturns`, `EveryJobEnds`, `KeepsServiceFairness` and
`RequestsResolved`. Every other property of a passing run is stated by a theorem.

## 5. Mutants

Next to a definition stands, where it matters, a variant marked *Mutant*: the same
operator with a plausible bug. They are used by no specification. Putting one in the place
of the original makes the property it is paired with in `PROJECT.json` fail, which shows
that the property depends on that piece of code.

## 6. Where the code and its documents disagree

| Run | What happens | The document |
|---|---|---|
| `cancel_race` | `Cancel` returns true, but the completion was already on its way: the callback gets its own status | README "its callback runs with `S3Status_Cancelled`", `s3.inc` "The callback still runs with S3Status_Cancelled." |
| `replaced` | a resumed call continues the part file of an older version of the object: `Range` is sent without `If-Range` | README:133 "renames it onto `path` when the download completes; call it again with `resume = true` to continue an interrupted download" |
| `range_at_end` | a complete part file makes the resumed call ask past the end; the 416 deletes it and the call fails | README "call it again with `resume = true` to continue an interrupted download" |
| `http_status` | a request cancelled while its response arrives completes with HTTP status 0, because `m_httpStatus` is only read when an attempt ends | `s3.inc:27` "HTTP status code of the last attempt, or 0 if no response was received." |

Others have no run of their own; each shows in a run above when the constant, or the part of
the property, that is named with it is changed:

* Two `GetFile` calls for one path share the part file, and one renames what the other still
  writes (`PathIsWhole`, `Overlap = TRUE`).
* `fclose`'s result is ignored, so bytes it could not flush are missing under the path of a
  request that ended with Ok (`PathIsWhole`, `LossyClose = TRUE`).
* A server that ignores `Range` and sends an empty body never triggers the restart, which
  `WriteCallback` decides: the stale part file is renamed (`PathIsWhole`,
  `Sizes = <<2, 0>>`, `RangeSupport = {FALSE}`).
* A download made with `resume = FALSE` empties its part file for every attempt: `OpenFiles`
  (`s3job.cpp:174-184`) asks for `resume` alone, so a retry after a broken connection fetches
  the whole object again, although the README (line 7) says that the extension "resumes
  interrupted downloads and retries transient failures" (`OnlyStartingOverShrinks` without the
  first disjunct of `StartsOver`).
* A file rewritten, or cut off and written again, in place while an attempt sends it is stored
  as parts of two versions and the request ends with Ok: `ReadCallback` (`s3job.cpp:444-454`)
  reads what the inode holds by then (`StoresSnapshot` without `~torn[c]`,
  `Writers = {"rewrite"}`). No document says that the file must not be written meanwhile.
* A file deleted or replaced between `fopen` and `FileSizeOf` is uploaded with the size of
  something else, of nothing at worst, and the request ends with Ok (`StoresSnapshot` without
  `~torn[c]`, `Writers = {"replace"}` or `{"delete"}`).
* A key with a `.` or `..` segment addresses another object, since libcurl squashes the URL's
  path (`s3job.cpp:264`, no `CURLOPT_PATH_AS_IS`), and the empty key addresses the bucket
  (`NothingAstray`, with such a key in `Keys` and `IsPlainKey` taken out of
  `ListingAssumption`).
* A page larger than the body cap loses objects or its token, and the plugin is told Ok
  (`CompleteListing`, `MaxBody = 2`). The README documents the truncation.
* Without a `Content-Length` the last report of a download may fall to the throttle
  (`FinalProgressShown`, `Announced = FALSE`).
* A download of an empty object that succeeds after an attempt whose error body was reported
  leaves the plugin with the byte count of that error, since `PostProgress` makes no report
  of 0 of 0 bytes (`FinalProgressShown`, `Sizes = <<0>>`).

Two are visible in the statement of `ProgressTruthful`: between the headers of a 200 to a
Range request and its first chunk the total shown is too large by the resume offset, and the
bytes of an error body are reported as if they were the object's.

## 7. What is not modelled

The setters of timeouts, retries and speeds and the accessors of responses and lists (each
copies one value); signing, which is libcurl's; the other curl options; response headers and
the wording of errors (`text.cpp`, `ParseErrorBody`); dates, sizes and tags of listed
objects; CA bundle detection; logging; build and packaging. `Progress` covers downloads: an
upload passes libcurl's two counts through the same throttle without an offset.

Within what is modelled: the order of jobs within one container. Loading is its success:
`SDK_OnLoad` returns false where `curl_global_init`, one of the three `CreateType` or
`TransferThread::Start` fails (`extension.cpp:36-82`), `Start` itself where the multi handle
cannot be made (`transfer_thread.cpp:10-15`); SourceMod does not run an extension that failed to load, and
`OnLoad` and `Start` leave those returns out. Keys of white space alone, which the XML parser
drops, and keys that are not addressable (section 6) are left out of `Listing` by an
assumption: such keys do not survive the trip. No property covers that a request keeps the
settings it was submitted with (`natives.cpp:157`), because every address of the bucket names
the same objects; the copy is in the model as `spec.config`.
A stall with `Timeout` of 0 or less, which disables libcurl's stall detection, is outside
`NetworkFairness`. Error bodies sent with a 200, as S3 may answer a Copy, are not modelled.

## 8. Plan

Done, in the order of importance: the queue, the job and the thread; the service they
implement; the extension on top, and the request service it implements; downloads with their
progress; uploads; the retry timer; addressing and listing. Proved for every instance: every
safety and action property of the passing runs, and both refinements.

Next theorems: the four disagreements as what the code does promise instead, each with the
hypothesis that excludes the case (a resume of an object that stayed the same and a part file
shorter than it succeeds; a cancellation before the thread has finished the job is what its
callback gets); and what a page that does not fit the buffer leaves of a listing.

Further modelling, if the code grows that way: error bodies and headers.
