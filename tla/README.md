# TLA+ verification of the emulator's native runtime, browser player and services

The repository holds a web game library with a browser player, a Tauri application that runs libretro cores
natively on macOS, Linux, Windows and Android, and a companion process that runs Switch games. Its own logic, as
opposed to the cores, emulators and toolkits it drives, lies where threads, processes, browser tasks and
requests meet: a save worker, a session worker, two frame queues, a companion process, the rooms of the web
server and the pages that use them, the presentation worker of the browser player, its save files and save
states, and the library of games on a device. Those are modelled here.

Contents: 1 inventory · 2 modules and how they read against the code · 3 runs, bounds, fairness · 4 proofs ·
5 known divergences · 6 further hazards · 7 not modelled, and the plan

`R/` below is `src/native-offline/native-runtime/`, `T/` is `src/native-offline/src-tauri/src/`,
`E/` is `src/native/eden-bridge/`, `S/` is `src/static/`.

## 1. Inventory

### Modelled

**Save worker** (`R/core/save_persistence_worker.h`). State: `queue_` with one pending job per path, `active_`,
`stopping_`, `background_error_`, and the files. Operations: `write_async`, `write_async_with_completion`,
`write_and_wait`, `flush`, the destructor, and the worker's loop (temporary file, rename, completions). Used by the
session's host and by the older macOS host. Hard: coalescing while an older job is being written, failures between two
file operations, a crash at any point, missed wakeups, shutdown with work pending. Correct when: what was reported
saved stays saved; the newest snapshot is never silently lost; a flush covers what came before it; everyone who waits
returns.

**Session** (`R/core/native_core_session.cpp`, host in `libretro_host.cpp`). State: a bounded command queue,
the atomics `paused_`, `speed_`, `stopping_`, `running_`, the loaded core. Operations: `set_paused`,
`set_speed`, the saving and loading requests, `stop`, and the worker's loop. The caller is the platform loop of
`linux_runtime.cpp`; `jni_runtime.cpp` drives `NativeCoreHost` directly, without a session. Hard: callers and worker
both write the atomics, control commands supersede each other, stopping races with submitting. Correct when: the last
`set_paused` wins; a save holds the state it answers for; the cartridge memory of the end is on disk; every call
returns.

**Hosted-frame ring** (`E/src/hosted_frame_producer.cpp`, `an3_eden_hosted_frame*.c`,
`T/hosted_frame_consumer.mm`). Shared memory between the Switch companion, which copies presented frames into
surfaces, and the app, which imports the newest and draws it. State: the ring, a process-shared mutex, the two
threads, the texture on screen. Hard: two processes, either may die holding the mutex; surfaces are rebuilt.
Correct when: a surface being imported is not written; frames only get newer; neither side hangs the other.

**Software frame queue** (`R/video/software_frame_queue.cpp`). Three slots between the core's thread and the
platform's presenter; pixels are copied outside the mutex. Correct when: a slot has one user; the core always
finds one; the newest frame survives; frames are shown in order, and eventually.

**Switch companion** (`T/switch_companion.rs`, commands in `T/lib.rs`, the process in `E/companion/main.cpp`).
The app launches a process, sends a line and reads a line, learns of the ring from its output, and stops it by
asking and then killing. State: the registered process, the lifecycle lock, the feature flag and the setting it is
kept in, the pipes, the reader threads. Hard: a companion that fails, crashes, hangs or answers late; settings requests
that read the flag, await the file and store the flag, several at once; switching the feature off during a launch.
Correct when: no companion unknown to the app, none once a switch-off has stopped it; replies match commands; the
app never hangs.

**Multiplayer rooms** (`RoomService` in `src/netcode.py`, handlers in `src/app.py`). State: rooms with two
seats, each with a device, a token and the latest input. Operations: create, join, resume, reconnect, leave,
publish, reap, all under one lock, but a leave takes it twice. Hard: requests late, lost or repeated; expiry
between any two. Correct when: a seat, its token and its checkpoint belong to one player, who keeps them until
his own or the host's leave, the time or the host's next room.

**Browser renderer** (`S/renderer-worker.js`; `VideoBackend` and `EmulatorSession.startVideoRenderer` in
`S/player-runtime.js`). The page copies finished frames of the emulator's canvas and has them drawn on a canvas above
it, by a worker or on the page. State: the session, the bridge's `active`, `stopped`, `outstanding`, `webgl2Retried`,
the worker, messages both ways, the status shown. Operations: `start`, `captureLatestFrame`, the worker's handlers,
`handleResult`, `recoverWebGL2`, `stop`. Hard: a start that a timer, a message, an error and a stop race for; awaits
between a check and its use; frames in flight across a recovery. Correct when: the emulator's canvas is hidden only
behind a picture; the count of frames in flight is exact; the status names what draws; it never jams.

**Battery save in the browser** (`S/local-save-recovery.js`, its callers in `S/player.js`). The save of a
game lives in the core, in a file in memory, in IndexedDB and in a backup in localStorage. Operations:
populate, restore, flush by timer, Exit and pagehide. Hard: flushes overlap with each other and with a populate nobody
awaits; storage fails or stays silent; the tab dies. Correct when: nothing stored is taken back, a flush that
succeeds has stored what it took, and Exit leaves.

**Save states and autosave** (`QuickSaveManager` in `S/player-runtime.js`, its callers in `S/player.js`). Operations:
`runAutosave` from a timer, a button and Exit, the numbered slots, loading, the mode. Hard: no guard between the
calls, digests in any order, digests that are only of samples, transactions that fail. Correct when: an autosave is
skipped only if the record has its digest, and its very state unless that digest is a sampled one, and the record
catches up.

**Room pages** (`S/multiplayer.js`, the room panel of `S/player.js`). A tab's membership: token in memory and in
sessionStorage, requests to create, join, resume and leave, polls, and the back/forward cache. Hard: several
requests at once, replies lost or in any order, rooms of several friends, tabs frozen, evicted or killed. Correct when:
a seat that the server keeps is one the tab can still leave or resume, unless it gave the room up for another; a real
unload leaves; polling ends.

**Library on the device** (`S/offline.js`). A record of each game in IndexedDB and its file, in the browser's private
file system, if it has one, or in the native app's folder. Operations: importing, repair, removal, reconciliation,
rendering. Hard: renders overlap with each other and with all else, storage fails, the page goes away between file and
record. Correct when: the grid ends up showing what is stored, a record has its file (where there is a place for
files), a listed file gets its record.

### Not modelled

Section 7 has the table and the reasons; `PROJECT.json` lists each part with its files.

### How the parts meet

The platform loop calls the session (commands) and the frame queue (presenting); the session's worker calls the
core, which calls back into the frame queue; its host hands snapshots to the save worker. `NativeCoreSession`
uses the save worker by what `SavePersistence` shows of it: one snapshot pending per path, the newest, written
or failed as a whole. The companion produces the ring the app consumes; `SwitchCompanion` knows the ring
only as a record that it exists, `HostedFrameRing` knows the processes only as alive or dead.

In the browser the player page starts the renderer, the restore of the battery save, the autosave timer and the room
panel; they share the page's life (loading, pagehide, crashes), which each module has, and no other state, but
for one thing: loading a save state changes the core's battery save (`rolled` in `BatterySave`). `RoomPages` is the
client of `RoomService`: of the server it keeps which tokens of this browser are valid, as `RoomService` has
them (a host's new room supersedes his old one, a rejoin or a resume replaces the token, a leave of a dead token does
nothing), and refusals may happen at any time. The library hands games to the player by their id.

## 2. Modules

| Module | What it is |
|---|---|
| `SavePersistence` | the save worker |
| `SaveStore` | its abstract specification: snapshots of a path are accepted, some newer one is stored, success is told of what is stored |
| `SavePersistence_proofs` | theorems about it |
| `MCSavePersistence` | adds the symmetry used by one run |
| `NativeCoreSession` | session and host |
| `HostedFrameRing` | ring, producer, consumer, view |
| `SoftwareFrameQueue` | the queue |
| `NativeCore_proofs` | theorems about the session and the queue |
| `SwitchCompanion` | app threads, companion processes, readers |
| `EdenCompanion_proofs` | theorems about the companion and the ring |
| `RoomService`, `RoomService_proofs`, `MCRoomService` | rooms; theorems; symmetry |
| `RendererBridge` | page and worker of the browser renderer |
| `BatterySave` | restoring and flushing the browser's battery save |
| `PlayerPage_proofs` | theorems about the renderer and the battery save |
| `AutoSave`, `AutoSave_proofs` | autosave, slots, loading; theorems |
| `RoomPages`, `RoomPages_proofs` | a tab's room membership; theorems |
| `DeviceLibrary`, `DeviceLibrary_proofs`, `MCDeviceLibrary` | the library; theorems; symmetry |

**Reading them against the code.** Variables carry the source's name in their comment. A critical section of a
mutex is one action; code outside a mutex is cut at every operation another thread or process can observe
(file calls, atomic stores, GPU copies, pipe writes). Code of a browser page is cut at every `await`, timer and
message: what runs between two of them is one action. A definition whose comment begins "Mutant of" is a
plausible mistake in the definition below it; nothing uses it, it is there to be substituted to see
that a property would notice. `PROJECT.json` maps each definition to its lines.

*SavePersistence.* A snapshot is its number, counted per path; `disk` and `temp` are what the file and its
`.tmp` hold. `pc` walks the worker through `write`, `rename` (Windows: `remove`, `retry`), `record` and
`notify`. `Enqueue` is `enqueue()`; `WriteAndWait`, the callback and the fire-and-forget call differ in the
waiters they bring. `Crash` empties memory and keeps the files. History variables (`issued`, `acked`,
`failed`, `noticed`, `flushed`) record what callers were promised. A call that is refused changes nothing and is no
action. Timing metrics and the thread id are left out.

*NativeCoreSession.* The machine's state is the number of the frame that made it. `Save` stands for every command that
waits for its file, `Queue` for those that do not, `Load` for those that replace the state. `set_paused` is two steps:
the atomic store, then `enqueue_control`. The save worker is `pending` plus the action `Store`. `wanted` and `lost`
are history: what the last `set_paused` asked for, and that a speed command has erased the queued command that would
have made it so. The loop's break after a failed `run_one` is out of reach: it fails only on a host that is not
running, and nobody but the worker shuts its host down. Core options, layout and the libretro environment are left
out.

*HostedFrameRing.* A surface is named by its rebuild and slot, so an index that survives a rebuild names a
different surface. Every trylock may fail when the other side has the mutex; the hook's retries are counted
(`LockAttempts`), the release has one. Death keeps the mutex as it is: it is not robust. The Metal and Vulkan
calls are outcomes. The 2^32 wrap of the sequence is outside the bound.

*SoftwareFrameQueue.* A frame is its id; pixels are not represented, the slot states that protect them are.

*SwitchCompanion.* The app's commands run on its main thread; each settings request is a task, `t`, and a switch-off
goes on with its stop on a pool thread under the same name. A task is cut where `native_settings` awaits: it reads the
flag (`wasOn`), executes against the file (`saved`), reads the file once more (`found`), stores the flag, stores FALSE
for a switch-off, takes the lifecycle lock, stores FALSE again and stops, the last three only if the flag read at first
was on. `DetectCall` is `switch_companion_detect` (and `switch_feature_enabled`), which store what the file says, or
FALSE, and stop nothing. Processes are numbered in the order of their launch. Pipes are sequences of lines; a
reader moves lines to the channel and records the ring. `CallFails` may give up on a companion that is only slow, and
its reply then comes late. `missed` (a command gave up on the registered companion) and `switchedOff` (a switch-off has
stopped the companion and the flag was not set since) are history. Arguments and contents of commands are left out.

*RoomService.* `rooms` is a partial function from codes; a token is the index of its issue, so `tokens` says to whom
each was issued. `age` counts up to the first value past the time to live. A leave is `LeaveProves` (the handler
authenticates a token for a role) and `LeaveEnds` (it leaves by the role), with anything in between; `leaving` holds
the two with the token, for any number of handlers, since each may end more than once. `since`, the first token of a
seat's member, is history: it tells a member's own leave from one that an earlier holder proved. A request repeated by
a client or a proxy is simply carried out again. A restart of the server is `Init`. `Reconnect` by device has no
endpoint and is kept because the class offers it and the tests call it. `_new_code` fails when no code is free; that a
hundred draws may collide earlier is abstracted. A refusal by the rate limiter changes no room and is `Refused`.

*RendererBridge.* `task` is what `start()` or `recoverWebGL2()` awaits, `capture` where `captureLatestFrame` is;
messages are two queues. `target` counts the canvases put above the source, `drawn` is the frame on it. The worker
has the code's one pending and one rendering frame. Whether the browser transfers canvases is chosen at the start.
Shaders, sizes, counters and timings are left out.

*BatterySave.* The content of a save is the set of the game's own saves it descends from; a fresh core writes a blank
one, `{}`, which is a file all the same, and `Absent` is no file. Each flusher is a record of its step and the save it
took; the game and its timers go on while Exit waits. `alone` (neither a populate or restore replaced the file, nor
the player loaded a state, since it began) is history. Paths, Base64 and digests are left out.

*AutoSave.* A state of the game is its number. A digest is full (SHA-256, which tells a state) or sampled (its length
and some bytes, the same for all states of `Alike`); which of the two a call gets is open at every call, since
`crypto.subtle` may be missing or throw. `last` is the remembered digest; a record carries the digest it was put with,
and loading one recomputes it: a record whose digest was of the other kind is rejected as corrupted. IndexedDB
announces the completions of transactions on one store in their order, so putting a record and being told so
are one step (`AutoPut`). The other slots are like the one modelled.

*RoomPages.* A token is the index of its issue and `issued` says of which seat: the code of a room, of this browser
(the number of its first token) or of a friend, and the role. A create takes the host's seat of this browser from its
earlier room, a join replaces the guest's seat in the joined room only, as in `RoomService`; a browser that joins the
room it hosts has both seats. A request is `ask` (what), `at` (where), `target` (the code to join), `with` (the token
it was sent with) and `got` (the token of its answer), by slot. `given` is history: the seats of a room that the tab
had when another room took its place in memory and store. So is `excused`: it becomes true at the steps at which the
tab loses track of a seat in another way that the code does not prevent, listed at `NoOrphan`; everything else is to
be free of it. A leave is one step at the server here; what happens between its two halves is in `RoomService`. The
relay (`openRoom`, `joinRoom` of EmulatorJS), QR code and texts are left out.

*DeviceLibrary.* A render is a task with its `stage` and what it has listed, read or still puts; a game is its id,
with or without file and record. The page is of the native app, of a browser with OPFS, or of a `bare` one without,
which may gain it at a later visit. Importing by form and through the native picker are the steps `pick`, `put` and,
for a file the app does not support, `drop`; the form of a bare browser goes from `pick` to `bare` (`NothingWritten`),
which puts a record without a file handle: the variable `bare` has those. A file may be imported again under its id
(`Reimport`), one import of an id at a time. A removal deletes record, then file. `excused` is history, for storage
errors and the two cases at `HasFile` and `ShownIsStored`. Covers, metadata and the cores kept offline are left out.

## 3. Runs

Deadlock is checked except in the save runs, where callers may all be done and the worker waits. Where a system may
really have ended (`Finished`, `Ended`, `Closed`) it says so by a step that changes nothing, so any other end is an
error.

| Run | Question | Distinct states |
|---|---|---|
| `save_crash` | POSIX: durability, monotone files, flush, refinement of `SaveStore`, and that calls return, with failures and a crash anywhere | 367,954 |
| `save_windows` | two paths at a backlog of one with the Windows fallback: nothing silently lost | 3,187,974 |
| `session` | pausing, speed, saving, loading, stopping with a frame limit | 186,223 |
| `ring` | writing against importing, order, and that nobody hangs, with deaths and a rebuild | 104,162 |
| `queue` | the frame queue with drops, repeats and a stalled presenter | 4,205 |
| `companion` | no stray, none after a switch-off that stopped it, aligned replies until a command gives up, no hanging | 156,880 |
| `rooms` | seats, tokens and checkpoints with requests late, lost and repeated, leaves in two halves | 82,037 |
| `renderer` | hiding, counting, status and progress through failures, recovery, timers and stops | 1,317 |
| `battery` | flushes, populates and the restore in any order, with failing or silent storage and crashes | 1,466,466 |
| `autosave` | skipping and catching up with overlapping calls, full and sampled digests, out of order, and failed transactions | 145,008 |
| `pages` | the lobby or the player page with own and two friends' rooms, lost and reordered replies, freezing, eviction and crashes | 528,404 |
| `library` | three kinds of pages; imports, repairs, removals and renders in any order, storage errors, a page that goes away at any step | 1,466,439 |

All hold.

**Properties**, each about hazards listed in `PROJECT.json`:

- save: `AckedIsDurable`, `DiskNeverOlder`, `FlushCovers`, `NewestKept`, `WindowsLossIsReported`,
  `ImplementsStore`, `CallersReturn`
- session: `PausedAsAsked`, `SaveIsCurrent`, `FinalRam`, `CallersReturn`
- ring: `NeverOverwriteHeld`, `NewestFrameWins`, `NeitherHangs`
- queue: `NeverWhilePresented`, `NewestKept`, `PresentedInOrder`, `EachPassed`
- companion: `NoStray`, `OffStops`, `AlignedReplies`, `HostReturns`
- rooms: `SeatHolder`, `CheckpointOwner`, `SeatKept`
- renderer: `HiddenBehindPicture`, `OutstandingExact`, `StatusTruthful`, `Progress`
- battery: `DiskGrows`, `FlushPersists`, `ExitLeaves`
- autosave: `SkipIsSafe`, `CatchesUp`
- pages: `NoOrphan`, `UnloadLeaves`, `PollEnds`
- library: `ShownIsStored`, `HasFile`, `Reconciled`

The type invariant of every module is a theorem (section 4); those of `NativeCoreSession`, `SwitchCompanion` and
`BatterySave` can also be model-checked by hand with `<module>_types.cfg`, which have the constants of the runs.

**Bounds and why they are enough.**

- *save*: three writes of one path give an older one on disk, one being written and one pending, and a further
  coalescing; one crash suffices because a crash leaves nothing but files. Two paths and a backlog of one make a full
  queue. The number of writes is bounded, so a flush that endless writers keep from returning is not seen:
  `CallersReturn` is about callers that come to an end. The run with the Windows fallback has no crash.
  `MaxPendingPaths` and `MaxAsyncCompletions` are the code's limits, made small.
- *session*: two callers, one of which controls, with all four control commands; three calls fill a queue of two, and
  are enough for a speed command to erase a resume behind a pause in hand; the limit of two frames is reached and
  passed (three frames).
- *ring*: the real three slots, two tries of the hook, four frames so that every slot is written again, one
  rebuild.
- *queue*: the real three slots, seven calls, more than twice round. The core publishes a bounded number of frames:
  `EachPassed` says that the presenter gets through what there is, not that a core faster than it cannot outrun it.
- *companion*: two processes so that one follows another, two round trips so that a reply can be taken for
  another's, two settings requests at once and three commands in all: one switches off while another switches on
  and a launch is under way.
- *rooms*: two codes, two games, two players with device ids and two without, three tokens, any number of
  leave handlers, time to live 1. A guest who rejoins, a newcomer in his seat and a host's second room
  all happen within three tokens. One sequence number of input frames is enough to be newer than none and not
  newer than the last one.
- *renderer*: the code's ring of two, six frames: three times round, so that frames of the first renderer, of the
  recovery and of the second all exist.
- *battery*: the code's three flushers; two saves of the game tell an older from a newer one; two visits so that the
  second restores what the first stored.
- *autosave*: the code's three callers; two states tell older from newer, and both share their sample; any number of
  visits.
- *pages*: two requests at once, two tokens (one replaces the other, or is of another room), two friends, any number of
  loads. With three tokens `NoOrphan` held too, on the 247,328 states reached before anything is excused.
- *library*: two games of one page kind at a time, three renders of a page (two overlap while a third is due), two
  visits so that one finds what a crash left.

**Fairness.**

- *save*: the worker and a thread inside `flush` keep running; nobody has to call.
- *session*: the worker, a thread between its store and its enqueue, a joining thread, and file operations go on.
- *ring*: each process's thread, while the process lives; the mutex promises nothing, and `NeitherHangs` holds
  because tries are bounded.
- *queue*: the platform loop presents in every round; the core owes nothing.
- *companion*: the app's threads, tasks and readers run; strong fairness for taking the lifecycle lock, which others
  release again and again; nothing at all is asked of the companion, deadlines do the work.
- *rooms*: none, the properties are safety.
- *renderer*: tasks that are ready run, animation frames come while the page is visible, promises of the browser
  settle; a worker need never answer its first message, the ten-second timer is there for that.
- *battery*: only pagehide and unload, once the page is being left; nothing is asked of storage.
- *autosave*: the timer fires while the game plays, digests and transactions end, and a transaction tried again and
  again does not fail every time.
- *pages*: the interval fires and polls are answered, in the end with what the server has; leaves are carried out or
  lost.
- *library*: none, the properties are safety.

## 4. Proofs

Every invariant and every action property of the runs is a theorem. `NativeCore_proofs`, `EdenCompanion_proofs` and
`PlayerPage_proofs` extend two modules each, so the frame queue, the ring and the battery save call their
specifications `QueueSpec`, `RingSpec` and `BatterySpec`; no theorem speaks of two modules at once.

| Theorem | Says | Argument |
|---|---|---|
| `SavePersistence_proofs`: `TypeCorrect`, `AckedStaysDurable`, `DiskMonotone`, `StoreImplemented` | types; on POSIX: reported saves stay on disk, files never get older, the worker implements `SaveStore` | `Safe`: a pending job is newer than the one being written and than the file, and promises no more than its bytes |
| ... `NewestNeverDropped`, `FailuresAreTold`, `FlushAlwaysCovers`, `LossIsAlwaysReported` | the newest snapshot is somewhere or on record as failed; every failure is told; on POSIX a flush covers what came before it; without a crash, a saved snapshot is only lost with a failure on record | `Newest`: the newest accepted is pending, in the worker's hand, stored or failed, and a pending job has it. `Accounted`: who is still to be told of a failure, and what a thread inside `flush` was asked to cover |
| ... `NoneStranded` | whoever waits has a job that will end the wait; the worker neither sleeps nor ends meanwhile | `Attended`: the waiters of a job survive coalescing and go with it, and a sleeping worker has an empty queue |
| `NativeCore_proofs` (session): `SessionTypeCorrect`, `FinalRamHolds`, `SavesAreCurrent` | types; the cartridge memory of the end and the state a save answers for are in their files | `Accepted`: each request is of another caller that waits; `Waiting`: the snapshot of the command in hand, or of the shutdown, is pending or written |
| ... `PauseIsObeyed` | the last pause or resume wins, whatever `set_speed` does, unless a speed command erased it | `Followed`: while nothing is `lost`, a queued pause or resume is the one asked for, and with none queued the command in hand, or else the flag, makes the game so. Under `FewCallers`, below |
| ... `NoneForgotten` | whoever waits has its command queued or in hand; the worker ends with nobody waiting | `Awaited`: erasing controls keeps requests, and the loop ends only with an empty queue |
| `NativeCore_proofs` (queue): `FrameQueueTypeCorrect`, `SlotsApart`, `NewestSurvives`, `OrderKept` | slots have one user; the newest frame survives; order | `QueueInd`: what waits is newer than what is shown, ids differ, the newest is queued. With no slot free and none being written two are ready, so the oldest is not the newest: this needs three slots |
| `EdenCompanion_proofs` (companion): `CompanionTypeCorrect`, `NoStrayCompanion`, `OffLeavesNone` | types; a living companion is registered or in the hand of a thread that launches or stops it; none is left by a switch-off that stops | `Control`: who holds the lifecycle lock and the registration's guard at each step (`Locked`), what a thread has in hand there (`Shape`), and that from the end of a switch-off until the flag is set again nothing lives and nothing is launched (`Off`) |
| ... `RepliesAreAligned` | each reply answers its command, of any companion that no command has given up on | `Talk`: while nothing is `missed`, the pipe of a registered companion and its reader's channel together hold at most one answer, and only while it is awaited; output still under way from a start holds none |
| `EdenCompanion_proofs` (ring): `RingTypeCorrect`, `HeldNotOverwritten`, `NewestWins` | types; no slot written while imported; only newer frames | `RingIInv`: who works on the ring holds the mutex (`RingLocked`), the imported slot is marked and the written one is not (`RingMarked`), the descriptor is the newest (`RingSequenced`) |
| `RoomService_proofs`: `TypeCorrect`, `OneRoom`, `SeatHolderHolds`, `CheckpointOwnerHolds`, `SeatKeptHolds` | types; one room per host; seat, token and checkpoint agree; who may lose a seat and why | `Ind`: `Good` for every room by itself, of each seat of it `GoodSeat`; `OneRoomPerHost`; a leave proved during a membership is its member's (`Pending`); each action keeps some rooms and puts one back (`Keep`, `Put`) |
| `PlayerPage_proofs` (renderer): `RendererTypeCorrect`, `GameStaysVisible`, `StatusIsTrue` | types; the source is hidden only behind a picture; the status names what draws | `IInv`: who may draw in each phase of the start and the recovery (`WorkerAlone`, `Phases`, `Drawing`), and what messages under way can say (`MessagesTrue`: a rendered frame only once there is one, ready only from the worker that is awaited) |
| ... `CountIsExact` | `outstanding` is the number of frames in flight | each step puts a frame into, or takes one out of, one of five places; a sequence that grows or shrinks by a message counts one more or one less |
| `PlayerPage_proofs` (battery): `BatteryTypeCorrect`, `DiskNeverShrinks`, `FlushStoresItsSave` | types; after the restore nothing stored is taken back; a flush that succeeds has stored its save | `BatteryIInv`: what is on disk is in the file, and that in the core (`Chain`); a flush that is `alone` finds its save in both still (`Taken`) |
| `AutoSave_proofs`: `TypeCorrect`, `SkippingIsSafe` | types; a skipped autosave has the digest of the stored one, and is that very state when the digest is full | `Known`: the remembered digest is the record's, which needs that putting and remembering happen in one order; `Told`: a full digest, in the record or on its way, is of the state it came with (`Genuine`) |
| `RoomPages_proofs`: `TypeCorrect`, `SeatsAreKnown`, `OneSeat` | types; no seat is lost track of but in the listed ways; besides what it gave up a tab has one seat at a time | a seat has one valid token (`OneToken`); while nothing is excused at most one seat is neither given up nor being left (`Alone`), an answer under way names it (`Answered`), requests that would replace it carry its token (`Claims`), and what was given up is nowhere on the page (`GivenUp`) |
| `DeviceLibrary_proofs`: `TypeCorrect`, `RecordsHaveFiles`, `ListedIsRecorded`, `GridIsCurrent` | types; a record has its file, unless the form stored it without a place for files; listed files get records; the grid ends up current | `Between`: what a half-done import or removal has stored; `Owed`: what a render still has to put; `Fresh`: the newest render has read the records as they are, or will, or a removal will begin another |

They hold for every value of the constants under these assumptions:

- those named in the modules: bounds are naturals, the queue has at least three slots, `NoJob` and `NoDevice` are not a
  job or a player; for the autosave there may be more callers than the code's three;
- POSIX (`~Windows`) for `AckedStaysDurable`, `DiskMonotone`, `StoreImplemented` and `FlushAlwaysCovers`: on Windows
  they are false (section 5, 1). The other theorems about the save worker are of both platforms, and
  `LossIsAlwaysReported` is what takes the place of durability there;
- `FewCallers` for `PauseIsObeyed`, no more callers than the queue takes commands: `kMaxPendingCommands` is 128
  (`R/core/native_core_session.h:25`) and a caller has at most one request in the queue, so 128 threads would have to
  wait for a control command to be dropped.

**Why the invariants are stronger than the properties.** The properties are not inductive alone. `AckedIsDurable`, for
example, says nothing of the job about to be renamed, which is where an older snapshot could replace a newer one;
`QueueSound` and `WorkerSound` do. `NoOrphan` says nothing of where a seat goes that a request replaces: that the
replaced token was the only one takes `Alone`, which takes that answers and resumes under way cannot be of two
different seats. `NoStray` says nothing of a thread about to register what it launched, nor `AlignedReplies` of the
answers still in the pipe when the reader is behind. `PausedAsAsked` says nothing of a game whose pause is still in
the worker's hand. Each inductive invariant held in TLC on the constants of its run before it was proved.

**Induction over data.** `WithoutControls`, which erases the controls of a queue, is a recursive function; that it keeps
the requests in their order, and no more than there were, is the lemma `Erased`. It rests on `SetInduction`: a set that
holds 0 and each next number holds every natural, proved from the fact that a finite set has no injection into a
proper part of itself. The library's own induction theorem takes an operator, which the provers cannot instantiate.

**Exceptions.** Where the code breaks what one would ask of it, the property excepts exactly those steps, by a history
variable that they set, and a property without the exception is refuted by a configuration (section 5): `lost` in the
session, `missed` and `switchedOff` in the companion, `since` in the rooms, `given` and `excused` in the room pages,
`bare` and `excused` in the library, sampled digests in the autosave. The model always makes the steps; nothing that
happens around them is left out.

**Only model-checked**: what must eventually happen (`CallersReturn` of the save worker and of the session,
`NeitherHangs`, `EachPassed`, `HostReturns`, `Progress`, `ExitLeaves`, `CatchesUp`, `UnloadLeaves`, `PollEnds`).
Fairness and ENABLED are outside the prover's reach. Of the first two the part that is safety is proved for every
constant: `NoneStranded` and `NoneForgotten` say that a wait always has what will end it, and fairness says that the
worker gets there.

## 5. Known divergences

Places where a comment, a message or a test of the repository says one thing and the code can do another, each
shown by a configuration beside the modules that is run by hand (`tlc -config X.cfg M`); TLC answers with the behaviour.

1. *Windows save fallback* (`R/core/save_persistence_worker.h:219`; `SavePersistence_windows_preserve.cfg`, module
   `MCSavePersistence`, `SnapshotPreserved`). When a rename fails the code removes the destination and renames again;
   when that fails too it deletes the temporary file: old and new save are gone, although the comment at 210-212
   says the accepted snapshot is preserved.
2. *A queued resume erased by a speed command* (`R/core/native_core_session.cpp:80`; `NativeCoreSession_speed.cfg`,
   `PausedThroughSpeed`). A pause the worker has already taken is undone only by the resume behind it; `set_speed`
   erases that one. The player is told "Game resumed." (`R/platform/linux/linux_runtime.cpp:661`) and the game stays
   paused.
3. *Slot leak* (`T/hosted_frame_consumer.mm:90`; `HostedFrameRing_leak.cfg`, `SlotsReleased`). The release has one
   trylock; if it fails the slot stays marked for good, and after one failure per slot no frame gets through;
   `E/include/an3_eden_hosted_frame.h:101` says "Consumer releases a slot after it has finished reading it."
4. *Released before drawn* (`T/hosted_frame_consumer.mm:91`; `HostedFrameRing_draw.cfg`, `NotOverwrittenWhileDrawn`).
   The slot is given back once its texture exists, and the view goes on drawing from it while the producer may write,
   against `an3_eden_hosted_frame.h:57` and 91-92.
5. *Replies off by one* (`T/switch_companion.rs:283`; `SwitchCompanion_late.cfg`, `EveryReplyAligned`). A reply later
   than the timeout is taken for the answer to the next command, and so on from there, although each command has one
   reply (`E/companion/main.cpp:204`).
6. *A poll resets an open room* (`S/multiplayer.js:123`; `RoomPages_poll.cfg`, `ResetOnlyWhenGone`). A poll sent with
   the token that a resume replaced is refused, and the lobby stops polling and clears the record of the room it has
   just resumed; the comment at line 124 says "The room expired or the host closed it: stop polling and reset."
7. *A companion with the feature off* (`T/lib.rs:902`; `SwitchCompanion_off.cfg`, `OffMeansNone`). A request that
   switches the feature off decides by the flag it read before its awaits whether to stop the companion. If the flag
   was off then, and another request has set it and a companion was launched meanwhile, FALSE is stored (926, 929) and
   nothing is stopped; detection stores what the file says, or FALSE on an error (949-965), and stops nothing either.
8. *A newcomer put out by a late leave* (`src/app.py:1853`, `src/netcode.py:418`; `RoomService_leave.cfg`,
   `NoLateLeave`). The handler authenticates a token and then leaves by its role. With two leaves of one guest under
   way, the first vacates the seat, another guest joins, and the second puts that one out.
9. *A sampled digest skips an autosave* (`S/player-runtime.js:239`; `AutoSave_sampled.cfg`, `SkipIsExact`). Without
   `crypto.subtle`, or when it throws, a digest is of the length and at most 256 bytes. A state that differs elsewhere
   is taken for the one saved, against "Nothing changed since the last autosave" (`S/player.js:1301`).
10. *A room overwritten by another* (`S/multiplayer.js:209`, `S/player.js:2007`; `RoomPages_switch.cfg`, `OneRoom`).
    Creating or joining a room while the tab has one overwrites the token in memory and store without leaving; the seat
    in the first room stays on the server until the room expires.
11. *"Saved on this device." without a file* (`S/offline.js:108`; `DeviceLibrary_bare.cfg`, `Saved`, module
    `MCDeviceLibrary`). Without `navigator.storage.getDirectory` `writeRom` writes nothing and returns the `File`,
    which the form deletes from the record (636) before it stores it: the game is listed and said to be saved, and has
    no content.

Others were met while reading the code for the models; no configuration shows them, but the models allow them and the
properties are stated around them:

- renderer: stopped during the first render on the page, the bridge hides the source that `stop()` had restored
  (`S/renderer-worker.js:679`), so a page that comes back from the back/forward cache shows no game; `start()` on the
  page sets backend and `active` after its await without the check `recoverWebGL2` makes (`:607`).
  `HiddenBehindPicture` is about bridges that are not stopped.
- battery save: a flush before the restore has ended, or after it failed, may put the core's blank save over the stored
  one and its backup (`S/player.js:994`); the populate of `saveDatabaseLoaded` may end between a flush's write and
  its sync (`:1142`); a backup newer than IndexedDB is not used; pagehide is listened to once, so after a stay in the
  back/forward cache only Exit and the timer flush; Exit gives its saves 1500 ms. `DiskGrows` and `FlushPersists`
  set the first two apart.
- autosave: the pagehide listener is on the document, where the event does not arrive (`S/player.js:1359`; the
  comment above it says it saves before the page closes). `AutoSave` has no such save.
- room pages: the ways to lose track of a seat listed at `NoOrphan` in `RoomPages`, among them a refused resume that
  clears the record, and leaving while only the store knows the room.
- library: the reconciliation puts back a record from a list taken before its awaits, also for a game removed meanwhile
  (`S/offline.js:208`), and a removal whose file could not be deleted comes back with the next one. `HasFile` and
  `ShownIsStored` set them apart.

## 6. Further hazards

`PROJECT.json` lists the hazards the properties are for. Others, met while reading, which no property covers:

- session: a control command is dropped silently when the queue is full of requests, after the one it replaces
  was erased (`R/core/native_core_session.cpp:84`); `load_auto` reads the file while the snapshot of a queued autosave
  may still be pending (`R/core/libretro_host.cpp:530`);
- ring: the 32-bit sequence wraps to 0, which reads as empty (`an3_eden_hosted_frame.c:81`); the copy waits for a
  fence without a bound while holding the mutex (`hosted_frame_producer.cpp:583`); a rebuild that fails once is never
  tried again (`:476`);
- queue: a duplicate relies on the frame before it having been presented (`software_frame_queue.cpp:134`);
- companion: a failed start is taken as ready (`switch_companion.rs:388`); a reader may record the ring of a companion
  that is being stopped (`:374`); a child ended by a signal has no exit code and is reported running (`:293`);
  destroying the main window stops without the lifecycle lock (`T/lib.rs:1197`); a closed companion waits for one more
  line (`E/companion/main.cpp:365`) and outlives an app that died (`:191`); a save that switches the feature on can be
  overwritten by a switch-off still waiting for the lock (`T/lib.rs:936`, modelled as `DisableLock`); the overlay's
  delayed start undoes a stop (`T/hosted_frame.rs:126`);
- rooms: a guest who rejoins is let in before games are compared (`netcode.py:388`); `create_room` supersedes before
  it draws a code (`:331`); a resume whose reply is lost leaves a dead token (`:447`); publishing reads the input
  twice without the lock (`app.py:1909`); a reloaded page counts frames from the start and is taken for stale
  (`netcode.py:282`);
- room pages: a browser without storage has the device id `web-player`, shared with all such (`S/multiplayer.js:36`);
  following the lobby's link into the game leaves the room (`:228`); Host takes the code from the page's text, which
  leaving does not clear, and Join does not look whether the room was left while it awaited the relay
  (`S/player.js:1990`);
- save recovery: the backup is refreshed before the primary store is synchronised (`S/local-save-recovery.js:127`);
  service worker: cores are moved one by one before the old cache is deleted (`S/service-worker.js:40`); gateway:
  pages up to their time to live old (`rust-gateway/src/lib.rs:196`);
- settings store: a save writes back the whole store as it read it, so one of other settings can undo the feature's
  (modelled in `SwitchCompanion` as `SettingsWrite`); two saves at once use one temporary file
  (`T/native_settings.rs:201`);
- Eden bridge: a stop that fails leaves the state Started (`an3_eden_bridge.cpp:317`); AAudio: `metrics()` uses a
  stream `shutdown()` may be closing (`aaudio_backend.cpp:479`), and a shorter latency shrinks the ring
  below what is queued (`:448`); limiter: eviction forgets that a client was limited (`netcode.py:129`).

## 7. Not modelled, and the plan

| Part | Why |
|---|---|
| `SlidingRateLimiter` and the server's limiter | self-contained; a refusal changes no room |
| web server (`app.py` outside rooms), bug reports, QR encoder | file serving, SQL, forms, third-party code |
| gateway (`rust-gateway/`) | stateless proxy with a time-to-live cache |
| player page: controls, touch (`nds-touch.js`), menus | input and layout over a third-party emulator |
| cores kept offline (preloading, inspecting and deleting in `offline.js`), `service-worker.js` | two owners of one cache; the next module |
| relay and netplay client | EmulatorJS, third-party; what the pages ask of it is in section 6 |
| native web pages (`native-app.js`, `native-bootstrap.js`, `game-settings.js`), Tauri shell | forms and commands; the commands that matter are in `SwitchCompanion` |
| `native-settings.js` | generated: 6000 lines of settings as data, and validation of a value against its definition, without state |
| settings store (`native_settings.rs`) | one file, read, changed and replaced; of it `SwitchCompanion` has the experimental feature's setting; planned |
| `gen/android/.../assets` | copies of the web files, generated by the build |
| Azahar host (`T/azahar_host.mm`) | older host of the same design; its save worker is the modelled header |
| video backends, Linux/Windows platform, Android app | graphics, window and widget calls; their threads appear as callers |
| AAudio ring (`R/platform/android/aaudio_backend.cpp`), Eden bridge states | planned |
| an3ctl, installers, vendored and generated code | sequential tools, not this program's logic |

Done, in this order: save worker, session, ring, queue, companion, rooms, renderer, battery save, autosave, room pages,
library.

Next, modelling:

1. `CoreCache`: the cores that `offline.js` preloads and deletes and the service worker moves between its caches.
2. `SettingsStore`: two saves at once; `SwitchCompanion` with the overlay's delayed start and the destroyed main window.
3. `AudioRing`: the lock-free ring of `AAudioBackend` between core and audio callback, with latency changes.
4. `RoomPages` composed with `RoomService`: two browsers, so that what one sees of a room agrees with the other.
5. `RateLimiter` against a reference definition of "at most `limit` in a window"; `BridgeLifecycle`.

Next, proving:

1. The part that is safety of the other liveness properties: a thread of the companion that waits has a deadline or a
   reader ahead of it (`HostReturns`); the hook's tries only fall (`NeitherHangs`); a renderer that owes a frame has a
   message, a timer or a rendering under way (`Progress`).
2. That the host's use of the save worker (`pending` and `Store` of `NativeCoreSession`) is what `SavePersistence`
   gives.
3. `RoomPages` against `RoomService`: the tokens that the page's model keeps are those of the rooms.
4. `FrameQueue` as an abstract queue that drops its oldest, implemented by `SoftwareFrameQueue`.
