--------------------------- MODULE SavePersistence ---------------------------
(***************************************************************************)
(* SavePersistenceWorker: one thread owns every save-file write of a native *)
(* session.  Callers enqueue snapshots; two pending snapshots of one path   *)
(* collapse into the newer.  The worker takes jobs in order and writes each *)
(* through a temporary file outside the lock.                               *)
(*                                                                          *)
(* A snapshot's bytes are the number of its write among the writes accepted *)
(* for its path, so "newer" is "<".  Every critical section of mutex_ is    *)
(* one action; file-system calls are separate actions, because a crash or a *)
(* caller may come between them.  A rejected call changes nothing and is    *)
(* not an action.                                                           *)
(***************************************************************************)
EXTENDS Naturals, Sequences, FiniteSets

CONSTANTS
    Paths,                \* save-file paths
    Threads,              \* threads that call the worker
    MaxPendingPaths,      \* kMaxPendingPaths
    MaxAsyncCompletions,  \* kMaxAsyncCompletionsPerPath
    MaxWrites,            \* bound: writes accepted per path
    MaxCrashes,           \* bound: crashes of the process
    Windows,              \* TRUE for the _WIN32 branch of the file write
    NoJob                 \* the worker holds no job

ASSUME MaxWritesAssumption == MaxWrites \in Nat
ASSUME LimitsAssumption ==
    /\ MaxPendingPaths \in Nat \ {0}
    /\ MaxAsyncCompletions \in Nat \ {0}
    /\ MaxCrashes \in Nat
ASSUME PlatformAssumption == Windows \in BOOLEAN

VARIABLES
    queue,      \* queue_: pending jobs, at most one per path
    job,        \* the job the worker took from the queue
    active,     \* active_
    pc,         \* where the worker thread is
    success,    \* the worker's local result of the current write
    background, \* background_error_ is not empty
    stopping,   \* stopping_
    status,     \* thread -> what the calling thread is doing
    disk,       \* path -> snapshot in the file, 0 when there is no file
    temp,       \* path -> snapshot in path + ".tmp", 0 when there is none
    issued,     \* path -> number of writes accepted so far
    acked,      \* <<path, snapshot>> reported as saved
    noticed,    \* <<path, snapshot>> whose failure some caller has seen
    failed,     \* <<path, snapshot>> whose write failed
    lost,       \* path -> number of writes accepted before the last crash
    asked,      \* thread -> the writes its flush call has to cover
    flushed,    \* path -> newest snapshot covered by a flush that returned true
    crashes

worker   == <<job, active, pc, success>>
files    == <<disk, temp>>
history  == <<issued, acked, noticed, failed, lost, asked, flushed, crashes>>
vars == <<queue, job, active, pc, success, background, stopping, status, disk,
          temp, issued, acked, noticed, failed, lost, asked, flushed, crashes>>

Snapshots == 1 .. MaxWrites
Request   == Threads \X Snapshots
Job == [path : Paths, bytes : Snapshots,
        completions : SUBSET Request, asyncs : SUBSET Snapshots]
ASSUME NoJobAssumption == NoJob \notin Job
PcStates == {"check", "blocked", "write", "rename", "remove", "retry",
             "record", "notify", "exited"}
ThreadStates == {"ready", "waiting", "flush", "idle", "gone"}

TypeOK ==
    /\ queue \in Seq(Job)
    /\ job \in Job \cup {NoJob}
    /\ pc \in PcStates
    /\ job = NoJob <=> pc \in {"check", "blocked", "exited"}
    /\ active \in BOOLEAN
    /\ success \in BOOLEAN
    /\ background \in BOOLEAN
    /\ stopping \in BOOLEAN
    /\ status \in [Threads -> ThreadStates]
    /\ disk \in [Paths -> 0 .. MaxWrites]
    /\ temp \in [Paths -> 0 .. MaxWrites]
    /\ issued \in [Paths -> 0 .. MaxWrites]
    /\ acked \subseteq Paths \X Snapshots
    /\ noticed \subseteq Paths \X Snapshots
    /\ failed \subseteq Paths \X Snapshots
    /\ lost \in [Paths -> 0 .. MaxWrites]
    /\ asked \in [Threads -> [Paths -> 0 .. MaxWrites]]
    /\ flushed \in [Paths -> 0 .. MaxWrites]
    /\ crashes \in 0 .. MaxCrashes

Init ==
    /\ queue = <<>>
    /\ job = NoJob
    /\ pc = "check"
    /\ active = FALSE
    /\ success = FALSE
    /\ background = FALSE
    /\ stopping = FALSE
    /\ status = [t \in Threads |-> "ready"]
    /\ disk = [p \in Paths |-> 0]
    /\ temp = [p \in Paths |-> 0]
    /\ issued = [p \in Paths |-> 0]
    /\ acked = {}
    /\ noticed = {}
    /\ failed = {}
    /\ lost = [p \in Paths |-> 0]
    /\ asked = [t \in Threads |-> [p \in Paths |-> 0]]
    /\ flushed = [p \in Paths |-> 0]
    /\ crashes = 0
-----------------------------------------------------------------------------
(* Callers *)

Pending(p) == {i \in DOMAIN queue : queue[i].path = p}

QueueFull == Len(queue) >= MaxPendingPaths

\* A further callback on a pending job, or a job for a new path, needs room.
HasRoom(p, asyncs) ==
    IF Pending(p) # {}
    THEN \A i \in Pending(p) :
            asyncs # {} => Cardinality(queue[i].asyncs) < MaxAsyncCompletions
    ELSE ~QueueFull

\* Mutants of Merged: the pending bytes are not replaced; the earlier waiters
\* of the pending job are dropped.
MergedKeepsBytes(j, v, completions, asyncs) ==
    [path |-> j.path, bytes |-> j.bytes,
     completions |-> j.completions \cup completions,
     asyncs |-> j.asyncs \cup asyncs]

MergedDropsWaiters(j, v, completions, asyncs) ==
    [path |-> j.path, bytes |-> v, completions |-> completions,
     asyncs |-> j.asyncs \cup asyncs]

\* The newest bytes replace those of the pending job of the path, which keeps
\* its place; its earlier waiters and callbacks stay with it.
Merged(j, v, completions, asyncs) ==
    [path |-> j.path, bytes |-> v,
     completions |-> j.completions \cup completions,
     asyncs |-> j.asyncs \cup asyncs]

Coalesced(p, completions, asyncs) ==
    IF Pending(p) # {}
    THEN [i \in DOMAIN queue |->
            IF i \in Pending(p)
            THEN Merged(queue[i], issued[p] + 1, completions, asyncs)
            ELSE queue[i]]
    ELSE Append(queue, [path |-> p, bytes |-> issued[p] + 1,
                        completions |-> completions, asyncs |-> asyncs])

\* notify_one on work_: the worker, if blocked there, checks again.
Woken == IF pc = "blocked" THEN "check" ELSE pc

Enqueue(p, completions, asyncs) ==
    /\ ~stopping
    /\ issued[p] < MaxWrites
    /\ HasRoom(p, asyncs)
    /\ queue' = Coalesced(p, completions, asyncs)
    /\ issued' = [issued EXCEPT ![p] = @ + 1]
    /\ pc' = Woken
    /\ UNCHANGED <<job, active, success, background, stopping, files, acked,
                   noticed, failed, lost, asked, flushed, crashes>>

WriteAsync(t, p) ==
    /\ status[t] = "ready"
    /\ Enqueue(p, {}, {})
    /\ UNCHANGED status

WriteAsyncWithCompletion(t, p) ==
    /\ status[t] = "ready"
    /\ Enqueue(p, {}, {issued[p] + 1})
    /\ UNCHANGED status

WriteAndWait(t, p) ==
    /\ status[t] = "ready"
    /\ Enqueue(p, {<<t, issued[p] + 1>>}, {})
    /\ status' = [status EXCEPT ![t] = "waiting"]

\* flush() is called: from here on it holds the lock whenever it looks.
FlushCall(t) ==
    /\ status[t] = "ready"
    /\ ~stopping
    /\ status' = [status EXCEPT ![t] = "flush"]
    /\ asked' = [asked EXCEPT ![t] =
                    [p \in Paths |-> IF issued[p] > lost[p] THEN issued[p] ELSE 0]]
    /\ UNCHANGED <<queue, worker, background, stopping, files, issued, acked,
                   noticed, failed, lost, flushed, crashes>>

\* Mutant of Idle: the job being written is not waited for.
IdleQueueOnly == queue = <<>>

Idle == queue = <<>> /\ ~active

FlushBlock(t) ==
    /\ status[t] = "flush"
    /\ ~Idle
    /\ status' = [status EXCEPT ![t] = "idle"]
    /\ UNCHANGED <<queue, worker, background, stopping, files, history>>

\* background_error_ is handed over and cleared; an error text covers every
\* failure recorded since the last hand-over.
TakeError ==
    /\ background' = FALSE
    /\ noticed' = IF background THEN noticed \cup failed ELSE noticed

FlushReturn(t) ==
    /\ status[t] = "flush"
    /\ Idle
    /\ TakeError
    /\ flushed' = IF background THEN flushed
                  ELSE [p \in Paths |-> IF asked[t][p] > flushed[p]
                                        THEN asked[t][p] ELSE flushed[p]]
    /\ status' = [status EXCEPT ![t] = "ready"]
    /\ UNCHANGED <<queue, worker, stopping, files, issued, acked, failed,
                   lost, asked, crashes>>

TakeBackgroundError(t) ==
    /\ status[t] = "ready"
    /\ background
    /\ TakeError
    /\ UNCHANGED <<queue, worker, stopping, status, files, issued, acked,
                   failed, lost, asked, flushed, crashes>>

\* The destructor: no other call may be in progress on the object, but a
\* thread in write_and_wait only holds its own completion.
Shutdown ==
    /\ ~stopping
    /\ \A t \in Threads : status[t] \in {"ready", "waiting"}
    /\ stopping' = TRUE
    /\ pc' = Woken
    /\ status' = [t \in Threads |->
                    IF status[t] = "ready" THEN "gone" ELSE status[t]]
    /\ UNCHANGED <<queue, job, active, success, background, files, history>>
-----------------------------------------------------------------------------
(* The worker thread *)

MayExit == stopping /\ queue = <<>>

FlushersWoken == [t \in Threads |->
                    IF status[t] = "idle" THEN "flush" ELSE status[t]]

WorkerBlock ==
    /\ pc = "check"
    /\ queue = <<>> /\ ~stopping
    /\ pc' = "blocked"
    /\ UNCHANGED <<queue, job, active, success, background, stopping, status,
                   files, history>>

TakeJob ==
    /\ pc = "check"
    /\ ~MayExit /\ queue # <<>>
    /\ job' = Head(queue)
    /\ queue' = Tail(queue)
    /\ active' = TRUE
    /\ pc' = "write"
    /\ UNCHANGED <<success, background, stopping, status, files, history>>

WorkerExit ==
    /\ pc = "check"
    /\ MayExit
    /\ pc' = "exited"
    /\ status' = FlushersWoken
    /\ UNCHANGED <<queue, job, active, success, background, stopping, files,
                   history>>

\* create_directories, the write of path.tmp and its fsync, whose result the
\* code ignores.  On a failure nothing is left of the temporary file.
WriteTemporary ==
    /\ pc = "write"
    /\ \/ /\ temp' = [temp EXCEPT ![job.path] = job.bytes]
          /\ pc' = "rename"
          /\ UNCHANGED success
       \/ /\ temp' = [temp EXCEPT ![job.path] = 0]
          /\ pc' = "record"
          /\ success' = FALSE
    /\ UNCHANGED <<queue, job, active, background, stopping, status, disk,
                   history>>

\* rename(path.tmp, path) is atomic; when it fails POSIX gives up, Windows
\* goes on to remove the destination.
RenameSucceeds ==
    /\ disk' = [disk EXCEPT ![job.path] = temp[job.path]]
    /\ temp' = [temp EXCEPT ![job.path] = 0]
    /\ success' = TRUE
    /\ pc' = "record"

\* Mutants of RenameGivesUp: rename's error is ignored; the clean-up removes
\* the save file instead of the temporary one.
RenameErrorIgnored ==
    /\ temp' = [temp EXCEPT ![job.path] = 0]
    /\ success' = TRUE
    /\ pc' = "record"
    /\ UNCHANGED disk

RenameRemovesPath ==
    /\ disk' = [disk EXCEPT ![job.path] = 0]
    /\ success' = FALSE
    /\ pc' = "record"
    /\ UNCHANGED temp

RenameGivesUp ==
    /\ temp' = [temp EXCEPT ![job.path] = 0]
    /\ success' = FALSE
    /\ pc' = "record"
    /\ UNCHANGED disk

Rename ==
    /\ pc = "rename"
    /\ \/ RenameSucceeds
       \/ ~Windows /\ RenameGivesUp
       \/ Windows /\ pc' = "remove" /\ UNCHANGED <<success, files>>
    /\ UNCHANGED <<queue, job, active, background, stopping, status, history>>

\* Windows only: remove(path), whose error the code discards.
RemoveDestination ==
    /\ pc = "remove"
    /\ pc' = "retry"
    /\ \/ disk' = [disk EXCEPT ![job.path] = 0]
       \/ UNCHANGED disk
    /\ UNCHANGED <<queue, job, active, success, background, stopping, status,
                   temp, history>>

RetryRename ==
    /\ pc = "retry"
    /\ RenameSucceeds \/ RenameGivesUp
    /\ UNCHANGED <<queue, job, active, background, stopping, status, history>>

\* Back under the lock: a failure nobody waits for becomes the background
\* error, and flushers are woken when there is nothing left to do.
RecordResult ==
    /\ pc = "record"
    /\ pc' = "notify"
    /\ active' = FALSE
    /\ background' = (background \/ (~success /\ job.completions = {}))
    /\ failed' = IF success THEN failed
                 ELSE failed \cup {<<job.path, job.bytes>>}
    /\ status' = IF queue = <<>> THEN FlushersWoken ELSE status
    /\ UNCHANGED <<queue, job, success, stopping, files, issued, acked,
                   noticed, lost, asked, flushed, crashes>>

\* Mutant of Told: every completion is completed with success.
ToldSuccess(v) ==
    /\ acked' = acked \cup {<<job.path, v>>}
    /\ UNCHANGED noticed

\* What one waiter or callback of version v learns of the job's outcome.
Told(v) ==
    IF success
    THEN /\ acked' = acked \cup {<<job.path, v>>}
         /\ UNCHANGED noticed
    ELSE /\ noticed' = noticed \cup {<<job.path, job.bytes>>}
         /\ UNCHANGED acked

CompleteWaiter ==
    /\ pc = "notify"
    /\ \E c \in job.completions :
        /\ Told(c[2])
        /\ job' = [job EXCEPT !.completions = @ \ {c}]
        /\ status' = [status EXCEPT ![c[1]] =
                        IF stopping THEN "gone" ELSE "ready"]
    /\ UNCHANGED <<queue, active, pc, success, background, stopping, files,
                   issued, failed, lost, asked, flushed, crashes>>

RunCallback ==
    /\ pc = "notify"
    /\ job.completions = {}
    /\ \E v \in job.asyncs :
        /\ Told(v)
        /\ job' = [job EXCEPT !.asyncs = @ \ {v}]
    /\ UNCHANGED <<queue, active, pc, success, background, stopping, status,
                   files, issued, failed, lost, asked, flushed, crashes>>

JobDone ==
    /\ pc = "notify"
    /\ job.completions = {} /\ job.asyncs = {}
    /\ pc' = "check"
    /\ job' = NoJob
    /\ success' = FALSE
    /\ UNCHANGED <<queue, active, background, stopping, status, files, history>>

\* The process is killed and started again: only the files survive.
Crash ==
    /\ crashes < MaxCrashes
    /\ crashes' = crashes + 1
    /\ queue' = <<>>
    /\ job' = NoJob
    /\ pc' = "check"
    /\ active' = FALSE
    /\ success' = FALSE
    /\ background' = FALSE
    /\ stopping' = FALSE
    /\ status' = [t \in Threads |-> "ready"]
    /\ lost' = issued
    /\ asked' = [t \in Threads |-> [p \in Paths |-> 0]]
    /\ flushed' = [p \in Paths |-> IF flushed[p] > disk[p] THEN 0 ELSE flushed[p]]
    /\ UNCHANGED <<files, issued, acked, noticed, failed>>

Caller(t) ==
    \/ \E p \in Paths : \/ WriteAsync(t, p)
                        \/ WriteAsyncWithCompletion(t, p)
                        \/ WriteAndWait(t, p)
    \/ FlushCall(t)
    \/ FlushBlock(t)
    \/ FlushReturn(t)
    \/ TakeBackgroundError(t)

Worker ==
    \/ WorkerBlock \/ TakeJob \/ WorkerExit
    \/ WriteTemporary \/ Rename \/ RemoveDestination \/ RetryRename
    \/ RecordResult \/ CompleteWaiter \/ RunCallback \/ JobDone

Next == (\E t \in Threads : Caller(t)) \/ Worker \/ Shutdown \/ Crash

Spec == Init /\ [][Next]_vars

\* The worker thread and a thread inside flush() keep running; no caller is
\* obliged to call anything.
FairSpec ==
    /\ Spec
    /\ WF_vars(Worker)
    /\ \A t \in Threads : WF_vars(FlushBlock(t) \/ FlushReturn(t))
-----------------------------------------------------------------------------
(* Properties *)

\* Success is told only of snapshots that are on disk, itself or a newer one of
\* its path, and stays true whatever is saved, fails or crashes afterwards
\* (write_and_wait's return value and the async completions).
AckedIsDurable == \A a \in acked : a[2] <= disk[a[1]]

\* The newest accepted snapshot of a path is never dropped silently: it is
\* pending, being written, on disk, or its write failed -- coalescing and the
\* hand-over from queue to worker lose nothing (up to a crash).
NewestKept ==
    \A p \in Paths : issued[p] > lost[p] =>
        \/ \E i \in DOMAIN queue : queue[i].path = p /\ queue[i].bytes = issued[p]
        \/ pc \notin {"check", "blocked", "exited"} /\ job.path = p
             /\ job.bytes = issued[p]
        \/ disk[p] = issued[p]
        \/ <<p, issued[p]>> \in failed

\* A flush() that returned true covers every write accepted before its call:
\* the bytes are on disk, or a failed write of the path has been, or is about
\* to be, told to somebody.
FlushCovers ==
    \A p \in Paths :
        \/ flushed[p] <= disk[p]
        \/ \E v \in flushed[p] .. MaxWrites : <<p, v>> \in noticed
        \/ pc = "notify" /\ ~success /\ job.path = p
             /\ job.completions # {} /\ flushed[p] <= job.bytes

\* On POSIX no step, crash included, replaces a save file by an older snapshot
\* or leaves the path without one.
DiskNeverOlder == [][\A p \in Paths : disk'[p] >= disk[p]]_vars

\* The comment on the Windows fallback: "The destination is removed only after
\* the durable temporary file is complete; a later rename still preserves the
\* accepted snapshot."  What was reported saved is still in one of the files.
SnapshotPreserved ==
    \A a \in acked : a[2] <= disk[a[1]] \/ a[2] <= temp[a[1]]

\* On Windows a saved snapshot may disappear, but only while a newer one is
\* being renamed into its place or after that newer write has failed.
WindowsLossIsReported ==
    \A a \in acked :
        \/ a[2] <= disk[a[1]]
        \/ pc \in {"retry", "record"} /\ job.path = a[1] /\ a[2] < job.bytes
        \/ \E v \in Snapshots : a[2] < v /\ <<a[1], v>> \in failed

\* write_and_wait and flush always return: the job a caller waits for is
\* completed whatever was coalesced into it, and no wakeup is missed.
CallersReturn == \A t \in Threads :
    /\ status[t] = "waiting" ~> status[t] # "waiting"
    /\ status[t] \in {"flush", "idle"} ~> status[t] = "ready"

\* The worker implements the promise of SaveStore.
Store == INSTANCE SaveStore WITH stored <- disk, accepted <- issued
ImplementsStore == Store!Spec
=============================================================================
