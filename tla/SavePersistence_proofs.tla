------------------------ MODULE SavePersistence_proofs ------------------------
(***************************************************************************)
(* Proofs about SavePersistence for every set of paths and threads and     *)
(* every value of the limits.  The inductive invariant holds on both        *)
(* platforms; the durability theorems are about the POSIX branch of the     *)
(* file write, because on Windows they are false.                           *)
(***************************************************************************)
EXTENDS SavePersistence, TLAPS

Working == pc \notin {"check", "blocked", "exited"}

\* No job is about a snapshot that was never accepted, or promises anybody
\* more than the bytes it carries.
JobSound(j) ==
    /\ j.bytes <= issued[j.path]
    /\ \A c \in j.completions : c[2] <= j.bytes
    /\ \A v \in j.asyncs : v <= j.bytes

QueueSound ==
    \A i \in DOMAIN queue :
        /\ JobSound(queue[i])
        /\ disk[queue[i].path] < queue[i].bytes
        /\ \A k \in DOMAIN queue : queue[i].path = queue[k].path => i = k
        /\ Working /\ queue[i].path = job.path => job.bytes < queue[i].bytes

WorkerSound ==
    /\ Working => JobSound(job)
    /\ pc \in {"write", "rename", "remove", "retry"} => disk[job.path] < job.bytes
    /\ pc \in {"rename", "remove", "retry"} => temp[job.path] = job.bytes
    /\ pc \in {"remove", "retry"} => Windows
    /\ pc \in {"record", "notify"} /\ success => job.bytes <= disk[job.path]

DiskSound == \A p \in Paths : disk[p] <= issued[p]

AckedSound == Windows \/ AckedIsDurable

\* The inductive invariant, next to TypeOK.
Safe == QueueSound /\ WorkerSound /\ DiskSound /\ AckedSound
-----------------------------------------------------------------------------
(* Type correctness *)

\* The three write calls differ only in the completions and callbacks they
\* bring; what enqueue() leaves in the queue is a queue of jobs again.
LEMMA CoalescedType ==
    ASSUME TypeOK, NEW p \in Paths, issued[p] < MaxWrites,
           NEW completions \in SUBSET Request, NEW asyncs \in SUBSET Snapshots
    PROVE  Coalesced(p, completions, asyncs) \in Seq(Job)
<1>1. issued[p] + 1 \in Snapshots
  BY MaxWritesAssumption DEF TypeOK, Snapshots
<1>2. CASE Pending(p) # {}
  <2> DEFINE newest(i) == IF i \in Pending(p)
                          THEN Merged(queue[i], issued[p] + 1, completions, asyncs)
                          ELSE queue[i]
  <2>1. ASSUME NEW i \in 1 .. Len(queue) PROVE newest(i) \in Job
    <3>1. queue[i] \in Job
      BY <2>1 DEF TypeOK
    <3>2. /\ queue[i].completions \in SUBSET Request
          /\ queue[i].asyncs \in SUBSET Snapshots
          /\ queue[i].path \in Paths
      BY <3>1 DEF Job
    <3> QED BY <1>1, <3>1, <3>2 DEF Job, Merged
  <2>2. DOMAIN queue = 1 .. Len(queue) /\ Len(queue) \in Nat
    BY DEF TypeOK
  <2>3. [i \in DOMAIN queue |-> newest(i)] \in Seq(Job)
    BY <2>1, <2>2
  <2> QED BY <1>2, <2>3 DEF Coalesced
<1>3. CASE Pending(p) = {}
  <2>1. [path |-> p, bytes |-> issued[p] + 1,
         completions |-> completions, asyncs |-> asyncs] \in Job
    BY <1>1 DEF Job
  <2> QED BY <1>3, <2>1 DEF Coalesced, TypeOK
<1> QED BY <1>2, <1>3

LEMMA EnqueueType ==
    ASSUME TypeOK, NEW p \in Paths, NEW completions \in SUBSET Request,
           NEW asyncs \in SUBSET Snapshots,
           Enqueue(p, completions, asyncs), status' \in [Threads -> ThreadStates]
    PROVE  TypeOK'
<1>1. queue' \in Seq(Job)
  BY CoalescedType DEF Enqueue
<1>2. issued' \in [Paths -> 0 .. MaxWrites]
  BY MaxWritesAssumption DEF TypeOK, Enqueue
<1>3. pc' \in PcStates
  BY DEF TypeOK, Enqueue, Woken, PcStates
<1>4. job' = NoJob <=> pc' \in {"check", "blocked", "exited"}
  BY DEF TypeOK, Enqueue, Woken
<1> QED BY <1>1, <1>2, <1>3, <1>4 DEF TypeOK, Enqueue, files

\* The type invariant of the save worker.
THEOREM TypeCorrect == Spec => []TypeOK
<1>1. Init => TypeOK
  <2> SUFFICES ASSUME Init PROVE TypeOK
    OBVIOUS
  <2>1. 0 \in 0 .. MaxWrites /\ 0 \in 0 .. MaxCrashes
    BY MaxWritesAssumption, LimitsAssumption
  <2>2. queue \in Seq(Job)
    BY DEF Init
  <2>3. /\ disk \in [Paths -> 0 .. MaxWrites]
        /\ temp \in [Paths -> 0 .. MaxWrites]
        /\ issued \in [Paths -> 0 .. MaxWrites]
        /\ lost \in [Paths -> 0 .. MaxWrites]
        /\ flushed \in [Paths -> 0 .. MaxWrites]
        /\ asked \in [Threads -> [Paths -> 0 .. MaxWrites]]
    BY <2>1 DEF Init
  <2> QED BY <2>1, <2>2, <2>3 DEF Init, TypeOK, PcStates, ThreadStates
<1>2. TypeOK /\ [Next]_vars => TypeOK'
  <2> SUFFICES ASSUME TypeOK, [Next]_vars PROVE TypeOK'
    OBVIOUS
  <2> USE MaxWritesAssumption, LimitsAssumption, NoJobAssumption
  <2>0. 0 \in 0 .. MaxWrites
    OBVIOUS
  <2>1. ASSUME NEW t \in Threads, NEW p \in Paths, WriteAsync(t, p) PROVE TypeOK'
    BY <2>1, EnqueueType DEF WriteAsync, TypeOK
  <2>2. ASSUME NEW t \in Threads, NEW p \in Paths, WriteAsyncWithCompletion(t, p)
        PROVE TypeOK'
    <3>1. {issued[p] + 1} \in SUBSET Snapshots
      BY <2>2 DEF WriteAsyncWithCompletion, Enqueue, TypeOK, Snapshots
    <3>2. status' \in [Threads -> ThreadStates]
      BY <2>2 DEF WriteAsyncWithCompletion, TypeOK
    <3> QED BY <2>2, <3>1, <3>2, EnqueueType DEF WriteAsyncWithCompletion
  <2>3. ASSUME NEW t \in Threads, NEW p \in Paths, WriteAndWait(t, p) PROVE TypeOK'
    <3>1. {<<t, issued[p] + 1>>} \in SUBSET Request
      BY <2>3 DEF WriteAndWait, Enqueue, TypeOK, Snapshots, Request
    <3>2. status' \in [Threads -> ThreadStates]
      BY <2>3 DEF WriteAndWait, TypeOK, ThreadStates
    <3> QED BY <2>3, <3>1, <3>2, EnqueueType DEF WriteAndWait
  <2>4. ASSUME NEW t \in Threads, FlushCall(t) PROVE TypeOK'
    <3>1. asked' \in [Threads -> [Paths -> 0 .. MaxWrites]]
      BY <2>4 DEF FlushCall, TypeOK
    <3>2. status' \in [Threads -> ThreadStates]
      BY <2>4 DEF FlushCall, TypeOK, ThreadStates
    <3> QED BY <2>4, <3>1, <3>2 DEF FlushCall, TypeOK, worker, files
  <2>5. ASSUME NEW t \in Threads, FlushBlock(t) PROVE TypeOK'
    <3>1. status' \in [Threads -> ThreadStates]
      BY <2>5 DEF FlushBlock, TypeOK, ThreadStates
    <3> QED BY <2>5, <3>1 DEF FlushBlock, TypeOK, worker, files, history
  <2>6. ASSUME NEW t \in Threads, FlushReturn(t) PROVE TypeOK'
    <3>1. asked[t] \in [Paths -> 0 .. MaxWrites]
      BY <2>6 DEF TypeOK
    <3>2. flushed' \in [Paths -> 0 .. MaxWrites]
      BY <2>6, <3>1 DEF FlushReturn, TypeOK
    <3>3. status' \in [Threads -> ThreadStates]
      BY <2>6 DEF FlushReturn, TypeOK, ThreadStates
    <3>4. noticed' \subseteq Paths \X Snapshots /\ background' \in BOOLEAN
      BY <2>6 DEF FlushReturn, TakeError, TypeOK
    <3> QED BY <2>6, <3>2, <3>3, <3>4 DEF FlushReturn, TypeOK, worker, files
  <2>7. ASSUME NEW t \in Threads, TakeBackgroundError(t) PROVE TypeOK'
    BY <2>7 DEF TakeBackgroundError, TakeError, TypeOK, worker, files
  <2>8. CASE WorkerBlock
    BY <2>8 DEF WorkerBlock, TypeOK, files, history, PcStates
  <2>9. CASE TakeJob
    <3>1. Head(queue) \in Job /\ Tail(queue) \in Seq(Job)
      BY <2>9 DEF TakeJob, TypeOK
    <3> QED BY <2>9, <3>1 DEF TakeJob, TypeOK, files, history, PcStates
  <2>10. CASE WorkerExit
    BY <2>10 DEF WorkerExit, FlushersWoken, TypeOK, files, history, PcStates, ThreadStates
  <2>11. CASE WriteTemporary
    <3>1. job \in Job
      BY <2>11 DEF WriteTemporary, TypeOK
    <3>2. job.bytes \in 0 .. MaxWrites
      BY <3>1 DEF Job, Snapshots
    <3>3. temp' \in [Paths -> 0 .. MaxWrites]
      BY <2>11, <3>2 DEF WriteTemporary, TypeOK
    <3> QED BY <2>11, <3>1, <3>3 DEF WriteTemporary, TypeOK, history, PcStates
  <2>12. CASE Rename
    <3>1. job \in Job
      BY <2>12 DEF Rename, TypeOK
    <3>2. job.path \in Paths
      BY <3>1 DEF Job
    <3>3. disk' \in [Paths -> 0 .. MaxWrites] /\ temp' \in [Paths -> 0 .. MaxWrites]
      <4>1. CASE RenameSucceeds
        <5>1. temp[job.path] \in 0 .. MaxWrites
          BY <3>2 DEF TypeOK
        <5> QED BY <2>0, <4>1, <5>1 DEF RenameSucceeds, TypeOK
      <4>2. CASE RenameGivesUp
        BY <2>0, <4>2 DEF RenameGivesUp, TypeOK
      <4>3. CASE UNCHANGED files
        BY <4>3 DEF files, TypeOK
      <4> QED BY <2>12, <4>1, <4>2, <4>3 DEF Rename, files
    <3>4. success' \in BOOLEAN /\ pc' \in PcStates \ {"check", "blocked", "exited"}
      BY <2>12 DEF Rename, RenameSucceeds, RenameGivesUp, TypeOK, PcStates
    <3>5. UNCHANGED <<queue, job, active, background, stopping, status, history>>
      BY <2>12 DEF Rename
    <3> QED BY <3>1, <3>3, <3>4, <3>5, NoJobAssumption DEF TypeOK, history
  <2>13. CASE RemoveDestination
    <3>1. job \in Job
      BY <2>13 DEF RemoveDestination, TypeOK
    <3>2. disk' \in [Paths -> 0 .. MaxWrites]
      BY <2>0, <2>13, <3>1 DEF RemoveDestination, TypeOK, Job
    <3> QED BY <2>13, <3>1, <3>2 DEF RemoveDestination, TypeOK, history, PcStates
  <2>14. CASE RetryRename
    <3>1. job \in Job
      BY <2>14 DEF RetryRename, TypeOK
    <3>2. job.path \in Paths
      BY <3>1 DEF Job
    <3>3. disk' \in [Paths -> 0 .. MaxWrites] /\ temp' \in [Paths -> 0 .. MaxWrites]
      <4>1. CASE RenameSucceeds
        <5>1. temp[job.path] \in 0 .. MaxWrites
          BY <3>2 DEF TypeOK
        <5> QED BY <2>0, <4>1, <5>1 DEF RenameSucceeds, TypeOK
      <4>2. CASE RenameGivesUp
        BY <2>0, <4>2 DEF RenameGivesUp, TypeOK
      <4> QED BY <2>14, <4>1, <4>2 DEF RetryRename
    <3>4. success' \in BOOLEAN /\ pc' \in PcStates \ {"check", "blocked", "exited"}
      BY <2>14 DEF RetryRename, RenameSucceeds, RenameGivesUp, TypeOK, PcStates
    <3>5. UNCHANGED <<queue, job, active, background, stopping, status, history>>
      BY <2>14 DEF RetryRename
    <3> QED BY <3>1, <3>3, <3>4, <3>5, NoJobAssumption DEF TypeOK, history
  <2>15. CASE RecordResult
    <3>1. job \in Job
      BY <2>15 DEF RecordResult, TypeOK
    <3>2. <<job.path, job.bytes>> \in Paths \X Snapshots
      BY <3>1 DEF Job
    <3>3. failed' \subseteq Paths \X Snapshots
      BY <2>15, <3>2 DEF RecordResult, TypeOK
    <3>4. status' \in [Threads -> ThreadStates]
      BY <2>15 DEF RecordResult, FlushersWoken, TypeOK, ThreadStates
    <3>5. background' \in BOOLEAN
      BY <2>15 DEF RecordResult, TypeOK
    <3> QED BY <2>15, <3>1, <3>3, <3>4, <3>5 DEF RecordResult, TypeOK, files, PcStates
  <2>16. CASE CompleteWaiter
    <3> PICK c \in job.completions :
             /\ Told(c[2])
             /\ job' = [job EXCEPT !.completions = @ \ {c}]
             /\ status' = [status EXCEPT ![c[1]] =
                             IF stopping THEN "gone" ELSE "ready"]
      BY <2>16 DEF CompleteWaiter
    <3>1. job \in Job
      BY <2>16 DEF CompleteWaiter, TypeOK
    <3>2. c[2] \in Snapshots /\ job.path \in Paths /\ job.bytes \in Snapshots
      BY <3>1 DEF Job, Request
    <3>3. job' \in Job
      BY <3>1 DEF Job
    <3>4. acked' \subseteq Paths \X Snapshots /\ noticed' \subseteq Paths \X Snapshots
      BY <3>2 DEF Told, TypeOK
    <3>5. status' \in [Threads -> ThreadStates]
      BY DEF TypeOK, ThreadStates
    <3> QED BY <2>16, <3>3, <3>4, <3>5 DEF CompleteWaiter, TypeOK, files
  <2>17. CASE RunCallback
    <3> PICK v \in job.asyncs : Told(v) /\ job' = [job EXCEPT !.asyncs = @ \ {v}]
      BY <2>17 DEF RunCallback
    <3>1. job \in Job
      BY <2>17 DEF RunCallback, TypeOK
    <3>2. v \in Snapshots /\ job.path \in Paths /\ job.bytes \in Snapshots
      BY <3>1 DEF Job
    <3>3. job' \in Job
      BY <3>1 DEF Job
    <3>4. acked' \subseteq Paths \X Snapshots /\ noticed' \subseteq Paths \X Snapshots
      BY <3>2 DEF Told, TypeOK
    <3> QED BY <2>17, <3>3, <3>4 DEF RunCallback, TypeOK, files
  <2>18. CASE JobDone
    BY <2>18 DEF JobDone, TypeOK, files, history, PcStates
  <2>19. CASE Shutdown
    BY <2>19 DEF Shutdown, Woken, TypeOK, files, history, PcStates, ThreadStates
  <2>20. CASE Crash
    <3>1. /\ status' \in [Threads -> ThreadStates]
          /\ queue' \in Seq(Job) /\ pc' \in PcStates
      BY <2>20 DEF Crash, ThreadStates, PcStates
    <3>2. /\ asked' \in [Threads -> [Paths -> 0 .. MaxWrites]]
          /\ lost' \in [Paths -> 0 .. MaxWrites]
          /\ crashes' \in 0 .. MaxCrashes
      BY <2>20 DEF Crash, TypeOK
    <3>3. flushed' \in [Paths -> 0 .. MaxWrites]
      BY <2>20 DEF Crash, TypeOK
    <3> QED BY <2>20, <3>1, <3>2, <3>3 DEF Crash, TypeOK, files
  <2>21. CASE UNCHANGED vars
    BY <2>21 DEF vars, TypeOK
  <2> QED BY <2>1, <2>2, <2>3, <2>4, <2>5, <2>6, <2>7, <2>8, <2>9, <2>10, <2>11,
             <2>12, <2>13, <2>14, <2>15, <2>16, <2>17, <2>18, <2>19, <2>20, <2>21
          DEF Next, Caller, Worker
<1> QED BY <1>1, <1>2, PTL DEF Spec
-----------------------------------------------------------------------------
(* Durability on POSIX *)

LEMMA JobTypes ==
    ASSUME TypeOK
    PROVE  /\ \A i \in DOMAIN queue : queue[i] \in Job
           /\ DOMAIN queue = 1 .. Len(queue) /\ Len(queue) \in Nat
           /\ Working => job \in Job
  BY DEF TypeOK, Working

\* A further write of path p: every job stays sound, and the new bytes are
\* newer than whatever is pending, being written or on disk.
LEMMA EnqueueSafe ==
    ASSUME TypeOK, Safe, NEW p \in Paths, NEW completions \in SUBSET Request,
           NEW asyncs \in SUBSET Snapshots,
           \A c \in completions : c[2] = issued[p] + 1,
           \A v \in asyncs : v = issued[p] + 1,
           Enqueue(p, completions, asyncs)
    PROVE  Safe'
<1> DEFINE n == issued[p] + 1
<1> USE MaxWritesAssumption DEF Snapshots
<1>1. /\ issued \in [Paths -> 0 .. MaxWrites] /\ disk \in [Paths -> 0 .. MaxWrites]
      /\ issued' = [issued EXCEPT ![p] = n]
      /\ UNCHANGED <<job, success, disk, temp, acked>>
      /\ queue' = Coalesced(p, completions, asyncs)
      /\ Working' <=> Working
      /\ pc' # pc => ~Working
  BY DEF TypeOK, Enqueue, files, Working, Woken
<1>2. \A q \in Paths : issued[q] <= issued'[q] /\ issued'[q] \in Nat /\ issued[q] \in Nat
  BY <1>1
<1>3. WorkerSound'
  <2>1. CASE Working
    <3>1. job \in Job /\ pc' = pc
      BY <1>1, <2>1, JobTypes
    <3>2. JobSound(job)'
      BY <1>1, <1>2, <2>1, <3>1 DEF Safe, WorkerSound, JobSound, Job
    <3> QED BY <1>1, <3>1, <3>2 DEF Safe, WorkerSound
  <2>2. CASE ~Working
    BY <1>1, <2>2 DEF WorkerSound, Working, Woken, Enqueue
  <2> QED BY <2>1, <2>2
<1>4. DiskSound'
  BY <1>1, <1>2 DEF Safe, DiskSound
<1>5. AckedSound'
  BY <1>1 DEF Safe, AckedSound, AckedIsDurable
<1>6. QueueSound'
  <2>1. disk[p] < n
    BY <1>1 DEF Safe, DiskSound
  <2>2. Working /\ job.path = p => job.bytes < n
    BY <1>1, JobTypes DEF Safe, WorkerSound, JobSound, Job
  <2>3. CASE Pending(p) # {}
    <3>1. DOMAIN queue' = DOMAIN queue
      BY <1>1, <2>3 DEF Coalesced
    <3>2. \A i \in DOMAIN queue :
            /\ queue'[i].path = queue[i].path
            /\ i \in Pending(p) => queue'[i] = Merged(queue[i], n, completions, asyncs)
            /\ i \notin Pending(p) => queue'[i] = queue[i]
      BY <1>1, <2>3 DEF Coalesced, Merged
    <3>3. ASSUME NEW i \in DOMAIN queue
          PROVE  /\ JobSound(queue[i])'
                 /\ disk[queue'[i].path] < queue'[i].bytes
                 /\ Working /\ queue'[i].path = job.path => job.bytes < queue'[i].bytes
      <4>1. queue[i] \in Job
        BY <3>3, JobTypes
      <4>2. CASE i \in Pending(p)
        <5>1. queue[i].path = p
          BY <4>2 DEF Pending
        <5>2. queue'[i] = Merged(queue[i], n, completions, asyncs)
          BY <3>2, <4>2
        <5>3. /\ \A c \in queue[i].completions : c[2] <= queue[i].bytes
              /\ \A v \in queue[i].asyncs : v <= queue[i].bytes
              /\ queue[i].bytes <= issued[p]
          BY <3>3, <5>1 DEF Safe, QueueSound, JobSound
        <5>4. /\ \A c \in queue[i].completions : c[2] \in Nat
              /\ \A v \in queue[i].asyncs : v \in Nat
              /\ queue[i].bytes \in Nat
          BY <4>1 DEF Job, Request
        <5>5. JobSound(queue[i])'
          <6>1. queue'[i].bytes = n /\ queue'[i].path = p /\ issued'[p] = n
            BY <1>1, <5>1, <5>2 DEF Merged
          <6>2. \A c \in queue'[i].completions : c[2] <= n
            BY <1>1, <5>2, <5>3, <5>4 DEF Merged
          <6>3. \A v \in queue'[i].asyncs : v <= n
            <7> SUFFICES ASSUME NEW v \in queue[i].asyncs \cup asyncs PROVE v <= n
              BY <5>2 DEF Merged
            <7>1. issued[p] \in Nat /\ queue[i].bytes \in Nat
              BY <1>2, <5>4
            <7>2. CASE v \in queue[i].asyncs
              <8>1. v \in Nat /\ v <= queue[i].bytes
                BY <5>3, <5>4, <7>2
              <8> QED BY <5>3, <7>1, <8>1
            <7>3. CASE v \in asyncs
              BY <7>1, <7>3
            <7> QED BY <7>2, <7>3
          <6> QED BY <6>1, <6>2, <6>3, <1>2 DEF JobSound
        <5> QED BY <2>1, <2>2, <5>1, <5>2, <5>5 DEF Merged
      <4>3. CASE i \notin Pending(p)
        <5>1. queue'[i] = queue[i]
          BY <3>2, <4>3
        <5>2. JobSound(queue[i])'
          BY <1>1, <1>2, <3>3, <4>1, <5>1 DEF Safe, QueueSound, JobSound, Job
        <5> QED BY <3>3, <5>1, <5>2 DEF Safe, QueueSound
      <4> QED BY <4>2, <4>3
    <3>4. \A i, k \in DOMAIN queue' : queue'[i].path = queue'[k].path => i = k
      BY <3>1, <3>2 DEF Safe, QueueSound
    <3> QED BY <1>1, <3>1, <3>3, <3>4 DEF QueueSound
  <2>4. CASE Pending(p) = {}
    <3> DEFINE new == [path |-> p, bytes |-> n, completions |-> completions,
                       asyncs |-> asyncs]
    <3>1. queue' = Append(queue, new)
      BY <1>1, <2>4 DEF Coalesced
    <3>2. /\ DOMAIN queue = 1 .. Len(queue) /\ Len(queue) \in Nat
          /\ DOMAIN queue' = 1 .. Len(queue) + 1
          /\ \A i \in DOMAIN queue : queue'[i] = queue[i]
          /\ queue'[Len(queue) + 1] = new
      BY <3>1 DEF TypeOK
    <3>3. \A i \in DOMAIN queue : queue[i].path # p
      BY <2>4 DEF Pending
    <3>4. ASSUME NEW i \in DOMAIN queue'
          PROVE  /\ JobSound(queue[i])'
                 /\ disk[queue'[i].path] < queue'[i].bytes
                 /\ Working /\ queue'[i].path = job.path => job.bytes < queue'[i].bytes
      <4>1. CASE i \in DOMAIN queue
        <5>1. queue'[i] = queue[i] /\ queue[i] \in Job
          BY <3>2, <4>1, JobTypes
        <5>2. JobSound(queue[i])'
          BY <1>1, <1>2, <4>1, <5>1 DEF Safe, QueueSound, JobSound, Job
        <5> QED BY <4>1, <5>1, <5>2 DEF Safe, QueueSound
      <4>2. CASE i = Len(queue) + 1
        <5>1. queue'[i] = new /\ issued'[p] = n /\ n \in Nat
          BY <1>1, <3>2, <4>2
        <5>2. JobSound(queue[i])'
          BY <5>1 DEF JobSound
        <5> QED BY <2>1, <2>2, <5>1, <5>2
      <4> QED BY <3>2, <4>1, <4>2
    <3>5. \A i, k \in DOMAIN queue' : queue'[i].path = queue'[k].path => i = k
      BY <3>2, <3>3 DEF Safe, QueueSound
    <3> QED BY <1>1, <3>4, <3>5 DEF QueueSound
  <2> QED BY <2>3, <2>4
<1> QED BY <1>3, <1>4, <1>5, <1>6 DEF Safe

\* The first job leaves the queue: the jobs behind it keep their bytes, and one
\* for the same path, were there any, would be newer.
LEMMA TakeJobSafe ==
    ASSUME TypeOK, Safe, TakeJob
    PROVE  Safe'
<1>1. /\ job' = Head(queue) /\ queue' = Tail(queue) /\ queue # <<>>
      /\ pc = "check" /\ pc' = "write"
      /\ UNCHANGED <<disk, temp, issued, acked>>
  BY DEF TakeJob, files, history
<1>2. /\ job' = queue[1] /\ 1 \in DOMAIN queue
      /\ DOMAIN queue' = 1 .. Len(queue) - 1 /\ Len(queue) \in Nat
      /\ \A i \in DOMAIN queue' : i + 1 \in DOMAIN queue /\ queue'[i] = queue[i + 1]
  BY <1>1 DEF TypeOK
<1>3. JobSound(job)' /\ disk'[job'.path] < job'.bytes
  BY <1>1, <1>2 DEF Safe, QueueSound, JobSound
<1>4. WorkerSound'
  BY <1>1, <1>3 DEF WorkerSound
<1>5. QueueSound'
  <2>1. ASSUME NEW i \in DOMAIN queue'
        PROVE  /\ JobSound(queue[i])'
               /\ disk'[queue'[i].path] < queue'[i].bytes
               /\ queue'[i].path # job'.path
    <3>1. i + 1 \in DOMAIN queue /\ queue'[i] = queue[i + 1] /\ i + 1 # 1
      BY <1>2, <2>1
    <3>2. JobSound(queue[i + 1]) /\ disk[queue[i + 1].path] < queue[i + 1].bytes
      BY <3>1 DEF Safe, QueueSound
    <3>3. queue[i + 1].path # queue[1].path
      BY <1>2, <3>1 DEF Safe, QueueSound
    <3> QED BY <1>1, <1>2, <3>1, <3>2, <3>3 DEF JobSound
  <2>2. ASSUME NEW i \in DOMAIN queue', NEW k \in DOMAIN queue',
               queue'[i].path = queue'[k].path
        PROVE  i = k
    <3>1. /\ i + 1 \in DOMAIN queue /\ k + 1 \in DOMAIN queue
          /\ queue[i + 1].path = queue[k + 1].path
      BY <1>2, <2>2
    <3>2. i + 1 = k + 1
      BY <3>1 DEF Safe, QueueSound
    <3> QED BY <1>2, <2>2, <3>2
  <2> QED BY <2>1, <2>2 DEF QueueSound
<1> QED BY <1>1, <1>4, <1>5 DEF Safe, DiskSound, AckedSound, AckedIsDurable

\* Steps that touch neither the files nor the jobs.
LEMMA QuietSafe ==
    ASSUME Safe, UNCHANGED <<queue, disk, temp, issued, acked>>,
           \/ UNCHANGED <<job, pc, success>>
           \/ ~Working /\ ~Working'
    PROVE  Safe'
<1>1. CASE UNCHANGED <<job, pc, success>>
  BY <1>1 DEF Safe, QueueSound, WorkerSound, DiskSound, AckedSound, AckedIsDurable,
                 JobSound, Working
<1>2. CASE ~Working /\ ~Working'
  BY <1>2 DEF Safe, QueueSound, WorkerSound, DiskSound, AckedSound, AckedIsDurable,
                 JobSound, Working
<1> QED BY <1>1, <1>2

\* A completion or a callback leaves the job: it is told of success only when
\* the job's bytes, which are at least its own, are on disk.
LEMMA ToldSafe ==
    ASSUME TypeOK, Safe, pc = "notify", NEW v \in Snapshots, v <= job.bytes, Told(v),
           UNCHANGED <<queue, pc, success, disk, temp, issued>>,
           job'.path = job.path, job'.bytes = job.bytes,
           job'.completions \subseteq job.completions,
           job'.asyncs \subseteq job.asyncs
    PROVE  Safe'
<1> USE MaxWritesAssumption DEF Snapshots
<1>1. job \in Job /\ job.path \in Paths /\ job.bytes \in Nat
  BY JobTypes DEF Job, Working
<1>2. disk[job.path] \in Nat
  BY <1>1 DEF TypeOK
<1>3. AckedSound'
  <2>1. CASE success
    <3>1. v <= disk[job.path]
      BY <1>1, <1>2, <2>1 DEF Safe, WorkerSound
    <3>2. acked' = acked \cup {<<job.path, v>>}
      BY <2>1 DEF Told
    <3> QED BY <3>1, <3>2 DEF Safe, AckedSound, AckedIsDurable
  <2>2. CASE ~success
    BY <2>2 DEF Told, Safe, AckedSound, AckedIsDurable
  <2> QED BY <2>1, <2>2
<1>4. WorkerSound'
  BY DEF Safe, WorkerSound, JobSound, Working
<1>5. QueueSound' /\ DiskSound'
  BY DEF Safe, QueueSound, DiskSound, JobSound, Working
<1> QED BY <1>3, <1>4, <1>5 DEF Safe

\* A rename, the first or the one after the destination was removed, puts the
\* job's bytes in the place of older ones.
LEMMA RenameSucceedsSafe ==
    ASSUME TypeOK, Safe, pc \in {"rename", "retry"}, RenameSucceeds,
           UNCHANGED <<queue, job, issued, acked>>
    PROVE  Safe'
<1> USE MaxWritesAssumption
<1>1. Working /\ Working' /\ pc' = "record"
  BY DEF Working, RenameSucceeds
<1>2. job \in Job /\ job.path \in Paths /\ job.bytes \in Nat
  BY <1>1, JobTypes DEF Job, Snapshots
<1>3. disk' = [disk EXCEPT ![job.path] = job.bytes]
  BY DEF RenameSucceeds, Safe, WorkerSound
<1>4. /\ \A q \in Paths : disk[q] \in Nat /\ issued[q] \in Nat
      /\ disk'[job.path] = job.bytes
      /\ \A q \in Paths : disk[q] <= disk'[q]
      /\ \A q \in Paths : q # job.path => disk'[q] = disk[q]
  BY <1>2, <1>3 DEF TypeOK, Safe, WorkerSound
<1>5. WorkerSound'
  BY <1>1, <1>2, <1>4 DEF Safe, WorkerSound, JobSound
<1>6. DiskSound'
  BY <1>1, <1>2, <1>4 DEF Safe, WorkerSound, JobSound, DiskSound
<1>7. AckedSound'
  <2> SUFFICES ASSUME ~Windows, NEW a \in acked PROVE a[2] <= disk'[a[1]]
    BY DEF AckedSound, AckedIsDurable
  <2>1. a[1] \in Paths /\ a[2] \in Nat /\ a[2] <= disk[a[1]]
    BY DEF TypeOK, Snapshots, Safe, AckedSound, AckedIsDurable
  <2>2. disk[a[1]] \in Nat /\ disk'[a[1]] \in Nat /\ disk[a[1]] <= disk'[a[1]]
    BY <1>2, <1>4, <2>1
  <2> QED BY <2>1, <2>2
<1>8. QueueSound'
  <2>1. ASSUME NEW i \in DOMAIN queue PROVE disk'[queue[i].path] < queue[i].bytes
    <3>1. queue[i].path \in Paths
      BY <2>1, JobTypes DEF Job
    <3>2. CASE queue[i].path = job.path
      BY <1>1, <1>4, <2>1, <3>2 DEF Safe, QueueSound
    <3>3. CASE queue[i].path # job.path
      BY <1>4, <2>1, <3>1, <3>3 DEF Safe, QueueSound
    <3> QED BY <3>2, <3>3
  <2> QED BY <1>1, <2>1 DEF Safe, QueueSound, JobSound
<1> QED BY <1>5, <1>6, <1>7, <1>8 DEF Safe

LEMMA RenameGivesUpSafe ==
    ASSUME TypeOK, Safe, pc \in {"rename", "retry"}, RenameGivesUp,
           UNCHANGED <<queue, job, issued, acked>>
    PROVE  Safe'
<1>1. Working /\ Working' /\ pc' = "record" /\ UNCHANGED disk /\ ~success'
  BY DEF Working, RenameGivesUp
<1> QED BY <1>1 DEF Safe, WorkerSound, QueueSound, DiskSound, AckedSound,
                    AckedIsDurable, JobSound

\* Windows: the file that makes room for the rename was older than the job.
LEMMA RemoveDestinationSafe ==
    ASSUME TypeOK, Safe, RemoveDestination
    PROVE  Safe'
<1> USE MaxWritesAssumption
<1>1. /\ Working /\ Working' /\ pc = "remove" /\ pc' = "retry" /\ Windows
      /\ UNCHANGED <<queue, job, success, temp, issued, acked>>
  BY DEF RemoveDestination, Working, history, Safe, WorkerSound
<1>2. job \in Job /\ job.path \in Paths /\ job.bytes \in Nat \ {0}
  BY <1>1, JobTypes DEF Job, Snapshots
<1>3. \A q \in Paths : disk[q] \in Nat /\ issued[q] \in Nat /\ disk'[q] \in {0, disk[q]}
  <2>1. disk' = disk \/ disk' = [disk EXCEPT ![job.path] = 0]
    BY DEF RemoveDestination
  <2>2. disk \in [Paths -> 0 .. MaxWrites] /\ issued \in [Paths -> 0 .. MaxWrites]
    BY DEF TypeOK
  <2> QED BY <1>2, <2>1, <2>2
<1>4. WorkerSound'
  BY <1>1, <1>2, <1>3 DEF Safe, WorkerSound, JobSound
<1>5. DiskSound' /\ AckedSound'
  BY <1>1, <1>3 DEF Safe, DiskSound, AckedSound
<1>6. QueueSound'
  <2>1. ASSUME NEW i \in DOMAIN queue PROVE disk'[queue[i].path] < queue[i].bytes
    <3>1. queue[i].path \in Paths /\ queue[i].bytes \in Nat \ {0}
      BY <2>1, JobTypes DEF Job, Snapshots
    <3> QED BY <1>3, <2>1, <3>1 DEF Safe, QueueSound
  <2> QED BY <1>1, <2>1 DEF Safe, QueueSound, JobSound
<1> QED BY <1>4, <1>5, <1>6 DEF Safe

\* Every action keeps the invariant.
LEMMA NextSafe ==
    ASSUME TypeOK, Safe, Next
    PROVE  Safe'
<1> USE MaxWritesAssumption
<1>1. ASSUME NEW t \in Threads, NEW p \in Paths, WriteAsync(t, p) PROVE Safe'
  BY <1>1, EnqueueSafe DEF WriteAsync
<1>2. ASSUME NEW t \in Threads, NEW p \in Paths, WriteAsyncWithCompletion(t, p)
      PROVE Safe'
  <2>1. {issued[p] + 1} \in SUBSET Snapshots
    BY <1>2 DEF WriteAsyncWithCompletion, Enqueue, TypeOK, Snapshots
  <2> QED BY <1>2, <2>1, EnqueueSafe DEF WriteAsyncWithCompletion
<1>3. ASSUME NEW t \in Threads, NEW p \in Paths, WriteAndWait(t, p) PROVE Safe'
  <2>1. {<<t, issued[p] + 1>>} \in SUBSET Request
    BY <1>3 DEF WriteAndWait, Enqueue, TypeOK, Snapshots, Request
  <2> QED BY <1>3, <2>1, EnqueueSafe DEF WriteAndWait
<1>4. ASSUME NEW t \in Threads, FlushCall(t) \/ FlushBlock(t) \/ FlushReturn(t)
                                   \/ TakeBackgroundError(t)
      PROVE Safe'
  <2>1. UNCHANGED <<queue, disk, temp, issued, acked, job, pc, success>>
    BY <1>4 DEF FlushCall, FlushBlock, FlushReturn, TakeBackgroundError, TakeError,
                worker, files, history
  <2> QED BY <2>1, QuietSafe
<1>5. CASE WorkerBlock \/ WorkerExit
  <2>1. UNCHANGED <<queue, disk, temp, issued, acked>> /\ ~Working /\ ~Working'
    BY <1>5 DEF WorkerBlock, WorkerExit, files, history, Working
  <2> QED BY <2>1, QuietSafe
<1>6. CASE Shutdown
  <2>1. UNCHANGED <<queue, disk, temp, issued, acked>>
    BY <1>6 DEF Shutdown, files, history
  <2>2. UNCHANGED <<job, pc, success>> \/ (~Working /\ ~Working')
    BY <1>6 DEF Shutdown, Woken, Working
  <2> QED BY <2>1, <2>2, QuietSafe
<1>7. CASE TakeJob
  BY <1>7, TakeJobSafe
<1>8. CASE WriteTemporary
  <2>1. /\ UNCHANGED <<queue, job, disk, issued, acked>> /\ Working /\ Working'
        /\ pc = "write" /\ pc' \in {"rename", "record"}
    BY <1>8 DEF WriteTemporary, history, Working
  <2>2. job \in Job
    BY <2>1, JobTypes
  <2>3. pc' = "rename" => temp'[job'.path] = job'.bytes
    BY <1>8, <2>1, <2>2 DEF WriteTemporary, TypeOK, Job
  <2>4. pc' = "record" => ~success'
    BY <1>8 DEF WriteTemporary
  <2>5. WorkerSound'
    BY <2>1, <2>3, <2>4 DEF Safe, WorkerSound, JobSound
  <2> QED BY <2>1, <2>5 DEF Safe, QueueSound, DiskSound, AckedSound, AckedIsDurable,
                            JobSound
<1>9. CASE Rename
  <2>1. /\ UNCHANGED <<queue, job, issued, acked>> /\ Working /\ pc = "rename"
    BY <1>9 DEF Rename, history, Working
  <2>2. CASE RenameSucceeds
    BY <2>1, <2>2, RenameSucceedsSafe
  <2>3. CASE RenameGivesUp
    BY <2>1, <2>3, RenameGivesUpSafe
  <2>4. CASE Windows /\ pc' = "remove" /\ UNCHANGED <<success, files>>
    <3>1. UNCHANGED <<disk, temp, success>> /\ Working'
      BY <2>4 DEF files, Working
    <3>2. WorkerSound'
      BY <2>1, <2>4, <3>1 DEF Safe, WorkerSound, JobSound
    <3> QED BY <2>1, <3>1, <3>2 DEF Safe, QueueSound, DiskSound, AckedSound,
                                    AckedIsDurable, JobSound
  <2> QED BY <1>9, <2>2, <2>3, <2>4 DEF Rename
<1>10. CASE RemoveDestination
  BY <1>10, RemoveDestinationSafe
<1>16. CASE RetryRename
  <2>1. /\ UNCHANGED <<queue, job, issued, acked>> /\ Working /\ pc = "retry"
    BY <1>16 DEF RetryRename, history, Working
  <2> QED BY <1>16, <2>1, RenameSucceedsSafe, RenameGivesUpSafe DEF RetryRename
<1>11. CASE RecordResult
  <2>1. /\ UNCHANGED <<queue, job, success, disk, temp, issued, acked>>
        /\ pc = "record" /\ pc' = "notify"
    BY <1>11 DEF RecordResult, files
  <2> QED BY <2>1 DEF Safe, WorkerSound, QueueSound, DiskSound, AckedSound,
                      AckedIsDurable, JobSound, Working
<1>12. CASE CompleteWaiter
  <2> PICK c \in job.completions :
           Told(c[2]) /\ job' = [job EXCEPT !.completions = @ \ {c}]
    BY <1>12 DEF CompleteWaiter
  <2>1. pc = "notify" /\ UNCHANGED <<queue, pc, success, disk, temp, issued>>
    BY <1>12 DEF CompleteWaiter, files
  <2>2. job \in Job
    BY <2>1, JobTypes DEF Working
  <2>3. c[2] \in Snapshots /\ c[2] <= job.bytes
    BY <2>1, <2>2 DEF Job, Request, Safe, WorkerSound, JobSound, Working
  <2>4. /\ job'.path = job.path /\ job'.bytes = job.bytes
        /\ job'.completions \subseteq job.completions /\ job'.asyncs \subseteq job.asyncs
    BY <2>2 DEF Job
  <2> QED BY <2>1, <2>3, <2>4, ToldSafe
<1>13. CASE RunCallback
  <2> PICK v \in job.asyncs : Told(v) /\ job' = [job EXCEPT !.asyncs = @ \ {v}]
    BY <1>13 DEF RunCallback
  <2>1. pc = "notify" /\ UNCHANGED <<queue, pc, success, disk, temp, issued>>
    BY <1>13 DEF RunCallback, files
  <2>2. job \in Job
    BY <2>1, JobTypes DEF Working
  <2>3. v \in Snapshots /\ v <= job.bytes
    BY <2>1, <2>2 DEF Job, Safe, WorkerSound, JobSound, Working
  <2>4. /\ job'.path = job.path /\ job'.bytes = job.bytes
        /\ job'.completions \subseteq job.completions /\ job'.asyncs \subseteq job.asyncs
    BY <2>2 DEF Job
  <2> QED BY <2>1, <2>3, <2>4, ToldSafe
<1>14. CASE JobDone
  BY <1>14 DEF JobDone, files, history, Safe, WorkerSound, QueueSound, DiskSound,
               AckedSound, AckedIsDurable, JobSound, Working
<1>15. CASE Crash
  <2>1. queue' = <<>> /\ ~Working' /\ pc' = "check"
        /\ UNCHANGED <<disk, temp, issued, acked>>
    BY <1>15 DEF Crash, files, Working
  <2> QED BY <2>1 DEF Safe, WorkerSound, QueueSound, DiskSound, AckedSound,
                      AckedIsDurable
<1> QED BY <1>1, <1>2, <1>3, <1>4, <1>5, <1>6, <1>7, <1>8, <1>9, <1>10, <1>11,
           <1>12, <1>13, <1>14, <1>15, <1>16
        DEF Next, Caller, Worker

LEMMA SafeAlways == Spec => [](TypeOK /\ Safe)
<1>1. Init => Safe
  <2> SUFFICES ASSUME Init PROVE Safe
    OBVIOUS
  <2>1. DOMAIN queue = {}
    BY DEF Init
  <2> QED BY <2>1 DEF Init, Safe, QueueSound, WorkerSound, DiskSound, AckedSound,
                      AckedIsDurable, Working
<1>2. TypeOK /\ Safe /\ [Next]_vars => Safe'
  <2>1. ASSUME Safe, UNCHANGED vars PROVE Safe'
    BY <2>1, QuietSafe DEF vars
  <2> QED BY <2>1, NextSafe
<1> QED BY <1>1, <1>2, TypeCorrect, PTL DEF Spec

\* On POSIX, whatever is written, fails or crashes afterwards, a snapshot that
\* was reported saved is on disk, itself or a newer one of its path.
THEOREM AckedStaysDurable ==
    ASSUME Windows = FALSE
    PROVE  Spec => []AckedIsDurable
<1>1. Safe => AckedIsDurable
  BY DEF Safe, AckedSound
<1> QED BY <1>1, SafeAlways, PTL

\* Only a successful rename writes to a path, and what it puts there is newer
\* than what it replaces.
LEMMA DiskSteps ==
    ASSUME Windows = FALSE, TypeOK, Safe, [Next]_vars
    PROVE  \/ UNCHANGED disk
           \/ /\ Rename
              /\ UNCHANGED <<issued, acked>>
              /\ job.path \in Paths /\ job.bytes \in Snapshots
              /\ disk[job.path] < job.bytes /\ job.bytes <= issued[job.path]
              /\ disk' = [disk EXCEPT ![job.path] = job.bytes]
<1>1. CASE Rename
  <2>1. /\ UNCHANGED <<issued, acked>> /\ Working /\ pc = "rename"
    BY <1>1 DEF Rename, history, Working
  <2>2. job \in Job /\ job.path \in Paths /\ job.bytes \in Snapshots
    BY <2>1, JobTypes DEF Job
  <2>3. CASE RenameSucceeds
    <3>1. disk' = [disk EXCEPT ![job.path] = job.bytes]
      BY <2>1, <2>3 DEF RenameSucceeds, Safe, WorkerSound
    <3> QED BY <1>1, <2>1, <2>2, <3>1 DEF Safe, WorkerSound, JobSound
  <2>4. CASE RenameGivesUp
    BY <2>4 DEF RenameGivesUp
  <2> QED BY <1>1, <2>3, <2>4 DEF Rename
<1>2. CASE RemoveDestination \/ RetryRename
  BY <1>2, PlatformAssumption DEF RemoveDestination, RetryRename, Safe, WorkerSound
<1>3. CASE \E t \in Threads : Caller(t)
  BY <1>3 DEF Caller, WriteAsync, WriteAsyncWithCompletion, WriteAndWait, Enqueue,
              FlushCall, FlushBlock, FlushReturn, TakeBackgroundError, files
<1>4. CASE \/ WorkerBlock \/ TakeJob \/ WorkerExit \/ WriteTemporary
           \/ RecordResult \/ CompleteWaiter \/ RunCallback \/ JobDone
           \/ Shutdown \/ Crash \/ UNCHANGED vars
  BY <1>4 DEF WorkerBlock, TakeJob, WorkerExit, WriteTemporary, RecordResult,
              CompleteWaiter, RunCallback, JobDone, Shutdown, Crash, files, vars
<1> QED BY <1>1, <1>2, <1>3, <1>4 DEF Next, Worker

\* On POSIX no step replaces a save by an older one or removes it.
THEOREM DiskMonotone ==
    ASSUME Windows = FALSE
    PROVE  Spec => DiskNeverOlder
<1>1. TypeOK /\ Safe /\ [Next]_vars => [\A p \in Paths : disk'[p] >= disk[p]]_vars
  <2> SUFFICES ASSUME TypeOK, Safe, [Next]_vars, NEW p \in Paths
               PROVE  disk'[p] >= disk[p]
    OBVIOUS
  <2>1. disk[p] \in Nat /\ disk \in [Paths -> 0 .. MaxWrites]
    BY MaxWritesAssumption DEF TypeOK
  <2>2. CASE UNCHANGED disk
    BY <2>1, <2>2
  <2>3. CASE disk' # disk
    <3>1. /\ job.path \in Paths /\ job.bytes \in Snapshots
          /\ disk[job.path] < job.bytes
          /\ disk' = [disk EXCEPT ![job.path] = job.bytes]
      BY <2>3, DiskSteps
    <3>2. CASE p = job.path
      BY <2>1, <3>1, <3>2, MaxWritesAssumption DEF Snapshots
    <3>3. CASE p # job.path
      BY <2>1, <3>1, <3>3
    <3> QED BY <3>2, <3>3
  <2> QED BY <2>2, <2>3
<1> QED BY <1>1, SafeAlways, PTL DEF Spec, DiskNeverOlder

\* Apart from the renames, the abstract store sees an accepted write or a report.
LEMMA StoreSteps ==
    ASSUME Windows = FALSE, TypeOK, Safe, [Next]_vars, UNCHANGED disk
    PROVE  \/ UNCHANGED <<disk, issued, acked>>
           \/ \E p \in Paths : Store!Accept(p)
           \/ \E p \in Paths, v \in Snapshots : Store!Ack(p, v)
<1> USE MaxWritesAssumption DEF Snapshots, Store!Snapshots
<1>1. ASSUME NEW p \in Paths, NEW c, NEW a, Enqueue(p, c, a) PROVE Store!Accept(p)
  BY <1>1 DEF Enqueue, files, Store!Accept
<1>2. ASSUME NEW t \in Threads, Caller(t)
      PROVE  \/ UNCHANGED <<disk, issued, acked>>
             \/ \E p \in Paths : Store!Accept(p)
  <2>1. CASE \E p \in Paths : WriteAsync(t, p) \/ WriteAsyncWithCompletion(t, p)
                                             \/ WriteAndWait(t, p)
    BY <1>1, <2>1 DEF WriteAsync, WriteAsyncWithCompletion, WriteAndWait
  <2>2. CASE FlushCall(t) \/ FlushBlock(t) \/ FlushReturn(t) \/ TakeBackgroundError(t)
    BY <2>2 DEF FlushCall, FlushBlock, FlushReturn, TakeBackgroundError, files, history
  <2> QED BY <1>2, <2>1, <2>2 DEF Caller
<1>3. ASSUME pc = "notify", NEW v \in Snapshots, v <= job.bytes, Told(v),
             UNCHANGED issued
      PROVE  \/ UNCHANGED <<disk, issued, acked>>
             \/ \E p \in Paths : Store!Ack(p, v)
  <2>1. job \in Job /\ job.path \in Paths /\ job.bytes \in Nat
    BY <1>3, JobTypes DEF Job, Working
  <2>2. disk[job.path] \in Nat
    BY <2>1 DEF TypeOK
  <2>3. CASE success
    <3>1. v <= disk[job.path]
      BY <1>3, <2>1, <2>2, <2>3 DEF Safe, WorkerSound
    <3> QED BY <1>3, <2>1, <2>3, <3>1 DEF Told, Store!Ack
  <2>4. CASE ~success
    BY <1>3, <2>4 DEF Told
  <2> QED BY <2>3, <2>4
<1>4. CASE CompleteWaiter
  <2> PICK c \in job.completions : Told(c[2])
    BY <1>4 DEF CompleteWaiter
  <2>1. pc = "notify" /\ UNCHANGED issued
    BY <1>4 DEF CompleteWaiter
  <2>2. job \in Job
    BY <2>1, JobTypes DEF Working
  <2>3. c[2] \in Snapshots /\ c[2] <= job.bytes
    BY <2>1, <2>2 DEF Job, Request, Safe, WorkerSound, JobSound, Working
  <2> QED BY <1>3, <2>1, <2>3
<1>5. CASE RunCallback
  <2> PICK v \in job.asyncs : Told(v)
    BY <1>5 DEF RunCallback
  <2>1. pc = "notify" /\ UNCHANGED issued
    BY <1>5 DEF RunCallback
  <2>2. job \in Job
    BY <2>1, JobTypes DEF Working
  <2>3. v \in Snapshots /\ v <= job.bytes
    BY <2>1, <2>2 DEF Job, Safe, WorkerSound, JobSound, Working
  <2> QED BY <1>3, <2>1, <2>3
<1>6. CASE \/ WorkerBlock \/ TakeJob \/ WorkerExit \/ WriteTemporary \/ Rename
           \/ RemoveDestination \/ RetryRename \/ RecordResult \/ JobDone
           \/ Shutdown \/ Crash \/ UNCHANGED vars
  BY <1>6 DEF WorkerBlock, TakeJob, WorkerExit, WriteTemporary, Rename,
              RemoveDestination, RetryRename, RecordResult, JobDone, Shutdown,
              Crash, files, history, vars
<1> QED BY <1>2, <1>4, <1>5, <1>6 DEF Next, Worker

\* On POSIX the worker implements the abstract store: a rename is Persist, a
\* report of success is Ack, an accepted call is Accept, the rest stutters.
THEOREM StoreImplemented ==
    ASSUME Windows = FALSE
    PROVE  Spec => ImplementsStore
<1>1. Init => Store!Init
  BY DEF Init, Store!Init
<1>2. TypeOK /\ Safe /\ [Next]_vars => [Store!Next]_(Store!vars)
  <2> SUFFICES ASSUME TypeOK, Safe, [Next]_vars PROVE [Store!Next]_(Store!vars)
    OBVIOUS
  <2> USE DEF Store!Next, Store!vars, Store!Snapshots, Snapshots
  <2>1. CASE UNCHANGED disk
    BY <2>1, StoreSteps
  <2>2. CASE disk' # disk
    <3>1. Store!Persist(job.path, job.bytes) /\ job.path \in Paths
            /\ job.bytes \in Snapshots
      BY <2>2, DiskSteps DEF Store!Persist
    <3> QED BY <3>1
  <2> QED BY <2>1, <2>2
<1> QED BY <1>1, <1>2, SafeAlways, PTL DEF Spec, ImplementsStore, Store!Spec
-----------------------------------------------------------------------------
(* The newest snapshot, on either platform *)

\* The worker or the files account for version v of path p, or its write failed.
Carried(p, v) ==
    \/ \E i \in DOMAIN queue : queue[i].path = p /\ queue[i].bytes = v
    \/ Working /\ job.path = p /\ job.bytes = v
    \/ disk[p] = v
    \/ <<p, v>> \in failed

\* A pending job always carries the newest snapshot of its path, and a write
\* that failed is on record before anybody is told.
Newest ==
    /\ \A i \in DOMAIN queue : queue[i].bytes = issued[queue[i].path]
    /\ pc = "notify" /\ ~success => <<job.path, job.bytes>> \in failed
    /\ \A p \in Paths : issued[p] > lost[p] => Carried(p, issued[p])

\* What enqueue() leaves in the queue: the jobs of other paths as they were,
\* and one of this path with the bytes just accepted.
LEMMA CoalescedJobs ==
    ASSUME TypeOK, NEW p \in Paths, NEW completions, NEW asyncs,
           Enqueue(p, completions, asyncs)
    PROVE  /\ \E i \in DOMAIN queue' : queue'[i].path = p
                                    /\ queue'[i].bytes = issued[p] + 1
           /\ \A i \in DOMAIN queue' :
                queue'[i].path = p => queue'[i].bytes = issued[p] + 1
           /\ \A i \in DOMAIN queue : queue[i].path # p =>
                i \in DOMAIN queue' /\ queue'[i] = queue[i]
           /\ \A i \in DOMAIN queue' : queue'[i].path # p =>
                i \in DOMAIN queue /\ queue'[i] = queue[i]
<1>1. queue' = Coalesced(p, completions, asyncs)
  BY DEF Enqueue
<1>2. CASE Pending(p) # {}
  BY <1>1, <1>2 DEF Coalesced, Merged, Pending
<1>3. CASE Pending(p) = {}
  <2> DEFINE new == [path |-> p, bytes |-> issued[p] + 1,
                     completions |-> completions, asyncs |-> asyncs]
  <2>1. queue' = Append(queue, new)
    BY <1>1, <1>3 DEF Coalesced
  <2>2. /\ DOMAIN queue = 1 .. Len(queue) /\ Len(queue) \in Nat
        /\ DOMAIN queue' = 1 .. Len(queue) + 1
        /\ \A i \in DOMAIN queue : queue'[i] = queue[i]
        /\ queue'[Len(queue) + 1] = new
    BY <2>1 DEF TypeOK
  <2>3. \A i \in DOMAIN queue : queue[i].path # p
    BY <1>3 DEF Pending
  <2>4. \A i \in DOMAIN queue' : i \in DOMAIN queue \/ i = Len(queue) + 1
    BY <2>2
  <2>5. Len(queue) + 1 \in DOMAIN queue' /\ new.path = p /\ new.bytes = issued[p] + 1
    BY <2>2
  <2>6. \A i \in DOMAIN queue : i \in DOMAIN queue'
    BY <2>2
  <2> HIDE DEF new
  <2> QED BY <2>2, <2>3, <2>4, <2>5, <2>6
<1> QED BY <1>2, <1>3

LEMMA EnqueueNewest ==
    ASSUME TypeOK, Newest, NEW p \in Paths, NEW completions, NEW asyncs,
           Enqueue(p, completions, asyncs)
    PROVE  Newest'
<1>1. /\ issued' = [issued EXCEPT ![p] = @ + 1] /\ issued \in [Paths -> 0 .. MaxWrites]
      /\ UNCHANGED <<job, success, disk, failed, lost>>
      /\ Working' <=> Working
      /\ pc' = "notify" <=> pc = "notify"
  BY DEF Enqueue, TypeOK, files, Working, Woken
<1>2. /\ issued'[p] = issued[p] + 1
      /\ \A q \in Paths : q # p => issued'[q] = issued[q]
  BY <1>1
<1>3. ASSUME NEW i \in DOMAIN queue' PROVE queue'[i].bytes = issued'[queue'[i].path]
  <2>1. CASE queue'[i].path = p
    BY <1>2, <1>3, <2>1, CoalescedJobs
  <2>2. CASE queue'[i].path # p
    <3>1. i \in DOMAIN queue /\ queue'[i] = queue[i]
      BY <1>3, <2>2, CoalescedJobs
    <3>2. queue[i].path \in Paths
      BY <3>1, JobTypes DEF Job
    <3> QED BY <1>2, <2>2, <3>1, <3>2 DEF Newest
  <2> QED BY <2>1, <2>2
<1>4. ASSUME NEW q \in Paths, issued'[q] > lost'[q] PROVE Carried(q, issued[q])'
  <2>1. CASE q = p
    BY <1>2, <2>1, CoalescedJobs DEF Carried
  <2>2. CASE q # p
    <3>1. Carried(q, issued[q])
      BY <1>1, <1>2, <1>4, <2>2 DEF Newest
    <3>2. ASSUME NEW i \in DOMAIN queue, queue[i].path = q, queue[i].bytes = issued[q]
          PROVE  Carried(q, issued[q])'
      <4>1. i \in DOMAIN queue' /\ queue'[i] = queue[i]
        BY <2>2, <3>2, CoalescedJobs
      <4> QED BY <1>2, <2>2, <3>2, <4>1 DEF Carried
    <3> QED BY <1>1, <1>2, <2>2, <3>1, <3>2 DEF Carried
  <2> QED BY <2>1, <2>2
<1>5. (pc = "notify" /\ ~success => <<job.path, job.bytes>> \in failed)'
  BY <1>1 DEF Newest
<1> QED BY <1>3, <1>4, <1>5 DEF Newest

\* The first job goes from the queue to the worker.
LEMMA TakeJobNewest ==
    ASSUME TypeOK, Newest, TakeJob
    PROVE  Newest'
<1>1. /\ job' = Head(queue) /\ queue' = Tail(queue) /\ queue # <<>>
      /\ pc' = "write" /\ Working'
      /\ UNCHANGED <<disk, issued, failed, lost>>
      /\ ~Working
  BY DEF TakeJob, files, history, Working
<1>2. /\ job' = queue[1]
      /\ \A i \in DOMAIN queue' : i + 1 \in DOMAIN queue /\ queue'[i] = queue[i + 1]
      /\ \A i \in DOMAIN queue :
            i = 1 \/ (i - 1 \in DOMAIN queue' /\ queue'[i - 1] = queue[i])
  BY <1>1 DEF TypeOK
<1>3. \A i \in DOMAIN queue' : queue'[i].bytes = issued'[queue'[i].path]
  BY <1>1, <1>2 DEF Newest
<1>4. ASSUME NEW p \in Paths, issued[p] > lost[p] PROVE Carried(p, issued[p])'
  <2>1. Carried(p, issued[p])
    BY <1>4 DEF Newest
  <2>2. ASSUME NEW i \in DOMAIN queue, queue[i].path = p, queue[i].bytes = issued[p]
        PROVE  Carried(p, issued[p])'
    BY <1>1, <1>2, <2>2 DEF Carried
  <2> QED BY <1>1, <2>1, <2>2 DEF Carried
<1> QED BY <1>1, <1>3, <1>4 DEF Newest

\* The worker writes outside the lock: it touches no path but its job's, whose
\* file is older than the job.
LEMMA FileStepNewest ==
    ASSUME TypeOK, Safe, Newest, pc \in {"write", "rename", "remove", "retry"},
           UNCHANGED <<queue, job, issued, failed, lost>>,
           pc' \in {"rename", "remove", "retry", "record"},
           \A q \in Paths : q # job.path => disk'[q] = disk[q]
    PROVE  Newest'
<1> USE MaxWritesAssumption
<1>1. Working /\ Working' /\ pc' # "notify"
  BY DEF Working
<1>2. job \in Job /\ job.path \in Paths /\ job.bytes \in Nat
  BY <1>1, JobTypes DEF Job, Snapshots
<1>3. /\ disk[job.path] < job.bytes /\ job.bytes <= issued[job.path]
      /\ disk[job.path] \in Nat /\ issued[job.path] \in Nat
  BY <1>1, <1>2 DEF Safe, WorkerSound, JobSound, TypeOK
<1>4. disk[job.path] # issued[job.path]
  BY <1>2, <1>3
<1>5. ASSUME NEW p \in Paths, issued[p] > lost[p] PROVE Carried(p, issued[p])'
  <2>1. Carried(p, issued[p])
    BY <1>5 DEF Newest
  <2> QED BY <1>1, <1>4, <2>1 DEF Carried
<1> QED BY <1>1, <1>5 DEF Newest

\* Steps that leave the queue, the files and the records of writes alone.
LEMMA QuietNewest ==
    ASSUME Newest, UNCHANGED <<queue, disk, issued, failed, lost>>,
           \/ UNCHANGED <<job, pc, success>>
           \/ ~Working /\ ~Working'
    PROVE  Newest'
<1>1. \A p \in Paths : Carried(p, issued[p]) => Carried(p, issued[p])'
  BY DEF Carried, Working
<1>2. (pc = "notify" /\ ~success => <<job.path, job.bytes>> \in failed)'
  BY DEF Newest, Working
<1> QED BY <1>1, <1>2 DEF Newest

LEMMA NextNewest ==
    ASSUME TypeOK, Safe, Newest, [Next]_vars
    PROVE  Newest'
<1> USE MaxWritesAssumption
<1>1. ASSUME NEW t \in Threads, NEW p \in Paths,
             WriteAsync(t, p) \/ WriteAsyncWithCompletion(t, p) \/ WriteAndWait(t, p)
      PROVE  Newest'
  BY <1>1, EnqueueNewest DEF WriteAsync, WriteAsyncWithCompletion, WriteAndWait
<1>2. ASSUME NEW t \in Threads, FlushCall(t) \/ FlushBlock(t) \/ FlushReturn(t)
                                   \/ TakeBackgroundError(t)
      PROVE Newest'
  <2>1. UNCHANGED <<queue, disk, issued, failed, lost, job, pc, success>>
    BY <1>2 DEF FlushCall, FlushBlock, FlushReturn, TakeBackgroundError, TakeError,
                worker, files, history
  <2> QED BY <2>1, QuietNewest
<1>3. CASE WorkerBlock \/ WorkerExit
  <2>1. UNCHANGED <<queue, disk, issued, failed, lost>> /\ ~Working /\ ~Working'
    BY <1>3 DEF WorkerBlock, WorkerExit, files, history, Working
  <2> QED BY <2>1, QuietNewest
<1>4. CASE Shutdown
  <2>1. UNCHANGED <<queue, disk, issued, failed, lost>>
    BY <1>4 DEF Shutdown, files, history
  <2>2. UNCHANGED <<job, pc, success>> \/ (~Working /\ ~Working')
    BY <1>4 DEF Shutdown, Woken, Working
  <2> QED BY <2>1, <2>2, QuietNewest
<1>5. CASE TakeJob
  BY <1>5, TakeJobNewest
<1>6. CASE WriteTemporary
  <2>1. /\ pc = "write" /\ pc' \in {"rename", "record"}
        /\ UNCHANGED <<queue, job, disk, issued, failed, lost>>
    BY <1>6 DEF WriteTemporary, history
  <2> QED BY <2>1, FileStepNewest
<1>7. CASE Rename \/ RemoveDestination \/ RetryRename
  <2>1. /\ pc \in {"rename", "remove", "retry"}
        /\ pc' \in {"rename", "remove", "retry", "record"}
        /\ UNCHANGED <<queue, job, issued, failed, lost>>
    BY <1>7 DEF Rename, RemoveDestination, RetryRename, RenameSucceeds,
                RenameGivesUp, history
  <2>2. disk \in [Paths -> 0 .. MaxWrites]
    BY DEF TypeOK
  <2>3. \A q \in Paths : q # job.path => disk'[q] = disk[q]
    BY <1>7, <2>2 DEF Rename, RemoveDestination, RetryRename, RenameSucceeds,
                      RenameGivesUp, files
  <2> QED BY <2>1, <2>3, FileStepNewest
<1>8. CASE RecordResult
  <2>1. /\ pc = "record" /\ pc' = "notify" /\ Working /\ Working'
        /\ UNCHANGED <<queue, job, success, disk, issued, lost>>
        /\ failed \subseteq failed'
        /\ ~success => <<job.path, job.bytes>> \in failed'
    BY <1>8 DEF RecordResult, files, Working
  <2>2. \A p \in Paths : Carried(p, issued[p]) => Carried(p, issued[p])'
    BY <2>1 DEF Carried
  <2> QED BY <2>1, <2>2 DEF Newest
<1>9. CASE CompleteWaiter \/ RunCallback
  <2>1. /\ pc = "notify" /\ pc' = "notify" /\ Working /\ Working'
        /\ UNCHANGED <<queue, success, disk, issued, failed, lost>>
    BY <1>9 DEF CompleteWaiter, RunCallback, files, Working
  <2>2. job \in Job
    BY <2>1, JobTypes
  <2>3. job'.path = job.path /\ job'.bytes = job.bytes
    BY <1>9, <2>2 DEF CompleteWaiter, RunCallback, Job
  <2>4. \A p \in Paths : Carried(p, issued[p]) => Carried(p, issued[p])'
    BY <2>1, <2>3 DEF Carried
  <2> QED BY <2>1, <2>3, <2>4 DEF Newest
<1>10. CASE JobDone
  <2>1. /\ pc = "notify" /\ pc' = "check" /\ Working
        /\ UNCHANGED <<queue, disk, issued, failed, lost>>
    BY <1>10 DEF JobDone, files, history, Working
  <2>2. job \in Job /\ job.path \in Paths /\ job.bytes \in Nat
    BY <2>1, JobTypes DEF Job, Snapshots
  <2>3. ASSUME job.bytes = issued[job.path]
        PROVE  disk[job.path] = job.bytes \/ <<job.path, job.bytes>> \in failed
    <3>1. CASE success
      <4>1. job.bytes <= disk[job.path] /\ disk[job.path] <= issued[job.path]
        BY <2>1, <2>2, <3>1 DEF Safe, WorkerSound, DiskSound
      <4>2. disk[job.path] \in Nat
        BY <2>2 DEF TypeOK
      <4> QED BY <2>2, <2>3, <4>1, <4>2
    <3>2. CASE ~success
      BY <2>1, <3>2 DEF Newest
    <3> QED BY <3>1, <3>2
  <2>4. \A p \in Paths : Carried(p, issued[p]) => Carried(p, issued[p])'
    BY <2>1, <2>3 DEF Carried
  <2> QED BY <2>1, <2>4 DEF Newest
<1>11. CASE Crash
  <2>1. /\ queue' = <<>> /\ pc' = "check" /\ lost' = issued' /\ issued' = issued
    BY <1>11 DEF Crash
  <2>2. \A p \in Paths : ~(issued'[p] > lost'[p])
    BY <2>1 DEF TypeOK
  <2> QED BY <2>1, <2>2 DEF Newest
<1>12. CASE UNCHANGED vars
  BY <1>12, QuietNewest DEF vars
<1> QED BY <1>1, <1>2, <1>3, <1>4, <1>5, <1>6, <1>7, <1>8, <1>9, <1>10, <1>11, <1>12
        DEF Next, Caller, Worker

LEMMA NewestAlways == Spec => [](TypeOK /\ Safe /\ Newest)
<1>1. Init => Newest
  BY DEF Init, Newest
<1>2. TypeOK /\ Safe /\ Newest /\ [Next]_vars => Newest'
  BY NextNewest
<1> QED BY <1>1, <1>2, SafeAlways, PTL DEF Spec

\* On either platform the newest accepted snapshot of a path is never dropped
\* silently: it is pending, being written or on disk, its write failed, or the
\* process crashed after it was accepted.
THEOREM NewestNeverDropped == Spec => []NewestKept
<1>1. Newest => NewestKept
  BY DEF Newest, NewestKept, Carried, Working
<1> QED BY <1>1, NewestAlways, PTL

-----------------------------------------------------------------------------
(* What a flush covers *)

\* The failure f of a write has been told, is kept as the background error, or
\* is about to be told to the callers waiting for the job.
OnRecord(f) ==
    \/ f \in noticed
    \/ background
    \/ pc = "notify" /\ ~success /\ f = <<job.path, job.bytes>>
         /\ job.completions # {}

ActiveSound == active <=> Working /\ pc # "notify"

\* A flush asks for writes accepted since the last crash.
AskedSound ==
    \A t \in Threads, p \in Paths :
        asked[t][p] # 0 => lost[p] < asked[t][p] /\ asked[t][p] <= issued[p]

\* No failure since the last crash is forgotten.
FailuresTold == \A f \in failed : f[2] > lost[f[1]] => OnRecord(f)

FailuresIssued == \A f \in failed : f[2] <= issued[f[1]]

LEMMA NextActive ==
    ASSUME ActiveSound, [Next]_vars
    PROVE  ActiveSound'
<1> USE DEF ActiveSound, Working
<1>1. ASSUME NEW t \in Threads, Caller(t) PROVE ActiveSound'
  BY <1>1 DEF Caller, WriteAsync, WriteAsyncWithCompletion, WriteAndWait, Enqueue,
              Woken, FlushCall, FlushBlock, FlushReturn, TakeBackgroundError, worker
<1>2. CASE WorkerBlock \/ TakeJob \/ WorkerExit \/ WriteTemporary \/ Rename
             \/ RemoveDestination \/ RetryRename
  BY <1>2 DEF WorkerBlock, TakeJob, WorkerExit, WriteTemporary, Rename,
              RemoveDestination, RetryRename, RenameSucceeds, RenameGivesUp
<1>3. CASE RecordResult \/ CompleteWaiter \/ RunCallback \/ JobDone
  BY <1>3 DEF RecordResult, CompleteWaiter, RunCallback, JobDone
<1>4. CASE Shutdown \/ Crash \/ UNCHANGED vars
  BY <1>4 DEF Shutdown, Woken, Crash, vars
<1> QED BY <1>1, <1>2, <1>3, <1>4 DEF Next, Worker

LEMMA NextAsked ==
    ASSUME TypeOK, AskedSound, [Next]_vars
    PROVE  AskedSound'
<1> USE MaxWritesAssumption
<1>1. /\ issued \in [Paths -> 0 .. MaxWrites] /\ lost \in [Paths -> 0 .. MaxWrites]
      /\ asked \in [Threads -> [Paths -> 0 .. MaxWrites]]
  BY DEF TypeOK
<1>2. ASSUME UNCHANGED <<asked, lost, issued>> PROVE AskedSound'
  BY <1>2 DEF AskedSound
<1>3. ASSUME NEW p \in Paths, NEW c, NEW a, Enqueue(p, c, a) PROVE AskedSound'
  <2>1. UNCHANGED <<asked, lost>> /\ issued' = [issued EXCEPT ![p] = @ + 1]
    BY <1>3 DEF Enqueue
  <2>2. \A q \in Paths : /\ issued[q] <= issued'[q]
                         /\ issued[q] \in Nat /\ issued'[q] \in Nat
    BY <1>1, <2>1
  <2> QED BY <1>1, <2>1, <2>2 DEF AskedSound
<1>4. ASSUME NEW t \in Threads, FlushCall(t) PROVE AskedSound'
  <2>1. /\ UNCHANGED <<lost, issued>>
        /\ asked' = [asked EXCEPT ![t] =
                [p \in Paths |-> IF issued[p] > lost[p] THEN issued[p] ELSE 0]]
    BY <1>4 DEF FlushCall
  <2> SUFFICES ASSUME NEW u \in Threads, NEW p \in Paths, asked'[u][p] # 0
               PROVE  lost[p] < asked'[u][p] /\ asked'[u][p] <= issued[p]
    BY <2>1 DEF AskedSound
  <2>2. CASE u = t
    BY <1>1, <2>1, <2>2
  <2>3. CASE u # t
    BY <1>1, <2>1, <2>3 DEF AskedSound
  <2> QED BY <2>2, <2>3
<1>5. CASE Crash
  BY <1>5 DEF Crash, AskedSound
<1>6. CASE \E t \in Threads : \/ FlushBlock(t) \/ FlushReturn(t)
                              \/ TakeBackgroundError(t)
  BY <1>2, <1>6 DEF FlushBlock, FlushReturn, TakeBackgroundError, history
<1>7. CASE Worker \/ Shutdown \/ UNCHANGED vars
  BY <1>2, <1>7 DEF Worker, WorkerBlock, TakeJob, WorkerExit, WriteTemporary, Rename,
                    RemoveDestination, RetryRename, RecordResult, CompleteWaiter,
                    RunCallback, JobDone, Shutdown, history, vars
<1> QED BY <1>3, <1>4, <1>5, <1>6, <1>7
        DEF Next, Caller, WriteAsync, WriteAsyncWithCompletion, WriteAndWait

LEMMA NextFailuresIssued ==
    ASSUME TypeOK, Safe, FailuresIssued, [Next]_vars
    PROVE  FailuresIssued'
<1> USE MaxWritesAssumption DEF Snapshots
<1>1. failed \subseteq Paths \X Snapshots /\ issued \in [Paths -> 0 .. MaxWrites]
  BY DEF TypeOK
<1>2. ASSUME NEW p \in Paths, NEW c, NEW a, Enqueue(p, c, a) PROVE FailuresIssued'
  <2>1. failed' = failed /\ issued' = [issued EXCEPT ![p] = @ + 1]
    BY <1>2 DEF Enqueue
  <2> SUFFICES ASSUME NEW f \in failed PROVE f[2] <= issued'[f[1]]
    BY <2>1 DEF FailuresIssued
  <2>2. f[1] \in Paths /\ f[2] \in Nat /\ f[2] <= issued[f[1]]
    BY <1>1 DEF FailuresIssued
  <2>3. issued[f[1]] \in Nat /\ issued'[f[1]] \in Nat /\ issued[f[1]] <= issued'[f[1]]
    BY <1>1, <2>1, <2>2
  <2> QED BY <2>2, <2>3
<1>3. CASE RecordResult
  <2>1. /\ issued' = issued /\ Working
        /\ failed' \subseteq failed \cup {<<job.path, job.bytes>>}
    BY <1>3 DEF RecordResult, Working
  <2>2. job.bytes <= issued[job.path]
    BY <2>1 DEF Safe, WorkerSound, JobSound
  <2> QED BY <2>1, <2>2 DEF FailuresIssued
<1>4. ASSUME UNCHANGED <<failed, issued>> PROVE FailuresIssued'
  BY <1>4 DEF FailuresIssued
<1>5. CASE \E t \in Threads : \/ FlushCall(t) \/ FlushBlock(t) \/ FlushReturn(t)
                              \/ TakeBackgroundError(t)
  BY <1>4, <1>5 DEF FlushCall, FlushBlock, FlushReturn, TakeBackgroundError, history
<1>6. CASE \/ WorkerBlock \/ TakeJob \/ WorkerExit \/ WriteTemporary \/ Rename
           \/ RemoveDestination \/ RetryRename \/ CompleteWaiter \/ RunCallback
           \/ JobDone \/ Shutdown \/ Crash \/ UNCHANGED vars
  BY <1>4, <1>6 DEF WorkerBlock, TakeJob, WorkerExit, WriteTemporary, Rename,
                    RemoveDestination, RetryRename, CompleteWaiter, RunCallback,
                    JobDone, Shutdown, Crash, history, vars
<1> QED BY <1>2, <1>3, <1>5, <1>6
        DEF Next, Caller, Worker, WriteAsync, WriteAsyncWithCompletion, WriteAndWait

LEMMA NextFailures ==
    ASSUME TypeOK, FailuresIssued, FailuresTold, [Next]_vars
    PROVE  FailuresTold'
<1>1. ASSUME UNCHANGED <<failed, noticed, background, lost>>,
             \/ UNCHANGED <<job, pc, success>>
             \/ pc # "notify"
      PROVE  FailuresTold'
  BY <1>1 DEF FailuresTold, OnRecord
<1>2. ASSUME NEW p \in Paths, NEW c, NEW a, Enqueue(p, c, a) PROVE FailuresTold'
  BY <1>1, <1>2 DEF Enqueue, Woken
<1>3. ASSUME NEW t \in Threads, FlushCall(t) \/ FlushBlock(t) PROVE FailuresTold'
  BY <1>1, <1>3 DEF FlushCall, FlushBlock, worker, history
<1>4. ASSUME NEW t \in Threads, FlushReturn(t) \/ TakeBackgroundError(t)
      PROVE  FailuresTold'
  <2>1. /\ UNCHANGED <<failed, lost, job, pc, success>>
        /\ noticed' = IF background THEN noticed \cup failed ELSE noticed
    BY <1>4 DEF FlushReturn, TakeBackgroundError, TakeError, worker
  <2>2. CASE background
    BY <2>1, <2>2 DEF FailuresTold, OnRecord
  <2>3. CASE ~background
    BY <2>1, <2>3 DEF FailuresTold, OnRecord
  <2> QED BY <2>2, <2>3
<1>5. CASE WorkerBlock \/ TakeJob \/ WorkerExit
  BY <1>1, <1>5 DEF WorkerBlock, TakeJob, WorkerExit, history
<1>6. CASE WriteTemporary \/ Rename \/ RemoveDestination \/ RetryRename
  BY <1>1, <1>6 DEF WriteTemporary, Rename, RemoveDestination, RetryRename, history
<1>7. CASE RecordResult
  <2>1. /\ UNCHANGED <<job, success, noticed, lost>> /\ pc = "record" /\ pc' = "notify"
        /\ background' = (background \/ (~success /\ job.completions = {}))
        /\ failed' = IF success THEN failed
                     ELSE failed \cup {<<job.path, job.bytes>>}
    BY <1>7 DEF RecordResult
  <2>2. \A f \in failed : OnRecord(f) => OnRecord(f)'
    BY <2>1 DEF OnRecord
  <2>3. ~success => OnRecord(<<job.path, job.bytes>>)'
    BY <2>1 DEF OnRecord
  <2>4. \A f \in failed' : f \in failed \/ (~success /\ f = <<job.path, job.bytes>>)
    BY <2>1
  <2> QED BY <2>1, <2>2, <2>3, <2>4 DEF FailuresTold
<1>8. CASE CompleteWaiter
  <2> PICK c \in job.completions :
           Told(c[2]) /\ job' = [job EXCEPT !.completions = @ \ {c}]
    BY <1>8 DEF CompleteWaiter
  <2>1. UNCHANGED <<failed, background, lost, pc, success>> /\ pc = "notify"
    BY <1>8 DEF CompleteWaiter
  <2>2. CASE success
    BY <2>1, <2>2 DEF Told, FailuresTold, OnRecord
  <2>3. CASE ~success
    <3>1. noticed' = noticed \cup {<<job.path, job.bytes>>}
      BY <2>3 DEF Told
    <3> QED BY <2>1, <2>3, <3>1 DEF FailuresTold, OnRecord
  <2> QED BY <2>2, <2>3
<1>9. CASE RunCallback
  <2> PICK v \in job.asyncs : Told(v)
    BY <1>9 DEF RunCallback
  <2>1. UNCHANGED <<failed, background, lost>> /\ job.completions = {}
    BY <1>9 DEF RunCallback
  <2>2. noticed \subseteq noticed'
    BY DEF Told
  <2> QED BY <2>1, <2>2 DEF FailuresTold, OnRecord
<1>10. CASE JobDone
  <2>1. UNCHANGED <<failed, noticed, background, lost>> /\ job.completions = {}
    BY <1>10 DEF JobDone, history
  <2> QED BY <2>1 DEF FailuresTold, OnRecord
<1>11. CASE Shutdown
  BY <1>1, <1>11 DEF Shutdown, Woken, history
<1>12. CASE Crash
  <2>1. failed' = failed /\ lost' = issued
    BY <1>12 DEF Crash
  <2>2. ASSUME NEW f \in failed PROVE ~(f[2] > lost'[f[1]])
    <3>1. f[1] \in Paths /\ f[2] \in Nat
      BY MaxWritesAssumption DEF TypeOK, Snapshots
    <3>2. issued[f[1]] \in Nat
      BY <3>1, MaxWritesAssumption DEF TypeOK
    <3>3. f[2] <= issued[f[1]]
      BY DEF FailuresIssued
    <3> QED BY <2>1, <3>1, <3>2, <3>3
  <2> QED BY <2>1, <2>2 DEF FailuresTold
<1>13. CASE UNCHANGED vars
  BY <1>1, <1>13 DEF vars
<1> QED BY <1>2, <1>3, <1>4, <1>5, <1>6, <1>7, <1>8, <1>9, <1>10, <1>11, <1>12, <1>13
        DEF Next, Caller, Worker, WriteAsync, WriteAsyncWithCompletion, WriteAndWait

\* Everything a flush relies on, on either platform.
Accounted ==
    TypeOK /\ Safe /\ Newest /\ ActiveSound /\ AskedSound /\ FailuresIssued
           /\ FailuresTold

LEMMA AccountedAlways == Spec => []Accounted
<1>1. Init => ActiveSound /\ AskedSound /\ FailuresIssued /\ FailuresTold
  BY DEF Init, ActiveSound, Working, AskedSound, FailuresIssued, FailuresTold
<1>2. TypeOK /\ ActiveSound /\ [Next]_vars => ActiveSound'
  BY NextActive
<1>3. TypeOK /\ AskedSound /\ [Next]_vars => AskedSound'
  BY NextAsked
<1>4. TypeOK /\ Safe /\ FailuresIssued /\ [Next]_vars => FailuresIssued'
  BY NextFailuresIssued
<1>5. TypeOK /\ FailuresIssued /\ FailuresTold /\ [Next]_vars => FailuresTold'
  BY NextFailures
<1> QED BY <1>1, <1>2, <1>3, <1>4, <1>5, NewestAlways, PTL DEF Spec, Accounted

\* On either platform no failed write since the last crash is forgotten: it has
\* been told to somebody, is kept as the background error, or the callers
\* waiting for the job are about to be told.
THEOREM FailuresAreTold == Spec => []FailuresTold
<1>1. Accounted => FailuresTold
  BY DEF Accounted
<1> QED BY <1>1, AccountedAlways, PTL

\* When nothing is queued or being written and no error is pending, the newest
\* write a flush asked for is on disk, or its failure is told or being told.
LEMMA IdleCovers ==
    ASSUME Accounted, Idle, ~background, NEW t \in Threads, NEW p \in Paths,
           asked[t][p] # 0
    PROVE  \/ asked[t][p] <= disk[p]
           \/ \E v \in asked[t][p] .. MaxWrites : <<p, v>> \in noticed
           \/ pc = "notify" /\ ~success /\ job.path = p
                /\ job.completions # {} /\ asked[t][p] <= job.bytes
<1> USE MaxWritesAssumption DEF Snapshots
<1>1. /\ issued[p] \in 0 .. MaxWrites /\ lost[p] \in 0 .. MaxWrites
      /\ asked[t][p] \in 0 .. MaxWrites /\ disk[p] \in 0 .. MaxWrites
  BY DEF Accounted, TypeOK
<1>2. lost[p] < asked[t][p] /\ asked[t][p] <= issued[p]
  BY DEF Accounted, AskedSound
<1>3. Carried(p, issued[p])
  BY <1>1, <1>2 DEF Accounted, Newest
<1>4. queue = <<>> /\ (Working => pc = "notify")
  BY DEF Idle, Accounted, ActiveSound
<1>5. CASE disk[p] = issued[p]
  BY <1>2, <1>5
<1>6. CASE <<p, issued[p]>> \in failed
  <2>1. OnRecord(<<p, issued[p]>>)
    <3>1. issued[p] > lost[p]
      BY <1>1, <1>2
    <3> QED BY <1>6, <3>1 DEF Accounted, FailuresTold
  <2>2. issued[p] \in asked[t][p] .. MaxWrites
    BY <1>1, <1>2
  <2> QED BY <1>2, <2>1, <2>2 DEF OnRecord
<1>7. CASE Working /\ job.path = p /\ job.bytes = issued[p]
  <2>1. CASE success
    <3>1. job.bytes <= disk[job.path]
      BY <1>4, <1>7, <2>1 DEF Accounted, Safe, WorkerSound
    <3> QED BY <1>1, <1>2, <1>7, <3>1
  <2>2. CASE ~success
    <3>1. <<p, issued[p]>> \in failed
      BY <1>4, <1>7, <2>2 DEF Accounted, Newest
    <3> QED BY <1>6, <3>1
  <2> QED BY <2>1, <2>2
<1> QED BY <1>3, <1>4, <1>5, <1>6, <1>7 DEF Carried

\* Version v of path p is covered as FlushCovers asks.
Covers(p, v) ==
    \/ v <= disk[p]
    \/ \E w \in v .. MaxWrites : <<p, w>> \in noticed
    \/ pc = "notify" /\ ~success /\ job.path = p
         /\ job.completions # {} /\ v <= job.bytes

\* On POSIX what is covered stays covered until the process crashes: files only
\* get newer, nothing told is forgotten, and a job keeps its waiters until they
\* are told.
LEMMA StaysCovered ==
    ASSUME Windows = FALSE, TypeOK, Safe, [Next]_vars, ~Crash,
           NEW p \in Paths, NEW v \in 0 .. MaxWrites, Covers(p, v)
    PROVE  Covers(p, v)'
<1> USE MaxWritesAssumption DEF Snapshots
<1>1. disk[p] \in Nat /\ disk \in [Paths -> 0 .. MaxWrites]
  BY DEF TypeOK
<1>2. CASE v <= disk[p]
  <2>1. CASE UNCHANGED disk
    BY <1>2, <2>1 DEF Covers
  <2>2. CASE disk' # disk
    <3>1. /\ job.path \in Paths /\ job.bytes \in Snapshots
          /\ disk[job.path] < job.bytes
          /\ disk' = [disk EXCEPT ![job.path] = job.bytes]
      BY <2>2, DiskSteps
    <3>2. disk'[p] \in Nat /\ disk[p] <= disk'[p]
      BY <1>1, <3>1
    <3>3. v <= disk'[p]
      BY <1>1, <1>2, <3>2
    <3> QED BY <3>3 DEF Covers
  <2> QED BY <2>1, <2>2
<1>3. noticed \subseteq noticed'
  <2>1. CASE \E t \in Threads : Caller(t)
    BY <2>1 DEF Caller, WriteAsync, WriteAsyncWithCompletion, WriteAndWait, Enqueue,
                FlushCall, FlushBlock, FlushReturn, TakeBackgroundError, TakeError,
                history
  <2>2. CASE CompleteWaiter \/ RunCallback
    BY <2>2 DEF CompleteWaiter, RunCallback, Told
  <2>3. CASE \/ WorkerBlock \/ TakeJob \/ WorkerExit \/ WriteTemporary \/ Rename
             \/ RemoveDestination \/ RetryRename \/ RecordResult \/ JobDone
             \/ Shutdown \/ UNCHANGED vars
    BY <2>3 DEF WorkerBlock, TakeJob, WorkerExit, WriteTemporary, Rename,
                RemoveDestination, RetryRename, RecordResult, JobDone, Shutdown,
                history, vars
  <2> QED BY <2>1, <2>2, <2>3 DEF Next, Worker
<1>4. CASE \E w \in v .. MaxWrites : <<p, w>> \in noticed
  BY <1>3, <1>4 DEF Covers
<1>5. CASE pc = "notify" /\ ~success /\ job.path = p /\ job.completions # {}
             /\ v <= job.bytes
  <2>1. CASE CompleteWaiter
    <3>1. <<job.path, job.bytes>> \in noticed'
      BY <1>5, <2>1 DEF CompleteWaiter, Told
    <3>2. job \in Job
      BY <1>5, JobTypes DEF Working
    <3>3. job.bytes \in v .. MaxWrites
      BY <1>5, <3>2 DEF Job
    <3> QED BY <1>5, <3>1, <3>3 DEF Covers
  <2>2. CASE UNCHANGED <<pc, success, job>>
    BY <1>5, <2>2 DEF Covers
  <2>3. CASE \E t \in Threads : Caller(t)
    <3>1. UNCHANGED <<pc, success, job>>
      BY <1>5, <2>3 DEF Caller, WriteAsync, WriteAsyncWithCompletion, WriteAndWait,
                        Enqueue, Woken, FlushCall, FlushBlock, FlushReturn,
                        TakeBackgroundError, worker
    <3> QED BY <2>2, <3>1
  <2>4. CASE Shutdown \/ UNCHANGED vars
    BY <1>5, <2>2, <2>4 DEF Shutdown, Woken, vars
  <2> QED BY <1>5, <2>1, <2>3, <2>4
          DEF Next, Worker, WorkerBlock, TakeJob, WorkerExit, WriteTemporary, Rename,
              RemoveDestination, RetryRename, RecordResult, RunCallback, JobDone
<1> QED BY <1>2, <1>4, <1>5 DEF Covers

LEMMA NextFlush ==
    ASSUME Windows = FALSE, Accounted, FlushCovers, [Next]_vars
    PROVE  FlushCovers'
<1> USE MaxWritesAssumption
<1>1. /\ flushed \in [Paths -> 0 .. MaxWrites] /\ disk \in [Paths -> 0 .. MaxWrites]
      /\ asked \in [Threads -> [Paths -> 0 .. MaxWrites]]
      /\ TypeOK /\ Safe
  BY DEF Accounted, TypeOK
<1>2. \A p \in Paths : Covers(p, flushed[p])
  BY DEF FlushCovers, Covers
<1>3. ASSUME ~Crash,
             \A p \in Paths : \/ flushed'[p] = flushed[p]
                              \/ flushed'[p] \in 0 .. MaxWrites /\ Covers(p, flushed'[p])
      PROVE  FlushCovers'
  <2>1. ASSUME NEW p \in Paths PROVE Covers(p, flushed[p])'
    <3>1. flushed'[p] \in 0 .. MaxWrites /\ Covers(p, flushed'[p])
      BY <1>1, <1>2, <1>3
    <3>2. ASSUME NEW v \in 0 .. MaxWrites, v = flushed'[p], Covers(p, v)
          PROVE  Covers(p, flushed[p])'
      <4>1. Covers(p, v)'
        BY <1>1, <1>3, <3>2, StaysCovered
      <4> QED BY <3>2, <4>1 DEF Covers
    <3> QED BY <3>1, <3>2
  <2> QED BY <2>1 DEF FlushCovers, Covers
<1>4. CASE \E t \in Threads : FlushReturn(t)
  <2> PICK t \in Threads : FlushReturn(t)
    BY <1>4
  <2>1. ~Crash
    BY LimitsAssumption DEF FlushReturn, Crash, Accounted, TypeOK
  <2>2. CASE background
    BY <1>3, <2>1, <2>2 DEF FlushReturn
  <2>3. CASE ~background
    <3>1. /\ Idle
          /\ flushed' = [p \in Paths |-> IF asked[t][p] > flushed[p]
                                         THEN asked[t][p] ELSE flushed[p]]
      BY <2>3 DEF FlushReturn
    <3>2. ASSUME NEW p \in Paths, flushed'[p] # flushed[p]
          PROVE  flushed'[p] \in 0 .. MaxWrites /\ Covers(p, flushed'[p])
      <4>1. flushed'[p] = asked[t][p] /\ asked[t][p] > flushed[p]
        BY <3>1, <3>2
      <4>2. asked[t][p] \in 0 .. MaxWrites /\ asked[t][p] # 0
        BY <1>1, <4>1
      <4>3. Covers(p, asked[t][p])
        BY <2>3, <3>1, <4>2, IdleCovers DEF Covers
      <4> QED BY <4>1, <4>2, <4>3
    <3> QED BY <1>3, <2>1, <3>2
  <2> QED BY <2>2, <2>3
<1>5. CASE Crash
  <2>1. /\ disk' = disk
        /\ flushed' = [p \in Paths |-> IF flushed[p] > disk[p] THEN 0 ELSE flushed[p]]
    BY <1>5 DEF Crash, files
  <2>2. ASSUME NEW p \in Paths PROVE flushed'[p] <= disk'[p]
    BY <1>1, <2>1
  <2> QED BY <2>2 DEF FlushCovers
<1>6. ASSUME UNCHANGED flushed, ~Crash PROVE FlushCovers'
  BY <1>3, <1>6
<1>7. CASE \E t \in Threads : Caller(t) /\ ~FlushReturn(t)
  BY <1>5, <1>6, <1>7 DEF Caller, WriteAsync, WriteAsyncWithCompletion, WriteAndWait,
              Enqueue, FlushCall, FlushBlock, TakeBackgroundError, history
<1>8. CASE Worker \/ Shutdown \/ UNCHANGED vars
  BY <1>5, <1>6, <1>8 DEF Worker, WorkerBlock, TakeJob, WorkerExit, WriteTemporary,
              Rename, RemoveDestination, RetryRename, RecordResult, CompleteWaiter,
              RunCallback, JobDone, Shutdown, history, vars
<1> QED BY <1>4, <1>5, <1>7, <1>8 DEF Next

\* On POSIX a flush() that returned true covers every write accepted before its
\* call: the bytes are on disk, or a failed write of the path has been told, or
\* is about to be told, to somebody.
THEOREM FlushAlwaysCovers ==
    ASSUME Windows = FALSE
    PROVE  Spec => []FlushCovers
<1>1. Init => FlushCovers
  BY DEF Init, FlushCovers
<1>2. Accounted /\ FlushCovers /\ [Next]_vars => FlushCovers'
  BY NextFlush
<1> QED BY <1>1, <1>2, AccountedAlways, PTL DEF Spec
-----------------------------------------------------------------------------
(* What the Windows fallback loses *)

\* What happened to a saved snapshot is known, as WindowsLossIsReported asks.
LossKnown(a) ==
    \/ a[2] <= disk[a[1]]
    \/ pc \in {"retry", "record"} /\ job.path = a[1] /\ a[2] < job.bytes
    \/ \E v \in Snapshots : a[2] < v /\ <<a[1], v>> \in failed

\* A snapshot is reported saved only while it, or a newer one, is on disk.
LEMMA NewlyAcked ==
    ASSUME TypeOK, Safe, [Next]_vars, NEW a \in acked', a \notin acked
    PROVE  UNCHANGED disk /\ a[2] <= disk[a[1]]
<1> USE MaxWritesAssumption DEF Snapshots
<1>1. CASE CompleteWaiter \/ RunCallback
  <2>1. pc = "notify" /\ UNCHANGED disk
    BY <1>1 DEF CompleteWaiter, RunCallback, files
  <2>2. job \in Job /\ job.path \in Paths /\ job.bytes \in Nat
    BY <2>1, JobTypes DEF Job, Working
  <2>3. PICK v : Told(v) /\ (v \in job.asyncs \/ \E c \in job.completions : v = c[2])
    BY <1>1 DEF CompleteWaiter, RunCallback
  <2>4. v \in Nat /\ v <= job.bytes
    BY <2>1, <2>2, <2>3 DEF Job, Request, Safe, WorkerSound, JobSound, Working
  <2>5. success /\ a = <<job.path, v>>
    BY <2>3 DEF Told
  <2>6. job.bytes <= disk[job.path] /\ disk[job.path] \in Nat
    BY <2>1, <2>2, <2>5 DEF Safe, WorkerSound, TypeOK
  <2> QED BY <2>1, <2>2, <2>4, <2>5, <2>6
<1>2. CASE acked' = acked
  BY <1>2
<1>3. CASE \E t \in Threads : Caller(t)
  BY <1>2, <1>3 DEF Caller, WriteAsync, WriteAsyncWithCompletion, WriteAndWait,
              Enqueue, FlushCall, FlushBlock, FlushReturn, TakeBackgroundError, history
<1>4. CASE \/ WorkerBlock \/ TakeJob \/ WorkerExit \/ WriteTemporary \/ Rename
           \/ RemoveDestination \/ RetryRename \/ RecordResult \/ JobDone
           \/ Shutdown \/ Crash \/ UNCHANGED vars
  BY <1>2, <1>4 DEF WorkerBlock, TakeJob, WorkerExit, WriteTemporary, Rename,
              RemoveDestination, RetryRename, RecordResult, JobDone, Shutdown, Crash,
              history, vars
<1> QED BY <1>1, <1>3, <1>4 DEF Next, Worker

LEMMA StaysKnown ==
    ASSUME TypeOK, Safe, [Next]_vars, ~Crash, NEW a \in acked, LossKnown(a)
    PROVE  LossKnown(a)'
<1> USE MaxWritesAssumption DEF Snapshots
<1>1. /\ a[1] \in Paths /\ a[2] \in Nat /\ disk \in [Paths -> 0 .. MaxWrites]
      /\ disk[a[1]] \in Nat
  BY DEF TypeOK
<1>2. ASSUME UNCHANGED <<disk, failed>>, \/ UNCHANGED <<pc, job>>
                                         \/ pc \notin {"retry", "record"}
      PROVE  LossKnown(a)'
  BY <1>2 DEF LossKnown
<1>3. CASE \E t \in Threads : Caller(t)
  BY <1>2, <1>3 DEF Caller, WriteAsync, WriteAsyncWithCompletion, WriteAndWait,
              Enqueue, Woken, FlushCall, FlushBlock, FlushReturn, TakeBackgroundError,
              worker, files, history
<1>4. CASE \/ WorkerBlock \/ TakeJob \/ WorkerExit \/ WriteTemporary
           \/ CompleteWaiter \/ RunCallback \/ JobDone \/ Shutdown \/ UNCHANGED vars
  BY <1>2, <1>4 DEF WorkerBlock, TakeJob, WorkerExit, WriteTemporary, CompleteWaiter,
              RunCallback, JobDone, Shutdown, Woken, files, history, vars
<1>5. CASE Rename \/ RemoveDestination \/ RetryRename
  <2>1. UNCHANGED <<job, failed>> /\ pc \in {"rename", "remove", "retry"}
    BY <1>5 DEF Rename, RemoveDestination, RetryRename, history
  <2>2. job \in Job /\ job.path \in Paths /\ job.bytes \in Nat
    BY <2>1, JobTypes DEF Job, Working
  <2>3. disk[job.path] < job.bytes /\ temp[job.path] = job.bytes
    BY <2>1 DEF Safe, WorkerSound
  <2>4. CASE RenameSucceeds
    <3>1. disk' = [disk EXCEPT ![job.path] = job.bytes]
      BY <2>3, <2>4 DEF RenameSucceeds
    <3>2. CASE a[1] = job.path
      <4>1. disk'[a[1]] = job.bytes
        BY <1>1, <3>1, <3>2
      <4> QED BY <1>1, <2>1, <2>2, <2>3, <3>2, <4>1 DEF LossKnown
    <3>3. CASE a[1] # job.path
      <4>1. disk'[a[1]] = disk[a[1]]
        BY <1>1, <3>1, <3>3
      <4> QED BY <2>1, <3>3, <4>1 DEF LossKnown
    <3> QED BY <3>2, <3>3
  <2>5. CASE RenameGivesUp
    BY <2>1, <2>5 DEF LossKnown, RenameGivesUp
  <2>6. CASE Rename /\ UNCHANGED files
    BY <1>2, <2>1, <2>6 DEF Rename, files
  <2>7. CASE RemoveDestination
    <3>1. pc' = "retry" /\ pc = "remove"
      BY <2>7 DEF RemoveDestination
    <3>2. a[1] # job.path => disk'[a[1]] = disk[a[1]]
      BY <1>1, <2>7 DEF RemoveDestination
    <3>3. CASE a[1] = job.path
      BY <1>1, <2>1, <2>2, <2>3, <3>1, <3>3 DEF LossKnown
    <3>4. CASE a[1] # job.path
      BY <2>1, <3>1, <3>2, <3>4 DEF LossKnown
    <3> QED BY <3>3, <3>4
  <2> QED BY <1>5, <2>4, <2>5, <2>6, <2>7 DEF Rename, RetryRename
<1>6. CASE RecordResult
  <2>1. /\ UNCHANGED <<job, success, disk>> /\ pc = "record"
        /\ failed' = IF success THEN failed
                     ELSE failed \cup {<<job.path, job.bytes>>}
    BY <1>6 DEF RecordResult, files
  <2>2. job \in Job /\ job.path \in Paths /\ job.bytes \in Snapshots
    BY <2>1, JobTypes DEF Job, Working
  <2>3. CASE job.path = a[1] /\ a[2] < job.bytes
    <3>1. CASE success
      <4>1. job.bytes <= disk[job.path]
        BY <2>1, <3>1 DEF Safe, WorkerSound
      <4> QED BY <1>1, <2>1, <2>2, <2>3, <4>1 DEF LossKnown
    <3>2. CASE ~success
      BY <2>1, <2>2, <2>3, <3>2 DEF LossKnown
    <3> QED BY <3>1, <3>2
  <2>4. CASE ~(job.path = a[1] /\ a[2] < job.bytes)
    BY <2>1, <2>4 DEF LossKnown
  <2> QED BY <2>3, <2>4
<1> QED BY <1>3, <1>4, <1>5, <1>6 DEF Next, Worker

\* As long as the process has not been killed, a snapshot that was reported
\* saved disappears only while a newer one is being renamed into its place, or
\* after the write of a newer one has failed: on Windows too.
THEOREM LossIsAlwaysReported == Spec => [](crashes = 0 => WindowsLossIsReported)
<1> DEFINE Inv == crashes = 0 => \A a \in acked : LossKnown(a)
<1>1. Init => Inv
  BY DEF Init
<1>2. TypeOK /\ Safe /\ Inv /\ [Next]_vars => Inv'
  <2> SUFFICES ASSUME TypeOK, Safe, Inv, [Next]_vars, crashes' = 0, NEW a \in acked'
               PROVE  LossKnown(a)'
    OBVIOUS
  <2>1. ~Crash
    BY LimitsAssumption DEF Crash, TypeOK
  <2>2. crashes = 0
    BY <2>1 DEF Next, Caller, Worker, WriteAsync, WriteAsyncWithCompletion,
                WriteAndWait, Enqueue, FlushCall, FlushBlock, FlushReturn,
                TakeBackgroundError, WorkerBlock, TakeJob, WorkerExit, WriteTemporary,
                Rename, RemoveDestination, RetryRename, RecordResult, CompleteWaiter,
                RunCallback, JobDone, Shutdown, history, vars
  <2>3. CASE a \in acked
    BY <2>1, <2>2, <2>3, StaysKnown
  <2>4. CASE a \notin acked
    BY <2>4, NewlyAcked DEF LossKnown
  <2> QED BY <2>3, <2>4
<1>3. Inv => (crashes = 0 => WindowsLossIsReported)
  BY DEF WindowsLossIsReported, LossKnown
<1> QED BY <1>1, <1>2, <1>3, SafeAlways, PTL DEF Spec
-----------------------------------------------------------------------------
(* Nobody is left waiting *)

Awaits(j, t) == \E c \in j.completions : c[1] = t

\* A thread in write_and_wait has its completion with a job, a flusher that sleeps
\* has something to wait for, and the worker sleeps or ends only without work.
Attended ==
    /\ \A t \in Threads : status[t] = "waiting" =>
         \/ \E i \in DOMAIN queue : Awaits(queue[i], t)
         \/ Working /\ Awaits(job, t)
    /\ \A t \in Threads : status[t] = "idle" => queue # <<>> \/ (Working /\ pc # "notify")
    /\ pc \in {"blocked", "exited"} => queue = <<>>
    /\ pc = "blocked" => ~stopping
    /\ pc = "exited" => stopping

\* The jobs that were pending keep their waiters, and one has the new ones.
LEMMA CoalescedWaiters ==
    ASSUME TypeOK, NEW p \in Paths, NEW completions, NEW asyncs,
           Enqueue(p, completions, asyncs)
    PROVE  /\ \A i \in DOMAIN queue : /\ i \in DOMAIN queue'
                                      /\ queue[i].completions \subseteq queue'[i].completions
           /\ \E i \in DOMAIN queue' : completions \subseteq queue'[i].completions
           /\ queue' # <<>>
<1>1. queue' = Coalesced(p, completions, asyncs)
  BY DEF Enqueue
<1>2. CASE Pending(p) # {}
  <2>1. /\ DOMAIN queue' = DOMAIN queue
        /\ \A i \in DOMAIN queue :
             queue'[i] = IF i \in Pending(p)
                         THEN Merged(queue[i], issued[p] + 1, completions, asyncs)
                         ELSE queue[i]
    BY <1>1, <1>2 DEF Coalesced
  <2>2. PICK k \in DOMAIN queue : k \in Pending(p)
    BY <1>2 DEF Pending
  <2>3. queue' # <<>>
    <3>1. DOMAIN <<>> = {}
      OBVIOUS
    <3> QED BY <2>1, <2>2, <3>1
  <2> QED BY <2>1, <2>2, <2>3 DEF Merged
<1>3. CASE Pending(p) = {}
  <2> DEFINE new == [path |-> p, bytes |-> issued[p] + 1,
                     completions |-> completions, asyncs |-> asyncs]
  <2>1. queue' = Append(queue, new) /\ new.completions = completions
    BY <1>1, <1>3 DEF Coalesced
  <2> HIDE DEF new
  <2>2. /\ DOMAIN queue = 1 .. Len(queue) /\ Len(queue) \in Nat
        /\ DOMAIN queue' = 1 .. Len(queue) + 1
        /\ \A i \in DOMAIN queue : queue'[i] = queue[i]
        /\ queue'[Len(queue) + 1] = new /\ queue' # <<>>
    BY <2>1 DEF TypeOK
  <2>3. Len(queue) + 1 \in DOMAIN queue' /\ \A i \in DOMAIN queue : i \in DOMAIN queue'
    BY <2>2
  <2> QED BY <2>1, <2>2, <2>3
<1> QED BY <1>2, <1>3

LEMMA EnqueueAttended ==
    ASSUME TypeOK, Attended, NEW p \in Paths, NEW completions, NEW asyncs,
           Enqueue(p, completions, asyncs),
           \A t \in Threads : \/ status'[t] = status[t]
                              \/ status'[t] = "waiting" /\ \E c \in completions : c[1] = t
    PROVE  Attended'
<1>1. /\ UNCHANGED <<job, stopping>> /\ ~stopping
      /\ (Working' <=> Working) /\ (pc' = "notify" <=> pc = "notify")
      /\ pc' # "blocked" /\ (pc' = "exited" => pc = "exited")
  BY DEF Enqueue, Woken, Working
<1>2. \A t \in Threads : (\E i \in DOMAIN queue : Awaits(queue[i], t)) =>
                         \E i \in DOMAIN queue' : Awaits(queue'[i], t)
  BY CoalescedWaiters DEF Awaits
<1>3. \A t \in Threads : (\E c \in completions : c[1] = t) =>
                         \E i \in DOMAIN queue' : Awaits(queue'[i], t)
  BY CoalescedWaiters DEF Awaits
<1>4. queue' # <<>>
  BY CoalescedWaiters
<1> QED BY <1>1, <1>2, <1>3, <1>4 DEF Attended

\* The waiters of the first job go to the worker with it.
LEMMA TakeJobAttended ==
    ASSUME TypeOK, Attended, TakeJob
    PROVE  Attended'
<1>1. /\ job' = Head(queue) /\ queue' = Tail(queue) /\ queue # <<>>
      /\ pc' = "write" /\ Working' /\ ~Working /\ status' = status
  BY DEF TakeJob, Working
<1>2. /\ job' = queue[1]
      /\ \A i \in DOMAIN queue :
            i = 1 \/ (i - 1 \in DOMAIN queue' /\ queue'[i - 1] = queue[i])
  BY <1>1 DEF TypeOK
<1>3. ASSUME NEW t \in Threads, status'[t] = "waiting"
      PROVE  (\E i \in DOMAIN queue' : Awaits(queue'[i], t)) \/ Awaits(job', t)
  <2>1. PICK i \in DOMAIN queue : Awaits(queue[i], t)
    BY <1>1, <1>3 DEF Attended
  <2>2. CASE i = 1
    BY <1>2, <2>1, <2>2
  <2>3. CASE i # 1
    BY <1>2, <2>1, <2>3
  <2> QED BY <2>2, <2>3
<1> QED BY <1>1, <1>3 DEF Attended

LEMMA NextAttended ==
    ASSUME TypeOK, ActiveSound, Attended, [Next]_vars
    PROVE  Attended'
<1> USE DEF Working
<1>1. ASSUME NEW t \in Threads, NEW p \in Paths,
             WriteAsync(t, p) \/ WriteAsyncWithCompletion(t, p)
      PROVE  Attended'
  BY <1>1, EnqueueAttended DEF WriteAsync, WriteAsyncWithCompletion
<1>2. ASSUME NEW t \in Threads, NEW p \in Paths, WriteAndWait(t, p) PROVE Attended'
  <2> DEFINE completions == {<<t, issued[p] + 1>>}
  <2>1. Enqueue(p, completions, {}) /\ status' = [status EXCEPT ![t] = "waiting"]
    BY <1>2 DEF WriteAndWait
  <2>2. \E c \in completions : c[1] = t
    OBVIOUS
  <2>3. \A u \in Threads : \/ status'[u] = status[u]
                           \/ status'[u] = "waiting" /\ \E c \in completions : c[1] = u
    BY <2>1, <2>2 DEF TypeOK
  <2> HIDE DEF completions
  <2> QED BY <2>1, <2>3, EnqueueAttended
<1>3. ASSUME NEW t \in Threads,
             FlushCall(t) \/ FlushBlock(t) \/ FlushReturn(t) \/ TakeBackgroundError(t)
      PROVE  Attended'
  <2>1. UNCHANGED <<queue, job, pc, stopping>>
    BY <1>3 DEF FlushCall, FlushBlock, FlushReturn, TakeBackgroundError, worker
  <2>2. \A u \in Threads : /\ status'[u] = "waiting" => status[u] = "waiting"
                           /\ status'[u] = "idle" => status[u] = "idle" \/ ~Idle
    BY <1>3 DEF FlushCall, FlushBlock, FlushReturn, TakeBackgroundError, TypeOK
  <2>3. ~Idle => queue # <<>> \/ (Working /\ pc # "notify")
    BY DEF Idle, ActiveSound
  <2> QED BY <2>1, <2>2, <2>3 DEF Attended
<1>4. CASE WorkerBlock \/ WorkerExit
  <2>1. /\ queue = <<>> /\ UNCHANGED <<queue, stopping>> /\ pc = "check"
        /\ \/ pc' = "blocked" /\ ~stopping
           \/ pc' = "exited" /\ stopping
    BY <1>4 DEF WorkerBlock, WorkerExit, MayExit
  <2>2. \A t \in Threads : status[t] # "waiting" /\ status[t] # "idle"
    BY <2>1 DEF Attended
  <2>3. \A t \in Threads : status'[t] # "waiting" /\ status'[t] # "idle"
    BY <1>4, <2>2 DEF WorkerBlock, WorkerExit, FlushersWoken
  <2> QED BY <2>1, <2>3 DEF Attended
<1>5. CASE TakeJob
  BY <1>5, TakeJobAttended
<1>6. CASE WriteTemporary \/ Rename \/ RemoveDestination \/ RetryRename
  <2>1. /\ UNCHANGED <<queue, job, stopping, status>> /\ Working
        /\ pc' \in {"rename", "remove", "retry", "record"}
    BY <1>6 DEF WriteTemporary, Rename, RemoveDestination, RetryRename, RenameSucceeds,
                RenameGivesUp
  <2> QED BY <2>1 DEF Attended
<1>7. CASE RecordResult
  <2>1. UNCHANGED <<queue, job, stopping>> /\ Working /\ pc' = "notify"
    BY <1>7 DEF RecordResult
  <2>2. \A t \in Threads : /\ status'[t] = "waiting" => status[t] = "waiting"
                           /\ status'[t] = "idle" => queue # <<>>
    BY <1>7 DEF RecordResult, FlushersWoken
  <2> QED BY <2>1, <2>2 DEF Attended
<1>8. CASE CompleteWaiter
  <2>1. PICK c \in job.completions :
             /\ job' = [job EXCEPT !.completions = @ \ {c}]
             /\ status' = [status EXCEPT ![c[1]] = IF stopping THEN "gone" ELSE "ready"]
    BY <1>8 DEF CompleteWaiter
  <2>2. UNCHANGED <<queue, pc, stopping>> /\ pc = "notify"
    BY <1>8 DEF CompleteWaiter
  <2>3. job \in Job /\ job'.completions = job.completions \ {c}
    BY <2>1, <2>2, JobTypes DEF Job
  <2>4. c[1] \in Threads
    BY <2>3 DEF Job, Request
  <2>5. \A t \in Threads : /\ status'[t] = "waiting" => status[t] = "waiting" /\ t # c[1]
                           /\ status'[t] = "idle" => status[t] = "idle"
    BY <2>1, <2>4 DEF TypeOK
  <2>6. \A t \in Threads : t # c[1] /\ Awaits(job, t) => Awaits(job', t)
    BY <2>3 DEF Awaits
  <2> QED BY <2>2, <2>5, <2>6 DEF Attended
<1>9. CASE RunCallback
  <2>1. UNCHANGED <<queue, pc, stopping, status>> /\ pc = "notify"
    BY <1>9 DEF RunCallback
  <2>2. job'.completions = job.completions
    BY <1>9, <2>1, JobTypes DEF RunCallback, Job
  <2> QED BY <2>1, <2>2 DEF Attended, Awaits
<1>10. CASE JobDone
  <2>1. /\ UNCHANGED <<queue, stopping, status>> /\ pc = "notify" /\ pc' = "check"
        /\ job.completions = {}
    BY <1>10 DEF JobDone
  <2> QED BY <2>1 DEF Attended, Awaits
<1>11. CASE Shutdown
  <2>1. /\ UNCHANGED <<queue, job>> /\ stopping' /\ pc' # "blocked"
        /\ (Working' <=> Working) /\ (pc' = "exited" => pc = "exited")
    BY <1>11 DEF Shutdown, Woken
  <2>2. \A t \in Threads : /\ status'[t] = "waiting" => status[t] = "waiting"
                           /\ status'[t] # "idle"
    BY <1>11 DEF Shutdown
  <2> QED BY <2>1, <2>2 DEF Attended
<1>12. CASE Crash
  BY <1>12 DEF Crash, Attended
<1>13. CASE UNCHANGED vars
  BY <1>13 DEF vars, Attended
<1> QED BY <1>1, <1>2, <1>3, <1>4, <1>5, <1>6, <1>7, <1>8, <1>9, <1>10, <1>11, <1>12,
           <1>13
        DEF Next, Caller, Worker

\* Whoever waits has something that will end the wait: a thread in write_and_wait
\* its completion with a job, a flusher that sleeps a job not recorded yet; and the
\* worker neither sleeps nor ends while anybody waits.
NobodyStranded ==
    /\ \A t \in Threads : status[t] = "waiting" =>
         \/ \E i \in DOMAIN queue : Awaits(queue[i], t)
         \/ Working /\ Awaits(job, t)
    /\ \A t \in Threads : status[t] = "idle" => ~Idle
    /\ pc \in {"blocked", "exited"} =>
         Idle /\ \A t \in Threads : status[t] \notin {"waiting", "idle"}

\* On either platform, and after any number of crashes, no wakeup is missed and no
\* completion is dropped by coalescing: this is what lets the callers return.
THEOREM NoneStranded == Spec => []NobodyStranded
<1>1. Init => Attended
  BY DEF Init, Attended
<1>2. Accounted /\ Attended /\ [Next]_vars => Attended'
  BY NextAttended DEF Accounted
<1>3. Accounted /\ Attended => NobodyStranded
  BY DEF Accounted, ActiveSound, Attended, NobodyStranded, Idle, Working
<1> QED BY <1>1, <1>2, <1>3, AccountedAlways, PTL DEF Spec
=============================================================================
