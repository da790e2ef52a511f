-------------------------- MODULE SoftwareFrameQueue --------------------------
(***************************************************************************)
(* NativeSoftwareFrameQueue: the thread of the libretro core writes frames  *)
(* into a few reusable slots, the platform thread presents the oldest ready *)
(* one.  Pixels are written and read outside the mutex; the state of the    *)
(* slot is what keeps the two threads apart.  The core may also call with   *)
(* no pixels, a duplicate: the previous frame stands for one more frame.    *)
(***************************************************************************)
EXTENDS Naturals

CONSTANTS
    Capacity,      \* kCapacity
    MaxCoreCalls   \* bound: calls of the core thread

ASSUME CapacityAssumption == Capacity \in Nat /\ Capacity >= 3
ASSUME CallsAssumption == MaxCoreCalls \in Nat

VARIABLES
    state,       \* slot -> Slot::state
    id,          \* slot -> Slot::frame_id
    writing,     \* writing_slot_
    nextId,      \* next_frame_id_
    active,      \* active_
    presenting,  \* the slot present_pending is showing
    coreRuns,    \* the core thread runs
    coreCalls,   \* calls it has made
    shown        \* frame presented last

slotVars == <<state, id>>
queueVars == <<slotVars, writing, nextId, active, presenting, coreRuns, coreCalls, shown>>

FrameSlots == 0 .. Capacity - 1
NoSlot == Capacity
Ids == 0 .. MaxCoreCalls
SlotStates == {"Free", "Writing", "Ready", "Presenting"}

\* Types, and writing_slot_ is the one slot in state Writing.
QueueTypeOK ==
    /\ state \in [FrameSlots -> SlotStates]
    /\ id \in [FrameSlots -> Ids]
    /\ writing \in FrameSlots \cup {NoSlot} /\ presenting \in FrameSlots \cup {NoSlot}
    /\ nextId \in Ids /\ coreCalls \in Ids /\ nextId <= coreCalls
    /\ active \in BOOLEAN /\ coreRuns \in BOOLEAN
    /\ shown \in Ids
    /\ \A s \in FrameSlots : (state[s] = "Writing") <=> (s = writing)

\* initialize() ran; the session is about to start the core.
QueueInit ==
    /\ state = [s \in FrameSlots |-> "Free"]
    /\ id = [s \in FrameSlots |-> 0]
    /\ writing = NoSlot /\ presenting = NoSlot
    /\ nextId = 0
    /\ active = TRUE /\ coreRuns = TRUE /\ coreCalls = 0
    /\ shown = 0
-----------------------------------------------------------------------------
(* The core thread *)

\* Mutants of OldestReady: the newest one; one being presented as well.
NewestReady(s) ==
    state[s] = "Ready" /\ \A t \in FrameSlots : state[t] = "Ready" => id[s] >= id[t]
OldestBusy(s) ==
    /\ state[s] \in {"Ready", "Presenting"}
    /\ \A t \in FrameSlots : state[t] \in {"Ready", "Presenting"} => id[s] <= id[t]
OldestReady(s) ==
    state[s] = "Ready" /\ \A t \in FrameSlots : state[t] = "Ready" => id[s] <= id[t]

FirstFree(s) == state[s] = "Free" /\ \A t \in FrameSlots : state[t] = "Free" => s <= t
NoneFree == \A s \in FrameSlots : state[s] # "Free"

\* choose_writable_slot_locked; a frame that waits may be replaced.
Writable(s) == FirstFree(s) \/ (NoneFree /\ OldestReady(s))

\* The slot a call works on: the one already being written, or a new choice.
Chosen(s) == IF writing = NoSlot THEN Writable(s) ELSE s = writing

CoreCall == coreRuns /\ coreCalls < MaxCoreCalls /\ coreCalls' = coreCalls + 1

\* acquire_software_framebuffer; the core then draws in the slot.
Acquire(s) ==
    /\ CoreCall /\ active /\ Chosen(s)
    /\ writing' = s
    /\ state' = [state EXCEPT ![s] = "Writing"]
    /\ UNCHANGED <<id, nextId, active, presenting, coreRuns, shown>>

\* Mutant of WrittenSlot: the slot is not let go.
WrittenSlotKept(s) == s
WrittenSlot(s) == NoSlot

\* present_software, with pixels or for a duplicate.
Publish(s) ==
    /\ CoreCall /\ active /\ Chosen(s)
    /\ id' = [id EXCEPT ![s] = nextId + 1] /\ nextId' = nextId + 1
    /\ state' = [state EXCEPT ![s] = "Ready"]
    /\ writing' = WrittenSlot(s)
    /\ UNCHANGED <<active, presenting, coreRuns, shown>>

\* The slot of a frame the core acquired and did not present.
Released == [s \in FrameSlots |-> IF s = writing THEN "Free" ELSE state[s]]

\* present_software is given a shape it refuses.
PublishMisshapen ==
    /\ CoreCall
    /\ state' = Released /\ writing' = NoSlot
    /\ UNCHANGED <<id, nextId, active, presenting, coreRuns, shown>>

\* finish_frame, after every retro_run.
FinishFrame ==
    /\ coreRuns /\ writing # NoSlot
    /\ state' = Released /\ writing' = NoSlot
    /\ UNCHANGED <<id, nextId, active, presenting, coreRuns, coreCalls, shown>>

\* session.stop() has joined the core thread.
CoreStops ==
    /\ coreRuns /\ presenting = NoSlot /\ writing = NoSlot
    /\ coreRuns' = FALSE
    /\ UNCHANGED <<slotVars, writing, nextId, active, presenting, coreCalls, shown>>

Core == \/ \E s \in FrameSlots : Acquire(s) \/ Publish(s)
        \/ PublishMisshapen \/ FinishFrame \/ CoreStops
-----------------------------------------------------------------------------
(* The platform thread *)

\* present_pending: the first critical section ...
PresentBegin(s) ==
    /\ active /\ presenting = NoSlot /\ OldestReady(s)
    /\ state' = [state EXCEPT ![s] = "Presenting"]
    /\ presenting' = s
    /\ UNCHANGED <<id, writing, nextId, active, coreRuns, coreCalls, shown>>

\* ... and the last, after the presenter has read the pixels.
PresentEnd ==
    /\ presenting # NoSlot
    /\ state' = [state EXCEPT ![presenting] = "Free"]
    /\ shown' = id[presenting]
    /\ presenting' = NoSlot
    /\ UNCHANGED <<id, writing, nextId, active, coreRuns, coreCalls>>

\* The runtime drains the queue before it shuts it down.
Shutdown ==
    /\ active /\ ~coreRuns /\ presenting = NoSlot
    /\ \A s \in FrameSlots : state[s] # "Ready"
    /\ active' = FALSE /\ writing' = NoSlot
    /\ state' = [s \in FrameSlots |-> "Free"]
    /\ UNCHANGED <<id, nextId, presenting, coreRuns, coreCalls, shown>>

Presenter == (\E s \in FrameSlots : PresentBegin(s)) \/ PresentEnd
-----------------------------------------------------------------------------
Closed == ~active /\ UNCHANGED queueVars

QueueNext == Core \/ Presenter \/ Shutdown \/ Closed

QueueSpec == QueueInit /\ [][QueueNext]_queueVars

\* The platform loop presents pending frames every round.
FairQueueSpec == QueueSpec /\ WF_queueVars(Presenter)
-----------------------------------------------------------------------------
(* Properties *)

\* "never a frame currently being presented": the core neither draws in nor
\* replaces the slot whose pixels the presenter is reading.
NeverWhilePresented ==
    presenting # NoSlot => state[presenting] = "Presenting" /\ writing # presenting

\* Frames reach the screen in the order they were published.
PresentedInOrder == [][shown' # shown => shown' > shown]_queueVars

\* The newest published frame waits until it is presented, however many frames
\* come and go around it: only older ones are replaced.
NewestKept ==
    shown < nextId => \E s \in FrameSlots : state[s] \in {"Ready", "Presenting"} /\ id[s] = nextId

\* Every published frame, or one after it, is presented in the end.
EachPassed == \A n \in 1 .. MaxCoreCalls : nextId = n ~> shown >= n
=============================================================================
