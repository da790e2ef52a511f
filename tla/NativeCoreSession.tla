-------------------------- MODULE NativeCoreSession --------------------------
(***************************************************************************)
(* NativeCoreSession and the NativeCoreHost it owns: one worker thread      *)
(* drives a libretro core; other threads reach it only through a bounded    *)
(* command queue and two atomics, paused_ and speed_, which callers and     *)
(* worker both write.  Save data leaves through the save persistence        *)
(* worker, used here by what SavePersistence shows of it: a path has at     *)
(* most one snapshot pending, the newest, written or failed as a whole.     *)
(*                                                                          *)
(* The state of the emulated machine is named by the frame that made it.    *)
(* Save stands for every command that waits for its file (a slot, the       *)
(* autosave, the cartridge, an export), Queue for those that do not, Load   *)
(* for those that replace the state of the machine.                         *)
(***************************************************************************)
EXTENDS Naturals, Sequences

CONSTANTS
    Callers,             \* threads that call the session
    Controller,          \* the one of them that uses the control commands
    Slots,               \* files written by commands
    Ram,                 \* the cartridge save file, written at shutdown too
    Controls,            \* the control commands the callers use
    MaxPendingCommands,  \* kMaxPendingCommands
    FrameLimit,          \* frame_limit of start(): the session pauses itself
    MaxFrames,           \* bound: frames of the session
    MaxCalls             \* bound: calls made

ASSUME BoundsAssumption ==
    /\ {MaxPendingCommands, FrameLimit} \subseteq Nat \ {0}
    /\ {MaxFrames, MaxCalls} \subseteq Nat
ASSUME CallersAssumption == Controller \in Callers
ASSUME FilesAssumption == Ram \notin Slots
ASSUME ControlsAssumption == Controls \subseteq {"Pause", "Resume", "Fast", "Normal"}

VARIABLES
    commands,  \* commands_
    paused,    \* paused_
    fast,      \* speed_ is above 1.0
    stopping,  \* stopping_
    running,   \* running_
    wpc,       \* where the worker thread is
    hand,      \* the command the worker has popped
    hostUp,    \* running_ of the host: the core is loaded
    core,      \* state of the emulated machine
    frames,    \* core_frames_
    ui,        \* what each caller is doing
    calls,     \* calls made
    wanted,    \* history: whether the game was asked to be paused last
    lost,      \* history: a speed command has erased what would have made it so
    pending,   \* file -> snapshot the save worker has not written yet
    disk,      \* file -> the state in it, NoFile when there is none
    outcome    \* success of the last write the worker waited for

vars == <<commands, paused, fast, stopping, running, wpc, hand, hostUp, core,
          frames, ui, calls, wanted, lost, pending, disk, outcome>>
asked == <<wanted, lost>>
atomics == <<paused, fast>>
session == <<stopping, running, hostUp>>
machine == <<core, frames>>
storage == <<pending, disk, outcome>>

NoFile  == MaxFrames + 1
Files   == Slots \cup {Ram}
States  == 0 .. MaxFrames
Control == [kind : Controls]
Request == [kind : {"Save", "Queue"}, file : Files, by : Callers]
             \cup [kind : {"Load"}, file : Slots, by : Callers]
Command == Control \cup Request
NoCommand == [kind |-> "none"]

TypeOK ==
    /\ commands \in Seq(Command) /\ Len(commands) <= MaxPendingCommands
    /\ {paused, wanted, lost, fast, stopping, running, hostUp, outcome} \subseteq BOOLEAN
    /\ wpc \in {"drain", "execute", "saving", "gate", "pace", "frame",
                "shutdown", "final", "done"}
    /\ hand \in Command \cup {NoCommand}
    /\ {core, frames} \subseteq States
    /\ ui \in [Callers -> {"ready", "waiting", "joining", "closed"} \cup Controls]
    /\ calls \in 0 .. MaxCalls
    /\ {pending, disk} \subseteq [Files -> States \cup {NoFile}]

\* start() has just created the worker on an initialized host.
Init ==
    /\ commands = <<>> /\ hand = NoCommand
    /\ paused = FALSE /\ fast = FALSE /\ wanted = FALSE /\ lost = FALSE
    /\ stopping = FALSE /\ running = TRUE /\ hostUp = TRUE
    /\ wpc = "drain" /\ ui = [c \in Callers |-> "ready"]
    /\ core = 0 /\ frames = 0 /\ calls = 0
    /\ pending = [f \in Files |-> NoFile] /\ disk = [f \in Files |-> NoFile]
    /\ outcome = FALSE
-----------------------------------------------------------------------------
(* The callers *)

IsControl(command) == command.kind \in {"Pause", "Resume", "Fast", "Normal"}
IsRequest(command) == ~IsControl(command)

\* is_control_command commands are erased from the queue for the new one.
WithoutControls(queue) ==
    LET kept[n \in 0 .. Len(queue)] ==
          IF n = 0 THEN <<>>
          ELSE IF IsRequest(queue[n]) THEN Append(kept[n - 1], queue[n])
                                      ELSE kept[n - 1]
    IN kept[Len(queue)]

\* Mutant of WithControl: the older command wins.
OlderControlWins(queue, control) ==
    IF Len(queue) < MaxPendingCommands /\ \A i \in DOMAIN queue : IsRequest(queue[i])
      THEN Append(queue, control) ELSE queue

\* The erased commands are gone even when the new one is then refused.
WithControl(queue, control) ==
    LET rest == WithoutControls(queue)
    IN  IF Len(rest) < MaxPendingCommands THEN Append(rest, control) ELSE rest

Call(c) == ui[c] = "ready" /\ calls < MaxCalls /\ calls' = calls + 1

Paused(kind, before) == CASE kind = "Pause" -> TRUE [] kind = "Resume" -> FALSE
                          [] OTHER -> before
Fast(kind, before) == CASE kind = "Fast" -> TRUE [] kind = "Normal" -> FALSE
                        [] OTHER -> before

Pausing(kind) == kind \in {"Pause", "Resume"}

\* set_paused and set_speed store the atomic before they queue the command.
StoreControl(c, kind) ==
    /\ c = Controller /\ Call(c)
    /\ paused' = Paused(kind, paused) /\ fast' = Fast(kind, fast)
    /\ wanted' = Paused(kind, wanted) /\ lost' = (lost /\ ~Pausing(kind))
    /\ ui' = [ui EXCEPT ![c] = kind]
    /\ UNCHANGED <<commands, session, wpc, hand, machine, storage>>

Open == running /\ ~stopping

\* A queued pause or resume is erased for the command of c, and what the worker
\* has in hand leaves the game otherwise than the caller asked.
Erases(c) ==
    /\ Open /\ ~Pausing(ui[c])
    /\ \E i \in 1 .. Len(commands) : Pausing(commands[i].kind)
    /\ Paused(hand.kind, paused) # wanted

\* enqueue_control, under command_mutex_.
EnqueueControl(c) ==
    /\ ui[c] \in Controls
    /\ ui' = [ui EXCEPT ![c] = "ready"]
    /\ commands' = IF Open THEN WithControl(commands, [kind |-> ui[c]]) ELSE commands
    /\ lost' = (lost \/ Erases(c))
    /\ UNCHANGED <<atomics, session, wpc, hand, machine, calls, wanted, storage>>

Room == Len(commands) < MaxPendingCommands

\* submit: refused, or queued and waited for.
Submit(c, command) ==
    /\ Call(c)
    /\ IF Open /\ Room
         THEN /\ commands' = Append(commands, command)
              /\ ui' = [ui EXCEPT ![c] = "waiting"]
         ELSE UNCHANGED <<commands, ui>>
    /\ UNCHANGED <<atomics, session, wpc, hand, machine, asked, storage>>

Stop(c) ==
    /\ ui[c] = "ready" /\ \A other \in Callers : ui[other] # "joining"
    /\ stopping' = TRUE
    /\ ui' = [ui EXCEPT ![c] = "joining"]
    /\ UNCHANGED <<commands, atomics, running, wpc, hand, hostUp, machine, calls,
                   asked, storage>>

\* worker_.join() returns and stop() stores running_ again.
StopReturn(c) ==
    /\ ui[c] = "joining" /\ wpc = "done"
    /\ running' = FALSE
    /\ ui' = [ui EXCEPT ![c] = "closed"]
    /\ UNCHANGED <<commands, atomics, stopping, wpc, hand, hostUp, machine, calls,
                   asked, storage>>

Caller(c) ==
    \/ \E kind \in Controls : StoreControl(c, kind)
    \/ EnqueueControl(c)
    \/ \E command \in {r \in Request : r.by = c} : Submit(c, command)
    \/ Stop(c)
    \/ StopReturn(c)
-----------------------------------------------------------------------------
(* The worker thread *)

caller == <<ui, calls, asked>>

\* The drain loop pops one command under the lock, or finds none.
Drain ==
    /\ wpc = "drain"
    /\ IF commands = <<>>
         THEN wpc' = "gate" /\ UNCHANGED <<commands, hand>>
         ELSE /\ hand' = Head(commands) /\ commands' = Tail(commands)
              /\ wpc' = "execute"
    /\ UNCHANGED <<atomics, session, machine, caller, storage>>

ExecuteControl ==
    /\ wpc = "execute" /\ IsControl(hand)
    /\ paused' = Paused(hand.kind, paused) /\ fast' = Fast(hand.kind, fast)
    /\ hand' = NoCommand /\ wpc' = "drain"
    /\ UNCHANGED <<commands, session, machine, caller, storage>>

\* complete: the caller waiting for the command in hand returns.
Completed == [ui EXCEPT ![hand.by] = "ready"]

\* capture under the host's lock, then write_async: the newest snapshot wins.
ExecuteQueue ==
    /\ wpc = "execute" /\ hand.kind = "Queue"
    /\ pending' = [pending EXCEPT ![hand.file] = core]
    /\ ui' = Completed /\ hand' = NoCommand /\ wpc' = "drain"
    /\ UNCHANGED <<commands, atomics, session, machine, calls, asked, disk, outcome>>

\* capture under the host's lock, then write_and_wait outside it.
ExecuteSave ==
    /\ wpc = "execute" /\ hand.kind = "Save"
    /\ pending' = [pending EXCEPT ![hand.file] = core]
    /\ wpc' = "saving"
    /\ UNCHANGED <<commands, atomics, session, hand, machine, caller, disk, outcome>>

\* Mutant of Written: a waiting save does not wait.
WrittenAtOnce(file) == TRUE
Written(file) == pending[file] = NoFile

SaveWritten ==
    /\ wpc = "saving" /\ Written(hand.file)
    /\ ui' = Completed /\ hand' = NoCommand /\ wpc' = "drain"
    /\ UNCHANGED <<commands, atomics, session, machine, calls, asked, storage>>

\* state(false): reads the file, which a pending snapshot has not reached yet.
ExecuteLoad ==
    /\ wpc = "execute" /\ hand.kind = "Load"
    /\ core' = IF disk[hand.file] = NoFile THEN core ELSE disk[hand.file]
    /\ ui' = Completed /\ hand' = NoCommand /\ wpc' = "drain"
    /\ UNCHANGED <<commands, atomics, session, frames, calls, asked, storage>>

\* Mutant of MayEnd: the commands already accepted are left behind.
MayEndAtOnce == stopping
MayEnd == stopping /\ commands = <<>>

\* The second look at the queue, under the lock.
Gate ==
    /\ wpc = "gate"
    /\ wpc' = IF MayEnd THEN "shutdown" ELSE IF stopping THEN "drain" ELSE "pace"
    /\ UNCHANGED <<commands, atomics, session, hand, machine, caller, storage>>

\* A paused worker, one whose deadline has not come or that is stopping goes
\* round again (its waits end by themselves after 20 ms or at the deadline).
Pace ==
    /\ wpc = "pace"
    /\ \/ wpc' = "drain"
       \/ ~paused /\ ~stopping /\ frames < MaxFrames /\ wpc' = "frame"
    /\ UNCHANGED <<commands, atomics, session, hand, machine, caller, storage>>

PausedByLimit(frame) == paused \/ frame = FrameLimit

\* run_one, and the pause at the frame limit.  The loop's break when run_one fails
\* is out of reach: it fails only on a host that is not running, and while the
\* session runs the worker alone shuts its host down, after the loop.
RunFrame ==
    /\ wpc = "frame" /\ hostUp
    /\ frames' = frames + 1 /\ core' = frames + 1
    /\ paused' = PausedByLimit(frames + 1)
    /\ wpc' = "drain"
    /\ UNCHANGED <<commands, fast, session, hand, caller, storage>>

\* Mutant of LastSnapshot: the core is unloaded before its memory is copied.
NoLastSnapshot == pending
LastSnapshot == [pending EXCEPT ![Ram] = core]

\* shutdown_locked copies the cartridge memory before the core is unloaded.
HostShutdown ==
    /\ wpc = "shutdown"
    /\ hostUp' = FALSE
    /\ pending' = LastSnapshot
    /\ wpc' = "final"
    /\ UNCHANGED <<commands, atomics, stopping, running, hand, machine, caller,
                   disk, outcome>>

\* ... and persist_snapshot waits for the file.
WorkerEnd ==
    /\ wpc = "final" /\ Written(Ram)
    /\ running' = FALSE
    /\ wpc' = "done"
    /\ UNCHANGED <<commands, atomics, stopping, hand, hostUp, machine, caller, storage>>

Worker == \/ Drain \/ ExecuteControl \/ ExecuteQueue \/ ExecuteSave \/ SaveWritten
          \/ ExecuteLoad \/ Gate \/ Pace \/ RunFrame \/ HostShutdown \/ WorkerEnd

\* The save worker writes or fails the pending snapshot of a file.
Store(file, success) ==
    /\ pending[file] # NoFile
    /\ pending' = [pending EXCEPT ![file] = NoFile]
    /\ disk' = IF success THEN [disk EXCEPT ![file] = pending[file]] ELSE disk
    /\ outcome' = IF \/ wpc = "saving" /\ hand.file = file
                     \/ wpc = "final" /\ file = Ram
                    THEN success ELSE outcome
    /\ UNCHANGED <<commands, atomics, session, wpc, hand, machine, caller>>
-----------------------------------------------------------------------------
Finished == /\ wpc = "done" /\ \A c \in Callers : ui[c] \in {"ready", "closed"}
            /\ UNCHANGED vars

Next == \/ \E c \in Callers : Caller(c)
        \/ Worker
        \/ \E file \in Files, success \in BOOLEAN : Store(file, success)
        \/ Finished

Spec == Init /\ [][Next]_vars

\* Both threads run and file operations end; nobody has to make a call.
Fairness == /\ WF_vars(Worker)
            /\ \A c \in Callers : WF_vars(EnqueueControl(c)) /\ WF_vars(StopReturn(c))
            /\ \A file \in Files : WF_vars(\E success \in BOOLEAN : Store(file, success))

FairSpec == Spec /\ Fairness
-----------------------------------------------------------------------------
(* Properties *)

\* With no control call under way and no control command left, the game is paused
\* exactly when the last set_paused asked for it ("Game paused." of the parent
\* protocol), whatever older commands the worker was executing and whatever
\* set_speed did meanwhile, unless a speed command erased the queued command that
\* would have undone the one in hand; at the frame limit and after stop() the
\* session decides for itself.
ControlsDone == /\ \A c \in Callers : ui[c] \notin Controls
                /\ \A i \in DOMAIN commands : ~IsControl(commands[i])
                /\ ~IsControl(hand)
PausedAsAsked ==
    ControlsDone /\ Open /\ frames < FrameLimit /\ ~lost => paused = wanted

\* The same without the exception, which does not hold of the code: a speed
\* command erases a queued pause or resume.
PausedThroughSpeed ==
    ControlsDone /\ Open /\ frames < FrameLimit => paused = wanted

\* A waiting save that succeeds leaves in its file the state the machine has
\* at that moment: no frame ran between capture and answer.
SaveIsCurrent ==
    [][hand.kind = "Save" /\ hand' = NoCommand /\ outcome => disk'[hand.file] = core']_vars

\* Once the worker has ended, the cartridge file holds the memory the game
\* ended with unless its write failed: a queued older snapshot never wins.
FinalRam == wpc = "done" /\ outcome => disk[Ram] = core

\* Every accepted command is answered and stop() returns, although the two race:
\* a command accepted just before stopping_ is set is still carried out.
CallersReturn == \A c \in Callers :
    /\ ui[c] = "waiting" ~> ui[c] = "ready"
    /\ ui[c] = "joining" ~> ui[c] = "closed"
=============================================================================
