--------------------------- MODULE SwitchCompanion ---------------------------
(***************************************************************************)
(* The Switch companion: the app launches a separate process, talks to it   *)
(* by one command line and one reply line at a time over its pipes, learns   *)
(* from its output where the hosted-frame ring is, and stops it, by asking   *)
(* and then by killing.  A reader thread per process moves its lines into a  *)
(* channel.  The app's commands run on its main thread.  A settings request  *)
(* is a task of its own: it reads the feature flag, awaits the settings      *)
(* file, stores the flag, and, when it switches the feature off and had read *)
(* it on, stops the companion on a pool thread.                              *)
(***************************************************************************)
EXTENDS Naturals, Sequences, FiniteSets

CONSTANTS
    MaxLaunches, \* bound: processes started
    MaxCalls,    \* bound: round trips
    MaxCommands, \* bound: commands and settings requests
    Tasks        \* bound: settings requests under way at a time

Main == "main"

ASSUME BoundsAssumption == {MaxLaunches, MaxCalls, MaxCommands} \subseteq Nat
ASSUME TasksAssumption == Main \notin Tasks /\ "free" \notin Tasks

VARIABLES
    life,       \* process -> what the companion process is doing
    input,      \* process -> commands in its stdin pipe
    output,     \* process -> lines in its stdout pipe
    lines,      \* process -> lines in the channel its reader fills
    reading,    \* processes whose reader thread runs
    ringOut,    \* processes that have published their ring
    companion,  \* COMPANION: the registered process, or None
    guard,      \* thread that holds the lock of COMPANION
    hosted,     \* HOSTED_FRAME: the process whose ring is recorded, or None
    lifecycle,  \* thread that holds SWITCH_FEATURE_LIFECYCLE
    enabled,    \* SWITCH_FEATURE_ENABLED
    saved,      \* experimental-switch-eden in native-settings.json
    wasOn,      \* tasks that read the flag as on when they began
    found,      \* thread -> the setting it has read from the file
    doing,      \* thread -> the command it executes
    begun,      \* number of commands begun so far, for the bound
    step,       \* thread -> where it is in it
    target,     \* thread -> the process it launches or stops
    asked,      \* number of the last command written
    answer,     \* number of the command the last reply taken belongs to
    \* history, for the properties only
    missed,     \* a command gave up on the registered companion, which was not
                \* known to be gone
    switchedOff \* a switch-off stopped the companion, and the flag was not
                \* set since

processes == <<life, input, output, lines, reading, ringOut>>
locks == <<guard, lifecycle>>
threads == <<doing, step, target, begun>>
settings == <<enabled, saved, wasOn, found>>
calls == <<asked, answer, missed>>
vars == <<processes, locks, threads, companion, hosted, settings, switchedOff, calls>>

Processes == 1 .. MaxLaunches
None == 0
Threads == {Main} \cup Tasks
Quit == MaxCalls + 1
NoReply == MaxCalls + 1

Lines == [kind : {"ready", "failed", "reply", "stopped", "hosted"}, of : 0 .. MaxCalls]
Line(kind, of) == [kind |-> kind, of |-> of]
Dead(p) == life[p] \in {"none", "exited", "killed"}
Alive == {p \in Processes : ~Dead(p)}

TypeOK ==
    /\ life \in [Processes -> {"none", "starting", "running", "closing", "quitting",
                               "exited", "killed"}]
    /\ input \in [Processes -> Seq(1 .. Quit)]
    /\ {output, lines} \subseteq [Processes -> Seq(Lines)]
    /\ reading \subseteq Processes /\ ringOut \subseteq Processes
    /\ {companion, hosted} \subseteq Processes \cup {None}
    /\ {guard, lifecycle} \subseteq Threads \cup {"free"}
    /\ {enabled, saved, switchedOff} \subseteq BOOLEAN
    /\ wasOn \subseteq Tasks /\ found \in [Threads -> BOOLEAN] /\ missed \in BOOLEAN
    /\ doing \in [Threads -> {"nothing", "launch", "call", "stop", "detect", "on", "off",
                              "other", "all"}]
    /\ step \in [Threads -> {"idle", "execute", "write", "reread", "store", "deny", "lock",
                             "clear", "take", "quit", "forget", "spawn", "ready",
                             "register", "reply"}]
    /\ target \in [Threads -> Processes \cup {None}]
    /\ begun \in 0 .. MaxCommands /\ asked \in 0 .. MaxCalls /\ answer \in 0 .. NoReply
    \* a lock is held by a thread inside the command that needs it
    /\ guard \in Threads => step[guard] \in {"quit", "reply"}
    /\ lifecycle \in Threads => doing[lifecycle] \in {"launch", "off"}

Init ==
    /\ life = [p \in Processes |-> "none"]
    /\ input = [p \in Processes |-> <<>>] /\ output = [p \in Processes |-> <<>>]
    /\ lines = [p \in Processes |-> <<>>]
    /\ reading = {} /\ ringOut = {}
    /\ companion = None /\ guard = "free" /\ hosted = None /\ lifecycle = "free"
    /\ saved \in BOOLEAN /\ enabled \in {saved, FALSE} /\ switchedOff = FALSE
    /\ wasOn = {} /\ found = [t \in Threads |-> FALSE] /\ missed = FALSE /\ begun = 0
    /\ doing = [t \in Threads |-> "nothing"] /\ step = [t \in Threads |-> "idle"]
    /\ target = [t \in Threads |-> None]
    /\ asked = 0 /\ answer = NoReply

Goto(t, where) == step' = [step EXCEPT ![t] = where]
Return(t) == doing' = [doing EXCEPT ![t] = "nothing"] /\ Goto(t, "idle")
Emit(p, line) == output' = [output EXCEPT ![p] = Append(@, line)]
Becomes(p, state) == life' = [life EXCEPT ![p] = state]
Hangup(channel, p) == [channel EXCEPT ![p] = <<>>]
-----------------------------------------------------------------------------
(* The companion process *)

\* main(): Eden started, and the first status line says so; or it did not, and
\* the line says that.
StartUp(p) ==
    /\ life[p] = "starting"
    /\ \/ Becomes(p, "running") /\ Emit(p, Line("ready", 0))
       \/ Becomes(p, "exited") /\ Emit(p, Line("failed", 0))
    /\ UNCHANGED <<input, lines, reading, ringOut, locks, threads, companion, hosted,
                   settings, switchedOff, calls>>

\* The first frame makes the ring; its place is printed whatever main() does.
PublishRing(p) ==
    /\ life[p] \in {"starting", "running", "closing", "quitting"} /\ p \notin ringOut
    /\ ringOut' = ringOut \cup {p}
    /\ Emit(p, Line("hosted", 0))
    /\ UNCHANGED <<life, input, lines, reading, locks, threads, companion, hosted,
                   settings, switchedOff, calls>>

\* command_loop: one line in, one line out, until quit.  A closing process has
\* set g_quit while its command thread waits in fgets for one more line.
Execute(p) ==
    /\ life[p] \in {"running", "closing"} /\ input[p] # <<>>
    /\ input' = [input EXCEPT ![p] = Tail(@)]
    /\ IF Head(input[p]) = Quit
         THEN Becomes(p, "quitting") /\ UNCHANGED output
         ELSE /\ Emit(p, Line("reply", Head(input[p])))
              /\ Becomes(p, IF life[p] = "closing" THEN "quitting" ELSE "running")
    /\ UNCHANGED <<lines, reading, ringOut, locks, threads, companion, hosted, settings,
                   switchedOff, calls>>

\* The user closes its window, or a signal asks it to end.
CloseWindow(p) ==
    /\ life[p] = "running"
    /\ Becomes(p, "closing")
    /\ UNCHANGED <<input, output, lines, reading, ringOut, locks, threads, companion,
                   hosted, settings, switchedOff, calls>>

\* The last status line and the exit; Eden may hang before.
Exit(p) ==
    /\ life[p] = "quitting"
    /\ Becomes(p, "exited") /\ Emit(p, Line("stopped", 0))
    /\ input' = Hangup(input, p)
    /\ UNCHANGED <<lines, reading, ringOut, locks, threads, companion, hosted, settings,
                   switchedOff, calls>>

\* It crashes: a signal ends it without an exit code.
Crash(p) ==
    /\ ~Dead(p)
    /\ Becomes(p, "killed") /\ input' = Hangup(input, p)
    /\ UNCHANGED <<output, lines, reading, ringOut, locks, threads, companion, hosted,
                   settings, switchedOff, calls>>

Process(p) == \/ StartUp(p) \/ PublishRing(p) \/ Execute(p) \/ CloseWindow(p)
              \/ Exit(p) \/ Crash(p)
-----------------------------------------------------------------------------
(* The reader thread of a process *)

\* A receiver exists while the process is registered, launched or stopped.
Received(p) == p = companion \/ \E t \in Threads : target[t] = p

\* The ring line of a process is recorded whatever companion there is by now.
Recorded(p) == IF Head(output[p]).kind = "hosted" THEN p ELSE hosted

Read(p) ==
    /\ p \in reading
    /\ IF output[p] = <<>>
         THEN Dead(p) /\ reading' = reading \ {p} /\ UNCHANGED <<output, lines, hosted>>
         ELSE /\ output' = IF Received(p) THEN [output EXCEPT ![p] = Tail(@)]
                                          ELSE Hangup(output, p)
              /\ hosted' = Recorded(p)
              /\ IF Received(p)
                   THEN /\ lines' = [lines EXCEPT ![p] = Append(@, Head(output[p]))]
                        /\ UNCHANGED reading
                   ELSE reading' = reading \ {p} /\ UNCHANGED lines
    /\ UNCHANGED <<life, input, ringOut, locks, threads, companion, settings, switchedOff,
                   calls>>
-----------------------------------------------------------------------------
(* The threads of the app *)

\* The thread leaves its command, and the lifecycle lock if it holds it.
Leave(t) ==
    /\ Return(t)
    /\ target' = [target EXCEPT ![t] = None]
    /\ lifecycle' = IF lifecycle = t THEN "free" ELSE lifecycle

Begin(t, what, where) ==
    /\ doing[t] = "nothing"
    /\ begun < MaxCommands /\ begun' = begun + 1
    /\ doing' = [doing EXCEPT ![t] = what] /\ Goto(t, where)

\* switch_companion_launch, refused when the feature is off.
LaunchCall ==
    /\ Begin(Main, "launch", "clear")
    /\ lifecycle = "free" /\ enabled
    /\ lifecycle' = Main
    /\ UNCHANGED <<processes, guard, target, companion, hosted, settings, switchedOff,
                   calls>>

StopCall ==
    /\ Begin(Main, "stop", "clear")
    /\ UNCHANGED <<processes, locks, target, companion, hosted, settings, switchedOff,
                   calls>>

\* native_settings: the flag is read first, then the task awaits the file.  A
\* save sets the feature on or off, or only other settings; "all" reads.
SettingsCall(t) ==
    \E what \in {"on", "off", "other", "all"} :
        /\ Begin(t, what, "execute")
        /\ wasOn' = IF what = "off" /\ enabled THEN wasOn \cup {t} ELSE wasOn
        /\ UNCHANGED <<processes, locks, target, companion, hosted, enabled, saved, found,
                       switchedOff, calls>>

\* A request that fails returns its error and stores and stops nothing.
SettingsFails(t) ==
    /\ step[t] \in {"execute", "write", "reread"}
    /\ Return(t)
    /\ wasOn' = wasOn \ {t} /\ found' = [found EXCEPT ![t] = FALSE]
    /\ UNCHANGED <<processes, begun, locks, target, companion, hosted, enabled, saved,
                   switchedOff, calls>>

\* execute() replaces the file, or reads it.  A save reads the whole store and
\* writes it back, with its own edits only: one of other settings writes the
\* feature as it has read it.
SettingsExecute(t) ==
    /\ step[t] = "execute"
    /\ IF doing[t] \in {"on", "off"}
         THEN saved' = (doing[t] = "on") /\ Goto(t, "reread") /\ UNCHANGED found
         ELSE /\ found' = [found EXCEPT ![t] = saved]
              /\ Goto(t, IF doing[t] = "all" THEN "store" ELSE "write")
              /\ UNCHANGED saved
    /\ UNCHANGED <<processes, begun, locks, doing, target, companion, hosted, enabled,
                   wasOn, switchedOff, calls>>

SettingsWrite(t) ==
    /\ step[t] = "write"
    /\ saved' = found[t] /\ found' = [found EXCEPT ![t] = FALSE]
    /\ Return(t)
    /\ UNCHANGED <<processes, begun, locks, target, companion, hosted, enabled, wasOn,
                   switchedOff, calls>>

\* What a save of the feature stores is read from the file once more.
SettingsReread(t) ==
    /\ step[t] = "reread"
    /\ found' = [found EXCEPT ![t] = saved] /\ Goto(t, "store")
    /\ UNCHANGED <<processes, begun, locks, doing, target, companion, hosted, enabled,
                   saved, wasOn, switchedOff, calls>>

\* switch_companion_detect: the file's setting, or off when it cannot be read.
DetectCall ==
    /\ Begin(Main, "detect", "store")
    /\ \E value \in {saved, FALSE} : found' = [found EXCEPT ![Main] = value]
    /\ UNCHANGED <<processes, locks, target, companion, hosted, enabled, saved, wasOn,
                   switchedOff, calls>>

\* The flag becomes what was read, and no companion is stopped for it.
Store(t) ==
    /\ step[t] = "store"
    /\ enabled' = found[t] /\ found' = [found EXCEPT ![t] = FALSE]
    /\ switchedOff' = (switchedOff /\ ~found[t])
    /\ IF doing[t] = "off" THEN Goto(t, "deny") /\ UNCHANGED doing ELSE Return(t)
    /\ UNCHANGED <<processes, begun, locks, target, companion, hosted, saved, wasOn,
                   calls>>

\* A switch-off stores FALSE in any case; it stops the companion only when it
\* had read the flag as on, on a pool thread.
SettingsDeny(t) ==
    /\ step[t] = "deny"
    /\ enabled' = FALSE /\ wasOn' = wasOn \ {t}
    /\ IF t \in wasOn THEN Goto(t, "lock") /\ UNCHANGED doing ELSE Return(t)
    /\ UNCHANGED <<processes, begun, locks, target, companion, hosted, saved, found,
                   switchedOff, calls>>

\* Mutant of LifecycleFree: the pool thread does not wait for a launch.
LifecycleIgnored == TRUE
LifecycleFree == lifecycle = "free"

DisableLock(t) ==
    /\ step[t] = "lock" /\ LifecycleFree
    /\ lifecycle' = t /\ enabled' = FALSE
    /\ Goto(t, "clear")
    /\ UNCHANGED <<processes, begun, guard, doing, target, companion, hosted, saved,
                   wasOn, found, switchedOff, calls>>

Settings(t) == \/ SettingsFails(t) \/ SettingsExecute(t) \/ SettingsWrite(t)
               \/ SettingsReread(t) \/ Store(t) \/ SettingsDeny(t)

\* stop(): HOSTED_FRAME is cleared before the lock is taken ...
StopClear(t) ==
    /\ step[t] = "clear"
    /\ hosted' = None
    /\ Goto(t, "take")
    /\ UNCHANGED <<processes, begun, locks, doing, target, companion, settings,
                   switchedOff, calls>>

\* ... and the lock is held until the process is gone.  stop() inside a launch
\* goes on with it; the one of a switch-off was its last step.
StopDone(t) ==
    IF doing[t] = "launch"
      THEN /\ Goto(t, "forget")
           /\ target' = [target EXCEPT ![t] = None]
           /\ UNCHANGED <<doing, lifecycle, switchedOff>>
      ELSE /\ Leave(t)
           /\ switchedOff' = IF doing[t] = "off" THEN ~enabled ELSE switchedOff

StopTake(t) ==
    /\ step[t] = "take" /\ guard = "free"
    /\ IF companion = None
         THEN StopDone(t) /\ UNCHANGED <<input, guard, companion>>
         ELSE /\ target' = [target EXCEPT ![t] = companion]
              /\ companion' = None /\ guard' = t /\ Goto(t, "quit")
              /\ input' = IF Dead(companion) THEN input
                          ELSE [input EXCEPT ![companion] = Append(@, Quit)]
              /\ UNCHANGED <<doing, lifecycle, switchedOff>>
    /\ UNCHANGED <<begun, life, output, lines, reading, ringOut, hosted, settings, calls>>

StopExited(t) ==
    /\ step[t] = "quit" /\ Dead(target[t])
    /\ StopDone(t) /\ guard' = "free" /\ lines' = Hangup(lines, target[t])
    /\ UNCHANGED <<begun, life, input, output, reading, ringOut, companion, hosted,
                   settings, calls>>

\* Mutant of Killed: the process is left to itself.
KilledNever(p) == life
Killed(p) == [life EXCEPT ![p] = IF Dead(p) THEN @ ELSE "killed"]

\* Mutant of Overdue: stop() waits for the process without a deadline.
OverdueNever(t) == FALSE
Overdue(t) == step[t] = "quit" /\ ~Dead(target[t])

StopKills(t) ==
    /\ Overdue(t)
    /\ life' = Killed(target[t]) /\ input' = Hangup(input, target[t])
    /\ StopDone(t) /\ guard' = "free" /\ lines' = Hangup(lines, target[t])
    /\ UNCHANGED <<begun, output, reading, ringOut, companion, hosted, settings, calls>>

Stop(t) == StopClear(t) \/ StopTake(t) \/ StopExited(t) \/ StopKills(t)

\* launch_with() after its stop(): HOSTED_FRAME once more, then the process.
LaunchForget ==
    /\ step[Main] = "forget"
    /\ hosted' = None /\ Goto(Main, "spawn")
    /\ UNCHANGED <<processes, begun, locks, doing, target, companion, settings,
                   switchedOff, calls>>

LaunchSpawn ==
    /\ step[Main] = "spawn"
    /\ \/ \E p \in Processes :
            /\ life[p] = "none" /\ \A q \in 1 .. p - 1 : life[q] # "none"
            /\ Becomes(p, "starting") /\ reading' = reading \cup {p}
            /\ target' = [target EXCEPT ![Main] = p] /\ Goto(Main, "ready")
            /\ UNCHANGED <<doing, lifecycle>>
       \/ Leave(Main) /\ UNCHANGED <<life, reading>>
    /\ UNCHANGED <<begun, input, output, lines, ringOut, guard, companion, hosted,
                   settings, switchedOff, calls>>

\* Mutant of Drained: the ready line is left in the channel.
NotDrained(p) == lines
Drained(p) == [lines EXCEPT ![p] = Tail(@)]

\* wait_for: any status line counts as ready, others are passed over.
LaunchReady ==
    /\ step[Main] = "ready" /\ lines[target[Main]] # <<>>
    /\ lines' = Drained(target[Main])
    /\ IF Head(lines[target[Main]]).kind = "hosted" THEN UNCHANGED step
                                                    ELSE Goto(Main, "register")
    /\ UNCHANGED <<begun, life, input, output, reading, ringOut, locks, doing, target,
                   companion, hosted, settings, switchedOff, calls>>

\* The twenty seconds are over, or the process closed its output.
LaunchGivesUp ==
    /\ step[Main] = "ready" /\ lines[target[Main]] = <<>>
    /\ life' = Killed(target[Main])
    /\ Leave(Main)
    /\ UNCHANGED <<begun, input, output, lines, reading, ringOut, guard, companion,
                   hosted, settings, switchedOff, calls>>

LaunchRegister ==
    /\ step[Main] = "register" /\ guard = "free"
    /\ companion' = target[Main]
    /\ Leave(Main) /\ missed' = FALSE
    /\ UNCHANGED <<processes, begun, guard, hosted, settings, switchedOff, asked, answer>>

Launch == LaunchForget \/ LaunchSpawn \/ LaunchReady \/ LaunchGivesUp \/ LaunchRegister

\* status() and input reap a process that exited with a code first, focus() and
\* audio() do not; writing to a process that is gone fails.
CallWrites ==
    /\ Begin(Main, "call", "reply")
    /\ enabled /\ guard = "free" /\ companion # None /\ ~Dead(companion)
    /\ asked < MaxCalls /\ asked' = asked + 1
    /\ input' = [input EXCEPT ![companion] = Append(@, asked + 1)]
    /\ guard' = Main
    /\ UNCHANGED <<life, output, lines, reading, ringOut, lifecycle, target, companion,
                   hosted, settings, switchedOff, answer, missed>>

CallReaps ==
    /\ doing[Main] = "nothing" /\ enabled /\ guard = "free"
    /\ companion # None /\ life[companion] = "exited"
    /\ companion' = None /\ lines' = Hangup(lines, companion)
    /\ UNCHANGED <<life, input, output, reading, ringOut, locks, threads, hosted,
                   settings, switchedOff, calls>>

CallEnds == Return(Main) /\ guard' = "free"

\* request(): the first terminal line in the channel is the answer.
CallReply ==
    /\ step[Main] = "reply" /\ lines[companion] # <<>>
    /\ lines' = [lines EXCEPT ![companion] = Tail(@)]
    /\ LET line == Head(lines[companion])
       IN  /\ IF line.kind = "hosted" THEN UNCHANGED <<doing, step, guard>> ELSE CallEnds
           /\ answer' = IF line.kind \in {"ready", "reply"} THEN line.of ELSE answer
    /\ UNCHANGED <<begun, life, input, output, reading, ringOut, lifecycle, target,
                   companion, hosted, settings, switchedOff, asked, missed>>

\* IPC_TIMEOUT, or the channel is closed.  A companion that is only slow answers
\* later.
CallFails ==
    /\ step[Main] = "reply" /\ lines[companion] = <<>>
    /\ CallEnds
    /\ missed' = (missed \/ companion \in reading)
    /\ UNCHANGED <<processes, begun, lifecycle, target, companion, hosted, settings,
                   switchedOff, asked, answer>>

Host == \/ Launch \/ CallReply \/ CallFails \/ Store(Main) \/ Stop(Main)
        \/ \E t \in Tasks : Settings(t) \/ DisableLock(t) \/ Stop(t)

User == \/ LaunchCall \/ StopCall \/ DetectCall \/ CallWrites \/ CallReaps
        \/ \E t \in Tasks : SettingsCall(t)
-----------------------------------------------------------------------------
Next == User \/ Host \/ \E p \in Processes : Process(p) \/ Read(p)

Spec == Init /\ [][Next]_vars

\* The app's threads, tasks and readers run, and the lifecycle lock, released
\* again and again, is had in the end; nothing is asked of the companion.
FairSpec ==
    /\ Spec
    /\ WF_vars(Launch \/ CallReply \/ CallFails \/ Store(Main) \/ Stop(Main))
    /\ \A t \in Tasks : WF_vars(Settings(t) \/ Stop(t)) /\ SF_vars(DisableLock(t))
    /\ \A p \in Processes : WF_vars(Read(p))
-----------------------------------------------------------------------------
(* Properties *)

\* No companion is left running that the app does not know of: it is the
\* registered one, or a thread is starting or stopping it.
NoStray == \A p \in Alive : p = companion \/ \E t \in Threads : target[t] = p

\* A request that switches the feature off, having found it on, leaves no
\* companion when it is done, even when one was being launched, and none
\* comes until the flag has been set again.
OffStops == switchedOff => Alive = {}

\* Refuted by the code, SwitchCompanion_off.cfg: with the feature off and no
\* request under way, no companion runs.  A request that read the flag as off
\* before another set it, and one whose file says off, stop nothing.
OffMeansNone == ~enabled /\ (\A t \in Threads : doing[t] = "nothing") => Alive = {}

\* A command gets its own reply, never that of an earlier one, as long as no
\* command has given up on the companion.
AlignedReplies == [][~missed /\ answer' # answer => answer' = asked]_vars

\* Refuted by the code, SwitchCompanion_late.cfg: the same of every companion.
EveryReplyAligned == [][answer' # answer => answer' = asked]_vars

\* Every command of the app returns, whatever the companion does: "a stalled
\* companion can never hang the app".
HostReturns == \A t \in Threads : doing[t] # "nothing" ~> doing[t] = "nothing"
=============================================================================
