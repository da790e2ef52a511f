------------------------- MODULE EdenCompanion_proofs -------------------------
(***************************************************************************)
(* The Eden companion.  First its lifecycle and its control channel         *)
(* (SwitchCompanion), for any number of launches, round trips and settings   *)
(* requests: TypeOK, that no process runs unknown to the app, that none runs *)
(* after a switch-off that stopped it, and that a command gets its own reply *)
(* as long as none has given up on the companion.  The inductive invariant   *)
(* is in two parts: Control, of the threads and their locks, and Talk, of    *)
(* what is still in the pipes.                                               *)
(*                                                                         *)
(* Then the ring of its frames (HostedFrameRing), for every size of the    *)
(* ring and every bound: TypeOK, that the producer never writes a slot the  *)
(* host is importing, and that the host only moves to newer frames.         *)
(***************************************************************************)
EXTENDS SwitchCompanion, HostedFrameRing, TLAPS
-----------------------------------------------------------------------------
(* The companion: threads, locks and processes *)

\* Where each thread is in its command, and what it holds there.
Shape ==
    /\ doing[Main] \in {"nothing", "launch", "call", "stop", "detect"}
    /\ \A t \in Tasks : doing[t] \in {"nothing", "on", "off", "other", "all"}
    /\ \A t \in Threads :
         /\ doing[t] = "nothing" => step[t] = "idle"
         /\ doing[t] = "launch" => step[t] \in {"clear", "take", "quit", "forget", "spawn",
                                                "ready", "register"}
         /\ doing[t] = "call" => step[t] = "reply"
         /\ doing[t] = "stop" => step[t] \in {"clear", "take", "quit"}
         /\ doing[t] = "detect" => step[t] = "store"
         /\ doing[t] \in {"on", "other", "all"}
              => step[t] \in {"execute", "write", "reread", "store"}
         /\ doing[t] = "off" => step[t] \in {"execute", "reread", "store", "deny", "lock",
                                             "clear", "take", "quit"}
         /\ (target[t] # None) = (step[t] \in {"quit", "ready", "register"})

\* Who holds a lock, and what nobody else can do then.
Locked ==
    /\ \A t \in Threads : (guard = t) = (step[t] \in {"quit", "reply"})
    /\ (lifecycle = Main) = (doing[Main] = "launch")
    /\ \A t \in Tasks : (lifecycle = t) = (step[t] \in {"clear", "take", "quit"})
    /\ step[Main] = "reply" => companion # None
    /\ step[Main] \in {"quit", "forget", "spawn", "ready", "register"} => companion = None
    /\ \A t \in Tasks : step[t] = "quit" => companion = None

\* A switch-off is done, and no launch is under way that could end after.
Off == switchedOff => ~enabled /\ Alive = {} /\ doing[Main] # "launch"

Channels == [Processes -> Seq(Lines)]
Lives == {"none", "starting", "running", "closing", "quitting", "exited", "killed"}
Steps == {"idle", "execute", "write", "reread", "store", "deny", "lock", "clear", "take",
          "quit", "forget", "spawn", "ready", "register", "reply"}
Things == {"nothing", "launch", "call", "stop", "detect", "on", "off", "other", "all"}

\* The conjuncts of TypeOK by the part of the state they speak of.
ProcessesTyped ==
    /\ life \in [Processes -> Lives] /\ input \in [Processes -> Seq(1 .. Quit)]
    /\ output \in Channels /\ lines \in Channels
    /\ reading \subseteq Processes /\ ringOut \subseteq Processes

ThreadsTyped ==
    /\ doing \in [Threads -> Things] /\ step \in [Threads -> Steps]
    /\ target \in [Threads -> Processes \cup {None}] /\ begun \in 0 .. MaxCommands

AppTyped ==
    /\ companion \in Processes \cup {None} /\ hosted \in Processes \cup {None}
    /\ guard \in Threads \cup {"free"} /\ lifecycle \in Threads \cup {"free"}
    /\ asked \in 0 .. MaxCalls /\ answer \in 0 .. NoReply

\* The flag, the settings and the histories.
FlagsTyped ==
    /\ enabled \in BOOLEAN /\ saved \in BOOLEAN /\ switchedOff \in BOOLEAN
    /\ missed \in BOOLEAN /\ wasOn \subseteq Tasks /\ found \in [Threads -> BOOLEAN]

LEMMA TypesSplit ==
  TypeOK <=> /\ ProcessesTyped /\ ThreadsTyped /\ AppTyped /\ FlagsTyped
             /\ guard \in Threads => step[guard] \in {"quit", "reply"}
             /\ lifecycle \in Threads => doing[lifecycle] \in {"launch", "off"}
  BY DEF TypeOK, ProcessesTyped, ThreadsTyped, AppTyped, FlagsTyped, Channels, Lives, Steps,
         Things

Control == /\ ProcessesTyped /\ ThreadsTyped /\ AppTyped /\ FlagsTyped
           /\ Shape /\ Locked /\ NoStray /\ Off

LEMMA ControlTypes == Control => TypeOK
<1> SUFFICES ASSUME Control PROVE TypeOK
  OBVIOUS
<1>1. guard \in Threads => step[guard] \in {"quit", "reply"}
  BY DEF Control, Locked
<1>2. lifecycle \in Threads => doing[lifecycle] \in {"launch", "off"}
  BY DEF Control, Locked, Shape, ThreadsTyped, Threads, Main, Things
<1> QED
  BY <1>1, <1>2, TypesSplit DEF Control

LEMMA ThreadNames ==
  /\ Main \in Threads /\ Main \notin Tasks /\ Threads = {Main} \cup Tasks
  /\ Tasks \subseteq Threads /\ "free" \notin Threads
  BY TasksAssumption DEF Main, Threads

LEMMA NoneIsNone == None \notin Processes /\ None = 0
  BY DEF None, Processes

\* A process that says or does something, or dies, disturbs no thread.
LEMMA ProcessesChange ==
  ASSUME Control, UNCHANGED <<locks, threads, companion, settings, switchedOff, missed>>,
         ProcessesTyped', AppTyped',
         \A p \in Processes : Dead(p) => Dead(p)'
  PROVE  Control'
<1>1. ThreadsTyped' /\ Shape'
  BY DEF Control, ThreadsTyped, Shape, threads
<1>2. Locked'
  BY DEF Control, Locked, locks, threads
<1>3. NoStray'
  BY DEF Control, NoStray, Alive, Dead, threads
<1>4. Off'
  BY DEF Control, Off, Alive, Dead, threads, settings
<1>5. FlagsTyped'
  BY DEF Control, FlagsTyped, settings
<1> QED
  BY <1>1, <1>2, <1>3, <1>4, <1>5 DEF Control

LEMMA LineTyped ==
  /\ \A k \in {"ready", "failed", "reply", "stopped", "hosted"}, n \in 0 .. MaxCalls :
       Line(k, n) \in Lines
  /\ 0 \in 0 .. MaxCalls
  BY BoundsAssumption DEF Line, Lines

LEMMA HeadAndTail ==
  ASSUME NEW S, NEW s \in Seq(S), s # <<>>
  PROVE  /\ Head(s) \in S /\ Tail(s) \in Seq(S) /\ Len(s) \in Nat /\ Len(s) >= 1
         /\ Head(s) = s[1] /\ Len(Tail(s)) = Len(s) - 1
         /\ \A i \in 1 .. Len(Tail(s)) : Tail(s)[i] = s[i + 1]
  OBVIOUS

LEMMA EmitTyped ==
  ASSUME ProcessesTyped, NEW p \in Processes, NEW line \in Lines, Emit(p, line)
  PROVE  output' \in Channels
<1>1. Append(output[p], line) \in Seq(Lines)
  BY DEF ProcessesTyped, Channels
<1> QED
  BY <1>1 DEF ProcessesTyped, Channels, Emit

LEMMA BecomesTyped ==
  ASSUME ProcessesTyped, NEW p \in Processes, NEW state \in Lives, Becomes(p, state)
  PROVE  life' \in [Processes -> Lives]
  BY DEF ProcessesTyped, Becomes

LEMMA HangupTyped ==
  ASSUME NEW S, NEW channel \in [Processes -> Seq(S)], NEW p \in Processes
  PROVE  Hangup(channel, p) \in [Processes -> Seq(S)]
<1>1. <<>> \in Seq(S)
  OBVIOUS
<1> QED
  BY <1>1 DEF Hangup

LEMMA StartUpControl ==
  ASSUME Control, NEW p \in Processes, StartUp(p)
  PROVE  Control'
<1>0. ProcessesTyped /\ "running" \in Lives /\ "exited" \in Lives
  BY DEF Control, Lives
<1>1. ProcessesTyped'
  <2>1. life' \in [Processes -> Lives] /\ output' \in Channels
    BY <1>0, LineTyped, EmitTyped, BecomesTyped DEF StartUp
  <2> QED
    BY <2>1 DEF Control, ProcessesTyped, StartUp
<1>2. AppTyped'
  BY DEF Control, AppTyped, StartUp, locks, calls
<1>3. \A q \in Processes : Dead(q) => Dead(q)'
  BY DEF Control, ProcessesTyped, StartUp, Becomes, Dead
<1> QED
  BY <1>1, <1>2, <1>3, ProcessesChange DEF StartUp, calls

LEMMA PublishRingControl ==
  ASSUME Control, NEW p \in Processes, PublishRing(p)
  PROVE  Control'
<1>1. ProcessesTyped'
  BY LineTyped DEF Control, ProcessesTyped, PublishRing, Emit, Channels
<1>2. AppTyped'
  BY DEF Control, AppTyped, PublishRing, locks, calls
<1> QED
  BY <1>1, <1>2, ProcessesChange DEF PublishRing, Dead, calls

LEMMA ExecuteControl ==
  ASSUME Control, NEW p \in Processes, Execute(p)
  PROVE  Control'
<1>1. input[p] \in Seq(1 .. Quit) /\ input[p] # <<>>
  BY DEF Control, ProcessesTyped, Execute
<1>2. Head(input[p]) \in 1 .. Quit /\ Tail(input[p]) \in Seq(1 .. Quit)
  BY <1>1, HeadAndTail
<1>3. Head(input[p]) # Quit => Line("reply", Head(input[p])) \in Lines
  BY <1>2, BoundsAssumption DEF Line, Lines, Quit
<1>0. ProcessesTyped /\ "running" \in Lives /\ "quitting" \in Lives
  BY DEF Control, Lives
<1>4. ProcessesTyped'
  <2>1. life' \in [Processes -> Lives]
    BY <1>0, BecomesTyped DEF Execute
  <2>2. output' \in Channels
    BY <1>0, <1>3, EmitTyped DEF Execute, ProcessesTyped
  <2>3. input' \in [Processes -> Seq(1 .. Quit)]
    BY <1>0, <1>2 DEF Execute, ProcessesTyped
  <2> QED
    BY <2>1, <2>2, <2>3 DEF Control, ProcessesTyped, Execute
<1>5. AppTyped'
  BY DEF Control, AppTyped, Execute, locks, calls
<1>6. \A q \in Processes : Dead(q) => Dead(q)'
  BY DEF Control, ProcessesTyped, Execute, Becomes, Dead
<1> QED
  BY <1>4, <1>5, <1>6, ProcessesChange DEF Execute, calls

LEMMA CloseControl ==
  ASSUME Control, NEW p \in Processes, CloseWindow(p) \/ Exit(p) \/ Crash(p)
  PROVE  Control'
<1>0. ProcessesTyped /\ "closing" \in Lives /\ "exited" \in Lives /\ "killed" \in Lives
  BY DEF Control, Lives
<1>1. ProcessesTyped'
  <2>1. life' \in [Processes -> Lives]
    BY <1>0, BecomesTyped DEF CloseWindow, Exit, Crash
  <2>2. output' \in Channels
    BY <1>0, LineTyped, EmitTyped DEF CloseWindow, Exit, Crash, ProcessesTyped
  <2>3. input' \in [Processes -> Seq(1 .. Quit)]
    <3>1. Hangup(input, p) \in [Processes -> Seq(1 .. Quit)]
      BY <1>0, HangupTyped DEF ProcessesTyped
    <3> QED
      BY <1>0, <3>1 DEF CloseWindow, Exit, Crash, ProcessesTyped
  <2> QED
    BY <2>1, <2>2, <2>3 DEF Control, ProcessesTyped, CloseWindow, Exit, Crash
<1>2. AppTyped'
  BY DEF Control, AppTyped, CloseWindow, Exit, Crash, locks, calls
<1>3. \A q \in Processes : Dead(q) => Dead(q)'
  BY DEF Control, ProcessesTyped, CloseWindow, Exit, Crash, Becomes, Dead
<1> QED
  BY <1>1, <1>2, <1>3, ProcessesChange DEF CloseWindow, Exit, Crash, calls

LEMMA ReadControl ==
  ASSUME Control, NEW p \in Processes, Read(p)
  PROVE  Control'
<1>1. output[p] \in Seq(Lines) /\ lines[p] \in Seq(Lines) /\ life \in [Processes -> Lives]
  BY DEF Control, ProcessesTyped, Channels
<1>2. CASE output[p] = <<>>
  <2>1. ProcessesTyped' /\ AppTyped'
    BY <1>2 DEF Control, ProcessesTyped, AppTyped, Read, locks, calls
  <2> QED
    BY <1>2, <2>1, ProcessesChange DEF Read, Dead, calls
<1>3. CASE output[p] # <<>>
  <2>1. Head(output[p]) \in Lines /\ Tail(output[p]) \in Seq(Lines)
    BY <1>1, <1>3, HeadAndTail
  <2>2. output' \in Channels /\ lines' \in Channels /\ reading' \subseteq Processes
    <3>1. Hangup(output, p) \in Channels
      BY HangupTyped DEF Control, ProcessesTyped, Channels
    <3>2. [output EXCEPT ![p] = Tail(@)] \in Channels
      BY <2>1 DEF Control, ProcessesTyped, Channels
    <3>3. [lines EXCEPT ![p] = Append(@, Head(output[p]))] \in Channels
      BY <1>1, <2>1 DEF Control, ProcessesTyped, Channels
    <3> QED
      BY <1>3, <3>1, <3>2, <3>3 DEF Control, ProcessesTyped, Read
  <2>3. ProcessesTyped'
    BY <2>2 DEF Control, ProcessesTyped, Read
  <2>4. AppTyped'
    BY <1>3 DEF Control, AppTyped, Read, Recorded, locks, calls
  <2> QED
    BY <2>3, <2>4, ProcessesChange DEF Read, Dead, calls
<1> QED
  BY <1>2, <1>3

\* The steps of the threads that leave every process and the registration alone.
LEMMA ThreadsControl ==
  ASSUME Control,
         \/ LaunchCall \/ StopCall \/ DetectCall \/ LaunchForget
         \/ \E t \in Threads : StopClear(t)
  PROVE  Control'
<1> USE ThreadNames, NoneIsNone
    DEF LaunchCall, StopCall, DetectCall, LaunchForget, StopClear, Begin, Goto, locks,
        threads, processes, settings, calls
<1>1. ProcessesTyped'
  BY DEF Control, ProcessesTyped
<1>2. ThreadsTyped'
  BY BoundsAssumption DEF Control, ThreadsTyped, Things, Steps
<1>3. AppTyped'
  BY DEF Control, AppTyped
<1>4. Shape'
  BY DEF Control, ThreadsTyped, Shape
<1>5. Locked'
  BY DEF Control, ThreadsTyped, AppTyped, Shape, Locked
<1>6. NoStray'
  BY DEF Control, NoStray, Alive, Dead
<1>7. Off'
  <2>1. Alive' = Alive /\ enabled' = enabled /\ switchedOff' = switchedOff
    BY DEF Alive, Dead
  <2>2. doing'[Main] = "launch" => doing[Main] = "launch" \/ enabled
    BY DEF Control, ThreadsTyped
  <2> QED
    BY <2>1, <2>2 DEF Control, Off
<1>8. FlagsTyped'
  BY DEF Control, FlagsTyped
<1> QED
  BY <1>1, <1>2, <1>3, <1>4, <1>5, <1>6, <1>7, <1>8 DEF Control

\* The steps of a settings request before its stop(), and of detect.
LEMMA SettingsControl ==
  ASSUME Control,
         \/ \E t \in Threads : Store(t)
         \/ \E t \in Tasks : SettingsCall(t) \/ Settings(t) \/ DisableLock(t)
  PROVE  Control'
<1>0. PICK t \in Threads :
        \/ Store(t)
        \/ t \in Tasks /\ (\/ SettingsCall(t) \/ SettingsFails(t) \/ SettingsExecute(t)
                            \/ SettingsWrite(t) \/ SettingsReread(t) \/ SettingsDeny(t)
                            \/ DisableLock(t))
  BY ThreadNames DEF Settings
<1> USE ThreadNames, NoneIsNone
    DEF SettingsCall, SettingsFails, SettingsExecute, SettingsWrite, SettingsReread, Store,
        SettingsDeny, DisableLock, Begin, Goto, Return, locks, threads, processes, settings,
        calls
<1>1. ProcessesTyped'
  BY <1>0 DEF Control, ProcessesTyped
<1>2. ThreadsTyped'
  BY <1>0, BoundsAssumption DEF Control, ThreadsTyped, Things, Steps
<1>3. AppTyped'
  BY <1>0 DEF Control, AppTyped
<1>4. Shape'
  BY <1>0 DEF Control, ThreadsTyped, Shape
<1>5. Locked'
  BY <1>0 DEF Control, ThreadsTyped, AppTyped, Shape, Locked, LifecycleFree
<1>6. NoStray'
  BY <1>0 DEF Control, NoStray, Alive, Dead
<1>7. Off'
  <2>1. Alive' = Alive
    BY <1>0 DEF Alive, Dead
  <2>2. doing'[Main] = "launch" => doing[Main] = "launch"
    BY <1>0 DEF Control, ThreadsTyped
  <2>3. switchedOff' => switchedOff
    BY <1>0 DEF Control, FlagsTyped
  <2>4. switchedOff' => ~enabled' \/ enabled' = enabled
    BY <1>0 DEF Control, FlagsTyped
  <2> QED
    BY <2>1, <2>2, <2>3, <2>4 DEF Control, Off
<1>8. FlagsTyped'
  BY <1>0 DEF Control, FlagsTyped
<1> QED
  BY <1>1, <1>2, <1>3, <1>4, <1>5, <1>6, <1>7, <1>8 DEF Control

\* stop() takes the companion out of its place, with the lock, or finds none.
LEMMA StopTakeControl ==
  ASSUME Control, NEW t \in Threads, StopTake(t)
  PROVE  Control'
<1> USE ThreadNames, NoneIsNone DEF StopTake, StopDone, Leave, Return, Goto, settings, calls
<1>1. ProcessesTyped'
  <2>1. CASE companion = None
    BY <2>1 DEF Control, ProcessesTyped
  <2>2. CASE companion # None
    <3>1. companion \in Processes /\ Quit \in 1 .. Quit
      BY <2>2, BoundsAssumption DEF Control, AppTyped, Quit
    <3>2. Append(input[companion], Quit) \in Seq(1 .. Quit)
      BY <3>1 DEF Control, ProcessesTyped
    <3> QED
      BY <2>2, <3>1, <3>2 DEF Control, ProcessesTyped
  <2> QED
    BY <2>1, <2>2
<1>2. ThreadsTyped'
  <2>1. CASE companion = None
    BY <2>1 DEF Control, ThreadsTyped, Things, Steps
  <2>2. CASE companion # None
    BY <2>2 DEF Control, ThreadsTyped, AppTyped, Things, Steps
  <2> QED
    BY <2>1, <2>2
<1>3. AppTyped'
  BY BoundsAssumption DEF Control, AppTyped, NoReply
<1>4. Shape'
  BY DEF Control, ThreadsTyped, Shape
<1>5. Locked'
  BY DEF Control, ThreadsTyped, AppTyped, Shape, Locked
<1>6. NoStray'
  <2>1. Alive' = Alive /\ target[t] = None /\ target \in [Threads -> Processes \cup {None}]
    BY DEF Control, ThreadsTyped, Shape, Alive, Dead
  <2>2. companion' = companion \/ target'[t] = companion
    BY <2>1
  <2>3. \A u \in Threads \ {t} : target'[u] = target[u]
    BY <2>1
  <2>4. Alive \subseteq Processes
    BY DEF Alive
  <2> QED
    BY <2>1, <2>2, <2>3, <2>4 DEF Control, NoStray
<1>7. Off'
  <2>1. Alive' = Alive /\ enabled' = enabled
    BY DEF Alive, Dead
  <2>2. doing'[Main] = "launch" => doing[Main] = "launch"
    BY DEF Control, ThreadsTyped
  <2>3. CASE switchedOff' => switchedOff
    BY <2>1, <2>2, <2>3 DEF Control, Off
  <2>4. CASE ~(switchedOff' => switchedOff)
    <3>1. companion = None /\ doing[t] = "off" /\ ~enabled /\ step[t] = "take"
      BY <2>4
    <3>2. t \in Tasks /\ lifecycle = t /\ doing[Main] # "launch"
      BY <3>1 DEF Control, Shape, Locked
    <3>3. \A u \in Threads : step[u] \notin {"quit", "ready", "register"}
      BY <3>1, <3>2 DEF Control, Shape, Locked, ThreadsTyped
    <3>4. \A u \in Threads : target[u] = None
      BY <3>3 DEF Control, Shape
    <3>5. Alive = {}
      BY <3>1, <3>4 DEF Control, NoStray, Alive
    <3> QED
      BY <2>1, <2>2, <3>1, <3>2, <3>5 DEF Off
  <2> QED
    BY <2>3, <2>4
<1>8. FlagsTyped'
  BY DEF Control, FlagsTyped
<1> QED
  BY <1>1, <1>2, <1>3, <1>4, <1>5, <1>6, <1>7, <1>8 DEF Control

\* The companion has gone by itself.
LEMMA StopExitedControl ==
  ASSUME Control, NEW t \in Threads, StopExited(t)
  PROVE  Control'
<1> USE ThreadNames, NoneIsNone DEF StopExited, StopDone, Leave, Return, Goto, settings, calls
<1>1. ProcessesTyped'
  <2>1. target[t] \in Processes
    BY DEF Control, ThreadsTyped, Shape
  <2>2. Hangup(lines, target[t]) \in Channels
    BY <2>1, HangupTyped DEF Control, ProcessesTyped, Channels
  <2> QED
    BY <2>2 DEF Control, ProcessesTyped
<1>2. ThreadsTyped'
  BY DEF Control, ThreadsTyped, Things, Steps
<1>3. AppTyped'
  BY BoundsAssumption DEF Control, AppTyped, NoReply
<1>4. Shape'
  BY DEF Control, ThreadsTyped, Shape
<1>5. Locked'
  BY DEF Control, ThreadsTyped, AppTyped, Shape, Locked
<1>6. NoStray'
  <2>1. target[t] \in Processes /\ target \in [Threads -> Processes \cup {None}]
    BY DEF Control, ThreadsTyped, Shape
  <2>2. Alive' \subseteq Alive \ {target[t]}
    BY <2>1 DEF Control, ProcessesTyped, Alive, Dead
  <2>3. companion' = companion /\ \A u \in Threads \ {t} : target'[u] = target[u]
    BY <2>1
  <2> QED
    BY <2>2, <2>3 DEF Control, NoStray
<1>7. Off'
  <2>1. enabled' = enabled /\ (doing'[Main] = "launch" => doing[Main] = "launch")
    BY DEF Control, ThreadsTyped
  <2>2. target[t] \in Processes /\ step[t] = "quit"
    BY DEF Control, ThreadsTyped, Shape
  <2>3. Alive' \subseteq Alive \ {target[t]}
    BY <2>2 DEF Control, ProcessesTyped, Alive, Dead
  <2>4. CASE switchedOff' => switchedOff
    BY <2>1, <2>3, <2>4 DEF Control, Off
  <2>5. CASE ~(switchedOff' => switchedOff)
    <3>1. doing[t] = "off" /\ ~enabled
      BY <2>5
    <3>2. t \in Tasks /\ lifecycle = t /\ guard = t /\ companion = None
      BY <2>2, <3>1 DEF Control, Shape, Locked
    <3>3. doing[Main] # "launch"
      BY <3>2 DEF Control, Locked
    <3>4. \A u \in Threads \ {t} : step[u] \notin {"quit", "ready", "register"}
      BY <3>2, <3>3 DEF Control, Shape, Locked, ThreadsTyped
    <3>5. \A u \in Threads \ {t} : target[u] = None
      BY <3>4 DEF Control, Shape
    <3>6. Alive \subseteq {target[t]}
      BY <3>2, <3>5 DEF Control, NoStray, Alive
    <3> QED
      BY <2>1, <2>3, <3>1, <3>3, <3>6 DEF Off
  <2> QED
    BY <2>4, <2>5
<1>8. FlagsTyped'
  BY DEF Control, FlagsTyped
<1> QED
  BY <1>1, <1>2, <1>3, <1>4, <1>5, <1>6, <1>7, <1>8 DEF Control

\* The companion is killed after its deadline.
LEMMA StopKillsControl ==
  ASSUME Control, NEW t \in Threads, StopKills(t)
  PROVE  Control'
<1> USE ThreadNames, NoneIsNone DEF StopKills, StopDone, Leave, Return, Goto, settings, calls
<1>1. ProcessesTyped'
  <2>1. target[t] \in Processes
    BY DEF Control, ThreadsTyped, Shape, Overdue
  <2>2. Hangup(lines, target[t]) \in Channels
    BY <2>1, HangupTyped DEF Control, ProcessesTyped, Channels
  <2>3. Hangup(input, target[t]) \in [Processes -> Seq(1 .. Quit)]
    BY <2>1, HangupTyped DEF Control, ProcessesTyped
  <2>4. Killed(target[t]) \in [Processes -> Lives]
    BY <2>1 DEF Control, ProcessesTyped, Killed, Lives
  <2> QED
    BY <2>2, <2>3, <2>4 DEF Control, ProcessesTyped
<1>2. ThreadsTyped'
  BY DEF Control, ThreadsTyped, Things, Steps
<1>3. AppTyped'
  BY BoundsAssumption DEF Control, AppTyped, NoReply
<1>4. Shape'
  BY DEF Control, ThreadsTyped, Shape
<1>5. Locked'
  <2>1. step[t] = "quit" /\ guard = t
    BY DEF Control, Locked, Overdue
  <2> QED
    BY <2>1 DEF Control, ThreadsTyped, AppTyped, Shape, Locked
<1>6. NoStray'
  <2>1. target[t] \in Processes /\ target \in [Threads -> Processes \cup {None}]
    BY DEF Control, ThreadsTyped, Shape, Overdue
  <2>2. Alive' \subseteq Alive \ {target[t]}
    BY <2>1 DEF Control, ProcessesTyped, Alive, Dead, Overdue, Killed
  <2>3. companion' = companion /\ \A u \in Threads \ {t} : target'[u] = target[u]
    BY <2>1
  <2> QED
    BY <2>2, <2>3 DEF Control, NoStray
<1>7. Off'
  <2>1. enabled' = enabled /\ (doing'[Main] = "launch" => doing[Main] = "launch")
    BY DEF Control, ThreadsTyped
  <2>2. target[t] \in Processes /\ step[t] = "quit"
    BY DEF Control, ThreadsTyped, Shape, Overdue
  <2>3. Alive' \subseteq Alive \ {target[t]}
    BY <2>2 DEF Control, ProcessesTyped, Alive, Dead, Overdue, Killed
  <2>4. CASE switchedOff' => switchedOff
    BY <2>1, <2>3, <2>4 DEF Control, Off
  <2>5. CASE ~(switchedOff' => switchedOff)
    <3>1. doing[t] = "off" /\ ~enabled
      BY <2>5
    <3>2. t \in Tasks /\ lifecycle = t /\ guard = t /\ companion = None
      BY <2>2, <3>1 DEF Control, Shape, Locked
    <3>3. doing[Main] # "launch"
      BY <3>2 DEF Control, Locked
    <3>4. \A u \in Threads \ {t} : step[u] \notin {"quit", "ready", "register"}
      BY <3>2, <3>3 DEF Control, Shape, Locked, ThreadsTyped
    <3>5. \A u \in Threads \ {t} : target[u] = None
      BY <3>4 DEF Control, Shape
    <3>6. Alive \subseteq {target[t]}
      BY <3>2, <3>5 DEF Control, NoStray, Alive
    <3> QED
      BY <2>1, <2>3, <3>1, <3>3, <3>6 DEF Off
  <2> QED
    BY <2>4, <2>5
<1>8. FlagsTyped'
  BY DEF Control, FlagsTyped
<1> QED
  BY <1>1, <1>2, <1>3, <1>4, <1>5, <1>6, <1>7, <1>8 DEF Control

\* A process is started, or cannot be.
LEMMA LaunchSpawnControl ==
  ASSUME Control, LaunchSpawn
  PROVE  Control'
<1> USE ThreadNames, NoneIsNone DEF LaunchSpawn, Leave, Return, Goto, Becomes, settings, calls
<1>1. ProcessesTyped'
  BY DEF Control, ProcessesTyped, Lives
<1>2. ThreadsTyped'
  BY DEF Control, ThreadsTyped, Things, Steps
<1>3. AppTyped'
  BY BoundsAssumption DEF Control, AppTyped, NoReply
<1>4. Shape'
  BY DEF Control, ThreadsTyped, Shape
<1>5. Locked'
  BY DEF Control, ThreadsTyped, AppTyped, Shape, Locked
<1>6. NoStray'
  <2>1. target[Main] = None /\ target \in [Threads -> Processes \cup {None}]
    BY DEF Control, ThreadsTyped, Shape
  <2>2. \A q \in Alive' : q \in Alive \/ target'[Main] = q
    BY <2>1 DEF Control, ProcessesTyped, Alive, Dead
  <2>3. companion' = companion /\ \A u \in Threads \ {Main} : target'[u] = target[u]
    BY <2>1
  <2>4. Alive \subseteq Processes
    BY DEF Alive
  <2> QED
    BY <2>1, <2>2, <2>3, <2>4 DEF Control, NoStray
<1>7. Off'
  BY DEF Control, ProcessesTyped, ThreadsTyped, AppTyped, Shape, Locked, NoStray, Off,
         Alive, Dead
<1>8. FlagsTyped'
  BY DEF Control, FlagsTyped
<1> QED
  BY <1>1, <1>2, <1>3, <1>4, <1>5, <1>6, <1>7, <1>8 DEF Control

\* The launch waits for a status line.
LEMMA LaunchReadyControl ==
  ASSUME Control, LaunchReady
  PROVE  Control'
<1> USE ThreadNames, NoneIsNone DEF LaunchReady, Goto, locks, settings, calls
<1>1. ProcessesTyped'
  <2>1. target[Main] \in Processes /\ lines[target[Main]] # <<>>
    BY DEF Control, ThreadsTyped, Shape
  <2>2. Tail(lines[target[Main]]) \in Seq(Lines)
    BY <2>1, HeadAndTail DEF Control, ProcessesTyped, Channels
  <2> QED
    BY <2>1, <2>2 DEF Control, ProcessesTyped, Channels, Drained
<1>2. ThreadsTyped'
  BY DEF Control, ThreadsTyped, Things, Steps
<1>3. AppTyped'
  BY BoundsAssumption DEF Control, AppTyped, NoReply
<1>4. Shape'
  BY DEF Control, ThreadsTyped, Shape
<1>5. Locked'
  BY DEF Control, ThreadsTyped, AppTyped, Shape, Locked
<1>6. NoStray'
  BY DEF Control, ProcessesTyped, ThreadsTyped, AppTyped, Shape, Locked, NoStray, Alive,
         Dead
<1>7. Off'
  BY DEF Control, ProcessesTyped, ThreadsTyped, AppTyped, Shape, Locked, NoStray, Off,
         Alive, Dead
<1>8. FlagsTyped'
  BY DEF Control, FlagsTyped
<1> QED
  BY <1>1, <1>2, <1>3, <1>4, <1>5, <1>6, <1>7, <1>8 DEF Control

\* The launch kills the process that said nothing.
LEMMA LaunchGivesUpControl ==
  ASSUME Control, LaunchGivesUp
  PROVE  Control'
<1> USE ThreadNames, NoneIsNone DEF LaunchGivesUp, Leave, Return, Goto, settings, calls
<1>1. ProcessesTyped'
  BY DEF Control, ProcessesTyped, Killed, Lives
<1>2. ThreadsTyped'
  BY DEF Control, ThreadsTyped, Things, Steps
<1>3. AppTyped'
  BY BoundsAssumption DEF Control, AppTyped, NoReply
<1>4. Shape'
  BY DEF Control, ThreadsTyped, Shape
<1>5. Locked'
  BY DEF Control, ThreadsTyped, AppTyped, Shape, Locked
<1>6. NoStray'
  BY DEF Control, ProcessesTyped, ThreadsTyped, AppTyped, Shape, Locked, NoStray, Alive,
         Dead, Killed
<1>7. Off'
  BY DEF Control, ProcessesTyped, ThreadsTyped, AppTyped, Shape, Locked, NoStray, Off,
         Alive, Dead, Killed
<1>8. FlagsTyped'
  BY DEF Control, FlagsTyped
<1> QED
  BY <1>1, <1>2, <1>3, <1>4, <1>5, <1>6, <1>7, <1>8 DEF Control

\* The process that is ready becomes the companion.
LEMMA LaunchRegisterControl ==
  ASSUME Control, LaunchRegister
  PROVE  Control'
<1> USE ThreadNames, NoneIsNone DEF LaunchRegister, Leave, Return, Goto, processes,
       settings, calls
<1>1. ProcessesTyped'
  BY DEF Control, ProcessesTyped, Lives
<1>2. ThreadsTyped'
  BY DEF Control, ThreadsTyped, Things, Steps
<1>3. AppTyped'
  BY DEF Control, AppTyped, ThreadsTyped
<1>4. Shape'
  BY DEF Control, ThreadsTyped, Shape
<1>5. Locked'
  BY DEF Control, ThreadsTyped, AppTyped, Shape, Locked
<1>6. NoStray'
  BY DEF Control, ProcessesTyped, ThreadsTyped, AppTyped, Shape, Locked, NoStray, Alive,
         Dead
<1>7. Off'
  BY DEF Control, ProcessesTyped, ThreadsTyped, AppTyped, Shape, Locked, NoStray, Off,
         Alive, Dead
<1>8. FlagsTyped'
  BY DEF Control, FlagsTyped
<1> QED
  BY <1>1, <1>2, <1>3, <1>4, <1>5, <1>6, <1>7, <1>8 DEF Control

\* A command is written to the companion.
LEMMA CallWritesControl ==
  ASSUME Control, CallWrites
  PROVE  Control'
<1> USE ThreadNames, NoneIsNone DEF CallWrites, Begin, Goto, settings, calls
<1>1. ProcessesTyped'
  <2>1. companion \in Processes /\ asked + 1 \in 1 .. Quit
    BY BoundsAssumption DEF Control, AppTyped, Quit
  <2>2. Append(input[companion], asked + 1) \in Seq(1 .. Quit)
    BY <2>1 DEF Control, ProcessesTyped
  <2> QED
    BY <2>1, <2>2 DEF Control, ProcessesTyped
<1>2. ThreadsTyped'
  BY BoundsAssumption DEF Control, ThreadsTyped, Things, Steps
<1>3. AppTyped'
  BY BoundsAssumption DEF Control, AppTyped, NoReply
<1>4. Shape'
  BY DEF Control, ThreadsTyped, Shape
<1>5. Locked'
  BY DEF Control, ThreadsTyped, AppTyped, Shape, Locked
<1>6. NoStray'
  BY DEF Control, ProcessesTyped, ThreadsTyped, AppTyped, Shape, Locked, NoStray, Alive,
         Dead
<1>7. Off'
  BY DEF Control, ProcessesTyped, ThreadsTyped, AppTyped, Shape, Locked, NoStray, Off,
         Alive, Dead
<1>8. FlagsTyped'
  BY DEF Control, FlagsTyped
<1> QED
  BY <1>1, <1>2, <1>3, <1>4, <1>5, <1>6, <1>7, <1>8 DEF Control

\* A companion that has exited is forgotten.
LEMMA CallReapsControl ==
  ASSUME Control, CallReaps
  PROVE  Control'
<1> USE ThreadNames, NoneIsNone DEF CallReaps, locks, threads, settings, calls
<1>1. ProcessesTyped'
  <2>1. companion \in Processes
    BY DEF Control, AppTyped
  <2>2. Hangup(lines, companion) \in Channels
    BY <2>1, HangupTyped DEF Control, ProcessesTyped, Channels
  <2> QED
    BY <2>2 DEF Control, ProcessesTyped
<1>2. ThreadsTyped'
  BY DEF Control, ThreadsTyped, Things, Steps
<1>3. AppTyped'
  BY BoundsAssumption DEF Control, AppTyped, NoReply
<1>4. Shape'
  BY DEF Control, ThreadsTyped, Shape
<1>5. Locked'
  BY DEF Control, ThreadsTyped, AppTyped, Shape, Locked
<1>6. NoStray'
  BY DEF Control, ProcessesTyped, ThreadsTyped, AppTyped, Shape, Locked, NoStray, Alive,
         Dead
<1>7. Off'
  BY DEF Control, ProcessesTyped, ThreadsTyped, AppTyped, Shape, Locked, NoStray, Off,
         Alive, Dead
<1>8. FlagsTyped'
  BY DEF Control, FlagsTyped
<1> QED
  BY <1>1, <1>2, <1>3, <1>4, <1>5, <1>6, <1>7, <1>8 DEF Control

\* A line of the channel ends the command, or is passed over.
LEMMA CallReplyControl ==
  ASSUME Control, CallReply
  PROVE  Control'
<1> USE ThreadNames, NoneIsNone DEF CallReply, CallEnds, Return, Goto, settings, calls
<1>1. ProcessesTyped'
  <2>1. companion \in Processes /\ lines[companion] # <<>>
    BY DEF Control, AppTyped, Locked
  <2>2. Tail(lines[companion]) \in Seq(Lines)
    BY <2>1, HeadAndTail DEF Control, ProcessesTyped, Channels
  <2> QED
    BY <2>1, <2>2 DEF Control, ProcessesTyped, Channels, Drained
<1>2. ThreadsTyped'
  BY DEF Control, ThreadsTyped, Things, Steps
<1>3. AppTyped'
  <2>1. companion \in Processes /\ lines[companion] # <<>>
    BY DEF Control, AppTyped, Locked
  <2>2. Head(lines[companion]) \in Lines
    BY <2>1, HeadAndTail DEF Control, ProcessesTyped, Channels
  <2>3. answer' \in 0 .. NoReply
    BY <2>2, BoundsAssumption DEF Control, AppTyped, NoReply, Lines
  <2>4. guard' \in Threads \cup {"free"}
    BY DEF Control, AppTyped
  <2> QED
    BY <2>3, <2>4 DEF Control, AppTyped
<1>4. Shape'
  BY DEF Control, ThreadsTyped, Shape
<1>5. Locked'
  BY DEF Control, ThreadsTyped, AppTyped, Shape, Locked
<1>6. NoStray'
  BY DEF Control, ProcessesTyped, ThreadsTyped, AppTyped, Shape, Locked, NoStray, Alive,
         Dead
<1>7. Off'
  BY DEF Control, ProcessesTyped, ThreadsTyped, AppTyped, Shape, Locked, NoStray, Off,
         Alive, Dead
<1>8. FlagsTyped'
  BY DEF Control, FlagsTyped
<1> QED
  BY <1>1, <1>2, <1>3, <1>4, <1>5, <1>6, <1>7, <1>8 DEF Control

\* The command gets no answer in time.
LEMMA CallFailsControl ==
  ASSUME Control, CallFails
  PROVE  Control'
<1> USE ThreadNames, NoneIsNone DEF CallFails, CallEnds, Return, Goto, processes, settings,
       calls
<1>1. ProcessesTyped'
  BY DEF Control, ProcessesTyped, Lives
<1>2. ThreadsTyped'
  BY DEF Control, ThreadsTyped, Things, Steps
<1>3. AppTyped'
  BY BoundsAssumption DEF Control, AppTyped, NoReply
<1>4. Shape'
  BY DEF Control, ThreadsTyped, Shape
<1>5. Locked'
  BY DEF Control, ThreadsTyped, AppTyped, Shape, Locked
<1>6. NoStray'
  BY DEF Control, ProcessesTyped, ThreadsTyped, AppTyped, Shape, Locked, NoStray, Alive,
         Dead
<1>7. Off'
  BY DEF Control, ProcessesTyped, ThreadsTyped, AppTyped, Shape, Locked, NoStray, Off,
         Alive, Dead
<1>8. FlagsTyped'
  BY DEF Control, FlagsTyped
<1> QED
  BY <1>1, <1>2, <1>3, <1>4, <1>5, <1>6, <1>7, <1>8 DEF Control

-----------------------------------------------------------------------------
(* The companion: what is in the pipes *)

Word(line) == line.kind # "hosted"
Reply(line) == line.kind \in {"ready", "reply"}
Last(line) == line.kind \in {"failed", "stopped"}

\* What a channel holds no line of: a word, a reply, the process's last line,
\* a reply to another command than the n-th, a reply after a word.
Quiet(s) == \A i \in 1 .. Len(s) : ~Word(s[i])
Silent(s) == \A i \in 1 .. Len(s) : ~Reply(s[i])
Open(s) == \A i \in 1 .. Len(s) : ~Last(s[i])
Current(s, n) == \A i \in 1 .. Len(s) : Reply(s[i]) => s[i].of = n
FirstOnly(s) == \A i, j \in 1 .. Len(s) : i < j /\ Word(s[i]) => ~Reply(s[j])

\* The same of all the app has still to read, ls in the channel and os in the
\* pipe behind it: a reply can only be the first word.
AllQuiet(ls, os) == Quiet(ls) /\ Quiet(os)
AllSilent(ls, os) == Silent(ls) /\ Silent(os)
AllOpen(ls, os) == Open(ls) /\ Open(os)
AllCurrent(ls, os, n) == Current(ls, n) /\ Current(os, n)
Ordered(ls, os) == FirstOnly(ls) /\ FirstOnly(os) /\ (Quiet(ls) \/ Silent(os))

\* A process says its last line when it is dead, and its reader ends when
\* nothing is left to read after that.
Stream(p) == /\ Ordered(lines[p], output[p])
             /\ Dead(p) \/ AllOpen(lines[p], output[p])
             /\ p \in reading \/ (Dead(p) /\ output[p] = <<>>)

\* A process that is not started has said nothing and was told nothing.
Unused == \A p \in Processes :
    life[p] = "none" => input[p] = <<>> /\ output[p] = <<>> /\ lines[p] = <<>>

\* The process being launched: no word before it has started, none that could
\* be taken for a reply once it has been heard.
Beginning(p) ==
    /\ input[p] = <<>> /\ life[p] # "none" /\ Stream(p)
    /\ step[Main] = "ready" /\ life[p] = "starting" => AllQuiet(lines[p], output[p])
    /\ step[Main] = "register" => life[p] # "starting" /\ AllSilent(lines[p], output[p])

\* The registered companion, if no command has given up on it: nothing is left
\* of earlier commands; a command is in its pipe, or was taken.
Mute(p) == AllSilent(lines[p], output[p]) /\ input[p] = <<>>
Asked(p) == input[p] = <<asked>> /\ AllQuiet(lines[p], output[p])
Answered(p) == input[p] = <<>> /\ AllCurrent(lines[p], output[p], asked)
Serving(p) ==
    /\ life[p] \notin {"none", "starting"} /\ Stream(p)
    /\ Dead(p) => input[p] = <<>>
    /\ Mute(p) \/ (step[Main] = "reply" /\ (Asked(p) \/ Answered(p)))

Launched == step[Main] \in {"ready", "register"} => Beginning(target[Main])
Registered == companion # None => life[companion] # "none" /\ (missed \/ Serving(companion))
Talk == Unused /\ Launched /\ Registered

LEMMA WordsOf ==
  /\ \A l \in Lines : Reply(l) => Word(l)
  /\ \A l \in Lines : Last(l) => Word(l)
  /\ \A l \in Lines : ~Reply(l) /\ ~Last(l) => ~Word(l)
  BY DEF Lines, Word, Reply, Last

LEMMA EmptyChannel ==
  /\ Quiet(<<>>) /\ Silent(<<>>) /\ Open(<<>>) /\ FirstOnly(<<>>)
  /\ AllQuiet(<<>>, <<>>) /\ AllSilent(<<>>, <<>>) /\ AllOpen(<<>>, <<>>)
  /\ Ordered(<<>>, <<>>)
  BY DEF Quiet, Silent, Open, FirstOnly, AllQuiet, AllSilent, AllOpen, Ordered

LEMMA QuietChannel ==
  ASSUME NEW s \in Seq(Lines)
  PROVE  /\ Quiet(s) => Silent(s) /\ Open(s) /\ FirstOnly(s)
         /\ Silent(s) /\ Open(s) => Quiet(s)
         /\ Silent(s) => \A n : Current(s, n)
<1>1. \A i \in 1 .. Len(s) : s[i] \in Lines
  OBVIOUS
<1> QED
  BY <1>1, WordsOf DEF Quiet, Silent, Open, FirstOnly, Current

LEMMA AppendLine ==
  ASSUME NEW s \in Seq(Lines), NEW l \in Lines
  PROVE  /\ Quiet(s) /\ ~Word(l) => Quiet(Append(s, l))
         /\ Silent(s) /\ ~Reply(l) => Silent(Append(s, l))
         /\ Open(s) /\ ~Last(l) => Open(Append(s, l))
         /\ \A n : Current(s, n) /\ (Reply(l) => l.of = n) => Current(Append(s, l), n)
         /\ FirstOnly(s) /\ (Quiet(s) \/ ~Reply(l)) => FirstOnly(Append(s, l))
<1> DEFINE t == Append(s, l)
<1>1. /\ Len(t) = Len(s) + 1 /\ Len(s) \in Nat
      /\ \A i \in 1 .. Len(t) : t[i] = IF i = Len(s) + 1 THEN l ELSE s[i]
  OBVIOUS
<1>2. \A i \in 1 .. Len(t) : i # Len(s) + 1 => i \in 1 .. Len(s)
  BY <1>1
<1> HIDE DEF t
<1>3. FirstOnly(s) /\ (Quiet(s) \/ ~Reply(l)) => FirstOnly(t)
  <2> SUFFICES ASSUME FirstOnly(s), Quiet(s) \/ ~Reply(l),
                      NEW i \in 1 .. Len(t), NEW j \in 1 .. Len(t), i < j, Word(t[i])
               PROVE  ~Reply(t[j])
    BY DEF FirstOnly
  <2>1. i \in 1 .. Len(s) /\ t[i] = s[i]
    BY <1>1
  <2> QED
    BY <1>1, <1>2, <2>1 DEF FirstOnly, Quiet
<1> QED
  BY <1>1, <1>2, <1>3 DEF t, Quiet, Silent, Open, Current

LEMMA TailLine ==
  ASSUME NEW s \in Seq(Lines), s # <<>>
  PROVE  /\ Quiet(s) => Quiet(Tail(s)) /\ ~Word(Head(s))
         /\ Silent(s) => Silent(Tail(s)) /\ ~Reply(Head(s))
         /\ Open(s) => Open(Tail(s)) /\ ~Last(Head(s))
         /\ \A n : Current(s, n) => /\ Current(Tail(s), n)
                                    /\ Reply(Head(s)) => Head(s).of = n
         /\ FirstOnly(s) => /\ FirstOnly(Tail(s))
                            /\ Word(Head(s)) => Silent(Tail(s))
<1> DEFINE t == Tail(s)
<1>1. /\ Len(t) = Len(s) - 1 /\ Len(s) \in Nat /\ Len(s) >= 1 /\ Head(s) = s[1]
      /\ \A i \in 1 .. Len(t) : t[i] = s[i + 1]
  BY HeadAndTail
<1>2. /\ 1 \in 1 .. Len(s)
      /\ \A i \in 1 .. Len(t) : i + 1 \in 1 .. Len(s) /\ 1 < i + 1
  BY <1>1
<1> HIDE DEF t
<1>3. FirstOnly(s) => FirstOnly(t)
  <2> SUFFICES ASSUME FirstOnly(s),
                      NEW i \in 1 .. Len(t), NEW j \in 1 .. Len(t), i < j, Word(t[i])
               PROVE  ~Reply(t[j])
    BY DEF FirstOnly
  <2>1. i + 1 < j + 1 /\ Word(s[i + 1])
    BY <1>1
  <2> QED
    BY <1>1, <1>2, <2>1 DEF FirstOnly
<1>4. FirstOnly(s) /\ Word(Head(s)) => Silent(t)
  BY <1>1, <1>2 DEF FirstOnly, Silent
<1> QED
  BY <1>1, <1>2, <1>3, <1>4 DEF t, Quiet, Silent, Open, Current

\* The process writes a line.
LEMMA Emitted ==
  ASSUME NEW ls \in Seq(Lines), NEW os \in Seq(Lines), NEW l \in Lines
  PROVE  /\ Ordered(ls, os) /\ (~Reply(l) \/ AllQuiet(ls, os)) => Ordered(ls, Append(os, l))
         /\ AllQuiet(ls, os) /\ ~Word(l) => AllQuiet(ls, Append(os, l))
         /\ AllSilent(ls, os) /\ ~Reply(l) => AllSilent(ls, Append(os, l))
         /\ AllOpen(ls, os) /\ ~Last(l) => AllOpen(ls, Append(os, l))
         /\ \A n : AllCurrent(ls, os, n) /\ (Reply(l) => l.of = n)
                     => AllCurrent(ls, Append(os, l), n)
  BY AppendLine DEF Ordered, AllQuiet, AllSilent, AllOpen, AllCurrent

\* The reader moves the first line of the pipe into the channel.
LEMMA Moved ==
  ASSUME NEW ls \in Seq(Lines), NEW os \in Seq(Lines), os # <<>>
  PROVE  /\ Ordered(ls, os) => Ordered(Append(ls, Head(os)), Tail(os))
         /\ AllQuiet(ls, os) => AllQuiet(Append(ls, Head(os)), Tail(os))
         /\ AllSilent(ls, os) => AllSilent(Append(ls, Head(os)), Tail(os))
         /\ AllOpen(ls, os) => AllOpen(Append(ls, Head(os)), Tail(os))
         /\ \A n : AllCurrent(ls, os, n) => AllCurrent(Append(ls, Head(os)), Tail(os), n)
<1>1. Head(os) \in Lines /\ Tail(os) \in Seq(Lines)
  BY HeadAndTail
<1> QED
  BY <1>1, AppendLine, TailLine, QuietChannel, WordsOf
     DEF Ordered, AllQuiet, AllSilent, AllOpen, AllCurrent

\* The app takes the first line of the channel.
LEMMA TakenLine ==
  ASSUME NEW ls \in Seq(Lines), NEW os \in Seq(Lines), ls # <<>>
  PROVE  /\ Ordered(ls, os) => /\ Ordered(Tail(ls), os)
                               /\ Word(Head(ls)) => AllSilent(Tail(ls), os)
         /\ AllQuiet(ls, os) => AllQuiet(Tail(ls), os) /\ ~Word(Head(ls))
         /\ AllSilent(ls, os) => AllSilent(Tail(ls), os) /\ ~Reply(Head(ls))
         /\ AllOpen(ls, os) => AllOpen(Tail(ls), os)
         /\ \A n : AllCurrent(ls, os, n) => /\ AllCurrent(Tail(ls), os, n)
                                            /\ Reply(Head(ls)) => Head(ls).of = n
  BY TailLine DEF Ordered, AllQuiet, AllSilent, AllOpen, AllCurrent

Talking == Control /\ Talk

\* The channels of a process are sequences of lines.
LEMMA ChannelsOf ==
  ASSUME Control
  PROVE  /\ \A p \in Processes : lines[p] \in Seq(Lines) /\ output[p] \in Seq(Lines)
         /\ \A p \in Processes : input[p] \in Seq(1 .. Quit) /\ life[p] \in Lives
         /\ companion # None => companion \in Processes
         /\ step[Main] \in {"ready", "register"} =>
              target[Main] \in Processes /\ companion = None
         /\ step[Main] = "reply" => companion # None
  BY DEF Control, ProcessesTyped, Channels, AppTyped, ThreadsTyped, Shape, Locked, Threads,
         Main

\* A step of one process that leaves the threads alone: what is said of the
\* others stays, and it is enough to look at the one.
LEMMA OneProcess ==
  ASSUME Talking, NEW p \in Processes, UNCHANGED <<step, target, companion, asked, missed>>,
         \A q \in Processes \ {p} : /\ life'[q] = life[q] /\ input'[q] = input[q]
                                    /\ output'[q] = output[q] /\ lines'[q] = lines[q]
                                    /\ q \in reading => q \in reading',
         life[p] # "none", life'[p] # "none",
         Beginning(p) /\ step[Main] \in {"ready", "register"} => Beginning(p)',
         Serving(p) => Serving(p)'
  PROVE  Talk'
<1>1. Unused'
  BY DEF Talking, Talk, Unused
<1>2. \A q \in Processes \ {p} : Stream(q) => Stream(q)'
  BY DEF Stream, Dead
<1>3. \A q \in Processes \ {p} : Beginning(q) => Beginning(q)'
  BY <1>2 DEF Beginning
<1>4. \A q \in Processes \ {p} : Serving(q) => Serving(q)'
  BY <1>2 DEF Serving, Mute, Asked, Answered, Dead
<1>5. Launched'
  <2> SUFFICES ASSUME step[Main] \in {"ready", "register"} PROVE Beginning(target[Main])'
    BY DEF Launched
  <2>1. target[Main] \in Processes /\ Beginning(target[Main])
    BY ChannelsOf DEF Talking, Talk, Launched
  <2> QED
    BY <1>3, <2>1
<1>6. Registered'
  <2> SUFFICES ASSUME companion # None
               PROVE  life'[companion] # "none" /\ (missed \/ Serving(companion)')
    BY DEF Registered
  <2>1. companion \in Processes /\ life[companion] # "none"
        /\ (missed \/ Serving(companion))
    BY ChannelsOf DEF Talking, Talk, Registered
  <2> QED
    BY <1>4, <2>1
<1> QED
  BY <1>1, <1>5, <1>6 DEF Talk

LEMMA StartUpTalk ==
  ASSUME Talking, NEW p \in Processes, StartUp(p)
  PROVE  Talk'
<1>1. /\ UNCHANGED <<step, target, companion, asked, missed, reading>> /\ life[p] = "starting"
      /\ lines' = lines /\ input' = input
  BY DEF StartUp, threads, calls
<1>2. /\ life \in [Processes -> Lives] /\ output \in Channels
      /\ lines[p] \in Seq(Lines) /\ output[p] \in Seq(Lines)
  BY ChannelsOf DEF Talking, Control, ProcessesTyped
<1>3. PICK l \in Lines :
        /\ output' = [output EXCEPT ![p] = Append(output[p], l)]
        /\ life'[p] \in {"running", "exited"} /\ (Last(l) => life'[p] = "exited")
        /\ \A q \in Processes \ {p} : life'[q] = life[q]
  BY <1>2, LineTyped DEF StartUp, Becomes, Emit, Line, Last
<1>4. output'[p] = Append(output[p], l) /\ \A q \in Processes \ {p} : output'[q] = output[q]
  BY <1>2, <1>3 DEF Channels
<1>5. ASSUME Beginning(p), step[Main] \in {"ready", "register"} PROVE Beginning(p)'
  <2>1. step[Main] = "ready" /\ AllQuiet(lines[p], output[p]) /\ Ordered(lines[p], output[p])
    BY <1>1, <1>5 DEF Beginning, Stream
  <2>2. Ordered(lines[p], output'[p])
    BY <1>2, <1>4, <2>1, Emitted
  <2>3. Last(l) \/ AllOpen(lines[p], output'[p])
    BY <1>2, <1>4, <2>1, Emitted, QuietChannel DEF AllOpen, AllQuiet
  <2> QED
    BY <1>1, <1>3, <1>5, <2>1, <2>2, <2>3 DEF Beginning, Stream, Dead
<1>6. Serving(p) => FALSE
  BY <1>1 DEF Serving
<1> QED
  BY <1>1, <1>3, <1>4, <1>5, <1>6, OneProcess

LEMMA PublishRingTalk ==
  ASSUME Talking, NEW p \in Processes, PublishRing(p)
  PROVE  Talk'
<1>1. /\ UNCHANGED <<step, target, companion, asked, missed, lines, reading, input, life>>
      /\ life[p] # "none" /\ ~Dead(p) /\ output \in Channels
      /\ lines[p] \in Seq(Lines) /\ output[p] \in Seq(Lines)
  BY ChannelsOf DEF Talking, Control, ProcessesTyped, PublishRing, Dead, threads, calls
<1>2. Line("hosted", 0) \in Lines /\ ~Word(Line("hosted", 0))
      /\ ~Reply(Line("hosted", 0)) /\ ~Last(Line("hosted", 0))
  BY LineTyped DEF Line, Word, Reply, Last
<1>3. output'[p] = Append(output[p], Line("hosted", 0))
      /\ \A q \in Processes \ {p} : output'[q] = output[q]
  BY <1>1 DEF PublishRing, Emit, Channels
<1>4. /\ Ordered(lines[p], output[p]) => Ordered(lines[p], output'[p])
      /\ AllQuiet(lines[p], output[p]) => AllQuiet(lines[p], output'[p])
      /\ AllSilent(lines[p], output[p]) => AllSilent(lines[p], output'[p])
      /\ AllOpen(lines[p], output[p]) => AllOpen(lines[p], output'[p])
      /\ \A n : AllCurrent(lines[p], output[p], n) => AllCurrent(lines[p], output'[p], n)
  BY <1>1, <1>2, <1>3, Emitted
<1>5. Stream(p) => Stream(p)'
  BY <1>1, <1>4 DEF Stream, Dead
<1>6. Beginning(p) => Beginning(p)'
  BY <1>1, <1>4, <1>5 DEF Beginning
<1>7. Serving(p) => Serving(p)'
  BY <1>1, <1>4, <1>5 DEF Serving, Mute, Asked, Answered, Dead
<1> QED
  BY <1>1, <1>3, <1>6, <1>7, OneProcess

LEMMA ExecuteTalk ==
  ASSUME Talking, NEW p \in Processes, Execute(p)
  PROVE  Talk'
<1>1. /\ UNCHANGED <<step, target, companion, asked, missed, lines, reading>>
      /\ life[p] \in {"running", "closing"} /\ input[p] # <<>>
  BY DEF Execute, threads, calls
<1>2. /\ life \in [Processes -> Lives] /\ output \in Channels
      /\ input \in [Processes -> Seq(1 .. Quit)]
      /\ lines[p] \in Seq(Lines) /\ output[p] \in Seq(Lines)
      /\ asked \in 0 .. MaxCalls
  BY ChannelsOf DEF Talking, Control, ProcessesTyped, AppTyped
<1>3. /\ life'[p] \in {"running", "quitting"} /\ input'[p] = Tail(input[p])
      /\ \A q \in Processes \ {p} : /\ life'[q] = life[q] /\ input'[q] = input[q]
                                    /\ output'[q] = output[q]
  BY <1>1, <1>2 DEF Execute, Becomes, Emit, Channels
<1>4. Beginning(p) => FALSE
  BY <1>1 DEF Beginning
<1>5. ASSUME Serving(p) PROVE Serving(p)'
  <2>1. input[p] = <<asked>> /\ AllQuiet(lines[p], output[p]) /\ step[Main] = "reply"
    BY <1>1, <1>5 DEF Serving, Mute, Asked, Answered
  <2>2. Head(input[p]) = asked /\ input'[p] = <<>> /\ asked # Quit /\ asked \in 0 .. MaxCalls
    BY <1>2, <1>3, <2>1, BoundsAssumption DEF Quit
  <2>3. output'[p] = Append(output[p], Line("reply", asked))
    BY <1>2, <2>2 DEF Execute, Emit, Channels
  <2>4. Line("reply", asked) \in Lines /\ Line("reply", asked).of = asked
        /\ ~Last(Line("reply", asked))
    BY <2>2, LineTyped DEF Line, Last
  <2>5. AllOpen(lines[p], output[p]) /\ AllCurrent(lines[p], output[p], asked)
        /\ Ordered(lines[p], output[p])
    BY <1>2, <1>5, <2>1, QuietChannel DEF AllOpen, AllQuiet, AllCurrent, Serving, Stream
  <2>6. AllOpen(lines[p], output'[p]) /\ AllCurrent(lines[p], output'[p], asked)
        /\ Ordered(lines[p], output'[p])
    BY <1>2, <2>1, <2>3, <2>4, <2>5, Emitted
  <2> QED
    BY <1>1, <1>3, <1>5, <2>1, <2>2, <2>6 DEF Serving, Stream, Dead, Answered
<1> QED
  BY <1>1, <1>3, <1>4, <1>5, OneProcess

\* The window is closed, or the process ends: it says no more than stopped.
LEMMA CloseTalk ==
  ASSUME Talking, NEW p \in Processes, CloseWindow(p) \/ Exit(p) \/ Crash(p)
  PROVE  Talk'
<1>1. /\ UNCHANGED <<step, target, companion, asked, missed, lines, reading>>
      /\ life[p] # "none"
  BY DEF CloseWindow, Exit, Crash, Dead, threads, calls
<1>2. /\ life \in [Processes -> Lives] /\ output \in Channels
      /\ input \in [Processes -> Seq(1 .. Quit)]
      /\ lines[p] \in Seq(Lines) /\ output[p] \in Seq(Lines)
  BY ChannelsOf DEF Talking, Control, ProcessesTyped
<1>3. Line("stopped", 0) \in Lines /\ ~Reply(Line("stopped", 0))
  BY LineTyped DEF Line, Reply
<1>4. /\ life'[p] \in {"closing", "exited", "killed"}
      /\ life'[p] = "closing" => input'[p] = input[p] /\ output'[p] = output[p]
                                 /\ life[p] = "running"
      /\ life'[p] # "closing" => input'[p] = <<>>
      /\ output'[p] \in {output[p], Append(output[p], Line("stopped", 0))}
      /\ life'[p] \in {"closing", "killed"} => output'[p] = output[p]
      /\ life'[p] = "exited" => life[p] = "quitting"
      /\ \A q \in Processes \ {p} : /\ life'[q] = life[q] /\ input'[q] = input[q]
                                    /\ output'[q] = output[q]
  BY <1>1, <1>2 DEF CloseWindow, Exit, Crash, Becomes, Emit, Hangup, Channels
<1>5. /\ Ordered(lines[p], output[p]) => Ordered(lines[p], output'[p])
      /\ AllSilent(lines[p], output[p]) => AllSilent(lines[p], output'[p])
      /\ \A n : AllCurrent(lines[p], output[p], n) => AllCurrent(lines[p], output'[p], n)
  BY <1>2, <1>3, <1>4, Emitted
<1>6. Stream(p) => Stream(p)'
  BY <1>1, <1>4, <1>5 DEF Stream, Dead
<1>7. ASSUME Beginning(p), step[Main] \in {"ready", "register"} PROVE Beginning(p)'
  BY <1>1, <1>4, <1>5, <1>6, <1>7 DEF Beginning
<1>8. ASSUME Serving(p) PROVE Serving(p)'
  <2>1. CASE life'[p] = "closing"
    BY <1>1, <1>4, <1>6, <1>8, <2>1 DEF Serving, Mute, Asked, Answered, Dead
  <2>2. CASE life'[p] # "closing"
    <3>1. AllQuiet(lines[p], output[p]) => AllCurrent(lines[p], output[p], asked)
      BY <1>2, QuietChannel DEF AllQuiet, AllCurrent
    <3> QED
      BY <1>1, <1>4, <1>5, <1>6, <1>8, <2>2, <3>1 DEF Serving, Mute, Asked, Answered, Dead
  <2> QED
    BY <2>1, <2>2
<1> QED
  BY <1>1, <1>4, <1>7, <1>8, OneProcess

LEMMA ReadTalk ==
  ASSUME Talking, NEW p \in Processes, Read(p)
  PROVE  Talk'
<1>1. UNCHANGED <<step, target, companion, asked, missed, input, life>>
  BY DEF Read, threads, calls
<1>2. /\ output \in Channels /\ lines \in Channels
      /\ lines[p] \in Seq(Lines) /\ output[p] \in Seq(Lines)
  BY ChannelsOf DEF Talking, Control, ProcessesTyped
<1>3. CASE output[p] = <<>>
  BY <1>1, <1>3 DEF Read, Talking, Talk, Unused, Launched, Registered, Beginning, Serving,
                    Stream, Dead, Mute, Asked, Answered
<1>4. CASE output[p] # <<>> /\ Received(p)
  <2>1. /\ output'[p] = Tail(output[p]) /\ lines'[p] = Append(lines[p], Head(output[p]))
        /\ \A q \in Processes \ {p} : output'[q] = output[q] /\ lines'[q] = lines[q]
        /\ p \in reading /\ reading' = reading
    BY <1>2, <1>4 DEF Read, Channels
  <2>2. /\ Ordered(lines[p], output[p]) => Ordered(lines'[p], output'[p])
        /\ AllQuiet(lines[p], output[p]) => AllQuiet(lines'[p], output'[p])
        /\ AllSilent(lines[p], output[p]) => AllSilent(lines'[p], output'[p])
        /\ AllOpen(lines[p], output[p]) => AllOpen(lines'[p], output'[p])
        /\ \A n : AllCurrent(lines[p], output[p], n) => AllCurrent(lines'[p], output'[p], n)
    BY <1>2, <1>4, <2>1, Moved
  <2>3. life[p] # "none"
    BY <1>4 DEF Talking, Talk, Unused
  <2>4. Stream(p) => Stream(p)'
    BY <1>1, <2>1, <2>2 DEF Stream, Dead
  <2>5. Beginning(p) => Beginning(p)'
    BY <1>1, <2>2, <2>4 DEF Beginning
  <2>6. Serving(p) => Serving(p)'
    BY <1>1, <2>2, <2>4 DEF Serving, Mute, Asked, Answered, Dead
  <2> QED
    BY <1>1, <2>1, <2>3, <2>5, <2>6, OneProcess
<1>5. CASE output[p] # <<>> /\ ~Received(p)
  <2>1. /\ \A q \in Processes \ {p} : output'[q] = output[q] /\ lines'[q] = lines[q]
        /\ output'[p] = <<>> /\ lines' = lines
    BY <1>2, <1>5 DEF Read, Channels, Hangup
  <2>0. \A q \in Processes \ {p} : q \in reading => q \in reading'
    BY <1>5 DEF Read
  <2>2. p # companion /\ p # target[Main]
    BY <1>5, ThreadNames DEF Received
  <2>3. Unused'
    BY <1>1, <2>1 DEF Talking, Talk, Unused
  <2>4. Launched'
    <3> SUFFICES ASSUME step[Main] \in {"ready", "register"} PROVE Beginning(target[Main])'
      BY <1>1 DEF Launched
    <3>1. target[Main] \in Processes \ {p} /\ Beginning(target[Main])
      BY <2>2, ChannelsOf DEF Talking, Talk, Launched
    <3> QED
      BY <1>1, <2>0, <2>1, <3>1 DEF Beginning, Stream, Dead
  <2>5. Registered'
    <3> SUFFICES ASSUME companion # None, ~missed PROVE Serving(companion)'
      BY <1>1 DEF Talking, Talk, Registered
    <3>1. companion \in Processes \ {p} /\ Serving(companion)
      BY <2>2, ChannelsOf DEF Talking, Talk, Registered
    <3> QED
      BY <1>1, <2>0, <2>1, <3>1 DEF Serving, Stream, Dead, Mute, Asked, Answered
  <2> QED
    BY <2>3, <2>4, <2>5 DEF Talk
<1> QED
  BY <1>3, <1>4, <1>5

\* A step of the app that touches no process, and is not about a launch or a
\* command of the main thread.
LEMMA ThreadsChange ==
  ASSUME Talking, UNCHANGED <<life, input, output, lines, reading, companion, asked, missed>>,
         \/ step'[Main] = step[Main] /\ target'[Main] = target[Main]
         \/ step[Main] # "reply" /\ step'[Main] \notin {"reply", "ready", "register"}
  PROVE  Talk'
<1>1. Unused'
  BY DEF Talking, Talk, Unused
<1>2. Launched'
  BY DEF Talking, Talk, Launched, Beginning, Stream, Dead
<1>3. Registered'
  BY DEF Talking, Talk, Registered, Serving, Stream, Dead, Mute, Asked, Answered
<1> QED
  BY <1>1, <1>2, <1>3 DEF Talk

LEMMA ControlTalk ==
  ASSUME Talking,
         \/ LaunchCall \/ StopCall \/ DetectCall \/ LaunchForget
         \/ \E t \in Threads : StopClear(t) \/ Store(t)
         \/ \E t \in Tasks : SettingsCall(t) \/ Settings(t) \/ DisableLock(t)
  PROVE  Talk' /\ answer' = answer
<1> USE DEF LaunchCall, StopCall, DetectCall, LaunchForget, StopClear, Store, SettingsCall,
            Settings, SettingsFails, SettingsExecute, SettingsWrite, SettingsReread,
            SettingsDeny, DisableLock
<1>1. UNCHANGED <<life, input, output, lines, reading, companion, asked, missed, answer>>
  BY DEF processes, threads, calls
<1>2. /\ step \in [Threads -> Steps] /\ Main \in Threads
      /\ Tasks \subseteq Threads /\ Main \notin Tasks
      /\ step[Main] = "store" => doing[Main] # "off"
      /\ step[Main] = "idle" \/ doing[Main] # "nothing"
  BY ThreadNames DEF Talking, Control, ThreadsTyped, Shape
<1>3. \/ step'[Main] = step[Main] /\ target'[Main] = target[Main]
      \/ step[Main] # "reply" /\ step'[Main] \notin {"reply", "ready", "register"}
  BY <1>2 DEF Begin, Goto, Return, processes, threads, Talking, Control, Shape
<1> QED
  BY <1>1, <1>3, ThreadsChange

\* While the companion is stopped none is registered, and none is launched.
LEMMA StopTalk ==
  ASSUME Talking, NEW t \in Threads, StopTake(t) \/ StopExited(t) \/ StopKills(t)
  PROVE  Talk'
<1>1. /\ step \in [Threads -> Steps] /\ Main \in Threads
      /\ Threads = {Main} \cup Tasks /\ Main \notin Tasks
      /\ life \in [Processes -> Lives] /\ input \in [Processes -> Seq(1 .. Quit)]
      /\ lines \in Channels /\ output' = output
  BY ThreadNames
     DEF Talking, Control, ProcessesTyped, ThreadsTyped, StopTake, StopExited, StopKills
<1>2. companion' = None
  BY DEF StopTake, StopExited, StopKills, Overdue, Talking, Control, Locked, Threads
<1>3. step[t] \in {"take", "quit"}
  BY DEF StopTake, StopExited, StopKills, Overdue
<1>4. step[Main] \notin {"ready", "register"}
  BY <1>1, <1>3 DEF Talking, Control, Shape, Locked
<1>5. step'[Main] \notin {"ready", "register"}
  BY <1>1, <1>4 DEF StopTake, StopExited, StopKills, StopDone, Leave, Return, Goto
<1>6. ASSUME NEW p \in Processes, life'[p] = "none"
      PROVE  input'[p] = <<>> /\ lines'[p] = <<>> /\ life[p] = "none"
  <2>1. life[p] = "none"
    BY <1>1, <1>6 DEF StopTake, StopExited, StopKills, Killed
  <2>2. input[p] = <<>> /\ lines[p] = <<>>
    BY <2>1 DEF Talking, Talk, Unused
  <2> QED
    BY <1>1, <2>1, <2>2 DEF StopTake, StopExited, StopKills, Hangup, Dead, Channels
<1>7. Unused'
  BY <1>1, <1>6 DEF Talking, Talk, Unused
<1> QED
  BY <1>2, <1>5, <1>7 DEF Talk, Launched, Registered

LEMMA LaunchSpawnTalk ==
  ASSUME Talking, LaunchSpawn
  PROVE  Talk'
<1>1. /\ step \in [Threads -> Steps] /\ target \in [Threads -> Processes \cup {None}]
      /\ Main \in Threads /\ life \in [Processes -> Lives]
      /\ companion = None /\ UNCHANGED <<input, output, lines, companion>>
  BY ThreadNames DEF Talking, Control, ProcessesTyped, ThreadsTyped, Locked, LaunchSpawn
<1>2. Registered'
  BY <1>1 DEF Registered
<1>3. CASE Leave(Main) /\ UNCHANGED <<life, reading>>
  <2>1. step'[Main] = "idle"
    BY <1>1, <1>3 DEF Leave, Return, Goto
  <2> QED
    BY <1>1, <1>2, <1>3, <2>1 DEF Talking, Talk, Unused, Launched
<1>4. CASE ~(Leave(Main) /\ UNCHANGED <<life, reading>>)
  <2>1. PICK p \in Processes :
          /\ life[p] = "none" /\ Becomes(p, "starting")
          /\ target' = [target EXCEPT ![Main] = p] /\ Goto(Main, "ready")
          /\ reading' = reading \cup {p}
    BY <1>4 DEF LaunchSpawn
  <2>2. /\ life'[p] = "starting" /\ target'[Main] = p /\ step'[Main] = "ready"
        /\ \A q \in Processes \ {p} : life'[q] = life[q]
        /\ p \in reading'
    BY <1>1, <2>1 DEF Becomes, Goto
  <2>3. input'[p] = <<>> /\ output'[p] = <<>> /\ lines'[p] = <<>>
    BY <1>1, <2>1 DEF Talking, Talk, Unused
  <2>4. Beginning(p)'
    BY <2>2, <2>3, EmptyChannel DEF Beginning, Stream
  <2>5. Unused'
    BY <1>1, <2>2 DEF Talking, Talk, Unused
  <2> QED
    BY <1>2, <2>2, <2>4, <2>5 DEF Talk, Launched
<1> QED
  BY <1>3, <1>4

LEMMA LaunchReadyTalk ==
  ASSUME Talking, LaunchReady
  PROVE  Talk'
<1> DEFINE p == target[Main]
<1>1. /\ step \in [Threads -> Steps] /\ Main \in Threads /\ p \in Processes
      /\ lines \in Channels /\ lines[p] \in Seq(Lines) /\ output[p] \in Seq(Lines)
      /\ companion = None /\ lines[p] # <<>> /\ Beginning(p) /\ step[Main] = "ready"
      /\ UNCHANGED <<life, input, output, reading, companion, target>>
  BY ThreadNames, ChannelsOf
     DEF Talking, Talk, Launched, Control, ProcessesTyped, ThreadsTyped, LaunchReady
<1>2. /\ lines'[p] = Tail(lines[p])
      /\ \A q \in Processes \ {p} : lines'[q] = lines[q]
  BY <1>1 DEF LaunchReady, Drained, Channels
<1>3. Word(Head(lines[p])) <=> step'[Main] # "ready"
  BY <1>1 DEF LaunchReady, Word, Goto
<1>4. step'[Main] \in {"ready", "register"}
  BY <1>1 DEF LaunchReady, Goto
<1>5. Stream(p)'
  BY <1>1, <1>2, TakenLine DEF Beginning, Stream, Dead
<1>6. life[p] = "starting" => AllQuiet(lines'[p], output[p]) /\ step'[Main] = "ready"
  BY <1>1, <1>2, <1>3, TakenLine DEF Beginning
<1>7. step'[Main] = "register" => AllSilent(lines'[p], output[p])
  BY <1>1, <1>2, <1>3, TakenLine DEF Beginning, Stream
<1>8. Beginning(p)'
  BY <1>1, <1>5, <1>6, <1>7 DEF Beginning
<1>9. Unused'
  BY <1>1, <1>2 DEF Talking, Talk, Unused, Beginning
<1> QED
  BY <1>1, <1>8, <1>9 DEF Talk, Launched, Registered

LEMMA LaunchGivesUpTalk ==
  ASSUME Talking, LaunchGivesUp
  PROVE  Talk'
<1>1. /\ step \in [Threads -> Steps] /\ Main \in Threads /\ companion' = None
      /\ life \in [Processes -> Lives] /\ UNCHANGED <<input, output, lines>>
  BY ThreadNames DEF Talking, Control, ProcessesTyped, ThreadsTyped, Locked, LaunchGivesUp
<1>2. step'[Main] = "idle"
  BY <1>1 DEF LaunchGivesUp, Leave, Return, Goto
<1>3. \A q \in Processes : life'[q] = "none" => life[q] = "none"
  BY <1>1 DEF LaunchGivesUp, Killed
<1>4. Unused'
  BY <1>1, <1>3 DEF Talking, Talk, Unused
<1> QED
  BY <1>1, <1>2, <1>4 DEF Talk, Launched, Registered

LEMMA LaunchRegisterTalk ==
  ASSUME Talking, LaunchRegister
  PROVE  Talk'
<1>0. PICK p \in Processes : p = target[Main]
  BY ChannelsOf DEF Talking, LaunchRegister
<1>1. /\ step \in [Threads -> Steps] /\ Main \in Threads
      /\ companion' = p /\ Beginning(p) /\ step[Main] = "register"
      /\ UNCHANGED <<life, input, output, lines, reading, asked>>
  BY <1>0, ThreadNames
     DEF Talking, Talk, Launched, Control, ThreadsTyped, LaunchRegister, processes
<1>2. step'[Main] = "idle"
  BY <1>1 DEF LaunchRegister, Leave, Return, Goto
<1>3. Serving(p)' /\ life'[p] # "none"
  BY <1>1 DEF Beginning, Serving, Stream, Dead, Mute
<1> QED
  BY <1>1, <1>2, <1>3 DEF Talking, Talk, Unused, Launched, Registered

LEMMA CallWritesTalk ==
  ASSUME Talking, CallWrites
  PROVE  Talk' /\ answer' = answer
<1> DEFINE p == companion
<1>1. /\ step \in [Threads -> Steps] /\ Main \in Threads /\ p \in Processes
      /\ input \in [Processes -> Seq(1 .. Quit)] /\ ~Dead(p) /\ asked' = asked + 1
      /\ lines[p] \in Seq(Lines) /\ output[p] \in Seq(Lines)
      /\ UNCHANGED <<life, output, lines, reading, companion, target, missed, answer>>
      /\ companion # None /\ life[p] # "none" /\ (missed \/ Serving(p))
      /\ step[Main] # "reply"
  BY ThreadNames, ChannelsOf
     DEF Talking, Talk, Registered, Control, ProcessesTyped, ThreadsTyped, Shape,
         CallWrites, Begin
<1>2. step'[Main] = "reply" /\ input'[p] = Append(input[p], asked')
      /\ \A q \in Processes \ {p} : input'[q] = input[q]
  BY <1>1 DEF CallWrites, Begin, Goto
<1>3. ASSUME ~missed PROVE Serving(p)'
  <2>1. Mute(p) /\ Stream(p) /\ life[p] \notin {"none", "starting"}
    BY <1>1, <1>3 DEF Serving
  <2>2. AllQuiet(lines[p], output[p])
    BY <1>1, <2>1, QuietChannel DEF Mute, Stream, AllSilent, AllOpen, AllQuiet
  <2>3. input'[p] = <<asked'>>
    BY <1>2, <2>1 DEF Mute
  <2>4. Stream(p)'
    BY <1>1, <2>1 DEF Stream, Dead
  <2>5. Asked(p)'
    BY <1>1, <2>2, <2>3 DEF Asked
  <2> QED
    BY <1>1, <1>2, <2>1, <2>4, <2>5 DEF Serving, Dead
<1>4. Unused'
  BY <1>1, <1>2 DEF Talking, Talk, Unused
<1> QED
  BY <1>1, <1>2, <1>3, <1>4 DEF Talk, Launched, Registered

LEMMA CallReapsTalk ==
  ASSUME Talking, CallReaps
  PROVE  Talk'
<1>1. /\ companion' = None /\ step' = step /\ companion # None /\ companion \in Processes
      /\ lines \in Channels /\ UNCHANGED <<life, input, output>>
  BY ChannelsOf DEF Talking, Control, ProcessesTyped, CallReaps, threads
<1>2. step[Main] \notin {"ready", "register"}
  BY <1>1, ChannelsOf DEF Talking
<1>3. \A q \in Processes : lines'[q] \in {lines[q], <<>>}
  BY <1>1 DEF CallReaps, Hangup, Channels
<1> QED
  BY <1>1, <1>2, <1>3 DEF Talking, Talk, Unused, Launched, Registered

\* If no command has given up on the companion, a reply that is taken is the
\* current command's, and none is left behind it.
LEMMA CallReplyTalk ==
  ASSUME Talking, CallReply
  PROVE  Talk' /\ (~missed /\ answer' # answer => answer' = asked)
<1> DEFINE p == companion
<1>1. /\ step \in [Threads -> Steps] /\ Main \in Threads /\ p \in Processes
      /\ lines \in Channels /\ lines[p] # <<>> /\ companion # None
      /\ lines[p] \in Seq(Lines) /\ output[p] \in Seq(Lines) /\ step[Main] = "reply"
      /\ UNCHANGED <<life, input, output, reading, companion, target, asked, missed>>
      /\ life[p] # "none" /\ (missed \/ Serving(p))
  BY ThreadNames, ChannelsOf
     DEF Talking, Talk, Registered, Control, ProcessesTyped, ThreadsTyped, CallReply
<1>2. /\ lines'[p] = Tail(lines[p])
      /\ \A q \in Processes \ {p} : lines'[q] = lines[q]
  BY <1>1 DEF CallReply, Channels
<1>3. /\ step'[Main] = IF Word(Head(lines[p])) THEN "idle" ELSE "reply"
      /\ answer' = IF Reply(Head(lines[p])) THEN Head(lines[p]).of ELSE answer
  BY <1>1 DEF CallReply, CallEnds, Return, Goto, Word, Reply
<1>4. ASSUME ~missed PROVE Serving(p)' /\ (answer' # answer => answer' = asked)
  <2>1. Serving(p)
    BY <1>1, <1>4
  <2>2. Stream(p)'
    BY <1>1, <1>2, <2>1, TakenLine DEF Serving, Stream, Dead
  <2>3. /\ Mute(p) => Mute(p)' /\ ~Reply(Head(lines[p]))
        /\ Asked(p) => Asked(p)' /\ ~Word(Head(lines[p])) /\ ~Reply(Head(lines[p]))
        /\ Answered(p) => Answered(p)' /\ (Reply(Head(lines[p])) => Head(lines[p]).of = asked)
        /\ Answered(p) /\ Word(Head(lines[p])) => Mute(p)'
    <3>1. ~Word(Head(lines[p])) => ~Reply(Head(lines[p]))
      BY <1>1, HeadAndTail, WordsOf
    <3> QED
      BY <1>1, <1>2, <2>1, <3>1, TakenLine DEF Mute, Asked, Answered, Serving, Stream
  <2>4. Serving(p)'
    BY <1>1, <1>3, <2>1, <2>2, <2>3 DEF Serving, Dead
  <2> QED
    BY <1>1, <1>3, <2>1, <2>3, <2>4 DEF Serving
<1>5. Unused'
  BY <1>1, <1>2 DEF Talking, Talk, Unused
<1> QED
  BY <1>1, <1>3, <1>4, <1>5 DEF Talk, Launched, Registered

\* The command gives up: on a companion whose last line was read, or on one that
\* may still answer, which is remembered.
LEMMA CallFailsTalk ==
  ASSUME Talking, CallFails
  PROVE  Talk' /\ answer' = answer
<1> DEFINE p == companion
<1>1. /\ step \in [Threads -> Steps] /\ Main \in Threads /\ p \in Processes
      /\ lines[p] = <<>> /\ step[Main] = "reply" /\ companion # None
      /\ UNCHANGED <<life, input, output, lines, reading, companion, target, asked, answer>>
      /\ missed' = (missed \/ p \in reading) /\ (missed \/ Serving(p))
      /\ life[p] # "none"
  BY ThreadNames, ChannelsOf
     DEF Talking, Talk, Registered, Control, ThreadsTyped, CallFails, processes
<1>2. step'[Main] = "idle"
  BY <1>1 DEF CallFails, CallEnds, Return, Goto
<1>3. ASSUME ~missed' PROVE Serving(p)'
  <2>1. Serving(p) /\ Dead(p) /\ output[p] = <<>> /\ input[p] = <<>>
    BY <1>1, <1>3 DEF Serving, Stream
  <2>2. Mute(p)'
    BY <1>1, <2>1, EmptyChannel DEF Mute
  <2>3. Stream(p)'
    BY <1>1, <2>1 DEF Serving, Stream, Dead
  <2> QED
    BY <1>1, <2>1, <2>2, <2>3 DEF Serving, Dead
<1>4. Unused'
  BY <1>1 DEF Talking, Talk, Unused
<1> QED
  BY <1>1, <1>2, <1>3, <1>4 DEF Talk, Launched, Registered
-----------------------------------------------------------------------------
(* The companion: the theorems *)

LEMMA InitTalking == Init => Talking
<1> SUFFICES ASSUME Init PROVE Talking
  OBVIOUS
<1> USE BoundsAssumption, ThreadNames, NoneIsNone
<1>1. ProcessesTyped
  <2>1. <<>> \in Seq(1 .. Quit) /\ <<>> \in Seq(Lines)
    OBVIOUS
  <2> QED
    BY <2>1 DEF Init, ProcessesTyped, Lives, Channels
<1>2. ThreadsTyped /\ AppTyped /\ FlagsTyped
  <2>1. ThreadsTyped
    BY DEF Init, ThreadsTyped, Things, Steps
  <2>2. AppTyped
    BY DEF Init, AppTyped, NoReply
  <2>3. FlagsTyped
    BY DEF Init, FlagsTyped
  <2> QED
    BY <2>1, <2>2, <2>3
<1>3. Shape /\ Locked
  BY DEF Init, Shape, Locked
<1>4. NoStray /\ Off
  BY DEF Init, NoStray, Off, Alive, Dead
<1>5. Talk
  BY DEF Init, Talk, Unused, Launched, Registered
<1> QED
  BY <1>1, <1>2, <1>3, <1>4, <1>5 DEF Talking, Control

LEMMA NextControl == Control /\ [Next]_vars => Control'
<1> SUFFICES ASSUME Control, [Next]_vars PROVE Control'
  OBVIOUS
<1>1. CASE User
  BY <1>1, ThreadsControl, SettingsControl, CallWritesControl, CallReapsControl DEF User
<1>2. CASE Host
  <2>1. CASE Launch
    BY <2>1, ThreadsControl, LaunchSpawnControl, LaunchReadyControl,
       LaunchGivesUpControl, LaunchRegisterControl DEF Launch
  <2>2. CASE CallReply \/ CallFails
    BY <2>2, CallReplyControl, CallFailsControl
  <2>3. CASE Store(Main) \/ \E t \in Tasks : Settings(t) \/ DisableLock(t)
    BY <2>3, ThreadNames, SettingsControl
  <2>4. CASE \E t \in Threads : Stop(t)
    BY <2>4, ThreadsControl, StopTakeControl, StopExitedControl, StopKillsControl DEF Stop
  <2> QED
    BY <1>2, <2>1, <2>2, <2>3, <2>4, ThreadNames DEF Host
<1>3. CASE \E p \in Processes : Process(p) \/ Read(p)
  BY <1>3, StartUpControl, PublishRingControl, ExecuteControl, CloseControl, ReadControl
     DEF Process
<1>4. CASE UNCHANGED vars
  <2>1. \A p \in Processes : Dead(p) => Dead(p)'
    BY <1>4 DEF vars, processes, Dead
  <2>2. ProcessesTyped' /\ AppTyped'
    BY <1>4 DEF vars, processes, locks, calls, Control, ProcessesTyped, AppTyped
  <2> QED
    BY <1>4, <2>1, <2>2, ProcessesChange DEF vars, calls
<1> QED
  BY <1>1, <1>2, <1>3, <1>4 DEF Next

LEMMA NextTalk ==
  Talking /\ [Next]_vars => Talk' /\ (~missed /\ answer' # answer => answer' = asked)
<1> SUFFICES ASSUME Talking, [Next]_vars
             PROVE  Talk' /\ (~missed /\ answer' # answer => answer' = asked)
  OBVIOUS
<1>1. CASE User
  <2>1. CallReaps => answer' = answer
    BY DEF CallReaps, calls
  <2> QED
    BY <1>1, <2>1, ControlTalk, CallWritesTalk, CallReapsTalk DEF User
<1>2. CASE Host
  <2>1. CASE Launch
    <3>1. LaunchForget \/ answer' = answer
      BY <2>1 DEF Launch, LaunchSpawn, LaunchReady, LaunchGivesUp, LaunchRegister, calls
    <3> QED
      BY <2>1, <3>1, ControlTalk, LaunchSpawnTalk, LaunchReadyTalk,
         LaunchGivesUpTalk, LaunchRegisterTalk DEF Launch
  <2>2. CASE CallReply \/ CallFails
    BY <2>2, CallReplyTalk, CallFailsTalk
  <2>3. CASE Store(Main) \/ \E t \in Tasks : Settings(t) \/ DisableLock(t)
    BY <2>3, ThreadNames, ControlTalk
  <2>4. CASE \E t \in Threads : Stop(t)
    <3>1. \A t \in Threads : StopTake(t) \/ StopExited(t) \/ StopKills(t) => answer' = answer
      BY DEF StopTake, StopExited, StopKills, calls
    <3> QED
      BY <2>4, <3>1, ControlTalk, StopTalk DEF Stop
  <2> QED
    BY <1>2, <2>1, <2>2, <2>3, <2>4, ThreadNames DEF Host
<1>3. CASE \E p \in Processes : Process(p) \/ Read(p)
  <2>1. answer' = answer
    BY <1>3
       DEF Process, StartUp, PublishRing, Execute, CloseWindow, Exit, Crash, Read, calls
  <2> QED
    BY <1>3, <2>1, StartUpTalk, PublishRingTalk, ExecuteTalk, CloseTalk, ReadTalk
       DEF Process
<1>4. CASE UNCHANGED vars
  <2>1. Talk' /\ answer' = answer
    BY <1>4, ThreadsChange DEF vars, processes, threads, calls
  <2> QED
    BY <2>1
<1> QED
  BY <1>1, <1>2, <1>3, <1>4 DEF Next

LEMMA Controlled == Spec => []Control
<1>1. Init => Control
  BY InitTalking DEF Talking
<1> QED
  BY <1>1, NextControl, PTL DEF Spec

\* The type invariant, for every number of processes and round trips.
THEOREM CompanionTypeCorrect == Spec => []TypeOK
  BY Controlled, ControlTypes, PTL

\* No companion is left running that the app does not know of, whether replies
\* may be late or not.
THEOREM NoStrayCompanion == Spec => []NoStray
<1>1. Control => NoStray
  BY DEF Control
<1> QED
  BY Controlled, <1>1, PTL

\* A switch-off that stopped the companion leaves none, also none that was
\* being launched, until the flag is set again.
THEOREM OffLeavesNone == Spec => []OffStops
<1>1. Control => OffStops
  BY DEF Control, Off, OffStops
<1> QED
  BY Controlled, <1>1, PTL

\* A command gets its own reply, as long as none has given up on the companion.
THEOREM RepliesAreAligned == Spec => AlignedReplies
<1>1. Init => Talking
  BY InitTalking
<1>2. Talking /\ [Next]_vars => Talking'
  BY NextControl, NextTalk DEF Talking
<1>3. Talking /\ [Next]_vars => [~missed /\ answer' # answer => answer' = asked]_vars
  BY NextTalk
<1> QED
  BY <1>1, <1>2, <1>3, PTL DEF Spec, AlignedReplies
-----------------------------------------------------------------------------
(* The ring *)

\* Whoever works on the ring holds the mutex.
RingLocked ==
    /\ ppc = "copy" => lock = "producer"
    /\ cpc \in {"consume", "unlock"} => lock = "consumer"

\* The slot being imported is marked; the one being written is not.
RingMarked ==
    /\ Holding => frame # NoFrame /\ busy[frame.surface.slot]
    /\ ppc = "copy" => ~busy[slot]

\* The descriptor in the ring is the newest; the one the host took last is
\* the one its counter names.
RingSequenced ==
    /\ latest.sequence = published
    /\ frame.sequence = consumed
    /\ consumed <= published
    /\ ppc \in {"lock", "copy"} => published < MaxFrames
    /\ ppc = "lock" => tries > 0

RingIInv == RingTypeOK /\ RingLocked /\ RingMarked /\ RingSequenced

LEMMA RingBounds ==
  /\ RingSlots \in Nat /\ RingSlots > 0
  /\ LockAttempts \in Nat /\ LockAttempts > 0
  /\ MaxFrames \in Nat /\ MaxRebuilds \in Nat
  BY RingAssumption, BoundAssumption

LEMMA FrameFacts ==
    ASSUME NEW f \in Frame \cup {NoFrame}
    PROVE  /\ f.sequence \in 0 .. MaxFrames
           /\ f.sequence > 0 => f \in Frame
           /\ f \in Frame => /\ f # NoFrame /\ f.surface \in Surface
                             /\ f.surface.slot \in Slots
BY RingBounds DEF Frame, NoFrame, Surface, NoSurface, Slots

LEMMA SlotArithmetic ==
  /\ 0 \in Slots
  /\ \A n \in Nat : n % RingSlots \in Slots
BY RingBounds DEF Slots

LEMMA RingInitInv == RingInit => RingIInv
<1> SUFFICES ASSUME RingInit PROVE RingIInv
  OBVIOUS
<1> USE RingBounds, SlotArithmetic DEF RingInit
<1>1. RingTypeOK
  <2>1. 0 \in 0 .. MaxFrames /\ 0 \in 0 .. LockAttempts /\ 0 \in 0 .. MaxRebuilds
    OBVIOUS
  <2> QED
    BY <2>1 DEF RingTypeOK
<1>2. RingLocked /\ RingMarked /\ RingSequenced
  BY DEF RingLocked, RingMarked, RingSequenced, Holding, NoFrame
<1> QED
  BY <1>1, <1>2 DEF RingIInv

\* Steps of the hook other than picking and publishing.
LEMMA HookKeepsInv ==
  RingIInv /\ (HookBegin \/ HookWait \/ HookBusy \/ HookCopyFails
               \/ ProducerDies \/ \E success \in BOOLEAN : HookRebuild(success)) => RingIInv'
<1> SUFFICES ASSUME RingIInv,
                    HookBegin \/ HookWait \/ HookBusy \/ HookCopyFails
                      \/ ProducerDies \/ \E success \in BOOLEAN : HookRebuild(success)
             PROVE  RingIInv'
  OBVIOUS
<1> USE RingBounds
    DEF RingIInv, RingTypeOK, RingLocked, RingMarked, RingSequenced, Holding, ring, shared,
        producer,
        consumer, view
<1>1. CASE HookBegin
  BY <1>1 DEF HookBegin
<1>2. CASE HookWait
  <2>1. tries' \in 0 .. LockAttempts /\ (ppc' = "lock" => tries' > 0)
    BY <1>2 DEF HookWait
  <2> QED
    BY <1>2, <2>1 DEF HookWait
<1>3. CASE HookBusy \/ HookCopyFails \/ ProducerDies
  BY <1>3 DEF HookBusy, HookCopyFails, ProducerDies
<1>4. CASE \E success \in BOOLEAN : HookRebuild(success)
  <2>1. PICK success \in BOOLEAN : HookRebuild(success)
    BY <1>4
  <2>2. rebuilds' \in 0 .. MaxRebuilds /\ tries' \in 0 .. LockAttempts /\ tries' > 0
    BY <2>1 DEF HookRebuild
  <2> QED
    BY <2>1, <2>2 DEF HookRebuild
<1> QED
  BY <1>1, <1>2, <1>3, <1>4

LEMMA PickKeepsInv == RingIInv /\ HookPick => RingIInv'
<1> SUFFICES ASSUME RingIInv, HookPick PROVE RingIInv'
  OBVIOUS
<1> USE DEF RingIInv, ring, shared, producer, consumer, view
<1>1. PICK attempt \in Slots : FirstFree(attempt) /\ slot' = Nth(attempt)
  BY DEF HookPick
<1>2. nextSlot + attempt \in Nat
  BY RingBounds DEF RingTypeOK, Slots
<1>3. slot' \in Slots /\ ~busy[slot']
  BY <1>1, <1>2, SlotArithmetic DEF FirstFree, Nth
<1>4. RingTypeOK'
  BY <1>3 DEF HookPick, RingTypeOK
<1>5. RingLocked' /\ RingMarked' /\ RingSequenced'
  BY <1>3 DEF HookPick, RingLocked, RingMarked, RingSequenced, Holding
<1> QED
  BY <1>4, <1>5

LEMMA PublishKeepsInv == RingIInv /\ HookPublish => RingIInv'
<1> SUFFICES ASSUME RingIInv, HookPublish PROVE RingIInv'
  OBVIOUS
<1> USE DEF RingIInv, ring, shared, producer, consumer, view
<1>1. published < MaxFrames => latest' \in Frame
  BY RingBounds DEF HookPublish, RingTypeOK, Frame, Surface
<1>2. nextSlot' \in Slots
  BY SlotArithmetic DEF HookPublish, NextAfter, RingTypeOK, Slots
<1>3. RingTypeOK'
  BY <1>1, <1>2, RingBounds DEF HookPublish, RingTypeOK, RingSequenced
<1>4. RingLocked' /\ RingMarked' /\ RingSequenced'
  BY DEF HookPublish, RingTypeOK, RingLocked, RingMarked, RingSequenced, Holding
<1> QED
  BY <1>3, <1>4

LEMMA ConsumeKeepsInv == RingIInv /\ Consume => RingIInv'
<1> SUFFICES ASSUME RingIInv, Consume PROVE RingIInv'
  OBVIOUS
<1> USE DEF RingIInv, ring, shared, producer, consumer, view
<1>1. ppc # "copy"
  BY DEF Consume, RingLocked
<1>2. CASE Newer
  <2>1. latest \in Frame /\ latest.surface.slot \in Slots /\ latest # NoFrame
    BY <1>2, FrameFacts, RingBounds DEF Newer, RingTypeOK, RingSequenced
  <2>2. RingTypeOK'
    BY <1>2, <2>1 DEF Consume, MarkedBusy, RingTypeOK, RingSequenced
  <2>3. RingLocked' /\ RingSequenced'
    BY <1>1, <1>2, RingBounds DEF Consume, RingLocked, RingSequenced, RingTypeOK
  <2>4. RingMarked'
    BY <1>1, <1>2, <2>1 DEF Consume, RingMarked, MarkedBusy, RingTypeOK
  <2> QED
    BY <2>2, <2>3, <2>4
<1>3. CASE ~Newer
  BY <1>1, <1>3 DEF Consume, RingTypeOK, RingLocked, RingMarked, RingSequenced, Holding
<1> QED
  BY <1>2, <1>3

LEMMA ImportKeepsInv ==
    ASSUME NEW success \in BOOLEAN, RingIInv, Import(success) PROVE RingIInv'
<1> USE DEF RingIInv, ring, shared, producer, consumer, view
<1>1. frame \in Frame /\ frame.surface \in Surface
  BY FrameFacts DEF Import, RingMarked, Holding, RingTypeOK
<1>2. RingTypeOK'
  BY <1>1 DEF Import, RingTypeOK
<1>3. RingLocked' /\ RingMarked' /\ RingSequenced'
  BY DEF Import, RingLocked, RingMarked, RingSequenced, Holding
<1> QED
  BY <1>2, <1>3

LEMMA ReleaseKeepsInv == RingIInv /\ (ReleaseLock \/ Release) => RingIInv'
<1> SUFFICES ASSUME RingIInv, ReleaseLock \/ Release PROVE RingIInv'
  OBVIOUS
<1> USE DEF RingIInv, ring, shared, producer, consumer, view
<1>1. CASE ReleaseLock
  BY <1>1 DEF ReleaseLock, RingTypeOK, RingLocked, RingMarked, RingSequenced, Holding
<1>2. CASE Release
  <2>1. frame.surface.slot \in Slots /\ ppc # "copy"
    BY <1>2, FrameFacts DEF Release, RingMarked, Holding, RingTypeOK, RingLocked
  <2> QED
    BY <1>2, <2>1 DEF Release, RingTypeOK, RingLocked, RingMarked, RingSequenced, Holding
<1> QED
  BY <1>1, <1>2

\* Starting, stopping and losing the thread, taking the lock, and drawing.
LEMMA RestKeepsInv ==
  RingIInv /\ (\/ Attach \/ Detach \/ ConsumerStops \/ ConsumerLock
               \/ ConsumerDies \/ DrawBegin \/ DrawEnd \/ Ended
               \/ UNCHANGED ringVars) => RingIInv'
<1> SUFFICES ASSUME RingIInv,
                    \/ Attach \/ Detach \/ ConsumerStops \/ ConsumerLock
                    \/ ConsumerDies \/ DrawBegin \/ DrawEnd \/ Ended \/ UNCHANGED ringVars
             PROVE  RingIInv'
  OBVIOUS
<1> USE DEF RingIInv, ringVars, ring, shared, producer, consumer, view, Attach, Detach,
        ConsumerStops, ConsumerLock, ConsumerDies, DrawBegin, DrawEnd, Ended
<1>1. RingTypeOK'
  <2> USE DEF RingTypeOK
  <2>1. CASE Attach \/ Detach \/ ConsumerLock
    BY <2>1
  <2>2. CASE ConsumerStops \/ ConsumerDies
    BY <2>2
  <2>3. CASE DrawBegin \/ DrawEnd
    BY <2>3
  <2>4. CASE Ended \/ UNCHANGED ringVars
    BY <2>4
  <2> QED
    BY <2>1, <2>2, <2>3, <2>4
<1>2. RingLocked'
  BY DEF RingLocked
<1>3. RingMarked' /\ RingSequenced'
  BY DEF RingMarked, RingSequenced, Holding
<1> QED
  BY <1>1, <1>2, <1>3

LEMMA RingNextInv == RingIInv /\ [RingNext]_ringVars => RingIInv'
BY HookKeepsInv, PickKeepsInv, PublishKeepsInv, ConsumeKeepsInv, ImportKeepsInv,
   ReleaseKeepsInv, RestKeepsInv
   DEF RingNext, Producer, Consumer

LEMMA RingInvariance == RingSpec => []RingIInv
BY RingInitInv, RingNextInv, PTL DEF RingSpec

\* Every variable of the ring, of both processes and of the view keeps its type.
THEOREM RingTypeCorrect == RingSpec => []RingTypeOK
BY RingInvariance, PTL DEF RingIInv

\* The producer never copies into the slot the host is importing.
THEOREM HeldNotOverwritten == RingSpec => []NeverOverwriteHeld
<1>1. RingIInv => NeverOverwriteHeld
  BY DEF RingIInv, RingMarked, NeverOverwriteHeld
<1> QED
  BY <1>1, RingInvariance, PTL

\* Each frame the host takes is the newest there is, and newer than the last.
THEOREM NewestWins == RingSpec => NewestFrameWins
<1>1. RingIInv /\ [RingNext]_ringVars =>
        [cpc = "consume" /\ cpc' = "import" =>
           frame'.sequence > frame.sequence /\ frame'.sequence = published]_ringVars
  <2> SUFFICES ASSUME RingIInv, [RingNext]_ringVars, cpc = "consume", cpc' = "import"
               PROVE  frame'.sequence > frame.sequence /\ frame'.sequence = published
    OBVIOUS
  <2>1. Consume
    BY DEF RingNext, ringVars, Producer, Consumer, consumer, HookBegin, HookWait, HookPick,
           HookBusy, HookCopyFails, HookPublish, HookRebuild, ProducerDies, Attach,
           Detach, ConsumerStops, ConsumerLock, Import, ReleaseLock, Release,
           ConsumerDies, DrawBegin, DrawEnd, Ended
  <2> QED
    BY <2>1 DEF Consume, Newer, RingIInv, RingSequenced, RingTypeOK
<1> QED
  BY <1>1, RingInvariance, PTL DEF RingSpec, NewestFrameWins
==============================================================================
