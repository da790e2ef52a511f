--------------------------- MODULE NativeCore_proofs ---------------------------
(***************************************************************************)
(* The native core.  First its session (NativeCoreSession), for any number  *)
(* of frames, calls and files: TypeOK, that the cartridge file ends with    *)
(* the memory the game ended with, that an answered save is current, and    *)
(* that the last set_paused wins unless a speed command erased it.          *)
(* IInv says which caller each accepted command belongs to and where the    *)
(* snapshot of a waiting save is; Followed what the controls on their way   *)
(* from set_paused to the worker will make of the flag; Awaited that every  *)
(* caller that waits has a command the worker will come to.                 *)
(*                                                                          *)
(* Then the queue of its software frames (SoftwareFrameQueue), for every    *)
(* capacity from three upwards and every number of calls.                   *)
(***************************************************************************)
EXTENDS NativeCoreSession, SoftwareFrameQueue, FiniteSets, FiniteSetTheorems,
        FunctionTheorems, TLAPS
-----------------------------------------------------------------------------
(* The session: its callers, its commands and its worker *)

\* Where the worker is, and the command it has in hand there.
Worked ==
    /\ hand # NoCommand <=> wpc \in {"execute", "saving"}
    /\ wpc = "saving" => hand.kind = "Save"
    /\ wpc \in {"shutdown", "final", "done"} => stopping
    /\ wpc = "frame" => frames < MaxFrames
    /\ hostUp <=> wpc \notin {"final", "done"}

\* The requests accepted and not answered yet, each of another waiting caller.
Distinct(queue) ==
    \A i, j \in 1 .. Len(queue) : i # j /\ IsRequest(queue[i]) /\ IsRequest(queue[j]) =>
                                 queue[i].by # queue[j].by
Accepted ==
    /\ \A i \in 1 .. Len(commands) : IsRequest(commands[i]) => ui[commands[i].by] = "waiting"
    /\ Distinct(commands)
    /\ hand # NoCommand /\ IsRequest(hand) =>
         /\ ui[hand.by] = "waiting"
         /\ \A i \in 1 .. Len(commands) : IsRequest(commands[i]) => commands[i].by # hand.by

\* The snapshot of the command that waits, and of the shutdown.
Captured(file) ==
    \/ pending[file] = core
    \/ pending[file] = NoFile /\ (outcome => disk[file] = core)
Waiting ==
    /\ wpc = "saving" => Captured(hand.file)
    /\ wpc = "final" => Captured(Ram)
    /\ wpc = "done" => pending[Ram] = NoFile /\ (outcome => disk[Ram] = core)

\* What the pauses and resumes still to be carried out, and the flag, make of the
\* game: the queued one if there is one, or else the one in hand, has the last word.
Asks(kind) == (kind = "Pause") <=> wanted
NoPauseQueued == \A i \in 1 .. Len(commands) : ~Pausing(commands[i].kind)
Followed ==
    /\ \A c \in Callers : ui[c] \in Controls => c = Controller
    /\ Pausing(ui[Controller]) => Asks(ui[Controller])
    /\ Open /\ ~lost /\ ~Pausing(ui[Controller]) =>
         /\ \A i \in 1 .. Len(commands) : Pausing(commands[i].kind) => Asks(commands[i].kind)
         /\ NoPauseQueued /\ frames < FrameLimit => Paused(hand.kind, paused) = wanted

\* Induction over the naturals, for a set: a set that holds 0 and each next
\* number holds them all, as a finite set has no injection into a part of it.
LEMMA SetInduction ==
  ASSUME NEW S, 0 \in S, \A n \in Nat : n \in S => n + 1 \in S
  PROVE  Nat \subseteq S
<1> SUFFICES ASSUME NEW k \in Nat, k \notin S PROVE FALSE
  OBVIOUS
<1> DEFINE T == (0 .. k) \ S
           U == T \ {k}
           down == [n \in T |-> n - 1]
<1>1. IsFiniteSet(T) /\ k \in T
  <2>1. IsFiniteSet(0 .. k)
    BY FS_Interval
  <2>2. T \in SUBSET (0 .. k)
    OBVIOUS
  <2> QED
    BY <2>1, <2>2, FS_Subset
<1>2. IsFiniteSet(U) /\ Cardinality(T) \in Nat /\ Cardinality(U) = Cardinality(T) - 1
  <2> HIDE DEF T
  <2> QED
    BY <1>1, FS_RemoveElement, FS_CardinalityType
<1>3. \A n \in T : n - 1 \in U
  <2> TAKE n \in T
  <2>1. n \in Nat /\ n # 0 /\ n <= k
    OBVIOUS
  <2>2. n - 1 \in Nat /\ (n - 1) + 1 = n
    BY <2>1
  <2>3. n - 1 \notin S
    BY <2>2
  <2> QED
    BY <2>1, <2>2, <2>3
<1>4. down \in Injection(T, U)
  BY <1>3 DEF Injection, IsInjective
<1>5. Cardinality(T) <= Cardinality(U)
  BY <1>2, <1>4, FS_Injection
<1> QED
  BY <1>2, <1>5

\* The recursion of WithoutControls, over the first n commands of a queue.
Keeps(f, queue, n) ==
    f = [m \in 0 .. n |-> IF m = 0 THEN <<>>
                          ELSE IF IsRequest(queue[m]) THEN Append(f[m - 1], queue[m])
                                                      ELSE f[m - 1]]

LEMMA KeptExists ==
  ASSUME NEW queue
  PROVE  \A n \in Nat : \E f : Keeps(f, queue, n)
<1> DEFINE S == {n \in Nat : \E f : Keeps(f, queue, n)}
<1>1. 0 \in S
  <2> DEFINE f == [m \in 0 .. 0 |-> <<>>]
  <2>1. Keeps(f, queue, 0)
    BY DEF Keeps
  <2> QED
    BY <2>1
<1>2. ASSUME NEW n \in Nat, n \in S PROVE n + 1 \in S
  <2>1. PICK f : Keeps(f, queue, n)
    BY <1>2
  <2> DEFINE last == IF IsRequest(queue[n + 1]) THEN Append(f[n], queue[n + 1]) ELSE f[n]
             g == [m \in 0 .. n + 1 |-> IF m = n + 1 THEN last ELSE f[m]]
  <2>2. \A m \in 0 .. n : g[m] = f[m]
    OBVIOUS
  <2>3. \A m \in 0 .. n + 1 : m # 0 => m - 1 \in 0 .. n
    OBVIOUS
  <2>4. \A m \in 0 .. n : f[m] = IF m = 0 THEN <<>>
                                 ELSE IF IsRequest(queue[m]) THEN Append(f[m - 1], queue[m])
                                                             ELSE f[m - 1]
    BY <2>1 DEF Keeps
  <2>5. \A m \in 0 .. n + 1 : g[m] = IF m = 0 THEN <<>>
                                     ELSE IF IsRequest(queue[m])
                                            THEN Append(g[m - 1], queue[m]) ELSE g[m - 1]
    <3> TAKE m \in 0 .. n + 1
    <3>1. CASE m = n + 1
      <4>1. g[m] = last /\ m # 0 /\ m - 1 = n /\ g[n] = f[n]
        BY <3>1
      <4> QED
        BY <3>1, <4>1
    <3>2. CASE m # n + 1
      <4>1. m \in 0 .. n /\ g[m] = f[m] /\ (m # 0 => g[m - 1] = f[m - 1])
        BY <2>2, <2>3, <3>2
      <4> QED
        BY <2>4, <4>1
    <3> QED
      BY <3>1, <3>2
  <2>6. Keeps(g, queue, n + 1)
    <3> HIDE DEF last
    <3>1. g = [m \in 0 .. n + 1 |-> g[m]]
      OBVIOUS
    <3> HIDE DEF g
    <3> QED
      BY <2>5, <3>1 DEF Keeps
  <2> QED
    BY <2>6
<1> HIDE DEF S
<1>3. Nat \subseteq S
  BY <1>1, <1>2, SetInduction
<1> QED
  BY <1>3 DEF S

\* WithoutControls keeps the requests and nothing else: each entry is a request
\* of the queue, each request of the queue is an entry, there are no more than
\* there were, and they are of distinct callers if they were.
LEMMA Erased ==
  ASSUME NEW queue \in Seq(Command)
  PROVE  LET rest == WithoutControls(queue)
         IN  /\ rest \in Seq(Command) /\ Len(rest) <= Len(queue)
             /\ \A i \in 1 .. Len(rest) : /\ IsRequest(rest[i])
                                          /\ \E j \in 1 .. Len(queue) : rest[i] = queue[j]
             /\ \A j \in 1 .. Len(queue) :
                  IsRequest(queue[j]) => \E i \in 1 .. Len(rest) : rest[i] = queue[j]
             /\ Distinct(queue) => Distinct(rest)
<1> DEFINE L == Len(queue)
<1>1. PICK f : Keeps(f, queue, L) /\ WithoutControls(queue) = f[L]
  <2> DEFINE kept == CHOOSE f : Keeps(f, queue, L)
  <2>1. Keeps(kept, queue, L)
    BY KeptExists
  <2>2. WithoutControls(queue) = kept[L]
    BY DEF WithoutControls, Keeps
  <2> QED
    BY <2>1, <2>2
<1> DEFINE Good(n, s) ==
             /\ s \in Seq(Command) /\ Len(s) <= n
             /\ \A i \in 1 .. Len(s) : IsRequest(s[i]) /\ \E j \in 1 .. n : s[i] = queue[j]
             /\ \A j \in 1 .. n :
                  IsRequest(queue[j]) => \E i \in 1 .. Len(s) : s[i] = queue[j]
             /\ Distinct(queue) => Distinct(s)
           S == {n \in Nat : n <= L => Good(n, f[n])}
<1>2. f[0] = <<>> /\ \A m \in 1 .. L : f[m] = IF IsRequest(queue[m])
                                              THEN Append(f[m - 1], queue[m]) ELSE f[m - 1]
  <2>1. L \in Nat
    OBVIOUS
  <2> HIDE DEF L
  <2>2. \A m \in 0 .. L : f[m] = IF m = 0 THEN <<>>
                                 ELSE IF IsRequest(queue[m]) THEN Append(f[m - 1], queue[m])
                                                             ELSE f[m - 1]
    BY <1>1 DEF Keeps
  <2>3. 0 \in 0 .. L /\ \A m \in 1 .. L : m \in 0 .. L /\ m # 0
    BY <2>1
  <2> QED
    BY <2>2, <2>3
<1>3. 0 \in S
  <2>1. Good(0, <<>>)
    BY DEF Distinct
  <2> HIDE DEF Good
  <2>2. Good(0, f[0])
    BY <1>2, <2>1
  <2> QED
    BY <2>2
<1>4. ASSUME NEW n \in Nat, n \in S PROVE n + 1 \in S
  <2> SUFFICES ASSUME n + 1 <= L PROVE Good(n + 1, f[n + 1])
    <3> HIDE DEF Good, L
    <3> QED
      OBVIOUS
  <2>1. n + 1 \in 1 .. L /\ (n + 1) - 1 = n /\ n <= L
    OBVIOUS
  <2>2. PICK s : s = f[n]
    OBVIOUS
  <2>3. Good(n, s)
    BY <1>4, <2>1, <2>2
  <2>4. queue[n + 1] \in Command
    BY <2>1
  <2>5. CASE ~IsRequest(queue[n + 1])
    <3>1. f[n + 1] = s
      BY <1>2, <2>1, <2>2, <2>5
    <3>2. \A j \in 1 .. n + 1 : IsRequest(queue[j]) => \E i \in 1 .. Len(s) : s[i] = queue[j]
      BY <2>3, <2>5
    <3>3. Good(n + 1, s)
      BY <2>3, <3>2
    <3> QED
      BY <3>1, <3>3
  <2>6. CASE IsRequest(queue[n + 1])
    <3> DEFINE t == Append(s, queue[n + 1])
    <3>1. f[n + 1] = t
      BY <1>2, <2>1, <2>2, <2>6
    <3>2. /\ t \in Seq(Command) /\ Len(t) = Len(s) + 1 /\ Len(s) \in Nat
          /\ \A i \in 1 .. Len(t) : t[i] = IF i = Len(s) + 1 THEN queue[n + 1] ELSE s[i]
      BY <2>3, <2>4
    <3> HIDE DEF t
    <3>3. \A i \in 1 .. Len(t) : IsRequest(t[i]) /\ \E j \in 1 .. n + 1 : t[i] = queue[j]
      <4> TAKE i \in 1 .. Len(t)
      <4>1. CASE i = Len(s) + 1
        BY <2>1, <2>6, <3>2, <4>1
      <4>2. CASE i # Len(s) + 1
        <5>1. i \in 1 .. Len(s) /\ t[i] = s[i]
          BY <3>2, <4>2
        <5> QED
          BY <2>3, <5>1
      <4> QED
        BY <4>1, <4>2
    <3>4. ASSUME Distinct(queue) PROVE Distinct(t)
      <4> SUFFICES ASSUME NEW i \in 1 .. Len(t), NEW j \in 1 .. Len(t), i # j
                   PROVE  t[i].by # t[j].by
        BY DEF Distinct
      <4>1. ASSUME NEW k \in 1 .. Len(s) PROVE s[k].by # queue[n + 1].by
        <5>1. PICK m \in 1 .. n : s[k] = queue[m]
          BY <2>3
        <5>2. m \in 1 .. L /\ m # n + 1 /\ IsRequest(queue[m])
          BY <2>1, <2>3, <5>1
        <5> QED
          BY <2>1, <2>6, <3>4, <5>1, <5>2 DEF Distinct
      <4>2. CASE i \in 1 .. Len(s) /\ j \in 1 .. Len(s)
        <5>1. t[i] = s[i] /\ t[j] = s[j]
          BY <3>2, <4>2
        <5>2. IsRequest(s[i]) /\ IsRequest(s[j]) /\ Distinct(s)
          BY <2>3, <3>4, <4>2
        <5> QED
          BY <4>2, <5>1, <5>2 DEF Distinct
      <4>3. CASE ~(i \in 1 .. Len(s) /\ j \in 1 .. Len(s))
        BY <3>2, <4>1, <4>3
      <4> QED
        BY <4>2, <4>3
    <3>5. \A j \in 1 .. n + 1 : IsRequest(queue[j]) => \E i \in 1 .. Len(t) : t[i] = queue[j]
      <4> SUFFICES ASSUME NEW j \in 1 .. n + 1, IsRequest(queue[j])
                   PROVE  \E i \in 1 .. Len(t) : t[i] = queue[j]
        OBVIOUS
      <4>1. CASE j = n + 1
        <5>1. Len(s) + 1 \in 1 .. Len(t) /\ t[Len(s) + 1] = queue[n + 1]
          BY <3>2
        <5> QED
          BY <4>1, <5>1
      <4>2. CASE j # n + 1
        <5>1. PICK i \in 1 .. Len(s) : s[i] = queue[j]
          BY <2>3, <4>2
        <5>2. i \in 1 .. Len(t) /\ t[i] = s[i]
          BY <3>2
        <5> QED
          BY <5>1, <5>2
      <4> QED
        BY <4>1, <4>2
    <3>6. Good(n + 1, t)
      BY <2>3, <3>2, <3>3, <3>4, <3>5
    <3> QED
      BY <3>1, <3>6
  <2> QED
    BY <2>5, <2>6
<1> HIDE DEF S
<1>5. Nat \subseteq S
  BY <1>3, <1>4, SetInduction
<1>6. Good(L, f[L])
  <2>1. L \in Nat /\ L <= L
    OBVIOUS
  <2> HIDE DEF Good, L
  <2> QED
    BY <1>5, <2>1 DEF S
<1> QED
  BY <1>1, <1>6

\* What TypeOK says of the queue, the callers, the flags, the machine and the
\* files.
QueueTyped ==
    /\ commands \in Seq(Command) /\ Len(commands) <= MaxPendingCommands
    /\ hand \in Command \cup {NoCommand}
Phases == {"drain", "execute", "saving", "gate", "pace", "frame", "shutdown", "final", "done"}
CallersTyped ==
    /\ ui \in [Callers -> {"ready", "waiting", "joining", "closed"} \cup Controls]
    /\ calls \in 0 .. MaxCalls
FlagsTyped ==
    /\ paused \in BOOLEAN /\ wanted \in BOOLEAN /\ fast \in BOOLEAN
    /\ lost \in BOOLEAN
    /\ stopping \in BOOLEAN /\ running \in BOOLEAN /\ hostUp \in BOOLEAN
    /\ wpc \in Phases
MachineTyped == core \in States /\ frames \in States
StorageTyped ==
    /\ pending \in [Files -> States \cup {NoFile}] /\ disk \in [Files -> States \cup {NoFile}]
    /\ outcome \in BOOLEAN

Typed == QueueTyped /\ CallersTyped /\ FlagsTyped /\ MachineTyped /\ StorageTyped

LEMMA TypesSplit == TypeOK <=> Typed
  BY DEF TypeOK, Typed, QueueTyped, CallersTyped, FlagsTyped, MachineTyped, StorageTyped,
         Phases

IInv == Typed /\ Worked /\ Accepted /\ Waiting

\* A command is a control, or a request with a caller and a file.
LEMMA CommandFacts ==
  /\ \A x \in Command : IsControl(x) => x.kind \in Controls
  /\ \A x \in Command : IsRequest(x) => /\ x.by \in Callers /\ x.file \in Files
                                        /\ x.kind \in {"Save", "Queue", "Load"}
  /\ \A x \in Command : x # NoCommand
  /\ IsRequest(NoCommand) /\ NoCommand.kind = "none"
  /\ Ram \in Files /\ NoFile \notin States
<1>1. \A x \in Command : x.kind \in Controls \cup {"Save", "Queue", "Load"}
  BY DEF Command, Control, Request
<1>2. \A x \in Control : x.kind \in Controls /\ IsControl(x)
  BY ControlsAssumption DEF Control, IsControl
<1>3. \A x \in Request : /\ x.by \in Callers /\ x.file \in Files
                         /\ x.kind \in {"Save", "Queue", "Load"} /\ ~IsControl(x)
  BY DEF Request, IsControl, Files
<1>4. IsRequest(NoCommand) /\ NoCommand.kind = "none"
  BY DEF NoCommand, IsRequest, IsControl
<1>5. \A x \in Command : x # NoCommand
  BY <1>1, <1>4, ControlsAssumption
<1>6. Ram \in Files /\ NoFile \notin States
  BY BoundsAssumption DEF Files, NoFile, States
<1> QED
  BY <1>2, <1>3, <1>4, <1>5, <1>6 DEF Command, IsRequest

LEMMA ControlsAre ==
  /\ Controls \cap {"ready", "waiting", "joining", "closed"} = {}
  /\ \A x \in Command : IsControl(x) => x.kind \in {"Pause", "Resume", "Fast", "Normal"}
  BY ControlsAssumption DEF IsControl

LEMMA Appended ==
  ASSUME NEW s \in Seq(Command), NEW x \in Command
  PROVE  /\ Append(s, x) \in Seq(Command)
         /\ Len(Append(s, x)) = Len(s) + 1 /\ Len(s) \in Nat
         /\ \A i \in 1 .. Len(Append(s, x)) :
              Append(s, x)[i] = IF i = Len(s) + 1 THEN x ELSE s[i]
  OBVIOUS

\* A control behind requests leaves the requests as they are.
LEMMA ControlBehind ==
  ASSUME NEW s \in Seq(Command), NEW x \in Command, ~IsRequest(x), Distinct(s),
         NEW n \in Nat, Len(s) < n
  PROVE  Distinct(Append(s, x)) /\ Len(Append(s, x)) <= n
<1>1. \A i \in 1 .. Len(Append(s, x)) : IsRequest(Append(s, x)[i]) =>
        i \in 1 .. Len(s) /\ Append(s, x)[i] = s[i]
  BY Appended
<1>2. Distinct(Append(s, x))
  BY <1>1 DEF Distinct
<1>3. Len(Append(s, x)) <= n
  BY Appended
<1> QED
  BY <1>2, <1>3

LEMMA InitIInv == Init => IInv
<1> SUFFICES ASSUME Init PROVE IInv
  OBVIOUS
<1>1. 0 \in States /\ MaxPendingCommands \in Nat /\ MaxCalls \in Nat
  BY BoundsAssumption DEF States
<1>2. QueueTyped
  BY <1>1 DEF Init, QueueTyped
<1>3. CallersTyped
  BY <1>1 DEF Init, CallersTyped
<1>4. FlagsTyped
  BY DEF Init, FlagsTyped, Phases
<1>5. MachineTyped
  BY <1>1 DEF Init, MachineTyped
<1>6. StorageTyped
  BY DEF Init, StorageTyped
<1>7. Worked
  <2>1. hand = NoCommand /\ wpc = "drain" /\ hostUp = TRUE
    BY DEF Init
  <2>2. hand # NoCommand <=> wpc \in {"execute", "saving"}
    BY <2>1
  <2>3. hostUp <=> (wpc \notin {"final", "done"})
    BY <2>1
  <2> QED
    BY <2>1, <2>2, <2>3 DEF Worked
<1>8. Len(commands) = 0 /\ hand = NoCommand /\ wpc = "drain"
  BY DEF Init
<1>9. Accepted /\ Waiting
  BY <1>8 DEF Accepted, Distinct, Waiting
<1> QED
  BY <1>2, <1>3, <1>4, <1>5, <1>6, <1>7, <1>9 DEF IInv, Typed

\* A call of a control touches neither the requests nor the worker.
LEMMA StoreControlKeeps ==
  ASSUME IInv, NEW c \in Callers, NEW kind \in Controls, StoreControl(c, kind)
  PROVE  IInv'
<1> USE DEF IInv, StoreControl, Call, session, machine, storage
<1>1. CallersTyped'
  BY BoundsAssumption DEF Typed, CallersTyped
<1>2. FlagsTyped'
  BY DEF Typed, FlagsTyped, Paused, Fast
<1>3. Typed'
  BY <1>1, <1>2 DEF Typed, QueueTyped, MachineTyped, StorageTyped
<1>4. Accepted'
  BY CommandFacts DEF Typed, QueueTyped, CallersTyped, Accepted
<1> QED
  BY <1>3, <1>4 DEF Worked, Waiting, Captured

LEMMA EnqueueControlKeeps ==
  ASSUME IInv, NEW c \in Callers, EnqueueControl(c)
  PROVE  IInv'
<1> USE DEF IInv
<1> DEFINE control == [kind |-> ui[c]]
           rest == WithoutControls(commands)
<1>0. /\ UNCHANGED <<paused, fast, stopping, running, hostUp, wpc, hand, core, frames, calls,
                    wanted, pending, disk, outcome>>
      /\ ui' = [ui EXCEPT ![c] = "ready"] /\ ui[c] \in Controls
      /\ commands' = IF Open THEN WithControl(commands, control) ELSE commands
  BY DEF EnqueueControl, atomics, session, machine, storage
<1>a. lost' \in BOOLEAN
  BY DEF EnqueueControl, Erases, Typed, FlagsTyped
<1>1. control \in Command /\ IsControl(control) /\ ~IsRequest(control)
  BY <1>0, ControlsAssumption DEF Command, Control, IsControl, IsRequest
<1>2. /\ rest \in Seq(Command) /\ Len(rest) <= Len(commands)
      /\ \A i \in 1 .. Len(rest) : /\ IsRequest(rest[i])
                                   /\ \E j \in 1 .. Len(commands) : rest[i] = commands[j]
      /\ Distinct(rest)
  BY Erased DEF Typed, QueueTyped, Accepted
<1>3. \/ commands' = commands
      \/ commands' = rest
      \/ commands' = Append(rest, control) /\ Len(rest) < MaxPendingCommands
  BY <1>0 DEF WithControl
<1> HIDE DEF rest, control
<1>4. QueueTyped'
  <2>1. commands \in Seq(Command) /\ Len(commands) <= MaxPendingCommands
        /\ hand' \in Command \cup {NoCommand} /\ MaxPendingCommands \in Nat
    BY <1>0, BoundsAssumption DEF Typed, QueueTyped
  <2>2. commands' \in Seq(Command) /\ Len(commands') <= MaxPendingCommands
    <3>1. CASE commands' = commands
      BY <2>1, <3>1
    <3>2. CASE commands' = rest
      BY <1>2, <2>1, <3>2
    <3>3. CASE commands' = Append(rest, control) /\ Len(rest) < MaxPendingCommands
      <4>1. /\ Append(rest, control) \in Seq(Command)
            /\ Len(Append(rest, control)) <= MaxPendingCommands
        BY <1>1, <1>2, <2>1, <3>3, Appended, ControlBehind
      <4> QED
        BY <3>3, <4>1
    <3> QED
      BY <1>3, <3>1, <3>2, <3>3
  <2> QED
    BY <2>1, <2>2 DEF QueueTyped
<1>5. Typed'
  BY <1>0, <1>a, <1>4 DEF Typed, CallersTyped, FlagsTyped, MachineTyped, StorageTyped
<1>6. \A i \in 1 .. Len(commands') : IsRequest(commands'[i]) =>
        \E j \in 1 .. Len(commands) : commands'[i] = commands[j]
  <2>1. CASE commands' = commands \/ commands' = rest
    BY <1>2, <2>1
  <2>2. CASE commands' = Append(rest, control)
    <3>1. /\ Len(commands') = Len(rest) + 1 /\ Len(rest) \in Nat
          /\ \A i \in 1 .. Len(commands') :
               commands'[i] = IF i = Len(rest) + 1 THEN control ELSE rest[i]
      BY <1>1, <1>2, <2>2, Appended
    <3>2. \A i \in 1 .. Len(commands') : IsRequest(commands'[i]) =>
            i \in 1 .. Len(rest) /\ commands'[i] = rest[i]
      BY <1>1, <3>1
    <3> QED
      BY <1>2, <3>2
  <2> QED
    BY <1>3, <2>1, <2>2
<1>7. Distinct(commands')
  <2>1. CASE commands' = commands
    BY <2>1 DEF Accepted
  <2>2. CASE commands' = rest
    BY <1>2, <2>2
  <2>3. CASE commands' = Append(rest, control) /\ Len(rest) < MaxPendingCommands
    <3>1. Distinct(Append(rest, control))
      BY <1>1, <1>2, <2>3, BoundsAssumption, ControlBehind
    <3> QED
      BY <2>3, <3>1
  <2> QED
    BY <1>3, <2>1, <2>2, <2>3
<1>8. \A x \in Callers : ui[x] = "waiting" => ui'[x] = "waiting"
  BY <1>0, ControlsAre DEF Typed, CallersTyped
<1>9. Accepted'
  BY <1>0, <1>6, <1>7, <1>8, CommandFacts DEF Typed, QueueTyped, Accepted
<1> QED
  BY <1>0, <1>5, <1>9 DEF Worked, Waiting, Captured

LEMMA SubmitKeeps ==
  ASSUME IInv, NEW c \in Callers, NEW command \in Request, command.by = c, Submit(c, command)
  PROVE  IInv'
<1> USE DEF IInv, Submit, Call, asked, atomics, session, machine, storage
<1>1. command \in Command
  BY DEF Command
<1>2. QueueTyped'
  <2>1. commands \in Seq(Command) /\ Len(commands) <= MaxPendingCommands
        /\ hand' \in Command \cup {NoCommand} /\ MaxPendingCommands \in Nat
    BY BoundsAssumption DEF Typed, QueueTyped
  <2>2. Append(commands, command) \in Seq(Command)
        /\ Len(Append(commands, command)) = Len(commands) + 1 /\ Len(commands) \in Nat
    BY <1>1, <2>1
  <2>3. \/ commands' = commands
        \/ commands' = Append(commands, command) /\ Len(commands) < MaxPendingCommands
    BY DEF Room
  <2> QED
    BY <2>1, <2>2, <2>3 DEF QueueTyped
<1>3. Typed'
  BY <1>2, BoundsAssumption DEF Typed, CallersTyped, FlagsTyped, MachineTyped, StorageTyped
<1>4. CASE Open /\ Room
  <2>1. /\ commands \in Seq(Command) /\ commands' = Append(commands, command)
        /\ ui[c] = "ready" /\ ui' = [ui EXCEPT ![c] = "waiting"]
    BY <1>4 DEF Typed, QueueTyped
  <2>2. /\ Len(commands') = Len(commands) + 1 /\ Len(commands) \in Nat
        /\ \A i \in 1 .. Len(commands') :
             commands'[i] = IF i = Len(commands) + 1 THEN command ELSE commands[i]
    BY <1>1, <2>1
  <2>3. \A i \in 1 .. Len(commands) : IsRequest(commands[i]) =>
          commands[i].by \in Callers /\ commands[i].by # c /\ ui'[commands[i].by] = "waiting"
    BY <2>1, CommandFacts DEF Typed, CallersTyped, Accepted
  <2>4. ui'[c] = "waiting"
    BY <2>1 DEF Typed, CallersTyped
  <2>5. \A i \in 1 .. Len(commands') : IsRequest(commands'[i]) =>
          ui'[commands'[i].by] = "waiting"
    BY <2>2, <2>3, <2>4
  <2>6. Distinct(commands')
    <3> SUFFICES ASSUME NEW i \in 1 .. Len(commands'), NEW j \in 1 .. Len(commands'), i # j,
                        IsRequest(commands'[i]), IsRequest(commands'[j])
                 PROVE  commands'[i].by # commands'[j].by
      BY DEF Distinct
    <3>1. CASE i \in 1 .. Len(commands) /\ j \in 1 .. Len(commands)
      BY <2>2, <3>1 DEF Accepted, Distinct
    <3>2. CASE ~(i \in 1 .. Len(commands) /\ j \in 1 .. Len(commands))
      BY <2>2, <2>3, <3>2
    <3> QED
      BY <3>1, <3>2
  <2>7. hand # NoCommand /\ IsRequest(hand) =>
          hand.by \in Callers /\ hand.by # c /\ ui'[hand.by] = "waiting"
    BY <2>1, CommandFacts DEF Typed, QueueTyped, CallersTyped, Accepted
  <2>8. Accepted'
    BY <2>2, <2>5, <2>6, <2>7 DEF Accepted
  <2> QED
    BY <1>3, <2>8 DEF Worked, Waiting, Captured
<1>5. CASE ~(Open /\ Room)
  BY <1>3, <1>5 DEF Worked, Waiting, Captured, Accepted, Distinct
<1> QED
  BY <1>4, <1>5

LEMMA StopKeeps ==
  ASSUME IInv, NEW c \in Callers, Stop(c) \/ StopReturn(c)
  PROVE  IInv'
<1> USE DEF IInv, Stop, StopReturn, asked, atomics, machine, storage
<1>1. Typed'
  BY DEF Typed, QueueTyped, CallersTyped, FlagsTyped, MachineTyped, StorageTyped
<1>2. \A x \in Callers : ui[x] = "waiting" => ui'[x] = "waiting"
  BY DEF Typed, CallersTyped
<1>3. Accepted'
  BY <1>2, CommandFacts DEF Typed, QueueTyped, Accepted
<1> QED
  BY <1>1, <1>3 DEF Worked, Waiting, Captured

\* The worker takes the command at the head of the queue.
LEMMA HeadTaken ==
  ASSUME NEW s \in Seq(Command), s # <<>>
  PROVE  /\ Head(s) \in Command /\ Head(s) = s[1] /\ Tail(s) \in Seq(Command)
         /\ 1 \in 1 .. Len(s) /\ Len(Tail(s)) = Len(s) - 1 /\ Len(s) \in Nat
         /\ \A i \in 1 .. Len(Tail(s)) :
              i + 1 \in 1 .. Len(s) /\ i + 1 # 1 /\ Tail(s)[i] = s[i + 1]
  OBVIOUS

LEMMA DrainKeeps ==
  ASSUME IInv, Drain
  PROVE  IInv'
<1> USE DEF IInv, Drain, atomics, session, machine, caller, asked, storage
<1>1. CASE commands = <<>>
  <2>1. wpc' = "gate" /\ UNCHANGED <<commands, hand>>
    BY <1>1
  <2>2. Typed'
    BY <2>1 DEF Typed, QueueTyped, CallersTyped, FlagsTyped, MachineTyped, StorageTyped,
         Phases
  <2>3. Worked' /\ Waiting'
    BY <2>1 DEF Worked, Waiting
  <2>4. Accepted'
    BY <2>1 DEF Accepted, Distinct
  <2> QED
    BY <2>2, <2>3, <2>4
<1>2. CASE commands # <<>>
  <2> DEFINE s == commands
  <2>1. /\ s \in Seq(Command) /\ Len(s) <= MaxPendingCommands /\ MaxPendingCommands \in Nat
        /\ hand' = Head(s) /\ commands' = Tail(s) /\ wpc' = "execute" /\ wpc = "drain"
        /\ UNCHANGED <<atomics, session, machine, caller, asked, storage>>
    BY <1>2, BoundsAssumption DEF Typed, QueueTyped
  <2>2. /\ Head(s) \in Command /\ Head(s) = s[1] /\ Tail(s) \in Seq(Command)
        /\ 1 \in 1 .. Len(s) /\ Len(Tail(s)) = Len(s) - 1 /\ Len(s) \in Nat
        /\ \A i \in 1 .. Len(Tail(s)) :
             i + 1 \in 1 .. Len(s) /\ i + 1 # 1 /\ Tail(s)[i] = s[i + 1]
    BY <1>2, <2>1, HeadTaken
  <2>3. QueueTyped'
    BY <2>1, <2>2 DEF QueueTyped
  <2>4. Typed'
    BY <2>1, <2>3 DEF Typed, CallersTyped, FlagsTyped, MachineTyped, StorageTyped,
         Phases
  <2>5. Worked' /\ Waiting'
    BY <2>1, <2>2, CommandFacts DEF Worked, Waiting
  <2>6. /\ \A i \in 1 .. Len(s) : IsRequest(s[i]) => ui[s[i].by] = "waiting"
        /\ \A i, j \in 1 .. Len(s) : i # j /\ IsRequest(s[i]) /\ IsRequest(s[j]) =>
             s[i].by # s[j].by
    BY DEF Accepted, Distinct
  <2> HIDE DEF s
  <2>7. /\ \A i \in 1 .. Len(commands') : IsRequest(commands'[i]) =>
             ui'[commands'[i].by] = "waiting"
        /\ IsRequest(hand') => ui'[hand'.by] = "waiting"
    BY <2>1, <2>2, <2>6
  <2>8. Distinct(commands')
    BY <2>1, <2>2, <2>6 DEF Distinct
  <2>9. IsRequest(hand') =>
          \A i \in 1 .. Len(commands') : IsRequest(commands'[i]) => commands'[i].by # hand'.by
    BY <2>1, <2>2, <2>6
  <2>10. Accepted'
    BY <2>7, <2>8, <2>9 DEF Accepted
  <2> QED
    BY <2>4, <2>5, <2>10
<1> QED
  BY <1>1, <1>2

LEMMA ExecuteControlKeeps ==
  ASSUME IInv, ExecuteControl
  PROVE  IInv'
<1> USE DEF IInv, ExecuteControl, session, machine, caller, asked, storage
<1>1. Typed'
  BY DEF Typed, QueueTyped, CallersTyped, FlagsTyped, MachineTyped, StorageTyped,
         Phases, Paused, Fast
<1>2. Worked' /\ Waiting'
  BY DEF Worked, Waiting
<1>3. Accepted'
  BY DEF Accepted, Distinct
<1> QED
  BY <1>1, <1>2, <1>3

\* The caller of the request in hand returns; the others still wait.
LEMMA CompletedKeeps ==
  ASSUME IInv, hand # NoCommand, IsRequest(hand),
         ui' = Completed, hand' = NoCommand, commands' = commands
  PROVE  /\ Accepted'
         /\ ui' \in [Callers -> {"ready", "waiting", "joining", "closed"} \cup Controls]
<1> USE DEF IInv, Completed
<1>1. hand \in Command /\ hand.by \in Callers
  BY CommandFacts DEF Typed, QueueTyped
<1>2. ui' \in [Callers -> {"ready", "waiting", "joining", "closed"} \cup Controls]
  BY DEF Typed, CallersTyped
<1>3. \A i \in 1 .. Len(commands) : IsRequest(commands[i]) => ui'[commands[i].by] = "waiting"
  <2> SUFFICES ASSUME NEW i \in 1 .. Len(commands), IsRequest(commands[i])
               PROVE  ui'[commands[i].by] = "waiting"
    OBVIOUS
  <2>1. commands[i].by \in Callers /\ commands[i].by # hand.by /\ ui[commands[i].by] = "waiting"
    BY CommandFacts DEF Typed, QueueTyped, Accepted
  <2> QED
    BY <2>1 DEF Typed, CallersTyped
<1>4. Distinct(commands')
  BY DEF Accepted
<1>5. Accepted'
  BY <1>3, <1>4 DEF Accepted
<1> QED
  BY <1>2, <1>5

LEMMA ExecuteQueueKeeps ==
  ASSUME IInv, ExecuteQueue
  PROVE  IInv'
<1> USE DEF ExecuteQueue, asked, atomics, session, machine
<1>1. hand \in Command /\ IsRequest(hand) /\ hand # NoCommand /\ hand.file \in Files
  BY CommandFacts DEF IInv, Typed, QueueTyped, Worked, IsRequest, IsControl
<1>2. Accepted' /\ ui' \in [Callers -> {"ready", "waiting", "joining", "closed"} \cup Controls]
  BY <1>1, CompletedKeeps
<1>3. pending' \in [Files -> States \cup {NoFile}]
  BY <1>1 DEF IInv, Typed, StorageTyped, MachineTyped
<1>4. Typed'
  BY <1>2, <1>3 DEF IInv, Typed, QueueTyped, CallersTyped, FlagsTyped, MachineTyped,
         StorageTyped, Phases
<1>5. Worked' /\ Waiting'
  BY DEF IInv, Worked, Waiting
<1> QED
  BY <1>2, <1>4, <1>5 DEF IInv

LEMMA ExecuteSaveKeeps ==
  ASSUME IInv, ExecuteSave
  PROVE  IInv'
<1> USE DEF IInv, ExecuteSave, atomics, session, machine, caller, asked
<1>1. hand \in Command /\ IsRequest(hand) /\ hand # NoCommand /\ hand.file \in Files
  BY CommandFacts DEF Typed, QueueTyped, Worked, IsRequest, IsControl
<1>2. pending' \in [Files -> States \cup {NoFile}] /\ pending'[hand.file] = core
  BY <1>1 DEF Typed, StorageTyped, MachineTyped
<1>3. Typed'
  BY <1>2 DEF Typed, QueueTyped, CallersTyped, FlagsTyped, MachineTyped, StorageTyped,
         Phases
<1>4. Worked'
  BY <1>1 DEF Worked
<1>5. Waiting'
  BY <1>2 DEF Waiting, Captured
<1>6. Accepted'
  BY DEF Accepted, Distinct
<1> QED
  BY <1>3, <1>4, <1>5, <1>6

LEMMA SaveWrittenKeeps ==
  ASSUME IInv, SaveWritten
  PROVE  IInv'
<1> USE DEF SaveWritten, asked, atomics, session, machine, storage
<1>1. hand \in Command /\ IsRequest(hand) /\ hand # NoCommand
  BY CommandFacts DEF IInv, Typed, QueueTyped, Worked, IsRequest, IsControl
<1>2. Accepted' /\ ui' \in [Callers -> {"ready", "waiting", "joining", "closed"} \cup Controls]
  BY <1>1, CompletedKeeps
<1>3. Typed'
  BY <1>2 DEF IInv, Typed, QueueTyped, CallersTyped, FlagsTyped, MachineTyped,
         StorageTyped, Phases
<1>4. Worked' /\ Waiting'
  BY DEF IInv, Worked, Waiting
<1> QED
  BY <1>2, <1>3, <1>4 DEF IInv

LEMMA ExecuteLoadKeeps ==
  ASSUME IInv, ExecuteLoad
  PROVE  IInv'
<1> USE DEF ExecuteLoad, asked, atomics, session, storage
<1>1. hand \in Command /\ IsRequest(hand) /\ hand # NoCommand /\ hand.file \in Files
  BY CommandFacts DEF IInv, Typed, QueueTyped, Worked, IsRequest, IsControl
<1>2. Accepted' /\ ui' \in [Callers -> {"ready", "waiting", "joining", "closed"} \cup Controls]
  BY <1>1, CompletedKeeps
<1>3. core' \in States
  BY <1>1 DEF IInv, Typed, StorageTyped, MachineTyped
<1>4. Typed'
  BY <1>2, <1>3 DEF IInv, Typed, QueueTyped, CallersTyped, FlagsTyped, MachineTyped,
         StorageTyped, Phases
<1>5. Worked' /\ Waiting'
  BY DEF IInv, Worked, Waiting
<1> QED
  BY <1>2, <1>4, <1>5 DEF IInv

\* Frames, the gate, and the shutdown change no command and no caller.
LEMMA AcceptedUnchanged ==
  ASSUME Accepted, UNCHANGED <<commands, hand, ui>>
  PROVE  Accepted'
  BY DEF Accepted, Distinct

LEMMA GateKeeps ==
  ASSUME IInv, Gate \/ Pace
  PROVE  IInv'
<1> USE DEF IInv, Gate, Pace, MayEnd, atomics, session, machine, caller, asked, storage
<1>1. Typed'
  BY DEF Typed, QueueTyped, CallersTyped, FlagsTyped, MachineTyped, StorageTyped,
         Phases
<1>2. Worked' /\ Waiting'
  BY DEF Worked, Waiting
<1> QED
  BY <1>1, <1>2, AcceptedUnchanged

LEMMA RunFrameKeeps ==
  ASSUME IInv, RunFrame
  PROVE  IInv'
<1> USE DEF IInv, RunFrame, session, caller, asked, storage
<1>1. frames + 1 \in States
  BY BoundsAssumption DEF Typed, MachineTyped, States, Worked
<1>2. PausedByLimit(frames + 1) \in BOOLEAN
  BY DEF Typed, FlagsTyped, PausedByLimit
<1>3. Typed'
  BY <1>1, <1>2 DEF Typed, QueueTyped, CallersTyped, FlagsTyped, MachineTyped, StorageTyped,
         Phases
<1>4. Worked' /\ Waiting'
  BY DEF Worked, Waiting
<1> QED
  BY <1>3, <1>4, AcceptedUnchanged

LEMMA ShutdownKeeps ==
  ASSUME IInv, HostShutdown \/ WorkerEnd
  PROVE  IInv'
<1> USE DEF IInv, HostShutdown, WorkerEnd, atomics, machine, caller, asked
<1>1. Ram \in Files /\ core # NoFile /\ core \in States
  BY CommandFacts DEF Typed, MachineTyped
<1>2. pending' \in [Files -> States \cup {NoFile}]
  BY <1>1 DEF Typed, StorageTyped, LastSnapshot, storage
<1>3. Typed'
  BY <1>2 DEF Typed, QueueTyped, CallersTyped, FlagsTyped, MachineTyped, StorageTyped,
         Phases, storage
<1>4. Worked'
  BY DEF Worked
<1>5. CASE HostShutdown
  <2>1. pending'[Ram] = core
    BY <1>1, <1>5 DEF Typed, StorageTyped, LastSnapshot
  <2> QED
    BY <1>3, <1>4, <1>5, <2>1, AcceptedUnchanged DEF Waiting, Captured
<1>6. CASE WorkerEnd
  BY <1>1, <1>3, <1>4, <1>6, AcceptedUnchanged DEF Waiting, Captured, Written, storage
<1> QED
  BY <1>5, <1>6

LEMMA StoreKeeps ==
  ASSUME IInv, NEW file \in Files, NEW success \in BOOLEAN, Store(file, success)
  PROVE  IInv'
<1> USE DEF IInv, Store, atomics, session, machine, caller, asked
<1>1. /\ pending' \in [Files -> States \cup {NoFile}]
      /\ disk' \in [Files -> States \cup {NoFile}]
      /\ pending'[file] = NoFile /\ (success => disk'[file] = pending[file])
      /\ \A f \in Files : f # file => pending'[f] = pending[f] /\ disk'[f] = disk[f]
  BY DEF Typed, StorageTyped
<1>2. outcome' \in BOOLEAN
  BY DEF Typed, StorageTyped
<1>3. Typed'
  BY <1>1, <1>2 DEF Typed, QueueTyped, CallersTyped, FlagsTyped, MachineTyped, StorageTyped
<1>4. Worked'
  BY DEF Worked
<1>5. Waiting'
  <2>1. Ram \in Files
    BY CommandFacts
  <2>2. ASSUME wpc = "saving" PROVE Captured(hand.file)'
    <3>1. hand.file \in Files
      BY <2>2, CommandFacts DEF Typed, QueueTyped, Worked, IsRequest, IsControl
    <3>2. CASE hand.file = file
      BY <1>1, <2>2, <3>2 DEF Waiting, Captured
    <3>3. CASE hand.file # file
      BY <1>1, <2>2, <3>1, <3>3 DEF Waiting, Captured
    <3> QED
      BY <3>2, <3>3
  <2>3. ASSUME wpc = "final" PROVE Captured(Ram)'
    <3>1. CASE Ram = file
      BY <1>1, <2>3, <3>1 DEF Waiting, Captured
    <3>2. CASE Ram # file
      BY <1>1, <2>1, <2>3, <3>2 DEF Waiting, Captured
    <3> QED
      BY <3>1, <3>2
  <2>4. wpc = "done" => pending'[Ram] = NoFile /\ (outcome' => disk'[Ram] = core')
    BY <1>1, <2>1 DEF Waiting
  <2> QED
    BY <2>2, <2>3, <2>4 DEF Waiting
<1> QED
  BY <1>3, <1>4, <1>5, AcceptedUnchanged

LEMMA UnchangedKeeps ==
  ASSUME IInv, UNCHANGED vars
  PROVE  IInv'
<1> USE DEF IInv, vars, atomics, session, machine, storage
<1>1. Typed'
  BY DEF Typed, QueueTyped, CallersTyped, FlagsTyped, MachineTyped, StorageTyped
<1> QED
  BY <1>1, AcceptedUnchanged DEF Worked, Waiting, Captured

LEMMA NextKeeps == IInv /\ [Next]_vars => IInv'
<1> SUFFICES ASSUME IInv, [Next]_vars PROVE IInv'
  OBVIOUS
<1>1. ASSUME NEW c \in Callers, Caller(c) PROVE IInv'
  BY <1>1, StoreControlKeeps, EnqueueControlKeeps, SubmitKeeps, StopKeeps DEF Caller
<1>2. CASE Worker
  BY <1>2, DrainKeeps, ExecuteControlKeeps, ExecuteQueueKeeps, ExecuteSaveKeeps,
     SaveWrittenKeeps, ExecuteLoadKeeps, GateKeeps, RunFrameKeeps, ShutdownKeeps DEF Worker
<1>3. ASSUME NEW file \in Files, NEW success \in BOOLEAN, Store(file, success) PROVE IInv'
  BY <1>3, StoreKeeps
<1>4. CASE Finished \/ UNCHANGED vars
  BY <1>4, UnchangedKeeps DEF Finished
<1> QED
  BY <1>1, <1>2, <1>3, <1>4 DEF Next
-----------------------------------------------------------------------------
\* Fewer callers than commands the queue takes (there are a handful, and
\* kMaxPendingCommands is 128).
FewCallers == IsFiniteSet(Callers) /\ Cardinality(Callers) <= MaxPendingCommands

\* Requests of distinct callers other than the controller leave room for one more.
LEMMA RoomForControl ==
  ASSUME FewCallers, NEW s \in Seq(Command), Distinct(s),
         \A i \in 1 .. Len(s) : IsRequest(s[i]) /\ s[i].by \in Callers \ {Controller}
  PROVE  Len(s) < MaxPendingCommands
<1> DEFINE Others == Callers \ {Controller}
           by == [i \in 1 .. Len(s) |-> s[i].by]
<1>1. /\ IsFiniteSet(Others) /\ Cardinality(Others) = Cardinality(Callers) - 1
      /\ Cardinality(Callers) \in Nat
  BY FS_RemoveElement, FS_CardinalityType, CallersAssumption DEF FewCallers
<1>2. by \in Injection(1 .. Len(s), Others)
  <2>1. by \in [1 .. Len(s) -> Others]
    OBVIOUS
  <2>2. \A i, j \in 1 .. Len(s) : by[i] = by[j] => i = j
    BY DEF Distinct
  <2> HIDE DEF by, Others
  <2> QED
    BY <2>1, <2>2 DEF Injection, IsInjective
<1> HIDE DEF by, Others
<1>3. IsFiniteSet(1 .. Len(s)) /\ Cardinality(1 .. Len(s)) = Len(s) /\ Len(s) \in Nat
  <2>1. Len(s) \in Nat
    OBVIOUS
  <2>2. IsFiniteSet(1 .. Len(s)) /\ Cardinality(1 .. Len(s)) =
          IF 1 > Len(s) THEN 0 ELSE Len(s) - 1 + 1
    BY <2>1, FS_Interval
  <2> QED
    BY <2>1, <2>2
<1>4. Len(s) <= Cardinality(Others)
  BY <1>1, <1>2, <1>3, FS_Injection
<1> QED
  BY <1>1, <1>3, <1>4, BoundsAssumption DEF FewCallers

\* Callers never are at a pause outside Controls, and requests are none.
LEMMA PausesAre ==
  /\ \A x : Pausing(x) => x \notin {"ready", "waiting", "joining", "closed", "none"}
  /\ \A x \in Command : Pausing(x.kind) => IsControl(x)
  /\ \A x \in Command : Pausing(x.kind) => x.kind \in Controls
  /\ \A x \in Command : ~IsControl(x) => ~Pausing(x.kind)
  /\ ~Pausing(NoCommand.kind)
  /\ \A kind, before : ~Pausing(kind) => Paused(kind, before) = before
<1>1. \A x \in Command : Pausing(x.kind) => IsControl(x)
  BY DEF Pausing, IsControl
<1>2. \A x \in Command : Pausing(x.kind) => x.kind \in Controls
  BY <1>1, CommandFacts
<1>3. \A kind, before : ~Pausing(kind) => Paused(kind, before) = before
  BY DEF Pausing, Paused
<1> QED
  BY <1>1, <1>2, <1>3, CommandFacts DEF Pausing

LEMMA StoreControlFollowed ==
  ASSUME IInv, Followed, NEW c \in Callers, NEW kind \in Controls, StoreControl(c, kind)
  PROVE  Followed'
<1>1. /\ ui' = [ui EXCEPT ![c] = kind] /\ c = Controller /\ DOMAIN ui = Callers
      /\ ui'[c] = kind /\ wanted' = Paused(kind, wanted) /\ paused' = Paused(kind, paused)
      /\ lost' = (lost /\ ~Pausing(kind)) /\ ui[c] = "ready"
      /\ UNCHANGED <<commands, running, stopping, hand, frames>>
      /\ \A x \in Callers : x # c => ui'[x] = ui[x]
  BY DEF StoreControl, Call, session, machine, IInv, Typed, CallersTyped
<1>2. CASE Pausing(kind)
  <2>1. Asks(kind)'
    BY <1>1, <1>2 DEF Pausing, Asks, Paused
  <2> QED
    BY <1>1, <1>2, <2>1 DEF Followed, Asks
<1>3. CASE ~Pausing(kind)
  <2>1. UNCHANGED <<wanted, paused, lost>> /\ ~Pausing(ui[c])
    BY <1>1, <1>3, PausesAre DEF IInv, Typed, FlagsTyped
  <2> QED
    BY <1>1, <1>3, <2>1 DEF Followed, Asks, Open, NoPauseQueued
<1> QED
  BY <1>2, <1>3

LEMMA EnqueueControlFollowed ==
  ASSUME IInv, Followed, FewCallers, NEW c \in Callers, EnqueueControl(c)
  PROVE  Followed'
<1> DEFINE control == [kind |-> ui[c]]
           rest == WithoutControls(commands)
<1>1. /\ ui[c] \in Controls /\ c = Controller /\ DOMAIN ui = Callers
      /\ ui' = [ui EXCEPT ![c] = "ready"] /\ lost' = (lost \/ Erases(c))
      /\ UNCHANGED <<wanted, paused, frames, hand, running, stopping>>
  BY DEF EnqueueControl, IInv, Typed, CallersTyped, Followed, session, atomics, machine
<1>2. /\ \A x \in Callers : ui'[x] \in Controls => x = Controller
      /\ ui'[Controller] = "ready" /\ ~Pausing(ui'[Controller])
  BY <1>1, PausesAre, ControlsAre DEF Followed
<1>3. CASE ~Open
  BY <1>1, <1>2, <1>3 DEF Followed, Open
<1>4. CASE Open
  <2>1. control \in Command /\ IsControl(control) /\ control.kind = ui[c]
    BY <1>1, ControlsAssumption DEF Command, Control, IsControl
  <2>2. /\ rest \in Seq(Command) /\ Distinct(rest)
        /\ \A i \in 1 .. Len(rest) : /\ IsRequest(rest[i])
                                     /\ \E j \in 1 .. Len(commands) : rest[i] = commands[j]
    BY Erased DEF IInv, Typed, QueueTyped, Accepted
  <2>3. \A i \in 1 .. Len(rest) : rest[i].by \in Callers \ {Controller}
    <3> TAKE i \in 1 .. Len(rest)
    <3>1. PICK j \in 1 .. Len(commands) : rest[i] = commands[j]
      BY <2>2
    <3>2. IsRequest(commands[j]) /\ commands[j] \in Command
      BY <2>2, <3>1 DEF IInv, Typed, QueueTyped
    <3>3. ui[commands[j].by] = "waiting" /\ commands[j].by \in Callers
      BY <3>2, CommandFacts DEF IInv, Accepted
    <3> QED
      BY <1>1, <3>1, <3>3, ControlsAre
  <2>4. Len(rest) < MaxPendingCommands
    BY <2>2, <2>3, RoomForControl
  <2>5. commands' = Append(rest, control)
    BY <1>4, <2>4 DEF EnqueueControl, WithControl
  <2> HIDE DEF rest, control
  <2>6. /\ Len(commands') = Len(rest) + 1 /\ Len(rest) \in Nat
        /\ \A i \in 1 .. Len(commands') :
             commands'[i] = IF i = Len(rest) + 1 THEN control ELSE rest[i]
    BY <2>1, <2>2, <2>5, Appended
  <2>7. \A i \in 1 .. Len(rest) : rest[i] \in Command /\ ~Pausing(rest[i].kind)
    BY <2>2, PausesAre DEF IsRequest
  <2>8. \A i \in 1 .. Len(commands') : Pausing(commands'[i].kind) => commands'[i] = control
    BY <2>6, <2>7
  <2>9. CASE Pausing(ui[c])
    <3>1. Len(rest) + 1 \in 1 .. Len(commands') /\ commands'[Len(rest) + 1] = control
      BY <2>6
    <3>2. ~NoPauseQueued'
      BY <2>1, <2>9, <3>1 DEF NoPauseQueued
    <3>3. Asks(control.kind)
      BY <1>1, <2>1, <2>9 DEF Followed
    <3> QED
      BY <1>1, <1>2, <2>8, <3>2, <3>3 DEF Followed, Asks
  <2>10. CASE ~Pausing(ui[c])
    <3>1. \A i \in 1 .. Len(commands') : ~Pausing(commands'[i].kind)
      BY <2>1, <2>8, <2>10
    <3>2. ASSUME ~lost', frames < FrameLimit PROVE Paused(hand.kind, paused) = wanted
      <4>1. CASE NoPauseQueued
        BY <1>1, <1>4, <2>10, <3>2, <4>1 DEF Followed
      <4>2. CASE ~NoPauseQueued
        BY <1>1, <1>4, <2>10, <3>2, <4>2 DEF NoPauseQueued, Erases
      <4> QED
        BY <4>1, <4>2
    <3> QED
      BY <1>1, <1>2, <3>1, <3>2 DEF Followed
  <2> QED
    BY <2>9, <2>10
<1> QED
  BY <1>3, <1>4

\* Nothing Followed speaks of changes but the callers, which neither come to a
\* control nor leave one.
LEMMA FollowedAmong ==
  ASSUME Followed, UNCHANGED <<commands, wanted, lost, paused, frames, hand>>, Open' => Open,
         \A x \in Callers : ui'[x] \in Controls => ui[x] \in Controls,
         Pausing(ui'[Controller]) => ui'[Controller] = ui[Controller],
         ~Pausing(ui'[Controller]) => ~Pausing(ui[Controller])
  PROVE  Followed'
  BY DEF Followed, NoPauseQueued, Asks

LEMMA SubmitFollowed ==
  ASSUME IInv, Followed, NEW c \in Callers, NEW command \in Request, command.by = c,
         Submit(c, command)
  PROVE  Followed'
<1>1. /\ UNCHANGED <<wanted, lost, paused, frames, hand, running, stopping>>
      /\ ui[c] = "ready" /\ DOMAIN ui = Callers
      /\ \/ UNCHANGED <<commands, ui>>
         \/ commands' = Append(commands, command) /\ ui' = [ui EXCEPT ![c] = "waiting"]
  BY DEF Submit, Call, asked, atomics, machine, session, IInv, Typed, CallersTyped
<1>2. CASE UNCHANGED <<commands, ui>>
  BY <1>1, <1>2, FollowedAmong DEF Open
<1>3. CASE commands' = Append(commands, command) /\ ui' = [ui EXCEPT ![c] = "waiting"]
  <2>1. /\ command \in Command /\ ~IsControl(command) /\ commands \in Seq(Command)
    BY ControlsAssumption DEF Command, Request, IsControl, IInv, Typed, QueueTyped
  <2>2. /\ Len(commands') = Len(commands) + 1 /\ Len(commands) \in Nat
        /\ \A i \in 1 .. Len(commands') :
             commands'[i] = IF i = Len(commands) + 1 THEN command ELSE commands[i]
    BY <1>3, <2>1, Appended
  <2>3. \A i \in 1 .. Len(commands') : Pausing(commands'[i].kind) =>
          i \in 1 .. Len(commands) /\ commands'[i] = commands[i]
    BY <2>1, <2>2, PausesAre
  <2>4. NoPauseQueued' => NoPauseQueued
    BY <2>2 DEF NoPauseQueued
  <2>5. /\ \A x \in Callers : ui'[x] \in Controls => ui[x] \in Controls
        /\ Pausing(ui'[Controller]) => ui'[Controller] = ui[Controller]
        /\ ~Pausing(ui'[Controller]) => ~Pausing(ui[Controller])
    BY <1>1, <1>3, ControlsAre, PausesAre, CallersAssumption
  <2> QED
    BY <1>1, <2>3, <2>4, <2>5 DEF Followed, Open, Asks
<1> QED
  BY <1>1, <1>2, <1>3

LEMMA StopFollowed ==
  ASSUME IInv, Followed, NEW c \in Callers, Stop(c) \/ StopReturn(c)
  PROVE  Followed'
<1>1. \A x \in Callers : ui'[x] = ui[x] \/ ui'[x] \in {"joining", "closed"}
  BY DEF Stop, StopReturn, IInv, Typed, CallersTyped
<1>2. ~Open' /\ wanted' = wanted
  BY DEF Stop, StopReturn, Open, asked
<1>3. /\ \A x \in Callers : ui'[x] \in Controls => ui[x] \in Controls
      /\ Pausing(ui'[Controller]) => ui'[Controller] = ui[Controller]
  BY <1>1, ControlsAre, PausesAre, CallersAssumption
<1> QED
  BY <1>2, <1>3 DEF Followed, Asks

\* A step of the worker that leaves the queue, the flags and the game alone.
LEMMA FollowedUnchanged ==
  ASSUME Followed, UNCHANGED <<commands, ui, wanted, lost, paused, frames, hand>>,
         Open' => Open
  PROVE  Followed'
  BY FollowedAmong

\* The command in hand has been carried out, and was no control.
LEMMA CompletedFollowed ==
  ASSUME IInv, Followed, IsRequest(hand), hand # NoCommand, ui' = Completed,
         hand' = NoCommand, Open' => Open,
         UNCHANGED <<commands, wanted, lost, paused, frames>>
  PROVE  Followed'
<1>1. hand \in Command /\ hand.by \in Callers /\ ui[hand.by] = "waiting"
  BY CommandFacts DEF IInv, Typed, QueueTyped, Accepted
<1>2. \A x \in Callers : ui'[x] = ui[x] \/ (ui[x] = "waiting" /\ ui'[x] = "ready")
  BY <1>1 DEF Completed, IInv, Typed, CallersTyped
<1>3. /\ \A x \in Callers : ui'[x] \in Controls => ui[x] \in Controls
      /\ Pausing(ui'[Controller]) => ui'[Controller] = ui[Controller]
      /\ ~Pausing(ui'[Controller]) => ~Pausing(ui[Controller])
  BY <1>2, ControlsAre, PausesAre, CallersAssumption
<1>4. ~Pausing(hand.kind) /\ ~Pausing(hand'.kind)
  BY <1>1, PausesAre DEF IsRequest
<1>5. Paused(hand'.kind, paused') = Paused(hand.kind, paused)
  BY <1>4, PausesAre
<1> QED
  BY <1>3, <1>5 DEF Followed, NoPauseQueued, Asks

LEMMA DrainFollowed ==
  ASSUME IInv, Followed, Drain
  PROVE  Followed'
<1>1. /\ UNCHANGED <<ui, wanted, lost, paused, frames, running, stopping>>
      /\ hand = NoCommand /\ Paused(hand.kind, paused) = paused
  BY PausesAre DEF Drain, atomics, machine, session, caller, asked, IInv, Worked
<1>2. CASE commands = <<>>
  BY <1>1, <1>2, FollowedUnchanged DEF Drain, Open
<1>3. CASE commands # <<>>
  <2> DEFINE s == commands
  <2>1. s \in Seq(Command) /\ hand' = Head(s) /\ commands' = Tail(s)
    BY <1>3 DEF Drain, IInv, Typed, QueueTyped
  <2>2. /\ Head(s) = s[1] /\ 1 \in 1 .. Len(s)
        /\ Len(Tail(s)) = Len(s) - 1 /\ Len(s) \in Nat
        /\ \A i \in 1 .. Len(Tail(s)) : i + 1 \in 1 .. Len(s) /\ Tail(s)[i] = s[i + 1]
    BY <1>3, <2>1, HeadTaken
  <2>3. ASSUME Open, ~lost, ~Pausing(ui[Controller])
        PROVE  /\ \A i \in 1 .. Len(s) : Pausing(s[i].kind) => Asks(s[i].kind)
               /\ (\A i \in 1 .. Len(s) : ~Pausing(s[i].kind)) /\ frames < FrameLimit
                    => paused = wanted
    BY <1>1, <2>3 DEF Followed, NoPauseQueued
  <2> HIDE DEF s
  <2>4. NoPauseQueued' /\ ~Pausing(hand'.kind) => \A i \in 1 .. Len(s) : ~Pausing(s[i].kind)
    <3> SUFFICES ASSUME NoPauseQueued', ~Pausing(hand'.kind), NEW i \in 1 .. Len(s)
                 PROVE  ~Pausing(s[i].kind)
      OBVIOUS
    <3>1. CASE i = 1
      BY <2>1, <2>2, <3>1
    <3>2. CASE i # 1
      <4>1. i - 1 \in 1 .. Len(commands') /\ (i - 1) + 1 = i
        BY <2>1, <2>2, <3>2
      <4> QED
        BY <2>1, <2>2, <4>1 DEF NoPauseQueued
    <3> QED
      BY <3>1, <3>2
  <2>5. ASSUME Open, ~lost, ~Pausing(ui[Controller])
        PROVE  /\ \A i \in 1 .. Len(commands') :
                    Pausing(commands'[i].kind) => Asks(commands'[i].kind)
               /\ Pausing(hand'.kind) => Asks(hand'.kind)
    BY <2>1, <2>2, <2>3, <2>5
  <2>6. ASSUME Pausing(hand'.kind), Asks(hand'.kind) PROVE Paused(hand'.kind, paused) = wanted
    BY <2>6 DEF Pausing, Paused, Asks, IInv, Typed, FlagsTyped
  <2>7. ~Pausing(hand'.kind) => Paused(hand'.kind, paused) = paused
    BY PausesAre
  <2>8. ASSUME Open, ~lost, ~Pausing(ui[Controller]), NoPauseQueued', frames < FrameLimit
        PROVE  Paused(hand'.kind, paused) = wanted
    BY <2>3, <2>4, <2>5, <2>6, <2>7, <2>8
  <2> QED
    BY <1>1, <2>5, <2>8 DEF Followed, Open, Asks
<1> QED
  BY <1>2, <1>3

LEMMA ExecuteControlFollowed ==
  ASSUME IInv, Followed, ExecuteControl
  PROVE  Followed'
<1>1. /\ UNCHANGED <<ui, wanted, lost, frames, running, stopping, commands>>
      /\ hand' = NoCommand /\ paused' = Paused(hand.kind, paused)
  BY DEF ExecuteControl, machine, session, caller, asked
<1>2. Paused(hand'.kind, paused') = Paused(hand.kind, paused)
  BY <1>1, PausesAre
<1> QED
  BY <1>1, <1>2 DEF Followed, Open, NoPauseQueued, Asks

LEMMA ExecuteRequestFollowed ==
  ASSUME IInv, Followed, ExecuteQueue \/ SaveWritten \/ ExecuteLoad
  PROVE  Followed'
<1>1. IsRequest(hand) /\ hand # NoCommand
  BY DEF ExecuteQueue, SaveWritten, ExecuteLoad, IInv, Worked, IsRequest, IsControl
<1>2. /\ ui' = Completed /\ hand' = NoCommand
      /\ UNCHANGED <<commands, wanted, lost, paused, frames, running, stopping>>
  BY DEF ExecuteQueue, SaveWritten, ExecuteLoad, atomics, machine, session, asked
<1> QED
  BY <1>1, <1>2, CompletedFollowed DEF Open

LEMMA RunFrameFollowed ==
  ASSUME IInv, Followed, RunFrame
  PROVE  Followed'
<1>1. /\ UNCHANGED <<commands, ui, wanted, lost, running, stopping, hand>>
      /\ frames' = frames + 1 /\ paused' = PausedByLimit(frames + 1)
      /\ frames \in Nat /\ FrameLimit \in Nat /\ paused \in BOOLEAN
  BY BoundsAssumption
     DEF RunFrame, session, caller, asked, IInv, Typed, MachineTyped, FlagsTyped, States
<1>2. frames' < FrameLimit => frames < FrameLimit /\ paused' = paused
  BY <1>1 DEF PausedByLimit
<1> QED
  BY <1>1, <1>2 DEF Followed, Open, NoPauseQueued, Asks

LEMMA OtherWorkFollowed ==
  ASSUME Followed, ExecuteSave \/ Gate \/ Pace \/ HostShutdown \/ WorkerEnd \/ UNCHANGED vars
  PROVE  Followed'
<1>1. UNCHANGED <<commands, ui, wanted, lost, paused, frames, hand>> /\ (Open' => Open)
  BY DEF ExecuteSave, Gate, Pace, HostShutdown, WorkerEnd, vars, atomics, session, machine,
         caller, asked, Open
<1> QED
  BY <1>1, FollowedUnchanged

LEMMA StoreFollowed ==
  ASSUME Followed, NEW file \in Files, NEW success \in BOOLEAN, Store(file, success)
  PROVE  Followed'
  BY FollowedUnchanged DEF Store, atomics, session, machine, caller, asked, Open

LEMMA NextFollowed ==
  ASSUME FewCallers, IInv, Followed, [Next]_vars
  PROVE  Followed'
<1>1. ASSUME NEW c \in Callers, Caller(c) PROVE Followed'
  BY <1>1, StoreControlFollowed, EnqueueControlFollowed, SubmitFollowed, StopFollowed
     DEF Caller
<1>2. CASE Worker
  BY <1>2, DrainFollowed, ExecuteControlFollowed, ExecuteRequestFollowed, RunFrameFollowed,
     OtherWorkFollowed DEF Worker
<1>3. ASSUME NEW file \in Files, NEW success \in BOOLEAN, Store(file, success) PROVE Followed'
  BY <1>3, StoreFollowed
<1>4. CASE Finished \/ UNCHANGED vars
  BY <1>4, OtherWorkFollowed DEF Finished
<1> QED
  BY <1>1, <1>2, <1>3, <1>4 DEF Next

LEMMA InitFollowed == Init => Followed
<1> SUFFICES ASSUME Init PROVE Followed
  OBVIOUS
<1>1. /\ \A c \in Callers : ui[c] = "ready"
      /\ Len(commands) = 0 /\ hand = NoCommand /\ paused = wanted
  BY DEF Init
<1>2. ~Pausing(ui[Controller]) /\ \A c \in Callers : ui[c] \notin Controls
  BY <1>1, ControlsAre, PausesAre, CallersAssumption
<1>3. Paused(hand.kind, paused) = wanted
  BY <1>1, PausesAre
<1> QED
  BY <1>1, <1>2, <1>3 DEF Followed, NoPauseQueued
-----------------------------------------------------------------------------
\* A caller that waits has its request in the queue or in the worker's hand, and
\* once the worker has turned to the shutdown no command is left or let in.
HasQueued(c) == \E i \in 1 .. Len(commands) : IsRequest(commands[i]) /\ commands[i].by = c
InHand(c) == hand # NoCommand /\ IsRequest(hand) /\ hand.by = c
Awaited ==
    /\ \A c \in Callers : ui[c] = "waiting" => HasQueued(c) \/ InHand(c)
    /\ wpc \in {"shutdown", "final", "done"} => commands = <<>>

\* The callers that wait, and their requests, stay as they are.
LEMMA AwaitedUnchanged ==
  ASSUME IInv, Awaited, UNCHANGED <<commands, hand>>,
         \A c \in Callers : ui'[c] = "waiting" => ui[c] = "waiting",
         wpc' \in {"shutdown", "final", "done"} =>
           wpc \in {"shutdown", "final", "done"} \/ commands = <<>>
  PROVE  Awaited'
  BY DEF Awaited, HasQueued, InHand

LEMMA CallerAwaited ==
  ASSUME IInv, Awaited, NEW c \in Callers, Caller(c)
  PROVE  Awaited'
<1>1. ASSUME NEW kind \in Controls, StoreControl(c, kind) PROVE Awaited'
  <2>1. UNCHANGED <<commands, hand, wpc>> /\ ui' = [ui EXCEPT ![c] = kind]
    BY <1>1 DEF StoreControl
  <2>2. \A x \in Callers : ui'[x] = "waiting" => ui[x] = "waiting"
    BY <2>1, ControlsAre DEF IInv, Typed, CallersTyped
  <2> QED
    BY <2>1, <2>2, AwaitedUnchanged
<1>2. CASE EnqueueControl(c)
  <2> DEFINE control == [kind |-> ui[c]]
             rest == WithoutControls(commands)
  <2>1. /\ control \in Command /\ commands \in Seq(Command)
        /\ UNCHANGED <<hand, wpc, stopping>>
        /\ ui' = [ui EXCEPT ![c] = "ready"] /\ DOMAIN ui = Callers
    BY <1>2
       DEF EnqueueControl, session, Command, Control, IInv, Typed, QueueTyped, CallersTyped
  <2>2. /\ rest \in Seq(Command)
        /\ \A j \in 1 .. Len(commands) :
             IsRequest(commands[j]) => \E i \in 1 .. Len(rest) : rest[i] = commands[j]
    BY <2>1, Erased
  <2>3. \/ commands' = commands
        \/ ~stopping /\ commands' = rest
        \/ ~stopping /\ commands' = Append(rest, control)
    BY <1>2 DEF EnqueueControl, WithControl, Open
  <2> HIDE DEF rest, control
  <2>4. \A j \in 1 .. Len(commands) :
          IsRequest(commands[j]) => \E i \in 1 .. Len(commands') : commands'[i] = commands[j]
    <3>1. CASE commands' = commands
      BY <3>1
    <3>2. CASE commands' = rest
      BY <2>2, <3>2
    <3>3. CASE commands' = Append(rest, control)
      <4>1. \A i \in 1 .. Len(rest) : i \in 1 .. Len(commands') /\ commands'[i] = rest[i]
        BY <2>1, <2>2, <3>3
      <4> QED
        BY <2>2, <4>1
    <3> QED
      BY <2>3, <3>1, <3>2, <3>3
  <2>5. \A x \in Callers : HasQueued(x) => HasQueued(x)'
    BY <2>4 DEF HasQueued
  <2>6. \A x \in Callers : ui'[x] = "waiting" => ui[x] = "waiting"
    BY <2>1
  <2>7. wpc' \in {"shutdown", "final", "done"} => commands' = <<>>
    BY <2>1, <2>3 DEF Awaited, IInv, Worked
  <2> QED
    BY <2>1, <2>5, <2>6, <2>7 DEF Awaited, InHand
<1>3. ASSUME NEW command \in Request, command.by = c, Submit(c, command) PROVE Awaited'
  <2>1. /\ UNCHANGED <<hand, wpc, stopping>>
        /\ command \in Command /\ IsRequest(command) /\ commands \in Seq(Command)
        /\ DOMAIN ui = Callers
        /\ \/ UNCHANGED <<commands, ui>>
           \/ ~stopping /\ commands' = Append(commands, command)
              /\ ui' = [ui EXCEPT ![c] = "waiting"]
    BY <1>3, ControlsAssumption
       DEF Submit, Open, session, Command, Request, IsRequest, IsControl, IInv, Typed,
           QueueTyped, CallersTyped
  <2>2. CASE UNCHANGED <<commands, ui>>
    BY <2>1, <2>2, AwaitedUnchanged
  <2>3. CASE ~stopping /\ commands' = Append(commands, command)
             /\ ui' = [ui EXCEPT ![c] = "waiting"]
    <3>1. /\ Len(commands) + 1 \in 1 .. Len(commands')
          /\ commands'[Len(commands) + 1] = command
          /\ \A i \in 1 .. Len(commands) :
               i \in 1 .. Len(commands') /\ commands'[i] = commands[i]
      BY <2>1, <2>3
    <3>2. HasQueued(c)'
      BY <1>3, <2>1, <3>1 DEF HasQueued
    <3>3. \A x \in Callers : HasQueued(x) => HasQueued(x)'
      BY <3>1 DEF HasQueued
    <3>4. \A x \in Callers : x # c => ui'[x] = ui[x]
      BY <2>1, <2>3
    <3>5. wpc' \notin {"shutdown", "final", "done"}
      BY <2>1, <2>3 DEF IInv, Worked
    <3> QED
      BY <2>1, <3>2, <3>3, <3>4, <3>5 DEF Awaited, InHand
  <2> QED
    BY <2>1, <2>2, <2>3
<1>4. CASE Stop(c) \/ StopReturn(c)
  <2>1. UNCHANGED <<commands, hand, wpc>>
    BY <1>4 DEF Stop, StopReturn
  <2>2. \A x \in Callers : ui'[x] = "waiting" => ui[x] = "waiting"
    BY <1>4 DEF Stop, StopReturn, IInv, Typed, CallersTyped
  <2> QED
    BY <2>1, <2>2, AwaitedUnchanged
<1> QED
  BY <1>1, <1>2, <1>3, <1>4 DEF Caller

LEMMA DrainAwaited ==
  ASSUME IInv, Awaited, Drain
  PROVE  Awaited'
<1>1. ui' = ui /\ hand = NoCommand /\ wpc = "drain"
  BY DEF Drain, caller, IInv, Worked
<1>2. CASE commands = <<>>
  BY <1>1, <1>2, AwaitedUnchanged DEF Drain
<1>3. CASE commands # <<>>
  <2> DEFINE s == commands
  <2>1. s \in Seq(Command) /\ hand' = Head(s) /\ commands' = Tail(s) /\ wpc' = "execute"
    BY <1>3 DEF Drain, IInv, Typed, QueueTyped
  <2>2. /\ Head(s) = s[1] /\ Head(s) # NoCommand
        /\ Len(Tail(s)) = Len(s) - 1 /\ Len(s) \in Nat
        /\ \A i \in 1 .. Len(Tail(s)) : Tail(s)[i] = s[i + 1]
    BY <1>3, <2>1, HeadTaken, CommandFacts
  <2>3. \A x \in Callers : ui[x] = "waiting" =>
          \E i \in 1 .. Len(s) : IsRequest(s[i]) /\ s[i].by = x
    BY <1>1 DEF Awaited, HasQueued, InHand
  <2> HIDE DEF s
  <2>4. ASSUME NEW x \in Callers, ui'[x] = "waiting" PROVE HasQueued(x)' \/ InHand(x)'
    <3>1. PICK i \in 1 .. Len(s) : IsRequest(s[i]) /\ s[i].by = x
      BY <1>1, <2>3, <2>4
    <3>2. CASE i = 1
      BY <2>1, <2>2, <3>1, <3>2 DEF InHand
    <3>3. CASE i # 1
      <4>1. i - 1 \in 1 .. Len(commands') /\ (i - 1) + 1 = i
        BY <2>1, <2>2, <3>3
      <4>2. commands'[i - 1] = s[i]
        BY <2>1, <2>2, <4>1
      <4> QED
        BY <3>1, <4>1, <4>2 DEF HasQueued
    <3> QED
      BY <3>2, <3>3
  <2> QED
    BY <2>1, <2>4 DEF Awaited
<1> QED
  BY <1>2, <1>3

LEMMA ExecuteAwaited ==
  ASSUME IInv, Awaited, ExecuteControl \/ ExecuteQueue \/ SaveWritten \/ ExecuteLoad
  PROVE  Awaited'
<1>1. /\ hand # NoCommand /\ hand' = NoCommand /\ commands' = commands /\ wpc' = "drain"
      /\ \/ IsControl(hand) /\ ui' = ui
         \/ IsRequest(hand) /\ ui' = Completed
  BY DEF ExecuteControl, ExecuteQueue, SaveWritten, ExecuteLoad, caller, IInv, Worked,
         IsRequest, IsControl
<1>2. \A x \in Callers : ui'[x] = "waiting" => ui[x] = "waiting" /\ ~InHand(x)
  <2>1. CASE IsControl(hand) /\ ui' = ui
    BY <2>1 DEF InHand, IsRequest
  <2>2. CASE IsRequest(hand) /\ ui' = Completed
    BY <2>2 DEF InHand, Completed, IInv, Typed, CallersTyped
  <2> QED
    BY <1>1, <2>1, <2>2
<1> QED
  BY <1>1, <1>2 DEF Awaited, HasQueued

LEMMA NextAwaited ==
  ASSUME IInv, Awaited, [Next]_vars
  PROVE  Awaited'
<1>1. ASSUME NEW c \in Callers, Caller(c) PROVE Awaited'
  BY <1>1, CallerAwaited
<1>2. CASE ExecuteSave \/ Gate \/ Pace \/ RunFrame \/ HostShutdown \/ WorkerEnd
  <2>1. UNCHANGED <<commands, hand, ui>>
    BY <1>2 DEF ExecuteSave, Gate, Pace, RunFrame, HostShutdown, WorkerEnd, caller
  <2>2. wpc' \in {"shutdown", "final", "done"} =>
          wpc \in {"shutdown", "final", "done"} \/ commands = <<>>
    BY <1>2 DEF ExecuteSave, Gate, MayEnd, Pace, RunFrame, HostShutdown, WorkerEnd
  <2> QED
    BY <2>1, <2>2, AwaitedUnchanged
<1>3. CASE Worker
  BY <1>2, <1>3, DrainAwaited, ExecuteAwaited DEF Worker
<1>4. ASSUME NEW file \in Files, NEW success \in BOOLEAN, Store(file, success) PROVE Awaited'
  BY <1>4, AwaitedUnchanged DEF Store, caller
<1>5. CASE Finished \/ UNCHANGED vars
  BY <1>5, AwaitedUnchanged DEF Finished, vars
<1> QED
  BY <1>1, <1>3, <1>4, <1>5 DEF Next

LEMMA InitAwaited == Init => Awaited
  BY DEF Init, Awaited

\* No accepted command is left behind when stop() races with submit(): a caller
\* that waits has its command in the queue or carried out, and the worker ends with
\* nobody waiting.
NobodyForgotten ==
    /\ \A c \in Callers : ui[c] = "waiting" => HasQueued(c) \/ InHand(c)
    /\ wpc = "done" => \A c \in Callers : ui[c] # "waiting"
-----------------------------------------------------------------------------
\* Every variable of the session keeps its type, and the queue its bound.
THEOREM SessionTypeCorrect == Spec => []TypeOK
<1>1. IInv => TypeOK
  BY TypesSplit DEF IInv
<1> QED
  BY InitIInv, NextKeeps, <1>1, PTL DEF Spec

\* Once the worker has ended, the cartridge file holds the memory the game ended
\* with, unless its write failed: no snapshot queued earlier is left to overwrite it.
THEOREM FinalRamHolds == Spec => []FinalRam
<1>1. IInv => FinalRam
  BY DEF IInv, Waiting, FinalRam
<1> QED
  BY InitIInv, NextKeeps, <1>1, PTL DEF Spec

\* A waiting save that is answered with success leaves in its file the state the
\* machine has at that moment.
THEOREM SavesAreCurrent == Spec => SaveIsCurrent
<1>1. ASSUME IInv, [Next]_vars, hand.kind = "Save", hand' = NoCommand, outcome
      PROVE  disk'[hand.file] = core'
  <2>1. hand # NoCommand /\ IsRequest(hand)
    BY <1>1, CommandFacts DEF IsRequest, IsControl
  <2>2. SaveWritten
    <3>1. ~Drain /\ ~ExecuteControl /\ ~ExecuteQueue /\ ~ExecuteLoad
      BY <1>1, <2>1
         DEF Drain, ExecuteControl, ExecuteQueue, ExecuteLoad, IInv, Worked, IsRequest
    <3>2. \/ hand' = hand
          \/ Drain \/ ExecuteControl \/ ExecuteQueue \/ ExecuteLoad \/ SaveWritten
      BY <1>1
         DEF Next, Caller, StoreControl, EnqueueControl, Submit, Stop, StopReturn, Worker,
         ExecuteSave, Gate, Pace, RunFrame, HostShutdown, WorkerEnd, Store, Finished, vars
    <3> QED
      BY <1>1, <2>1, <3>1, <3>2
  <2>3. core \in States /\ NoFile \notin States
    BY <1>1, CommandFacts DEF IInv, Typed, MachineTyped
  <2> QED
    BY <1>1, <2>2, <2>3
       DEF SaveWritten, Written, machine, storage, IInv, Waiting, Captured
<1>2. IInv /\ [Next]_vars =>
        [hand.kind = "Save" /\ hand' = NoCommand /\ outcome => disk'[hand.file] = core']_vars
  BY <1>1
<1> QED
  BY InitIInv, NextKeeps, <1>2, PTL DEF Spec, SaveIsCurrent

\* With no control call under way and no control command left, the game is paused
\* exactly when the last set_paused asked for it, whatever set_speed did meanwhile,
\* unless a speed command erased the queued command that would have undone the one
\* in hand; given a queue that has room for a command of every caller.
THEOREM PauseIsObeyed ==
  ASSUME FewCallers
  PROVE  Spec => []PausedAsAsked
<1>1. IInv /\ Followed => PausedAsAsked
  <2> SUFFICES ASSUME IInv, Followed, ControlsDone, Open, frames < FrameLimit, ~lost
               PROVE  paused = wanted
    BY DEF PausedAsAsked
  <2>1. commands \in Seq(Command) /\ hand \in Command \cup {NoCommand}
    BY DEF IInv, Typed, QueueTyped
  <2>2. NoPauseQueued /\ ~Pausing(hand.kind)
    BY <2>1, PausesAre DEF ControlsDone, NoPauseQueued
  <2>3. ui[Controller] \notin Controls
    BY CallersAssumption DEF ControlsDone
  <2>4. ~Pausing(ui[Controller])
    BY <2>3, PausesAre, CallersAssumption DEF IInv, Typed, CallersTyped
  <2>5. Paused(hand.kind, paused) = paused
    BY <2>2, PausesAre
  <2> QED
    BY <2>2, <2>4, <2>5 DEF Followed
<1>2. Init => IInv /\ Followed
  BY InitIInv, InitFollowed
<1>3. IInv /\ Followed /\ [Next]_vars => (IInv /\ Followed)'
  BY NextKeeps, NextFollowed
<1> QED
  BY <1>1, <1>2, <1>3, PTL DEF Spec

\* No accepted command is left behind when stop() races with submit(): this is what
\* lets every caller return.
THEOREM NoneForgotten == Spec => []NobodyForgotten
<1>1. IInv /\ Awaited => NobodyForgotten
  <2> SUFFICES ASSUME IInv, Awaited, wpc = "done", NEW c \in Callers, ui[c] = "waiting"
               PROVE  FALSE
    BY DEF Awaited, NobodyForgotten
  <2>1. Len(commands) = 0 /\ hand = NoCommand
    BY DEF Awaited, IInv, Worked
  <2> QED
    BY <2>1 DEF Awaited, HasQueued, InHand
<1>2. Init => IInv /\ Awaited
  BY InitIInv, InitAwaited
<1>3. IInv /\ Awaited /\ [Next]_vars => (IInv /\ Awaited)'
  BY NextKeeps, NextAwaited
<1> QED
  BY <1>1, <1>2, <1>3, PTL DEF Spec
-----------------------------------------------------------------------------
(* The queue of software frames.  The invariant orders the frames in it:    *)
(* everything waiting is newer than what is on the screen and than what is  *)
(* being presented, no two entries share a number, and the newest is among  *)
(* them.  The last part is where the capacity enters: when no slot is free  *)
(* and none is being written, at least two are ready, so the oldest is not  *)
(* the newest.                                                              *)

Queued == {"Ready", "Presenting"}

PresenterAgrees == \A s \in FrameSlots : (state[s] = "Presenting") <=> (s = presenting)

QueueOrdered ==
    /\ shown <= nextId
    /\ \A s \in FrameSlots : state[s] \in Queued => shown < id[s] /\ id[s] <= nextId
    /\ \A s, t \in FrameSlots : state[s] \in Queued /\ state[t] \in Queued /\ id[s] = id[t] =>
                              s = t
    /\ \A s \in FrameSlots : presenting # NoSlot /\ state[s] = "Ready" => id[presenting] < id[s]

QueueInd == QueueTypeOK /\ PresenterAgrees /\ QueueOrdered /\ NewestKept

\* Consequences of the assumptions on the constants.
LEMMA QueueBounds ==
  /\ Capacity \in Nat /\ Capacity >= 3 /\ MaxCoreCalls \in Nat
  /\ 0 \in FrameSlots /\ 1 \in FrameSlots /\ 2 \in FrameSlots /\ NoSlot \notin FrameSlots
  /\ 0 \in Ids
  /\ \A n \in Ids : n \in Nat
<1>1. Capacity \in Nat /\ Capacity >= 3 /\ MaxCoreCalls \in Nat
  BY CapacityAssumption, CallsAssumption
<1>2. 0 \in 0 .. Capacity - 1 /\ 1 \in 0 .. Capacity - 1 /\ 2 \in 0 .. Capacity - 1
  BY <1>1
<1>3. Capacity \notin 0 .. Capacity - 1
  BY <1>1
<1>4. 0 \in 0 .. MaxCoreCalls /\ \A n \in 0 .. MaxCoreCalls : n \in Nat
  BY <1>1
<1> QED
  BY <1>1, <1>2, <1>3, <1>4 DEF FrameSlots, Ids, NoSlot

LEMMA QueueInitInd == QueueInit => QueueInd
<1> SUFFICES ASSUME QueueInit PROVE QueueInd
  OBVIOUS
<1>1. QueueTypeOK
  BY QueueBounds DEF QueueInit, QueueTypeOK, SlotStates
<1>2. PresenterAgrees /\ QueueOrdered /\ NewestKept
  BY QueueBounds DEF QueueInit, PresenterAgrees, QueueOrdered, NewestKept, Queued
<1> QED
  BY <1>1, <1>2 DEF QueueInd

\* A call of the core is the next of at most MaxCoreCalls.
LEMMA QueueCounted ==
  QueueInd /\ CoreCall =>
    coreCalls' \in Ids /\ nextId + 1 \in Ids /\ nextId < coreCalls'
<1> SUFFICES ASSUME QueueInd, CoreCall
             PROVE  coreCalls' \in Ids /\ nextId + 1 \in Ids /\ nextId < coreCalls'
  OBVIOUS
<1>1. coreCalls \in 0 .. MaxCoreCalls /\ nextId \in 0 .. MaxCoreCalls /\ nextId <= coreCalls
  BY DEF QueueInd, QueueTypeOK, Ids
<1>2. coreCalls < MaxCoreCalls /\ coreCalls' = coreCalls + 1
  BY DEF CoreCall
<1> QED
  BY <1>1, <1>2, QueueBounds DEF Ids

\* The slot a call works on is not the presenter's, and the choice of another
\* than the newest frame is always there.
LEMMA ChosenSlot ==
  ASSUME QueueInd
  PROVE  \A s \in FrameSlots : Chosen(s) =>
           /\ state[s] # "Presenting"
           /\ state[s] = "Ready" =>
                \E t \in FrameSlots : state[t] \in Queued /\ id[t] = nextId /\ t # s
           /\ \A t \in FrameSlots : state[t] = "Writing" => t = s
<1> SUFFICES ASSUME NEW s \in FrameSlots, Chosen(s)
             PROVE  /\ state[s] # "Presenting"
                    /\ state[s] = "Ready" =>
                         \E t \in FrameSlots : state[t] \in Queued /\ id[t] = nextId /\ t # s
                    /\ \A t \in FrameSlots : state[t] = "Writing" => t = s
  OBVIOUS
<1>1. CASE writing # NoSlot
  BY <1>1, QueueBounds DEF QueueInd, QueueTypeOK, Chosen
<1>2. CASE writing = NoSlot
  <2>1. \A t \in FrameSlots : state[t] # "Writing"
    BY <1>2, QueueBounds DEF QueueInd, QueueTypeOK
  <2>2. state[s] \in {"Free", "Ready"}
    BY <1>2 DEF Chosen, Writable, FirstFree, OldestReady
  <2>3. ASSUME state[s] = "Ready"
        PROVE  \E t \in FrameSlots : state[t] \in Queued /\ id[t] = nextId /\ t # s
    <3>1. OldestReady(s) /\ NoneFree
      BY <1>2, <2>3 DEF Chosen, Writable, FirstFree
    <3>2. \A t \in FrameSlots : state[t] = "Ready" \/ t = presenting
      BY <2>1, <3>1 DEF QueueInd, QueueTypeOK, SlotStates, NoneFree, PresenterAgrees
    <3>3. PICK t \in {0, 1, 2} : t # s /\ t # presenting
      OBVIOUS
    <3>4. t \in FrameSlots /\ state[t] = "Ready"
      BY <3>2, <3>3, QueueBounds
    <3>5. id[s] \in Nat /\ id[t] \in Nat /\ nextId \in Nat /\ shown \in Nat
      BY <3>4, QueueBounds DEF QueueInd, QueueTypeOK
    <3>6. id[s] <= id[t] /\ id[s] # id[t] /\ id[t] <= nextId
      BY <2>3, <3>1, <3>3, <3>4 DEF OldestReady, QueueInd, QueueOrdered, Queued
    <3>7. id[s] < nextId
      BY <3>5, <3>6
    <3>8. shown < nextId
      BY <2>3, <3>5, <3>7 DEF QueueInd, QueueOrdered, Queued
    <3> QED
      BY <3>5, <3>7, <3>8 DEF QueueInd, NewestKept, Queued
  <2> QED
    BY <2>1, <2>2, <2>3
<1> QED
  BY <1>1, <1>2

LEMMA AcquireInd ==
  ASSUME QueueInd, NEW s \in FrameSlots, Acquire(s)
  PROVE  QueueInd'
<1>1. /\ CoreCall /\ Chosen(s) /\ writing' = s
      /\ state' = [state EXCEPT ![s] = "Writing"]
      /\ UNCHANGED <<id, nextId, active, presenting, coreRuns,
                     shown>>
  BY DEF Acquire
<1>2. coreCalls' \in Ids /\ nextId < coreCalls'
  BY <1>1, QueueCounted
<1>3. QueueTypeOK'
  <2>2. state' \in [FrameSlots -> SlotStates]
    BY <1>1 DEF QueueInd, QueueTypeOK, SlotStates
  <2>4. \A t \in FrameSlots : (state'[t] = "Writing") <=> (t = writing')
    BY <1>1, ChosenSlot DEF QueueInd, QueueTypeOK
  <2>5. nextId <= coreCalls'
    BY <1>2, QueueBounds DEF QueueInd, QueueTypeOK
  <2> QED
    BY <1>1, <1>2, <2>2, <2>4, <2>5 DEF QueueInd, QueueTypeOK
<1>4. \A t \in FrameSlots : state'[t] \in Queued => t # s /\ state'[t] = state[t]
  BY <1>1 DEF QueueInd, QueueTypeOK, Queued
<1>5. PresenterAgrees'
  BY <1>1, ChosenSlot DEF QueueInd, QueueTypeOK, PresenterAgrees
<1>6. QueueOrdered'
  BY <1>1, <1>4 DEF QueueInd, QueueOrdered, Queued
<1>7. NewestKept'
  <2>1. \A t \in FrameSlots : t # s => state'[t] = state[t]
    BY <1>1 DEF QueueInd, QueueTypeOK
  <2> QED
    BY <1>1, <2>1, ChosenSlot DEF QueueInd, NewestKept, Queued
<1> QED
  BY <1>3, <1>5, <1>6, <1>7 DEF QueueInd

LEMMA PublishInd ==
  ASSUME QueueInd, NEW s \in FrameSlots, Publish(s)
  PROVE  QueueInd'
<1>1. /\ CoreCall /\ Chosen(s) /\ writing' = NoSlot
      /\ id' = [id EXCEPT ![s] = nextId + 1] /\ nextId' = nextId + 1
      /\ state' = [state EXCEPT ![s] = "Ready"]
      /\ UNCHANGED <<active, presenting, coreRuns, shown>>
  BY DEF Publish, WrittenSlot
<1>2. coreCalls' \in Ids /\ nextId + 1 \in Ids /\ nextId < coreCalls'
  BY <1>1, QueueCounted
<1>3. QueueTypeOK'
  <2>2. state' \in [FrameSlots -> SlotStates] /\ id' \in [FrameSlots -> Ids]
    BY <1>1, <1>2 DEF QueueInd, QueueTypeOK, SlotStates
  <2>4. \A t \in FrameSlots : (state'[t] = "Writing") <=> (t = writing')
    BY <1>1, ChosenSlot, QueueBounds DEF QueueInd, QueueTypeOK
  <2>5. nextId' <= coreCalls'
    BY <1>1, <1>2, QueueBounds DEF QueueInd, QueueTypeOK
  <2> QED
    BY <1>1, <1>2, <2>2, <2>4, <2>5 DEF QueueInd, QueueTypeOK
<1>4. nextId \in Nat /\ shown \in Nat /\ \A t \in FrameSlots : id[t] \in Nat
  BY QueueBounds DEF QueueInd, QueueTypeOK
<1>5. \A t \in FrameSlots : t # s => state'[t] = state[t] /\ id'[t] = id[t]
  BY <1>1 DEF QueueInd, QueueTypeOK
<1>6. state'[s] = "Ready" /\ id'[s] = nextId + 1
  BY <1>1 DEF QueueInd, QueueTypeOK
<1>7. PresenterAgrees'
  BY <1>1, <1>5, <1>6, ChosenSlot DEF QueueInd, PresenterAgrees
<1>8. presenting # NoSlot =>
        presenting \in FrameSlots /\ presenting # s /\ state[presenting] = "Presenting"
  <2>1. presenting # NoSlot => presenting \in FrameSlots /\ state[presenting] = "Presenting"
    BY DEF QueueInd, QueueTypeOK, PresenterAgrees
  <2>2. state[s] # "Presenting"
    BY <1>1, ChosenSlot
  <2> QED
    BY <2>1, <2>2
<1>9. QueueOrdered'
  <2>1. shown' <= nextId'
    BY <1>1, <1>4 DEF QueueInd, QueueOrdered
  <2>2. \A t \in FrameSlots : state'[t] \in Queued => shown' < id'[t] /\ id'[t] <= nextId'
    BY <1>1, <1>4, <1>5, <1>6 DEF QueueInd, QueueOrdered
  <2>3. \A t \in FrameSlots : t # s /\ state'[t] \in Queued => id'[t] # nextId + 1
    BY <1>4, <1>5 DEF QueueInd, QueueOrdered
  <2>4. \A t, u \in FrameSlots :
          state'[t] \in Queued /\ state'[u] \in Queued /\ id'[t] = id'[u] => t = u
    BY <1>5, <1>6, <2>3 DEF QueueInd, QueueOrdered
  <2>5. \A t \in FrameSlots : presenting' # NoSlot /\ state'[t] = "Ready" =>
          id'[presenting'] < id'[t]
    <3> SUFFICES ASSUME NEW t \in FrameSlots, presenting # NoSlot, state'[t] = "Ready"
                 PROVE  id[presenting] < id'[t]
      BY <1>1, <1>5, <1>8
    <3>1. id[presenting] <= nextId
      BY <1>8 DEF QueueInd, QueueOrdered, Queued
    <3>2. CASE t = s
      BY <1>4, <1>6, <1>8, <3>1, <3>2
    <3>3. CASE t # s
      BY <1>5, <3>3 DEF QueueInd, QueueOrdered
    <3> QED
      BY <3>2, <3>3
  <2> QED
    BY <2>1, <2>2, <2>4, <2>5 DEF QueueOrdered
<1>10. NewestKept'
  BY <1>1, <1>6 DEF NewestKept
<1> QED
  BY <1>3, <1>7, <1>9, <1>10 DEF QueueInd

\* The two ways to give a slot back without a frame.
LEMMA ReleaseInd ==
  ASSUME QueueInd, state' = Released, writing' = NoSlot,
           coreCalls' \in Ids, coreCalls <= coreCalls',
           UNCHANGED <<id, nextId, active, presenting,
                       coreRuns, shown>>
  PROVE  QueueInd'
<1>1. \A t \in FrameSlots : state'[t] = IF t = writing THEN "Free" ELSE state[t]
  BY DEF Released
<1>2. \A t \in FrameSlots : (state'[t] = "Writing") <=> (t = writing')
  BY <1>1, QueueBounds DEF QueueInd, QueueTypeOK
<1>3. state' \in [FrameSlots -> SlotStates]
  BY DEF Released, QueueInd, QueueTypeOK, SlotStates
<1>4. nextId <= coreCalls'
  BY QueueBounds DEF QueueInd, QueueTypeOK
<1>5. QueueTypeOK'
  BY <1>2, <1>3, <1>4 DEF QueueInd, QueueTypeOK
<1>6. \A t \in FrameSlots : state'[t] \in Queued <=> state[t] \in Queued
  BY <1>1 DEF QueueInd, QueueTypeOK, Queued
<1>7. \A t \in FrameSlots : state'[t] \in Queued => state'[t] = state[t]
  BY <1>1 DEF Queued
<1>8. PresenterAgrees'
  BY <1>1 DEF QueueInd, QueueTypeOK, PresenterAgrees
<1>9. QueueOrdered'
  BY <1>6, <1>7 DEF QueueInd, QueueOrdered, Queued
<1>10. NewestKept'
  BY <1>6 DEF QueueInd, NewestKept, Queued
<1> QED
  BY <1>5, <1>8, <1>9, <1>10 DEF QueueInd

LEMMA PresentBeginInd ==
  ASSUME QueueInd, NEW s \in FrameSlots, PresentBegin(s)
  PROVE  QueueInd'
<1>1. /\ presenting = NoSlot /\ presenting' = s /\ OldestReady(s)
      /\ state' = [state EXCEPT ![s] = "Presenting"]
      /\ UNCHANGED <<id, writing, nextId, active, coreRuns, coreCalls,
                     shown>>
  BY DEF PresentBegin
<1>2. \A t \in FrameSlots : state'[t] = IF t = s THEN "Presenting" ELSE state[t]
  BY <1>1 DEF QueueInd, QueueTypeOK
<1>3. QueueTypeOK'
  <2>1. state' \in [FrameSlots -> SlotStates]
    BY <1>1 DEF QueueInd, QueueTypeOK, SlotStates
  <2>2. \A t \in FrameSlots : (state'[t] = "Writing") <=> (t = writing')
    BY <1>1, <1>2 DEF QueueInd, QueueTypeOK, OldestReady
  <2> QED
    BY <1>1, <2>1, <2>2 DEF QueueInd, QueueTypeOK
<1>4. PresenterAgrees'
  BY <1>1, <1>2, QueueBounds DEF QueueInd, PresenterAgrees
<1>5. \A t \in FrameSlots : state'[t] \in Queued <=> state[t] \in Queued
  BY <1>1, <1>2 DEF OldestReady, Queued
<1>6. \A t \in FrameSlots : state'[t] = "Ready" => id[s] < id[t]
  <2> SUFFICES ASSUME NEW t \in FrameSlots, state'[t] = "Ready" PROVE id[s] < id[t]
    OBVIOUS
  <2>1. t # s /\ state[t] = "Ready"
    BY <1>2
  <2>2. id[s] <= id[t] /\ id[s] # id[t]
    BY <1>1, <2>1 DEF OldestReady, QueueInd, QueueOrdered, Queued
  <2>3. id[s] \in Nat /\ id[t] \in Nat
    BY QueueBounds DEF QueueInd, QueueTypeOK
  <2> QED
    BY <2>2, <2>3
<1>7. QueueOrdered'
  BY <1>1, <1>5, <1>6 DEF QueueInd, QueueOrdered
<1>8. NewestKept'
  BY <1>1, <1>5 DEF QueueInd, NewestKept, Queued
<1> QED
  BY <1>3, <1>4, <1>7, <1>8 DEF QueueInd

LEMMA PresentEndInd == QueueInd /\ PresentEnd => QueueInd'
<1> SUFFICES ASSUME QueueInd, PresentEnd PROVE QueueInd'
  OBVIOUS
<1>1. /\ presenting # NoSlot /\ presenting' = NoSlot
      /\ state' = [state EXCEPT ![presenting] = "Free"]
      /\ shown' = id[presenting]
      /\ UNCHANGED <<id, writing, nextId, active, coreRuns,
                     coreCalls>>
  BY DEF PresentEnd
<1>2. presenting \in FrameSlots /\ state[presenting] = "Presenting"
  BY <1>1 DEF QueueInd, QueueTypeOK, PresenterAgrees
<1>3. \A t \in FrameSlots : state'[t] = IF t = presenting THEN "Free" ELSE state[t]
  BY <1>1, <1>2 DEF QueueInd, QueueTypeOK
<1>4. \A t \in FrameSlots : t # presenting => state[t] # "Presenting"
  BY DEF QueueInd, PresenterAgrees
<1>5. QueueTypeOK'
  <2>1. state' \in [FrameSlots -> SlotStates]
    BY <1>1 DEF QueueInd, QueueTypeOK, SlotStates
  <2>2. \A t \in FrameSlots : (state'[t] = "Writing") <=> (t = writing')
    BY <1>1, <1>2, <1>3 DEF QueueInd, QueueTypeOK
  <2>3. shown' \in Ids
    BY <1>1, <1>2 DEF QueueInd, QueueTypeOK
  <2> QED
    BY <1>1, <2>1, <2>2, <2>3 DEF QueueInd, QueueTypeOK
<1>6. PresenterAgrees'
  BY <1>1, <1>3, <1>4, QueueBounds DEF PresenterAgrees
<1>7. \A t \in FrameSlots : state'[t] \in Queued =>
        t # presenting /\ state[t] = "Ready" /\ state'[t] = "Ready"
  BY <1>3, <1>4 DEF Queued
<1>8. id[presenting] <= nextId
  BY <1>2 DEF QueueInd, QueueOrdered, Queued
<1>9. QueueOrdered'
  <2>1. shown' <= nextId'
    BY <1>1, <1>8
  <2>2. \A t \in FrameSlots : state'[t] \in Queued => shown' < id'[t] /\ id'[t] <= nextId'
    BY <1>1, <1>7 DEF QueueInd, QueueOrdered, Queued
  <2>3. \A t, u \in FrameSlots :
          state'[t] \in Queued /\ state'[u] \in Queued /\ id'[t] = id'[u] => t = u
    BY <1>1, <1>7 DEF QueueInd, QueueOrdered, Queued
  <2> QED
    BY <1>1, <2>1, <2>2, <2>3 DEF QueueOrdered
<1>10. NewestKept'
  <2> SUFFICES ASSUME shown' < nextId'
               PROVE  \E t \in FrameSlots : state'[t] \in Queued /\ id'[t] = nextId'
    BY DEF NewestKept, Queued
  <2>1. id[presenting] < nextId
    BY <1>1
  <2>2. id[presenting] \in Nat /\ nextId \in Nat /\ shown \in Nat
    BY <1>2, QueueBounds DEF QueueInd, QueueTypeOK
  <2>3. shown < id[presenting]
    BY <1>2 DEF QueueInd, QueueOrdered, Queued
  <2>4. PICK t \in FrameSlots : state[t] \in Queued /\ id[t] = nextId
    BY <2>1, <2>2, <2>3 DEF QueueInd, NewestKept, Queued
  <2>5. t # presenting
    BY <2>1, <2>2, <2>4
  <2> QED
    BY <1>1, <1>3, <2>4, <2>5
<1> QED
  BY <1>5, <1>6, <1>9, <1>10 DEF QueueInd

LEMMA ShutdownInd == QueueInd /\ Shutdown => QueueInd'
<1> SUFFICES ASSUME QueueInd, Shutdown PROVE QueueInd'
  OBVIOUS
<1>1. /\ presenting = NoSlot /\ active' = FALSE /\ writing' = NoSlot
      /\ state' = [s \in FrameSlots |-> "Free"] /\ \A s \in FrameSlots : state[s] # "Ready"
      /\ UNCHANGED <<id, nextId, presenting, coreRuns, coreCalls, shown>>
  BY DEF Shutdown
<1>2. \A s \in FrameSlots : state[s] \notin Queued
  BY <1>1, QueueBounds DEF QueueInd, PresenterAgrees, Queued
<1>3. QueueTypeOK'
  BY <1>1, QueueBounds DEF QueueInd, QueueTypeOK, SlotStates
<1>4. PresenterAgrees'
  BY <1>1, QueueBounds DEF PresenterAgrees
<1>5. QueueOrdered'
  BY <1>1 DEF QueueInd, QueueOrdered, Queued
<1>6. NewestKept'
  BY <1>1, <1>2 DEF QueueInd, NewestKept, Queued
<1> QED
  BY <1>3, <1>4, <1>5, <1>6 DEF QueueInd

LEMMA QueueStepInd == QueueInd /\ [QueueNext]_queueVars => QueueInd'
<1> SUFFICES ASSUME QueueInd, [QueueNext]_queueVars PROVE QueueInd'
  OBVIOUS
<1>1. CASE UNCHANGED queueVars
  BY <1>1
     DEF queueVars, slotVars, QueueInd, QueueTypeOK, PresenterAgrees, QueueOrdered, NewestKept
<1>2. ASSUME NEW s \in FrameSlots, Acquire(s) PROVE QueueInd'
  BY <1>2, AcquireInd
<1>3. ASSUME NEW s \in FrameSlots, Publish(s) PROVE QueueInd'
  BY <1>3, PublishInd
<1>4. CASE PublishMisshapen
  <2>1. coreCalls' \in Ids
    BY <1>4, QueueCounted DEF PublishMisshapen
  <2>2. coreCalls <= coreCalls'
    BY <1>4, QueueBounds DEF PublishMisshapen, CoreCall, QueueInd, QueueTypeOK
  <2> QED
    BY <1>4, <2>1, <2>2, ReleaseInd DEF PublishMisshapen
<1>5. CASE FinishFrame
  <2>1. coreCalls' \in Ids /\ coreCalls <= coreCalls'
    BY <1>5, QueueBounds DEF FinishFrame, QueueInd, QueueTypeOK
  <2> QED
    BY <1>5, <2>1, ReleaseInd DEF FinishFrame
<1>6. CASE CoreStops
  BY <1>6
     DEF CoreStops, slotVars, QueueInd, QueueTypeOK, PresenterAgrees, QueueOrdered,
         NewestKept
<1>7. ASSUME NEW s \in FrameSlots, PresentBegin(s) PROVE QueueInd'
  BY <1>7, PresentBeginInd
<1>8. CASE PresentEnd
  BY <1>8, PresentEndInd
<1>9. CASE Shutdown
  BY <1>9, ShutdownInd
<1>10. CASE Closed
  BY <1>1, <1>10 DEF Closed
<1> QED
  BY <1>1, <1>2, <1>3, <1>4, <1>5, <1>6, <1>7, <1>8, <1>9, <1>10
     DEF QueueNext, Core, Presenter

\* Every reachable state satisfies the invariant.
THEOREM QueueInvariance == QueueSpec => []QueueInd
  BY QueueInitInd, QueueStepInd, PTL DEF QueueSpec

\* The queue's variables keep their types and writing_slot_ agrees with the states.
THEOREM FrameQueueTypeCorrect == QueueSpec => []QueueTypeOK
  BY QueueInvariance, PTL DEF QueueInd

\* The core never draws in, replaces or frees the slot being presented.
THEOREM SlotsApart == QueueSpec => []NeverWhilePresented
<1>1. QueueInd => NeverWhilePresented
  BY DEF QueueInd, QueueTypeOK, PresenterAgrees, NeverWhilePresented
<1> QED
  BY <1>1, QueueInvariance, PTL

\* The newest published frame stays in the queue until it is presented: three
\* slots are enough, whatever the presenter holds.
THEOREM NewestSurvives == QueueSpec => []NewestKept
  BY QueueInvariance, PTL DEF QueueInd

\* present_pending shows frames in the order present_software published them.
THEOREM OrderKept == QueueSpec => PresentedInOrder
<1>1. QueueInd /\ [QueueNext]_queueVars => [shown' # shown => shown' > shown]_queueVars
  <2> SUFFICES ASSUME QueueInd, QueueNext, shown' # shown PROVE shown' > shown
    OBVIOUS
  <2>1. PresentEnd
    BY DEF QueueNext, Core, Presenter, Acquire, Publish, PublishMisshapen,
           FinishFrame, CoreStops, PresentBegin, Shutdown, Closed, queueVars
  <2>2. presenting \in FrameSlots /\ state[presenting] = "Presenting"
    BY <2>1 DEF PresentEnd, QueueInd, QueueTypeOK, PresenterAgrees
  <2>3. shown < id[presenting] /\ shown' = id[presenting]
    BY <2>1, <2>2 DEF PresentEnd, QueueInd, QueueOrdered, Queued
  <2>4. shown \in Nat /\ id[presenting] \in Nat
    BY <2>2, QueueBounds DEF QueueInd, QueueTypeOK
  <2> QED
    BY <2>3, <2>4
<1> QED
  BY <1>1, QueueInvariance, PTL DEF QueueSpec, PresentedInOrder
=============================================================================
