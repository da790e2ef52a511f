--------------------------- MODULE PlayerPage_proofs ---------------------------
(***************************************************************************)
(* The page of the browser player.  First its renderer (RendererBridge):     *)
(* the type invariant, HiddenBehindPicture, StatusTruthful and               *)
(* OutstandingExact for every ring size and every number of frames.  The     *)
(* inductive invariant says who may draw in each phase of start() and of the *)
(* recovery, and what the messages still to be received can say: a rendered  *)
(* frame only once the target shows one, ready only from the worker start()  *)
(* is waiting for.                                                           *)
(*                                                                           *)
(* Then its battery save (BatterySave): the type invariant, that IndexedDB   *)
(* never loses a save, and that a flush stores what it took, for any number  *)
(* of saves and visits.                                                      *)
(***************************************************************************)
EXTENDS RendererBridge, BatterySave, SequenceTheorems, FiniteSetTheorems, TLAPS
-----------------------------------------------------------------------------
(* The renderer *)

Posted == toWorker # <<>> \/ worker.rendering # 0 \/ worker.pending # 0

\* Before attach() there is no bridge, and afterwards start() has run.
Unattached ==
    /\ session # "attached" =>
         /\ task = "none" /\ ~active /\ ~stopped /\ backend = "none"
         /\ worker = NoWorker /\ target = 0 /\ ~hidden /\ drawn = 0
         /\ capture = "none" /\ ~retried
    /\ session \in {"idle", "waiting"} => effective = "pending"
    /\ session = "absent" => effective = "external"
    /\ session = "attached" => task # "none"

\* A worker lives only where nothing else draws.
WorkerAlone ==
    /\ worker.state = "none" => worker = NoWorker /\ toWorker = <<>> /\ toPage = <<>>
    /\ worker.state # "none" =>
         /\ ~stopped /\ backend = "none" /\ ~retried /\ target = 1
         /\ task \in {"worker", "done"}
    /\ worker.state \in {"init", "failed"} => task = "worker" /\ ~Posted
    /\ worker.state = "init" => toPage = <<>>
    /\ task = "worker" /\ ~stopped => worker.state # "none"
    /\ worker.state # "none" /\ task = "done" => active

\* What the messages to the page say.
MessagesTrue ==
    \A i \in 1 .. Len(toPage) :
        /\ toPage[i].type = "ready" =>
             i = 1 /\ task = "worker" /\ toPage[i].kind = worker.state
        /\ toPage[i].type = "result" /\ toPage[i].rendered => drawn # 0

\* Each phase of start() and of the recovery.
Phases ==
    /\ task \in {"worker", "direct"} /\ ~stopped =>
         ~active /\ effective = "pending" /\ target = 1 /\ ~hidden
           /\ capture = "none" /\ drawn = 0
    /\ task = "direct" => backend = "none" /\ worker = NoWorker
    /\ task = "worker" => backend = "none" /\ ~Posted
    /\ task = "retry" => ~active /\ backend = "none" /\ worker = NoWorker /\ retried
    /\ task = "retry" /\ ~stopped => target = 2 /\ ~hidden /\ drawn = 0 /\ outstanding = 0
    /\ task = "done" /\ ~stopped => active \/ effective = "external"
    /\ capture = "render" /\ ~stopped => active /\ backend # "none"
    /\ capture = "render" => frameId # 0 /\ outstanding # 0
    /\ capture = "bitmap" => frameId < MaxFrames
    /\ capture = "bitmap" /\ active /\ ~stopped => Room

\* While the bridge is active it has one renderer, which the status names.
Drawing ==
    /\ active /\ ~stopped =>
         /\ task = "done" /\ target # 0
         /\ effective = (IF backend = "none" THEN worker.state ELSE backend)
    /\ effective = "external" /\ ~stopped =>
         ~active /\ ~hidden /\ target = 0 /\ backend = "none" /\ worker = NoWorker
    /\ effective = "external" /\ session = "attached" => retried
    /\ effective \in Kinds /\ ~stopped => active \/ task = "retry"
    /\ hidden /\ ~stopped => target # 0 /\ drawn # 0

IInv == TypeOK /\ Unattached /\ WorkerAlone /\ MessagesTrue /\ Phases /\ Drawing

-----------------------------------------------------------------------------
(* Facts every action needs *)

LEMMA Bounds == RingSize \in Nat /\ RingSize >= 1 /\ MaxFrames \in Nat
BY RingAssumption, FramesAssumption

LEMMA NothingSent == <<>> \in Seq(Frames) /\ <<>> \in Seq(Messages)
OBVIOUS

LEMMA Initially == Init => IInv
<1> SUFFICES ASSUME Init PROVE IInv
  OBVIOUS
<1> USE Bounds DEF Init
<1>1. worker \in [state : Kinds \cup {"none", "init", "failed"},
                 pending : 0 .. MaxFrames, rendering : 0 .. MaxFrames]
  BY DEF NoWorker
<1>2. TypeOK
  <2>1. toWorker \in Seq(Frames) /\ toPage \in Seq(Messages)
    BY NothingSent
  <2>2. /\ target \in 0 .. 2 /\ outstanding \in 0 .. RingSize
       /\ frameId \in 0 .. MaxFrames /\ drawn \in 0 .. MaxFrames
    OBVIOUS
  <2> QED BY <1>1, <2>1, <2>2 DEF TypeOK
<1>3. Unattached /\ WorkerAlone /\ MessagesTrue
  BY DEF Unattached, WorkerAlone, MessagesTrue, NoWorker, Posted
<1>4. Phases /\ Drawing
  BY DEF Phases, Drawing, Kinds, NoWorker
<1> QED BY <1>2, <1>3, <1>4 DEF IInv
-----------------------------------------------------------------------------
(* One lemma per action *)

LEMMA StartRendererKeeps == ASSUME IInv, StartRenderer PROVE IInv'
<1> USE Bounds DEF IInv, page, bridge, channel, StartRenderer
<1>1. TypeOK'
  BY DEF TypeOK, Kinds, Messages, Phases, WorkerAlone, Unattached, Room, NoWorker
<1>2. Unattached'
  BY DEF TypeOK, Unattached, WorkerAlone, MessagesTrue, Phases, Kinds, NoWorker
<1>3. WorkerAlone'
  BY DEF TypeOK, Unattached, WorkerAlone, MessagesTrue, Phases, Drawing, Kinds, NoWorker,
         Posted
<1>4. MessagesTrue'
  BY DEF TypeOK, Unattached, WorkerAlone, MessagesTrue, Phases, Kinds, Messages, NoWorker,
         Posted
<1>5. Phases'
  BY DEF TypeOK, Unattached, WorkerAlone, MessagesTrue, Phases, Drawing, Kinds, NoWorker,
         Posted, Room
<1>6. Drawing'
  BY DEF TypeOK, Unattached, WorkerAlone, MessagesTrue, Phases, Drawing, Kinds, NoWorker,
         Messages
<1> QED BY <1>1, <1>2, <1>3, <1>4, <1>5, <1>6

LEMMA CanvasMissingKeeps == ASSUME IInv, CanvasMissing PROVE IInv'
<1> USE Bounds DEF IInv, page, bridge, channel, CanvasMissing
<1>1. TypeOK'
  BY DEF TypeOK, Kinds, Messages, Phases, WorkerAlone, Unattached, Room, NoWorker
<1>2. Unattached'
  BY DEF TypeOK, Unattached, WorkerAlone, MessagesTrue, Phases, Kinds, NoWorker
<1>3. WorkerAlone'
  BY DEF TypeOK, Unattached, WorkerAlone, MessagesTrue, Phases, Drawing, Kinds, NoWorker,
         Posted
<1>4. MessagesTrue'
  BY DEF TypeOK, Unattached, WorkerAlone, MessagesTrue, Phases, Kinds, Messages, NoWorker,
         Posted
<1>5. Phases'
  BY DEF TypeOK, Unattached, WorkerAlone, MessagesTrue, Phases, Drawing, Kinds, NoWorker,
         Posted, Room
<1>6. Drawing'
  BY DEF TypeOK, Unattached, WorkerAlone, MessagesTrue, Phases, Drawing, Kinds, NoWorker,
         Messages
<1> QED BY <1>1, <1>2, <1>3, <1>4, <1>5, <1>6

LEMMA AttachKeeps == ASSUME IInv, Attach PROVE IInv'
<1> USE Bounds DEF IInv, page, bridge, channel, Attach
<1>1. TypeOK'
  BY DEF TypeOK, Kinds, Messages, Phases, WorkerAlone, Unattached, Room, NoWorker
<1>2. Unattached'
  BY DEF TypeOK, Unattached, WorkerAlone, MessagesTrue, Phases, Kinds, NoWorker
<1>3. WorkerAlone'
  <2>1. worker = NoWorker /\ toWorker = <<>> /\ toPage = <<>> /\ ~stopped
    BY DEF Unattached, WorkerAlone, NoWorker
  <2>2. CASE transfers
    <3>1. worker' = [state |-> "init", pending |-> 0, rendering |-> 0]
      BY <2>2 DEF NoWorker
    <3> QED BY <2>1, <2>2, <3>1 DEF Unattached, WorkerAlone, NoWorker, Posted
  <2>3. CASE ~transfers
    BY <2>1, <2>3 DEF WorkerAlone, Unattached, NoWorker, Posted, TypeOK
  <2> QED BY <2>2, <2>3 DEF TypeOK
<1>4. MessagesTrue'
  BY DEF TypeOK, Unattached, WorkerAlone, MessagesTrue, Phases, Kinds, Messages, NoWorker,
         Posted
<1>5. Phases'
  BY DEF TypeOK, Unattached, WorkerAlone, MessagesTrue, Phases, Drawing, Kinds, NoWorker,
         Posted, Room
<1>6. Drawing'
  BY DEF TypeOK, Unattached, WorkerAlone, MessagesTrue, Phases, Drawing, Kinds, NoWorker,
         Messages
<1> QED BY <1>1, <1>2, <1>3, <1>4, <1>5, <1>6

LEMMA LeaveKeeps == ASSUME IInv, Leave PROVE IInv'
<1> USE Bounds DEF IInv, page, bridge, channel, Leave
<1>1. TypeOK'
  BY DEF TypeOK, Kinds, Messages, Phases, WorkerAlone, Unattached, Room, NoWorker
<1>2. Unattached'
  BY DEF TypeOK, Unattached, WorkerAlone, MessagesTrue, Phases, Kinds, NoWorker
<1>3. WorkerAlone'
  BY DEF TypeOK, Unattached, WorkerAlone, MessagesTrue, Phases, Drawing, Kinds, NoWorker,
         Posted
<1>4. MessagesTrue'
  BY DEF TypeOK, Unattached, WorkerAlone, MessagesTrue, Phases, Kinds, Messages, NoWorker,
         Posted
<1>5. Phases'
  BY DEF TypeOK, Unattached, WorkerAlone, MessagesTrue, Phases, Drawing, Kinds, NoWorker,
         Posted, Room
<1>6. Drawing'
  BY DEF TypeOK, Unattached, WorkerAlone, MessagesTrue, Phases, Drawing, Kinds, NoWorker,
         Messages
<1> QED BY <1>1, <1>2, <1>3, <1>4, <1>5, <1>6

LEMMA StopKeeps == ASSUME IInv, Stop PROVE IInv'
<1> USE Bounds, NothingSent DEF IInv, page, bridge, channel, Stop
<1>1. TypeOK'
  <2>1. worker' \in [state : Kinds \cup {"none", "init", "failed"},
                    pending : 0 .. MaxFrames, rendering : 0 .. MaxFrames]
    BY DEF NoWorker
  <2>2. toWorker' \in Seq(Frames) /\ toPage' \in Seq(Messages)
    BY NothingSent
  <2>3. /\ left' \in BOOLEAN /\ transfers' \in BOOLEAN /\ active' \in BOOLEAN
       /\ stopped' \in BOOLEAN /\ retried' \in BOOLEAN /\ hidden' \in BOOLEAN
    BY DEF TypeOK
  <2>4. /\ target' \in 0 .. 2 /\ outstanding' \in 0 .. RingSize
       /\ frameId' \in 0 .. MaxFrames /\ drawn' \in 0 .. MaxFrames
    BY DEF TypeOK
  <2>5. /\ session' \in {"idle", "waiting", "attached", "absent"}
       /\ task' \in {"none", "worker", "direct", "retry", "done"}
       /\ backend' \in Kinds \cup {"none"}
       /\ capture' \in {"none", "bitmap", "render"}
       /\ effective' \in Kinds \cup {"pending", "external"}
    BY DEF TypeOK
  <2> QED BY <2>1, <2>2, <2>3, <2>4, <2>5 DEF TypeOK
<1>2. Unattached'
  BY DEF TypeOK, Unattached, WorkerAlone, MessagesTrue, Phases, Kinds, NoWorker
<1>3. WorkerAlone'
  BY DEF TypeOK, Unattached, WorkerAlone, MessagesTrue, Phases, Drawing, Kinds, NoWorker,
         Posted
<1>4. MessagesTrue'
  BY DEF TypeOK, Unattached, WorkerAlone, MessagesTrue, Phases, Kinds, Messages, NoWorker,
         Posted
<1>5. Phases'
  BY DEF TypeOK, Unattached, WorkerAlone, MessagesTrue, Phases, Drawing, Kinds, NoWorker,
         Posted, Room
<1>6. Drawing'
  BY DEF TypeOK, Unattached, WorkerAlone, MessagesTrue, Phases, Drawing, Kinds, NoWorker,
         Messages
<1> QED BY <1>1, <1>2, <1>3, <1>4, <1>5, <1>6

\* A recovery that starts, whichever handler calls it: a capture that was
\* awaiting its bitmap may go on, one that awaited its render is over.
LEMMA RecoverKeeps ==
    ASSUME IInv, Recover, session = "attached",
           capture' \in {"none", capture}, capture = "render" => capture' = "none"
    PROVE  IInv'
<1> USE Bounds, NothingSent DEF IInv, page, bridge, channel, Recover, Restored, Ended, Cleared
<1>1. TypeOK'
  <2>1. worker' \in [state : Kinds \cup {"none", "init", "failed"},
                    pending : 0 .. MaxFrames, rendering : 0 .. MaxFrames]
    BY DEF NoWorker
  <2>2. toWorker' \in Seq(Frames) /\ toPage' \in Seq(Messages)
    BY NothingSent
  <2>3. /\ left' \in BOOLEAN /\ transfers' \in BOOLEAN /\ active' \in BOOLEAN
       /\ stopped' \in BOOLEAN /\ retried' \in BOOLEAN /\ hidden' \in BOOLEAN
    BY DEF TypeOK
  <2>4. /\ target' \in 0 .. 2 /\ outstanding' \in 0 .. RingSize
       /\ frameId' \in 0 .. MaxFrames /\ drawn' \in 0 .. MaxFrames
    BY DEF TypeOK
  <2>5. /\ session' \in {"idle", "waiting", "attached", "absent"}
       /\ task' \in {"none", "worker", "direct", "retry", "done"}
       /\ backend' \in Kinds \cup {"none"}
       /\ capture' \in {"none", "bitmap", "render"}
       /\ effective' \in Kinds \cup {"pending", "external"}
    BY DEF TypeOK
  <2> QED BY <2>1, <2>2, <2>3, <2>4, <2>5 DEF TypeOK
<1>2. Unattached'
  BY DEF TypeOK, Unattached, WorkerAlone, MessagesTrue, Phases, Kinds, NoWorker
<1>3. WorkerAlone'
  BY DEF TypeOK, Unattached, WorkerAlone, MessagesTrue, Phases, Drawing, Kinds, NoWorker,
         Posted
<1>4. MessagesTrue'
  BY DEF TypeOK, Unattached, WorkerAlone, MessagesTrue, Phases, Kinds, Messages, NoWorker,
         Posted
<1>5. Phases'
  BY DEF TypeOK, Unattached, WorkerAlone, MessagesTrue, Phases, Drawing, Kinds, NoWorker,
         Posted, Room
<1>6. Drawing'
  BY DEF TypeOK, Unattached, WorkerAlone, MessagesTrue, Phases, Drawing, Kinds, NoWorker,
         Messages
<1> QED BY <1>1, <1>2, <1>3, <1>4, <1>5, <1>6

LEMMA RetryReadyKeeps == ASSUME IInv, RetryReady PROVE IInv'
<1> USE Bounds DEF IInv, page, bridge, channel, RetryReady
<1>1. TypeOK'
  <2>1. /\ left' \in BOOLEAN /\ transfers' \in BOOLEAN /\ active' \in BOOLEAN
       /\ stopped' \in BOOLEAN /\ retried' \in BOOLEAN /\ hidden' \in BOOLEAN
    BY DEF TypeOK
  <2>2. /\ backend' \in Kinds \cup {"none"} /\ target' \in 0 .. 2
       /\ effective' \in Kinds \cup {"pending", "external"}
    BY DEF TypeOK, Kinds
  <2> QED BY <2>1, <2>2 DEF TypeOK
<1>2. Unattached'
  BY DEF TypeOK, Unattached, WorkerAlone, MessagesTrue, Phases, Kinds, NoWorker
<1>3. WorkerAlone'
  BY DEF TypeOK, Unattached, WorkerAlone, MessagesTrue, Phases, Drawing, Kinds, NoWorker,
         Posted
<1>4. MessagesTrue'
  BY DEF TypeOK, Unattached, WorkerAlone, MessagesTrue, Phases, Kinds, Messages, NoWorker,
         Posted
<1>5. Phases'
  BY DEF TypeOK, Unattached, WorkerAlone, MessagesTrue, Phases, Drawing, Kinds, NoWorker,
         Posted, Room
<1>6. Drawing'
  BY DEF TypeOK, Unattached, WorkerAlone, MessagesTrue, Phases, Drawing, Kinds, NoWorker,
         Messages
<1> QED BY <1>1, <1>2, <1>3, <1>4, <1>5, <1>6

LEMMA RetryFailsKeeps == ASSUME IInv, RetryFails PROVE IInv'
<1> USE Bounds DEF IInv, page, bridge, channel, RetryFails
<1>1. TypeOK'
  BY DEF TypeOK, Kinds, Messages, Phases, WorkerAlone, Unattached, Room, NoWorker
<1>2. Unattached'
  BY DEF TypeOK, Unattached, WorkerAlone, MessagesTrue, Phases, Kinds, NoWorker
<1>3. WorkerAlone'
  BY DEF TypeOK, Unattached, WorkerAlone, MessagesTrue, Phases, Drawing, Kinds, NoWorker,
         Posted
<1>4. MessagesTrue'
  BY DEF TypeOK, Unattached, WorkerAlone, MessagesTrue, Phases, Kinds, Messages, NoWorker,
         Posted
<1>5. Phases'
  BY DEF TypeOK, Unattached, WorkerAlone, MessagesTrue, Phases, Drawing, Kinds, NoWorker,
         Posted, Room
<1>6. Drawing'
  BY DEF TypeOK, Unattached, WorkerAlone, MessagesTrue, Phases, Drawing, Kinds, NoWorker,
         Messages
<1> QED BY <1>1, <1>2, <1>3, <1>4, <1>5, <1>6

LEMMA HandleReadyKeeps == ASSUME IInv, HandleReady PROVE IInv'
<1> USE Bounds DEF IInv, page, bridge, channel, HandleReady
<1>1. TypeOK'
  BY DEF TypeOK, Kinds, Messages, Phases, WorkerAlone, Unattached, Room, NoWorker
<1>2. Unattached'
  BY DEF TypeOK, Unattached, WorkerAlone, MessagesTrue, Phases, Kinds, NoWorker
<1>3. WorkerAlone'
  <2>1. 1 \in 1 .. Len(toPage) /\ Head(toPage) = toPage[1] /\ Head(toPage) \in Messages
    BY HeadTailProperties DEF TypeOK
  <2>2. task = "worker" /\ worker.state \in Kinds
    BY <2>1 DEF MessagesTrue, Messages
  <2>3. ~Posted
    BY <2>2 DEF Phases
  <2> QED BY <2>2, <2>3 DEF WorkerAlone, Kinds, Posted
<1>4. MessagesTrue'
  BY DEF TypeOK, Unattached, WorkerAlone, MessagesTrue, Phases, Kinds, Messages, NoWorker,
         Posted
<1>5. Phases'
  BY DEF TypeOK, Unattached, WorkerAlone, MessagesTrue, Phases, Drawing, Kinds, NoWorker,
         Posted, Room
<1>6. Drawing'
  BY DEF TypeOK, Unattached, WorkerAlone, MessagesTrue, Phases, Drawing, Kinds, NoWorker,
         Messages
<1> QED BY <1>1, <1>2, <1>3, <1>4, <1>5, <1>6

LEMMA HandleFailedKeeps == ASSUME IInv, HandleFailed PROVE IInv'
<1>1. worker.state # "none" /\ backend = "none" /\ ~stopped
  BY DEF HandleFailed, IInv, WorkerAlone
<1>2. capture # "render"
  BY <1>1 DEF IInv, WorkerAlone, Phases
<1>3. session = "attached"
  BY <1>1 DEF IInv, Unattached, NoWorker
<1> QED BY <1>2, <1>3, RecoverKeeps DEF HandleFailed

LEMMA InitTimeoutKeeps == ASSUME IInv, InitTimeout PROVE IInv'
<1>1. CASE Recover
  BY <1>1, RecoverKeeps DEF InitTimeout, Recover, IInv, Phases, Unattached
<1>2. CASE RecoverReturns
  <2>0. ~Recover  BY <1>2 DEF Recover, RecoverReturns
  <2> USE Bounds, <1>2, <2>0 DEF IInv, page, channel, InitTimeout, RecoverReturns
  <2>1. TypeOK'
    BY DEF TypeOK, Kinds, Messages, Phases, WorkerAlone, Unattached, Room, NoWorker
  <2>2. Unattached'
    BY DEF TypeOK, Unattached, WorkerAlone, MessagesTrue, Phases, Kinds, NoWorker
  <2>3. WorkerAlone'
    BY DEF TypeOK, Unattached, WorkerAlone, MessagesTrue, Phases, Drawing, Kinds, NoWorker,
           Posted
  <2>4. MessagesTrue'
    BY DEF TypeOK, Unattached, WorkerAlone, MessagesTrue, Phases, Kinds, Messages, NoWorker,
           Posted
  <2>5. Phases'
    BY DEF TypeOK, Unattached, WorkerAlone, MessagesTrue, Phases, Drawing, Kinds, NoWorker,
           Posted, Room
  <2>6. Drawing'
    BY DEF TypeOK, Unattached, WorkerAlone, MessagesTrue, Phases, Drawing, Kinds, NoWorker,
           Messages
  <2> QED BY <2>1, <2>2, <2>3, <2>4, <2>5, <2>6
<1> QED BY <1>1, <1>2 DEF InitTimeout, IInv

LEMMA DirectReadyKeeps == ASSUME IInv, NEW kind \in Kinds, DirectReady(kind) PROVE IInv'
<1> USE Bounds DEF IInv, page, bridge, channel, DirectReady
<1>1. TypeOK'
  BY DEF TypeOK, Kinds, Messages, Phases, WorkerAlone, Unattached, Room, NoWorker
<1>2. Unattached'
  BY DEF TypeOK, Unattached, WorkerAlone, MessagesTrue, Phases, Kinds, NoWorker
<1>3. WorkerAlone'
  BY DEF TypeOK, Unattached, WorkerAlone, MessagesTrue, Phases, Drawing, Kinds, NoWorker,
         Posted
<1>4. MessagesTrue'
  BY DEF TypeOK, Unattached, WorkerAlone, MessagesTrue, Phases, Kinds, Messages, NoWorker,
         Posted
<1>5. Phases'
  BY DEF TypeOK, Unattached, WorkerAlone, MessagesTrue, Phases, Drawing, Kinds, NoWorker,
         Posted, Room
<1>6. Drawing'
  BY DEF TypeOK, Unattached, WorkerAlone, MessagesTrue, Phases, Drawing, Kinds, NoWorker,
         Messages
<1> QED BY <1>1, <1>2, <1>3, <1>4, <1>5, <1>6

LEMMA DirectFailsKeeps == ASSUME IInv, DirectFails PROVE IInv'
<1>1. CASE Recover
  BY <1>1, RecoverKeeps DEF DirectFails, Recover, IInv, Phases, Unattached
<1>2. CASE RecoverReturns
  <2>0. ~Recover  BY <1>2 DEF Recover, RecoverReturns
  <2> USE Bounds, <1>2, <2>0 DEF IInv, page, channel, DirectFails, RecoverReturns
  <2>1. TypeOK'
    BY DEF TypeOK, Kinds, Messages, Phases, WorkerAlone, Unattached, Room, NoWorker
  <2>2. Unattached'
    BY DEF TypeOK, Unattached, WorkerAlone, MessagesTrue, Phases, Kinds, NoWorker
  <2>3. WorkerAlone'
    BY DEF TypeOK, Unattached, WorkerAlone, MessagesTrue, Phases, Drawing, Kinds, NoWorker,
           Posted
  <2>4. MessagesTrue'
    BY DEF TypeOK, Unattached, WorkerAlone, MessagesTrue, Phases, Kinds, Messages, NoWorker,
           Posted
  <2>5. Phases'
    BY DEF TypeOK, Unattached, WorkerAlone, MessagesTrue, Phases, Drawing, Kinds, NoWorker,
           Posted, Room
  <2>6. Drawing'
    BY DEF TypeOK, Unattached, WorkerAlone, MessagesTrue, Phases, Drawing, Kinds, NoWorker,
           Messages
  <2> QED BY <2>1, <2>2, <2>3, <2>4, <2>5, <2>6
<1> QED BY <1>1, <1>2 DEF DirectFails, IInv

LEMMA CaptureBeginKeeps == ASSUME IInv, CaptureBegin PROVE IInv'
<1> USE Bounds DEF IInv, page, bridge, channel, CaptureBegin, Room
<1>1. TypeOK'
  BY DEF TypeOK, Kinds, Messages, Phases, WorkerAlone, Unattached, Room, NoWorker
<1>2. Unattached'
  BY DEF TypeOK, Unattached, WorkerAlone, MessagesTrue, Phases, Kinds, NoWorker
<1>3. WorkerAlone'
  BY DEF TypeOK, Unattached, WorkerAlone, MessagesTrue, Phases, Drawing, Kinds, NoWorker,
         Posted
<1>4. MessagesTrue'
  BY DEF TypeOK, Unattached, WorkerAlone, MessagesTrue, Phases, Kinds, Messages, NoWorker,
         Posted
<1>5. Phases'
  BY DEF TypeOK, Unattached, WorkerAlone, MessagesTrue, Phases, Drawing, Kinds, NoWorker,
         Posted, Room
<1>6. Drawing'
  BY DEF TypeOK, Unattached, WorkerAlone, MessagesTrue, Phases, Drawing, Kinds, NoWorker,
         Messages
<1> QED BY <1>1, <1>2, <1>3, <1>4, <1>5, <1>6

LEMMA CaptureDroppedKeeps == ASSUME IInv, CaptureDropped PROVE IInv'
<1> USE Bounds DEF IInv, page, bridge, channel, CaptureDropped
<1>1. TypeOK'
  BY DEF TypeOK, Kinds, Messages, Phases, WorkerAlone, Unattached, Room, NoWorker
<1>2. Unattached'
  BY DEF TypeOK, Unattached, WorkerAlone, MessagesTrue, Phases, Kinds, NoWorker
<1>3. WorkerAlone'
  BY DEF TypeOK, Unattached, WorkerAlone, MessagesTrue, Phases, Drawing, Kinds, NoWorker,
         Posted
<1>4. MessagesTrue'
  BY DEF TypeOK, Unattached, WorkerAlone, MessagesTrue, Phases, Kinds, Messages, NoWorker,
         Posted
<1>5. Phases'
  BY DEF TypeOK, Unattached, WorkerAlone, MessagesTrue, Phases, Drawing, Kinds, NoWorker,
         Posted, Room
<1>6. Drawing'
  BY DEF TypeOK, Unattached, WorkerAlone, MessagesTrue, Phases, Drawing, Kinds, NoWorker,
         Messages
<1> QED BY <1>1, <1>2, <1>3, <1>4, <1>5, <1>6

LEMMA CapturePostedKeeps == ASSUME IInv, CapturePosted PROVE IInv'
<1> USE Bounds DEF IInv, page, bridge, channel, CapturePosted
<1>1. TypeOK'
  <2>1. toWorker' \in Seq(Frames)
    BY AppendProperties DEF TypeOK, Phases, Frames
  <2>2. outstanding' \in 0 .. RingSize
    BY DEF TypeOK, Phases, Room, WorkerAlone
  <2> QED BY <2>1, <2>2 DEF TypeOK, Phases
<1>2. Unattached'
  BY DEF TypeOK, Unattached, WorkerAlone, MessagesTrue, Phases, Kinds, NoWorker
<1>3. WorkerAlone'
  BY DEF TypeOK, Unattached, WorkerAlone, MessagesTrue, Phases, Drawing, Kinds, NoWorker,
         Posted
<1>4. MessagesTrue'
  BY DEF TypeOK, Unattached, WorkerAlone, MessagesTrue, Phases, Kinds, Messages, NoWorker,
         Posted
<1>5. Phases'
  BY DEF TypeOK, Unattached, WorkerAlone, MessagesTrue, Phases, Drawing, Kinds, NoWorker,
         Posted, Room
<1>6. Drawing'
  BY DEF TypeOK, Unattached, WorkerAlone, MessagesTrue, Phases, Drawing, Kinds, NoWorker,
         Messages
<1> QED BY <1>1, <1>2, <1>3, <1>4, <1>5, <1>6

LEMMA CaptureWaitsKeeps == ASSUME IInv, CaptureWaits PROVE IInv'
<1> USE Bounds DEF IInv, page, bridge, channel, CaptureWaits, MayWait
<1>1. TypeOK'
  BY DEF TypeOK, Kinds, Messages, Phases, WorkerAlone, Unattached, Room, NoWorker
<1>2. Unattached'
  BY DEF TypeOK, Unattached, WorkerAlone, MessagesTrue, Phases, Kinds, NoWorker
<1>3. WorkerAlone'
  BY DEF TypeOK, Unattached, WorkerAlone, MessagesTrue, Phases, Drawing, Kinds, NoWorker,
         Posted
<1>4. MessagesTrue'
  BY DEF TypeOK, Unattached, WorkerAlone, MessagesTrue, Phases, Kinds, Messages, NoWorker,
         Posted
<1>5. Phases'
  BY DEF TypeOK, Unattached, WorkerAlone, MessagesTrue, Phases, Drawing, Kinds, NoWorker,
         Posted, Room
<1>6. Drawing'
  BY DEF TypeOK, Unattached, WorkerAlone, MessagesTrue, Phases, Drawing, Kinds, NoWorker,
         Messages
<1> QED BY <1>1, <1>2, <1>3, <1>4, <1>5, <1>6

LEMMA CaptureDrawnKeeps == ASSUME IInv, CaptureDrawn PROVE IInv'
<1> USE Bounds DEF IInv, page, bridge, channel, CaptureDrawn
<1>1. TypeOK'
  BY DEF TypeOK, Kinds, Messages, Phases, WorkerAlone, Unattached, Room, NoWorker
<1>2. Unattached'
  BY DEF TypeOK, Unattached, WorkerAlone, MessagesTrue, Phases, Kinds, NoWorker
<1>3. WorkerAlone'
  BY DEF TypeOK, Unattached, WorkerAlone, MessagesTrue, Phases, Drawing, Kinds, NoWorker,
         Posted
<1>4. MessagesTrue'
  BY DEF TypeOK, Unattached, WorkerAlone, MessagesTrue, Phases, Kinds, Messages, NoWorker,
         Posted
<1>5. Phases'
  BY DEF TypeOK, Unattached, WorkerAlone, MessagesTrue, Phases, Drawing, Kinds, NoWorker,
         Posted, Room
<1>6. Drawing'
  BY DEF TypeOK, Unattached, WorkerAlone, MessagesTrue, Phases, Drawing, Kinds, NoWorker,
         Messages
<1> QED BY <1>1, <1>2, <1>3, <1>4, <1>5, <1>6

LEMMA RenderDoneKeeps == ASSUME IInv, RenderDone PROVE IInv'
<1> USE Bounds DEF IInv, page, bridge, channel, RenderDone
<1>1. TypeOK'
  BY DEF TypeOK, Kinds, Messages, Phases, WorkerAlone, Unattached, Room, NoWorker
<1>2. Unattached'
  BY DEF TypeOK, Unattached, WorkerAlone, MessagesTrue, Phases, Kinds, NoWorker
<1>3. WorkerAlone'
  BY DEF TypeOK, Unattached, WorkerAlone, MessagesTrue, Phases, Drawing, Kinds, NoWorker,
         Posted
<1>4. MessagesTrue'
  BY DEF TypeOK, Unattached, WorkerAlone, MessagesTrue, Phases, Kinds, Messages, NoWorker,
         Posted
<1>5. Phases'
  BY DEF TypeOK, Unattached, WorkerAlone, MessagesTrue, Phases, Drawing, Kinds, NoWorker,
         Posted, Room
<1>6. Drawing'
  BY DEF TypeOK, Unattached, WorkerAlone, MessagesTrue, Phases, Drawing, Kinds, NoWorker,
         Messages
<1> QED BY <1>1, <1>2, <1>3, <1>4, <1>5, <1>6

LEMMA CaptureFailsKeeps == ASSUME IInv, CaptureFails PROVE IInv'
<1>1. CASE Recover
  BY <1>1, RecoverKeeps DEF CaptureFails, IInv, Unattached
<1>2. CASE RecoverReturns
  <2>0. ~Recover  BY <1>2 DEF Recover, RecoverReturns
  <2> USE Bounds, <1>2, <2>0 DEF IInv, page, channel, CaptureFails, RecoverReturns
  <2>1. TypeOK'
    BY DEF TypeOK, Kinds, Messages, Phases, WorkerAlone, Unattached, Room, NoWorker
  <2>2. Unattached'
    BY DEF TypeOK, Unattached, WorkerAlone, MessagesTrue, Phases, Kinds, NoWorker
  <2>3. WorkerAlone'
    BY DEF TypeOK, Unattached, WorkerAlone, MessagesTrue, Phases, Drawing, Kinds, NoWorker,
           Posted
  <2>4. MessagesTrue'
    BY DEF TypeOK, Unattached, WorkerAlone, MessagesTrue, Phases, Kinds, Messages, NoWorker,
           Posted
  <2>5. Phases'
    BY DEF TypeOK, Unattached, WorkerAlone, MessagesTrue, Phases, Drawing, Kinds, NoWorker,
           Posted, Room
  <2>6. Drawing'
    BY DEF TypeOK, Unattached, WorkerAlone, MessagesTrue, Phases, Drawing, Kinds, NoWorker,
           Messages
  <2> QED BY <2>1, <2>2, <2>3, <2>4, <2>5, <2>6
<1> QED BY <1>1, <1>2 DEF CaptureFails, IInv

LEMMA HandleResultKeeps == ASSUME IInv, HandleResult PROVE IInv'
<1> USE Bounds DEF IInv, page, bridge, channel, HandleResult
<1>1. TypeOK'
  BY DEF TypeOK, Kinds, Messages, Phases, WorkerAlone, Unattached, Room, NoWorker
<1>2. Unattached'
  BY DEF TypeOK, Unattached, WorkerAlone, MessagesTrue, Phases, Kinds, NoWorker
<1>3. WorkerAlone'
  BY DEF TypeOK, Unattached, WorkerAlone, MessagesTrue, Phases, Drawing, Kinds, NoWorker,
         Posted
<1>4. MessagesTrue'
  BY DEF TypeOK, Unattached, WorkerAlone, MessagesTrue, Phases, Kinds, Messages, NoWorker,
         Posted
<1>5. Phases'
  BY DEF TypeOK, Unattached, WorkerAlone, MessagesTrue, Phases, Drawing, Kinds, NoWorker,
         Posted, Room
<1>6. Drawing'
  BY DEF TypeOK, Unattached, WorkerAlone, MessagesTrue, Phases, Drawing, Kinds, NoWorker,
         Messages
<1> QED BY <1>1, <1>2, <1>3, <1>4, <1>5, <1>6

LEMMA WorkerReadyKeeps == ASSUME IInv, NEW kind \in Kinds, WorkerReady(kind) PROVE IInv'
<1> USE Bounds DEF IInv, page, bridge, channel, WorkerReady
<1>1. TypeOK'
  BY DEF TypeOK, Kinds, Messages, Phases, WorkerAlone, Unattached, Room, NoWorker
<1>2. Unattached'
  BY DEF TypeOK, Unattached, WorkerAlone, MessagesTrue, Phases, Kinds, NoWorker
<1>3. WorkerAlone'
  BY DEF TypeOK, Unattached, WorkerAlone, MessagesTrue, Phases, Drawing, Kinds, NoWorker,
         Posted
<1>4. MessagesTrue'
  BY DEF TypeOK, Unattached, WorkerAlone, MessagesTrue, Phases, Kinds, Messages, NoWorker,
         Posted
<1>5. Phases'
  BY DEF TypeOK, Unattached, WorkerAlone, MessagesTrue, Phases, Drawing, Kinds, NoWorker,
         Posted, Room
<1>6. Drawing'
  BY DEF TypeOK, Unattached, WorkerAlone, MessagesTrue, Phases, Drawing, Kinds, NoWorker,
         Messages
<1> QED BY <1>1, <1>2, <1>3, <1>4, <1>5, <1>6

LEMMA WorkerInitFailsKeeps == ASSUME IInv, WorkerInitFails PROVE IInv'
<1> USE Bounds DEF IInv, page, bridge, channel, WorkerInitFails
<1>1. TypeOK'
  BY DEF TypeOK, Kinds, Messages, Phases, WorkerAlone, Unattached, Room, NoWorker
<1>2. Unattached'
  BY DEF TypeOK, Unattached, WorkerAlone, MessagesTrue, Phases, Kinds, NoWorker
<1>3. WorkerAlone'
  BY DEF TypeOK, Unattached, WorkerAlone, MessagesTrue, Phases, Drawing, Kinds, NoWorker,
         Posted
<1>4. MessagesTrue'
  BY DEF TypeOK, Unattached, WorkerAlone, MessagesTrue, Phases, Kinds, Messages, NoWorker,
         Posted
<1>5. Phases'
  BY DEF TypeOK, Unattached, WorkerAlone, MessagesTrue, Phases, Drawing, Kinds, NoWorker,
         Posted, Room
<1>6. Drawing'
  BY DEF TypeOK, Unattached, WorkerAlone, MessagesTrue, Phases, Drawing, Kinds, NoWorker,
         Messages
<1> QED BY <1>1, <1>2, <1>3, <1>4, <1>5, <1>6

LEMMA WorkerTakesKeeps == ASSUME IInv, WorkerTakes PROVE IInv'
<1> USE Bounds DEF IInv, page, bridge, channel, WorkerTakes, Result
<1>1. TypeOK'
  <2>1. Head(toWorker) \in Frames /\ toWorker' \in Seq(Frames)
    BY HeadTailProperties DEF TypeOK
  <2>2. worker' \in [state : Kinds \cup {"none", "init", "failed"},
                    pending : 0 .. MaxFrames, rendering : 0 .. MaxFrames]
    <3>0. Head(toWorker) \in 0 .. MaxFrames
      BY <2>1 DEF Frames
    <3>1. CASE worker.rendering = 0
      <4>1. worker' = [state |-> worker.state, pending |-> worker.pending,
                       rendering |-> Head(toWorker)]
        BY <3>1 DEF TypeOK
      <4> QED BY <3>0, <4>1 DEF TypeOK
    <3>2. CASE worker.rendering # 0
      <4>1. worker' = [state |-> worker.state, pending |-> Head(toWorker),
                       rendering |-> worker.rendering]
        BY <3>2 DEF TypeOK
      <4> QED BY <3>0, <4>1 DEF TypeOK
    <3> QED BY <3>1, <3>2
  <2>3. ASSUME worker.pending # 0  PROVE Result(worker.pending, FALSE) \in Messages
    BY <2>3 DEF TypeOK, Messages, Frames
  <2>4. toPage' \in Seq(Messages)
    BY <2>3, AppendProperties DEF TypeOK
  <2> QED BY <2>1, <2>2, <2>4 DEF TypeOK
<1>2. Unattached'
  BY DEF TypeOK, Unattached, WorkerAlone, MessagesTrue, Phases, Kinds, NoWorker
<1>3. WorkerAlone'
  BY DEF TypeOK, Unattached, WorkerAlone, MessagesTrue, Phases, Drawing, Kinds, NoWorker,
         Posted
<1>4. MessagesTrue'
  BY DEF TypeOK, Unattached, WorkerAlone, MessagesTrue, Phases, Kinds, Messages, NoWorker,
         Posted
<1>5. Phases'
  BY DEF TypeOK, Unattached, WorkerAlone, MessagesTrue, Phases, Drawing, Kinds, NoWorker,
         Posted, Room
<1>6. Drawing'
  BY DEF TypeOK, Unattached, WorkerAlone, MessagesTrue, Phases, Drawing, Kinds, NoWorker,
         Messages
<1> QED BY <1>1, <1>2, <1>3, <1>4, <1>5, <1>6

LEMMA WorkerDrawsKeeps ==
  ASSUME IInv, NEW rendered \in BOOLEAN, WorkerDraws(rendered)
  PROVE  IInv'
<1> USE Bounds DEF IInv, page, bridge, channel, WorkerDraws, Result, Answer
<1>1. TypeOK'
  <2>1. worker.rendering \in Frames
    BY DEF TypeOK, Frames
  <2>2. Answer(rendered) \in Seq(Messages)
    <3>1. Result(worker.rendering, TRUE) \in Messages /\ [type |-> "failed"] \in Messages
           /\ Result(worker.rendering, FALSE) \in Messages
      BY <2>1 DEF Messages, Result
    <3>2. <<Result(worker.rendering, TRUE)>> \in Seq(Messages)
      BY <3>1
    <3>3. <<Result(worker.rendering, FALSE), [type |-> "failed"]>> \in Seq(Messages)
      BY <3>1
    <3> QED BY <3>2, <3>3 DEF Answer
  <2>3. toPage' \in Seq(Messages)
    BY <2>2, ConcatProperties DEF TypeOK
  <2>4. worker' \in [state : Kinds \cup {"none", "init", "failed"},
                    pending : 0 .. MaxFrames, rendering : 0 .. MaxFrames]
    <3>1. worker' = [state |-> worker.state, pending |-> 0, rendering |-> worker.pending]
      BY DEF TypeOK
    <3> QED BY <3>1 DEF TypeOK
  <2> QED BY <2>1, <2>3, <2>4 DEF TypeOK, Frames
<1>2. Unattached'
  BY DEF TypeOK, Unattached, WorkerAlone, MessagesTrue, Phases, Kinds, NoWorker
<1>3. WorkerAlone'
  BY DEF TypeOK, Unattached, WorkerAlone, MessagesTrue, Phases, Drawing, Kinds, NoWorker,
         Posted
<1>4. MessagesTrue'
  BY DEF TypeOK, Unattached, WorkerAlone, MessagesTrue, Phases, Kinds, Messages, NoWorker,
         Posted
<1>5. Phases'
  BY DEF TypeOK, Unattached, WorkerAlone, MessagesTrue, Phases, Drawing, Kinds, NoWorker,
         Posted, Room
<1>6. Drawing'
  BY DEF TypeOK, Unattached, WorkerAlone, MessagesTrue, Phases, Drawing, Kinds, NoWorker,
         Messages
<1> QED BY <1>1, <1>2, <1>3, <1>4, <1>5, <1>6

LEMMA StutterKeeps == ASSUME IInv, UNCHANGED vars PROVE IInv'
BY DEF IInv, vars, page, bridge, channel, TypeOK, Unattached, WorkerAlone, MessagesTrue,
       Phases, Drawing, Posted, Room
-----------------------------------------------------------------------------
LEMMA Inductive == IInv /\ [Next]_vars => IInv'
<1> SUFFICES ASSUME IInv, [Next]_vars PROVE IInv'
  OBVIOUS
<1>1. ASSUME Session \/ Leaving PROVE IInv'
  BY <1>1, StartRendererKeeps, CanvasMissingKeeps, AttachKeeps, LeaveKeeps, StopKeeps
     DEF Session, Leaving
<1>2. ASSUME Starting PROVE IInv'
  BY <1>2, HandleReadyKeeps, HandleFailedKeeps, InitTimeoutKeeps, DirectReadyKeeps,
     DirectFailsKeeps, RetryReadyKeeps, RetryFailsKeeps DEF Starting
<1>3. ASSUME CaptureBegin \/ Capturing PROVE IInv'
  BY <1>3, CaptureBeginKeeps, CaptureDroppedKeeps, CapturePostedKeeps, CaptureWaitsKeeps,
     CaptureDrawnKeeps, RenderDoneKeeps, CaptureFailsKeeps DEF Capturing
<1>4. ASSUME HandleResult \/ Worker PROVE IInv'
  BY <1>4, HandleResultKeeps, WorkerReadyKeeps, WorkerInitFailsKeeps, WorkerTakesKeeps,
     WorkerDrawsKeeps DEF Worker
<1>5. ASSUME Closed \/ UNCHANGED vars PROVE IInv'
  BY <1>5, StutterKeeps DEF Closed
<1> QED BY <1>1, <1>2, <1>3, <1>4, <1>5 DEF Next

LEMMA Invariant == Spec => []IInv
BY Initially, Inductive, PTL DEF Spec

\* The variables keep their types; outstanding never exceeds the ring.
THEOREM RendererTypeCorrect == Spec => []TypeOK
<1>1. IInv => TypeOK
  BY DEF IInv
<1> QED BY <1>1, Invariant, PTL

\* The emulator's canvas is hidden only behind a canvas that shows a frame,
\* through failures, the retry and the fallback (recoverWebGL2).
THEOREM GameStaysVisible == Spec => []HiddenBehindPicture
<1>1. IInv => HiddenBehindPicture
  BY DEF IInv, Drawing, HiddenBehindPicture
<1> QED BY <1>1, Invariant, PTL

\* The status names the one renderer that draws, or the fallback.
THEOREM StatusIsTrue == Spec => []StatusTruthful
<1>1. IInv => StatusTruthful
  BY DEF IInv, Drawing, WorkerAlone, StatusTruthful
<1> QED BY <1>1, Invariant, PTL
-----------------------------------------------------------------------------
(* The count of frames in flight *)

\* How many messages are answers, as messages are appended and received.
LEMMA ResultsCount ==
    ASSUME NEW s \in Seq(Messages)
    PROVE  /\ IsFiniteSet(Results(s))
           /\ Cardinality(Results(s)) \in Nat
           /\ s = <<>> => Cardinality(Results(s)) = 0
<1>1. DOMAIN s = 1 .. Len(s) /\ Len(s) \in Nat
  BY LenProperties
<1>2. IsFiniteSet(1 .. Len(s))
  BY <1>1, FS_Interval
<1>3. Results(s) \in SUBSET (1 .. Len(s))
  BY <1>1 DEF Results
<1>4. IsFiniteSet(Results(s))
  BY <1>2, <1>3, FS_Subset
<1>5. s = <<>> => Results(s) = {}
  BY <1>1 DEF Results
<1> QED BY <1>4, <1>5, FS_CardinalityType, FS_EmptySet

LEMMA ResultsAppend ==
    ASSUME NEW s \in Seq(Messages), NEW m \in Messages
    PROVE  Cardinality(Results(Append(s, m))) =
             Cardinality(Results(s)) + (IF m.type = "result" THEN 1 ELSE 0)
<1> DEFINE n == Len(s) + 1
           t == Append(s, m)
<1>1. /\ Len(s) \in Nat /\ DOMAIN s = 1 .. Len(s) /\ t \in Seq(Messages)
      /\ DOMAIN t = 1 .. n /\ t[n] = m /\ \A i \in 1 .. Len(s) : t[i] = s[i]
  BY AppendProperties, LenProperties
<1>2. \A i : i \in 1 .. n <=> i \in 1 .. Len(s) \/ i = n
  BY <1>1
<1>3. n \notin Results(s)
  BY <1>1 DEF Results
<1>4. IsFiniteSet(Results(s)) /\ Cardinality(Results(s)) \in Nat
  BY ResultsCount
<1> HIDE DEF n, t
<1>5. CASE m.type = "result"
  <2>1. Results(t) = Results(s) \cup {n}
    BY <1>1, <1>2, <1>5 DEF Results
  <2> QED BY <1>3, <1>4, <1>5, <2>1, FS_AddElement DEF t
<1>6. CASE m.type # "result"
  <2>1. Results(t) = Results(s)
    BY <1>1, <1>2, <1>6 DEF Results
  <2> QED BY <1>4, <1>6, <2>1 DEF t
<1> QED BY <1>5, <1>6

LEMMA ResultsTail ==
    ASSUME NEW s \in Seq(Messages), s # <<>>
    PROVE  Cardinality(Results(Tail(s))) =
             Cardinality(Results(s)) - (IF Head(s).type = "result" THEN 1 ELSE 0)
<1> DEFINE t == Tail(s)
           rest == Results(s) \ {1}
<1>1. /\ Len(s) \in Nat \ {0} /\ DOMAIN s = 1 .. Len(s) /\ t \in Seq(Messages)
      /\ DOMAIN t = 1 .. Len(s) - 1 /\ \A i \in 1 .. Len(s) - 1 : t[i] = s[i + 1]
      /\ Head(s) = s[1]
  BY HeadTailProperties, LenProperties, EmptySeq
<1>2. /\ IsFiniteSet(Results(s)) /\ Cardinality(Results(s)) \in Nat
      /\ IsFiniteSet(Results(t)) /\ Cardinality(Results(t)) \in Nat
  BY <1>1, ResultsCount
<1>3. Cardinality(rest) = Cardinality(Results(s)) - (IF 1 \in Results(s) THEN 1 ELSE 0)
  <2>1. Cardinality(rest) = IF 1 \in Results(s) THEN Cardinality(Results(s)) - 1
                            ELSE Cardinality(Results(s))
    BY <1>2, FS_RemoveElement
  <2> QED BY <1>2, <2>1
<1>4. 1 \in Results(s) <=> Head(s).type = "result"
  BY <1>1 DEF Results
<1>5. Cardinality(rest) = Cardinality(Results(t))
  <2> DEFINE f == [i \in Results(t) |-> i + 1]
  <2>1. \A i \in Results(t) : i \in Nat /\ i + 1 \in rest
    BY <1>1 DEF Results
  <2>2. \A j \in rest : j - 1 \in Results(t) /\ j = (j - 1) + 1
    <3> SUFFICES ASSUME NEW j \in rest PROVE j - 1 \in Results(t) /\ j = (j - 1) + 1
      OBVIOUS
    <3>1. j \in 1 .. Len(s) /\ j # 1 /\ s[j].type = "result"
      BY <1>1 DEF Results
    <3>2. j - 1 \in 1 .. Len(s) - 1 /\ j = (j - 1) + 1
      BY <1>1, <3>1
    <3> QED BY <1>1, <3>1, <3>2 DEF Results
  <2> HIDE DEF rest
  <2>3. f \in Injection(Results(t), rest)
    BY <2>1 DEF Injection, IsInjective
  <2>4. f \in Surjection(Results(t), rest)
    BY <2>1, <2>2 DEF Surjection
  <2>5. ExistsBijection(Results(t), rest)
    BY <2>3, <2>4 DEF ExistsBijection, Bijection
  <2> QED BY <1>2, <2>5, FS_Bijection
<1> HIDE DEF t, rest
<1> QED BY <1>3, <1>4, <1>5 DEF t

\* The count is kept, and a frame waits at the worker only behind another.
Counted ==
    /\ ~stopped => outstanding = InFlight
    /\ worker.pending # 0 => worker.rendering # 0

LEMMA InFlightParts ==
    ASSUME TypeOK
    PROVE  /\ Len(toWorker) \in Nat /\ Cardinality(Results(toPage)) \in Nat
           /\ AtWorker \in Nat /\ Awaited \in Nat
           /\ outstanding \in Nat /\ outstanding <= RingSize
           /\ toWorker = <<>> => Len(toWorker) = 0
           /\ toPage = <<>> => Cardinality(Results(toPage)) = 0
<1>1. toWorker \in Seq(Frames) /\ toPage \in Seq(Messages)
  BY DEF TypeOK
<1>2. Len(toWorker) \in Nat
  BY <1>1, LenProperties
<1>3. Cardinality(Results(toPage)) \in Nat
      /\ (toPage = <<>> => Cardinality(Results(toPage)) = 0)
  BY <1>1, ResultsCount
<1>4. AtWorker \in Nat /\ Awaited \in Nat
  BY DEF AtWorker, Awaited
<1>5. outstanding \in Nat /\ outstanding <= RingSize
  BY Bounds DEF TypeOK
<1> QED BY <1>1, <1>2, <1>3, <1>4, <1>5, EmptySeq

\* Nothing the count is made of changes.
LEMMA UntouchedCounts ==
    ASSUME Counted, UNCHANGED <<worker, toWorker, toPage>>,
           stopped => stopped',
           ~stopped => /\ outstanding' = outstanding
                       /\ capture = "render" <=> capture' = "render"
    PROVE  Counted'
<1>1. ~stopped => Awaited' = Awaited
  BY DEF Awaited
<1>2. AtWorker' = AtWorker
  BY DEF AtWorker
<1> QED BY <1>1, <1>2 DEF Counted, InFlight

\* A recovery forgets every frame: the count starts again at none.
LEMMA RecoverCounts ==
    ASSUME IInv, Counted, Recover, capture = "render" => capture' = "none",
           capture' \in {"none", capture}
    PROVE  Counted'
<1>1. /\ worker' = NoWorker /\ toWorker' = <<>> /\ toPage' = <<>> /\ outstanding' = 0
      /\ capture' # "render"
  BY DEF Recover, Ended, Cleared
<1>2. worker'.pending = 0 /\ worker'.rendering = 0
  BY <1>1 DEF NoWorker
<1>3. Len(toWorker') = 0 /\ Cardinality(Results(toPage')) = 0
  <2>1. toPage' \in Seq(Messages)
    BY <1>1, NothingSent
  <2> QED BY <1>1, <2>1, ResultsCount, EmptySeq
<1>4. AtWorker' = 0 /\ Awaited' = 0
  BY <1>1, <1>2 DEF AtWorker, Awaited
<1> QED BY <1>1, <1>2, <1>3, <1>4 DEF Counted, InFlight

LEMMA ReturnsCounts ==
    ASSUME IInv, Counted, RecoverReturns, UNCHANGED outstanding, UNCHANGED capture
    PROVE  Counted'
BY UntouchedCounts DEF RecoverReturns, channel

\* The page: a bitmap posted or awaited adds a frame, an answer takes one away.
LEMMA PageCounts ==
    ASSUME IInv, Counted,
           CapturePosted \/ CaptureWaits \/ RenderDone \/ HandleReady \/ HandleResult
    PROVE  Counted'
<1>1. TypeOK
  BY DEF IInv
<1>2. /\ Len(toWorker) \in Nat /\ Cardinality(Results(toPage)) \in Nat
      /\ AtWorker \in Nat /\ Awaited \in Nat /\ outstanding \in Nat
  BY <1>1, InFlightParts
<1>3. CASE CapturePosted
  <2>1. Len(toWorker') = Len(toWorker) + 1
    <3>1. frameId + 1 \in Frames /\ toWorker \in Seq(Frames)
      BY <1>3, Bounds DEF TypeOK, IInv, Phases, CapturePosted, Frames
    <3> QED BY <1>3, <3>1, AppendProperties DEF CapturePosted
  <2>2. /\ UNCHANGED <<worker, toPage, stopped>> /\ outstanding' = outstanding + 1
        /\ capture = "bitmap" /\ capture' = "none"
    BY <1>3 DEF CapturePosted
  <2>3. AtWorker' = AtWorker /\ Awaited' = Awaited
    BY <2>2 DEF AtWorker, Awaited
  <2> QED BY <1>2, <2>1, <2>2, <2>3 DEF Counted, InFlight
<1>4. CASE CaptureWaits
  <2>1. /\ UNCHANGED <<worker, toWorker, toPage, stopped>>
        /\ outstanding' = outstanding + 1 /\ capture = "bitmap" /\ capture' = "render"
    BY <1>4 DEF CaptureWaits, channel
  <2>2. AtWorker' = AtWorker /\ Awaited' = Awaited + 1
    BY <2>1 DEF AtWorker, Awaited
  <2> QED BY <1>2, <2>1, <2>2 DEF Counted, InFlight
<1>5. CASE RenderDone
  <2>1. /\ UNCHANGED <<worker, toWorker, toPage, stopped>>
        /\ outstanding' = outstanding - 1 /\ capture = "render" /\ capture' = "none"
    BY <1>5 DEF RenderDone, channel
  <2>2. AtWorker' = AtWorker /\ Awaited' = Awaited - 1
    BY <2>1 DEF AtWorker, Awaited
  <2> QED BY <1>2, <2>1, <2>2 DEF Counted, InFlight
<1>6. ASSUME toPage # <<>>, toPage' = Tail(toPage)
      PROVE  Cardinality(Results(toPage')) =
               Cardinality(Results(toPage)) - (IF Head(toPage).type = "result" THEN 1 ELSE 0)
  BY <1>1, <1>6, ResultsTail DEF TypeOK
<1>7. CASE HandleReady
  <2>1. Cardinality(Results(toPage')) = Cardinality(Results(toPage))
    BY <1>2, <1>6, <1>7 DEF HandleReady
  <2>2. UNCHANGED <<worker, toWorker, capture, stopped, outstanding>>
    BY <1>7 DEF HandleReady
  <2>3. AtWorker' = AtWorker /\ Awaited' = Awaited
    BY <2>2 DEF AtWorker, Awaited
  <2> QED BY <2>1, <2>2, <2>3 DEF Counted, InFlight
<1>8. CASE HandleResult
  <2>1. Cardinality(Results(toPage')) = Cardinality(Results(toPage)) - 1
    BY <1>2, <1>6, <1>8 DEF HandleResult
  <2>2. /\ UNCHANGED <<worker, toWorker, capture, stopped>>
        /\ outstanding' = IF outstanding = 0 THEN 0 ELSE outstanding - 1
    BY <1>8 DEF HandleResult
  <2>3. AtWorker' = AtWorker /\ Awaited' = Awaited
    BY <2>2 DEF AtWorker, Awaited
  <2>4. Cardinality(Results(toPage)) # 0
    <3>1. toPage \in Seq(Messages) /\ toPage # <<>>
      BY <1>1, <1>8 DEF HandleResult, TypeOK
    <3>2. toPage' \in Seq(Messages)
      BY <1>8, <3>1, HeadTailProperties DEF HandleResult
    <3>3. Cardinality(Results(toPage')) \in Nat
      BY <3>2, ResultsCount
    <3> QED BY <1>2, <2>1, <3>3
  <2> QED BY <1>2, <2>1, <2>2, <2>3, <2>4 DEF Counted, InFlight
<1> QED BY <1>3, <1>4, <1>5, <1>7, <1>8

\* The worker: a frame moves on, and leaves only as an answer.
LEMMA WorkerCounts ==
    ASSUME IInv, Counted, Worker
    PROVE  Counted'
<1>1. /\ TypeOK /\ toPage \in Seq(Messages)
      /\ worker \in [state : Kinds \cup {"none", "init", "failed"},
                     pending : 0 .. MaxFrames, rendering : 0 .. MaxFrames]
  BY DEF IInv, TypeOK
<1>2. /\ Len(toWorker) \in Nat /\ Cardinality(Results(toPage)) \in Nat
      /\ AtWorker \in Nat /\ Awaited \in Nat /\ outstanding \in Nat
  BY <1>1, InFlightParts
<1>3. UNCHANGED <<stopped, outstanding, capture>> /\ Awaited' = Awaited
  BY DEF Worker, WorkerReady, WorkerInitFails, WorkerTakes, WorkerDraws, bridge, Awaited
<1>4. CASE WorkerInitFails \/ \E kind \in Kinds : WorkerReady(kind)
  <2>1. PICK m \in Messages : m.type # "result" /\ toPage' = Append(toPage, m)
    <3>1. CASE WorkerInitFails
      BY <3>1 DEF WorkerInitFails, Messages
    <3>2. ASSUME NEW kind \in Kinds, WorkerReady(kind)
          PROVE  \E m \in Messages : m.type # "result" /\ toPage' = Append(toPage, m)
      BY <3>2 DEF WorkerReady, Messages
    <3> QED BY <1>4, <3>1, <3>2
  <2>2. Cardinality(Results(toPage')) = Cardinality(Results(toPage))
    BY <1>1, <1>2, <2>1, ResultsAppend
  <2>3. /\ UNCHANGED toWorker
        /\ worker'.pending = worker.pending /\ worker'.rendering = worker.rendering
    BY <1>1, <1>4 DEF WorkerInitFails, WorkerReady
  <2>4. AtWorker' = AtWorker
    BY <2>3 DEF AtWorker
  <2> QED BY <1>3, <2>2, <2>3, <2>4 DEF Counted, InFlight
<1>5. CASE WorkerTakes
  <2>1. Len(toWorker') = Len(toWorker) - 1 /\ Head(toWorker) \in Frames
    BY <1>1, <1>5, HeadTailProperties DEF WorkerTakes, TypeOK
  <2>2. Head(toWorker) # 0
    BY <2>1 DEF Frames
  <2>3. CASE worker.rendering = 0
    <3>1. /\ worker.pending = 0 /\ toPage' = toPage
          /\ worker'.rendering = Head(toWorker) /\ worker'.pending = worker.pending
      BY <1>1, <1>5, <2>3 DEF WorkerTakes, Counted
    <3>2. AtWorker' = AtWorker + 1
      BY <2>2, <2>3, <3>1 DEF AtWorker
    <3> QED BY <1>2, <1>3, <2>1, <2>2, <3>1, <3>2 DEF Counted, InFlight
  <2>4. CASE worker.rendering # 0 /\ worker.pending = 0
    <3>1. /\ toPage' = toPage
          /\ worker'.rendering = worker.rendering /\ worker'.pending = Head(toWorker)
      BY <1>1, <1>5, <2>4 DEF WorkerTakes
    <3>2. AtWorker' = AtWorker + 1
      BY <2>2, <2>4, <3>1 DEF AtWorker
    <3> QED BY <1>2, <1>3, <2>1, <2>4, <3>1, <3>2 DEF Counted, InFlight
  <2>5. CASE worker.rendering # 0 /\ worker.pending # 0
    <3>1. /\ toPage' = Append(toPage, Result(worker.pending, FALSE))
          /\ worker'.rendering = worker.rendering /\ worker'.pending = Head(toWorker)
      BY <1>1, <1>5, <2>5 DEF WorkerTakes
    <3>2. Result(worker.pending, FALSE) \in Messages
      BY <1>1, <2>5, Bounds DEF Result, Messages, Frames
    <3>3. Result(worker.pending, FALSE).type = "result"
      BY DEF Result
    <3>4. Cardinality(Results(toPage')) = Cardinality(Results(toPage)) + 1
      BY <1>1, <3>1, <3>2, <3>3, ResultsAppend
    <3>5. AtWorker' = AtWorker
      BY <2>2, <2>5, <3>1 DEF AtWorker
    <3>6. InFlight' = InFlight
      BY <1>2, <1>3, <2>1, <3>4, <3>5 DEF InFlight
    <3> QED BY <1>3, <2>5, <3>1, <3>6 DEF Counted
  <2> QED BY <2>3, <2>4, <2>5
<1>6. ASSUME NEW rendered \in BOOLEAN, WorkerDraws(rendered) PROVE Counted'
  <2> DEFINE answer == Result(worker.rendering, rendered)
             notice == [type |-> "failed"]
  <2>1. /\ worker.rendering # 0 /\ toPage' = toPage \o Answer(rendered)
        /\ worker'.rendering = worker.pending /\ worker'.pending = 0
        /\ UNCHANGED toWorker
    BY <1>1, <1>6 DEF WorkerDraws
  <2>2. answer \in Messages /\ answer.type = "result"
    BY <1>1, <2>1, Bounds DEF Result, Messages, Frames
  <2>3. notice \in Messages /\ notice.type # "result"
    BY DEF Messages
  <2>4. Answer(rendered) = IF rendered THEN <<answer>> ELSE <<answer, notice>>
    BY DEF Answer
  <2> HIDE DEF answer, notice
  <2>5. Append(toPage, answer) \in Seq(Messages)
    BY <1>1, <2>2
  <2>6. /\ toPage \o <<answer>> = Append(toPage, answer)
        /\ toPage \o <<answer, notice>> = Append(Append(toPage, answer), notice)
    BY <1>1, <2>2, <2>3
  <2>7. Cardinality(Results(Append(toPage, answer))) = Cardinality(Results(toPage)) + 1
    BY <1>1, <2>2, ResultsAppend
  <2>8. Cardinality(Results(toPage')) = Cardinality(Results(toPage)) + 1
    <3>1. CASE rendered
      BY <2>1, <2>4, <2>6, <2>7, <3>1
    <3>2. CASE ~rendered
      <4>1. toPage' = Append(Append(toPage, answer), notice)
        BY <2>1, <2>4, <2>6, <3>2
      <4> DEFINE first == Append(toPage, answer)
      <4>2. Cardinality(Results(Append(first, notice))) =
              Cardinality(Results(first)) + (IF notice.type = "result" THEN 1 ELSE 0)
        BY <2>3, <2>5, ResultsAppend
      <4> HIDE DEF first
      <4>3. Cardinality(Results(first)) = Cardinality(Results(toPage)) + 1
        BY <2>7 DEF first
      <4>4. toPage' = Append(first, notice)
        BY <4>1 DEF first
      <4> QED BY <1>2, <2>3, <4>2, <4>3, <4>4
    <3> QED BY <3>1, <3>2
  <2>9. AtWorker' = AtWorker - 1
    BY <2>1 DEF AtWorker
  <2> QED BY <1>2, <1>3, <2>1, <2>8, <2>9 DEF Counted, InFlight
<1> QED BY <1>4, <1>5, <1>6 DEF Worker

LEMMA CountedKept == IInv /\ Counted /\ [Next]_vars => Counted'
<1> SUFFICES ASSUME IInv, Counted, [Next]_vars PROVE Counted'
  OBVIOUS
<1>1. CASE \/ StartRenderer \/ CanvasMissing \/ Leave \/ CaptureBegin \/ CaptureDropped
           \/ CaptureDrawn \/ RetryReady \/ RetryFails \/ Closed \/ UNCHANGED vars
           \/ \E kind \in Kinds : DirectReady(kind)
  BY <1>1, UntouchedCounts DEF StartRenderer, CanvasMissing, Leave, CaptureBegin,
     CaptureDropped, CaptureDrawn, RetryReady, RetryFails, Closed, DirectReady,
     page, bridge, channel, vars
<1>2. CASE Attach
  <2>1. worker.pending = 0 /\ worker.rendering = 0
    BY <1>2 DEF Attach, IInv, Unattached, NoWorker
  <2>2. worker'.pending = 0 /\ worker'.rendering = 0
    BY <1>2, <2>1 DEF Attach, NoWorker
  <2>3. AtWorker' = AtWorker /\ Awaited' = Awaited
    BY <1>2, <2>1, <2>2 DEF Attach, AtWorker, Awaited
  <2> QED BY <1>2, <2>1, <2>2, <2>3 DEF Attach, Counted, InFlight
<1>3. CASE Stop
  BY <1>3 DEF Stop, Counted, NoWorker
<1>4. CASE HandleFailed
  <2>1. worker.state # "none" /\ backend = "none" /\ ~stopped
    BY <1>4 DEF HandleFailed, IInv, WorkerAlone
  <2>2. capture # "render"
    BY <2>1 DEF IInv, WorkerAlone, Phases
  <2> QED BY <1>4, <2>2, RecoverCounts DEF HandleFailed, IInv, TypeOK
<1>5. CASE InitTimeout \/ DirectFails
  <2>1. CASE Recover
    <3>1. capture = "none"
      BY <1>5, <2>1 DEF InitTimeout, DirectFails, Recover, IInv, Phases
    <3> QED BY <1>5, <2>1, <3>1, RecoverCounts DEF InitTimeout, DirectFails
  <2>2. CASE RecoverReturns /\ UNCHANGED outstanding
    BY <1>5, <2>2, ReturnsCounts DEF InitTimeout, DirectFails
  <2> QED BY <1>5, <2>1, <2>2 DEF InitTimeout, DirectFails
<1>6. CASE CaptureFails
  <2>1. CASE Recover
    BY <1>6, <2>1, RecoverCounts DEF CaptureFails
  <2>2. CASE RecoverReturns /\ ~Recover
    <3>1. capture = "render" => stopped
      BY <2>2 DEF RecoverReturns, IInv, Phases
    <3> QED BY <1>6, <2>2, <3>1, UntouchedCounts DEF CaptureFails, RecoverReturns, channel
  <2> QED BY <1>6, <2>1, <2>2 DEF CaptureFails
<1>7. CASE CapturePosted \/ CaptureWaits \/ RenderDone \/ HandleReady \/ HandleResult
  BY <1>7, PageCounts
<1>8. CASE Worker
  BY <1>8, WorkerCounts
<1> QED BY <1>1, <1>2, <1>3, <1>4, <1>5, <1>6, <1>7, <1>8
        DEF Next, Session, Leaving, Starting, Capturing

\* The bridge's count of outstanding frames is the number of frames really in
\* flight, through failures and recovery, so that the ring never jams or
\* overflows, and a ring of two never has a waiting frame replaced.
THEOREM CountIsExact == Spec => []OutstandingExact
<1>1. Init => Counted
  <2> SUFFICES ASSUME Init PROVE Counted
    OBVIOUS
  <2>1. worker.pending = 0 /\ worker.rendering = 0
    BY DEF Init, NoWorker
  <2>2. IInv
    BY Initially
  <2>3. AtWorker = 0 /\ Awaited = 0
    BY <2>1 DEF Init, AtWorker, Awaited
  <2>4. Len(toWorker) = 0 /\ Cardinality(Results(toPage)) = 0
    BY <2>2, InFlightParts DEF Init, IInv
  <2> QED BY <2>1, <2>3, <2>4 DEF Init, Counted, InFlight
<1>2. IInv /\ Counted /\ [Next]_vars => Counted'
  BY CountedKept
<1>3. IInv /\ Counted => OutstandingExact
  <2> SUFFICES ASSUME IInv, Counted, ~stopped
               PROVE  /\ outstanding = InFlight /\ InFlight <= RingSize
                      /\ (worker.pending # 0 /\ RingSize = 2 => toWorker = <<>>)
    BY DEF OutstandingExact
  <2>0. TypeOK
    BY DEF IInv
  <2>1. outstanding = InFlight /\ InFlight <= RingSize
    BY <2>0, InFlightParts DEF Counted
  <2>2. ASSUME worker.pending # 0, RingSize = 2 PROVE toWorker = <<>>
    <3>1. worker.rendering # 0
      BY <2>2 DEF Counted
    <3>2. AtWorker = 2
      BY <2>2, <3>1 DEF AtWorker
    <3>3. Len(toWorker) = 0
      BY <2>0, <2>1, <2>2, <3>2, InFlightParts DEF InFlight
    <3> QED BY <2>0, <3>3, EmptySeq DEF TypeOK
  <2> QED BY <2>1, <2>2
<1> QED BY <1>1, <1>2, <1>3, Invariant, PTL DEF Spec
-----------------------------------------------------------------------------
(* The battery save: a chain of inclusions, from IndexedDB to the file and   *)
(* from the file to the core.                                               *)

\* While the restore has looked and found, the file holds IndexedDB's saves,
\* and the core the file's.
Chain ==
    restore \in {"hash", "done"} /\ ~rolled =>
        /\ Content(disk) \subseteq Content(file)
        /\ Content(file) \subseteq core

\* A flush that is alone finds its save in the file still, and in the core.
Taken ==
    \A f \in Flushers : flush[f].at # "idle" /\ flush[f].alone =>
        /\ flush[f].save \subseteq Content(file)
        /\ flush[f].save \subseteq core

FlushSteps == [at : {"idle", "hash", "sync"}, save : Saves, alone : BOOLEAN]
BatteryIInv == BatteryTypeOK /\ Chain /\ Taken

LEMMA FlushersKnown == "timer" \in Flushers /\ "exit" \in Flushers /\ "hide" \in Flushers
  BY FlushersAssumption

LEMMA FilesAndSaves ==
  /\ \A s \in Saves : s \in Files /\ Content(s) = s /\ s # Absent
  /\ \A x \in Files : Content(x) \in Saves
  /\ Content(Absent) = {} /\ {} \in Saves /\ Absent \in Files
<1>1. \A s \in Saves : s # Absent
  BY DEF Saves, Absent
<1>2. {} \in Saves
  BY DEF Saves
<1> QED
  BY <1>1, <1>2 DEF Files, Content

\* A flush that begins keeps the invariant: the file is the core's save.
LEMMA BeginSafe ==
  ASSUME BatteryIInv, NEW g \in Flushers, FlushBegin(g),
         UNCHANGED <<core, restore, rolled, disk>>
  PROVE  /\ file' \in Files /\ flush' \in [Flushers -> FlushSteps]
         /\ Chain' /\ Taken'
<1>1. core \in Saves /\ flush \in [Flushers -> FlushSteps]
  BY DEF BatteryIInv, BatteryTypeOK, FlushSteps
<1>2. file' = core /\ flush' = [flush EXCEPT ![g] = FlushFrom]
  BY DEF FlushBegin
<1>3. file' \in Files /\ Content(file') = core
  BY <1>1, <1>2, FilesAndSaves
<1>4. FlushFrom \in FlushSteps /\ FlushFrom.save = core
  BY <1>1 DEF FlushFrom, FlushSteps
<1>5. flush' \in [Flushers -> FlushSteps]
  BY <1>1, <1>2, <1>4
<1>6. \A f \in Flushers : flush'[f] = IF f = g THEN FlushFrom ELSE flush[f]
  BY <1>1, <1>2
<1>7. Chain'
  BY <1>3 DEF BatteryIInv, Chain, Content
<1>8. Taken'
  BY <1>3, <1>4, <1>6 DEF BatteryIInv, Taken
<1> QED
  BY <1>3, <1>5, <1>7, <1>8

\* After the file is replaced no flush is alone.
LEMMA DisturbedSafe ==
  ASSUME BatteryIInv, flush' = Disturbed
  PROVE  flush' \in [Flushers -> FlushSteps] /\ Taken'
<1>1. flush \in [Flushers -> FlushSteps]
  BY DEF BatteryIInv, BatteryTypeOK, FlushSteps
<1>2. Idle \in FlushSteps /\ Idle.at = "idle"
  BY FilesAndSaves DEF Idle, FlushSteps
<1>3. \A f \in Flushers : [flush[f] EXCEPT !.alone = FALSE] \in FlushSteps
  BY <1>1 DEF FlushSteps
<1>4. flush' \in [Flushers -> FlushSteps]
  BY <1>1, <1>2, <1>3 DEF Disturbed
<1>5. \A f \in Flushers : flush'[f].at = "idle" \/ ~flush'[f].alone
  BY <1>1, <1>2 DEF Disturbed, FlushSteps
<1> QED
  BY <1>4, <1>5 DEF Taken

\* A flush that goes on, or ends, leaves the others as they are.
LEMMA OneFlush ==
  ASSUME BatteryIInv, NEW g \in Flushers, UNCHANGED <<core, file>>,
         \/ flush' = [flush EXCEPT ![g].at = "sync"] /\ flush[g].at = "hash"
         \/ flush' = [flush EXCEPT ![g] = Idle]
  PROVE  flush' \in [Flushers -> FlushSteps] /\ Taken'
<1>1. flush \in [Flushers -> FlushSteps]
  BY DEF BatteryIInv, BatteryTypeOK, FlushSteps
<1>2. Idle \in FlushSteps /\ Idle.at = "idle"
  BY FilesAndSaves DEF Idle, FlushSteps
<1>3. flush' \in [Flushers -> FlushSteps]
  BY <1>1, <1>2 DEF FlushSteps
<1>4. \A f \in Flushers : flush'[f].at # "idle" =>
        /\ flush[f].at # "idle"
        /\ flush'[f].save = flush[f].save /\ flush'[f].alone = flush[f].alone
  BY <1>1, <1>2 DEF FlushSteps
<1> QED
  BY <1>3, <1>4 DEF BatteryIInv, Taken, Content

LEMMA BatteryStarts ==
  ASSUME BatteryInit
  PROVE  BatteryIInv
<1>1. Idle \in FlushSteps /\ Idle.at = "idle"
  BY FilesAndSaves DEF Idle, FlushSteps
<1>2. BatteryTypeOK
  <2>1. flush \in [Flushers -> FlushSteps]
    BY <1>1 DEF BatteryInit
  <2>2. /\ disk \in Files /\ backup \in Files /\ core \in Saves
        /\ file \in Files /\ legacy \in Files
    BY FilesAndSaves DEF BatteryInit
  <2>3. visits \in 0 .. MaxVisits /\ made \in 0 .. MaxSaves
    BY BoundsAssumption DEF BatteryInit
  <2> QED
    BY <2>1, <2>2, <2>3 DEF BatteryInit, BatteryTypeOK, FlushSteps
<1>3. Chain /\ Taken
  BY <1>1, FilesAndSaves DEF BatteryInit, Chain, Taken
<1> QED
  BY <1>2, <1>3 DEF BatteryIInv

LEMMA BatteryStep ==
  ASSUME BatteryIInv, [BatteryNext]_batteryVars
  PROVE  BatteryIInv'
<1> USE BoundsAssumption, FilesAndSaves
    DEF batteryVars, stores, memory, restoring, life
<1>0. /\ BatteryTypeOK /\ Chain /\ Taken
      /\ flush \in [Flushers -> FlushSteps]
  BY DEF BatteryIInv, BatteryTypeOK, FlushSteps
<1>1. CASE Open
  <2>1. BatteryTypeOK'
    BY <1>0, <1>1 DEF Open, BatteryTypeOK
  <2> QED
    BY <1>0, <1>1, <2>1 DEF Open, BatteryIInv, Chain, Taken, Content
<1>2. CASE GameStart
  <2>1. BatteryTypeOK'
    BY <1>0, <1>2 DEF GameStart, BatteryTypeOK
  <2> QED
    BY <1>0, <1>2, <2>1 DEF GameStart, BatteryIInv, Chain, Taken, Content
<1>3. CASE GameSaves
  <2>1. core' = core \cup {made + 1} /\ core' \in Saves /\ made' \in 0 .. MaxSaves
    BY <1>0, <1>3 DEF GameSaves, BatteryTypeOK, Saves
  <2>2. BatteryTypeOK'
    BY <1>0, <1>3, <2>1 DEF GameSaves, BatteryTypeOK
  <2> QED
    BY <1>0, <1>3, <2>1, <2>2 DEF GameSaves, BatteryIInv, Chain, Taken, Content
<1>4. CASE LoadState
  <2>1. core' \in Saves
    BY <1>0, <1>4 DEF LoadState, BatteryTypeOK, Saves
  <2>2. flush' \in [Flushers -> FlushSteps] /\ Taken'
    BY <1>4, DisturbedSafe DEF LoadState
  <2>3. BatteryTypeOK'
    BY <1>0, <1>4, <2>1, <2>2 DEF LoadState, BatteryTypeOK, FlushSteps
  <2> QED
    BY <1>4, <2>2, <2>3 DEF LoadState, BatteryIInv, Chain
<1>5. CASE Restoring
  <2>1. CASE PopulateEnds
    <3>1. CASE Refiled(disk)
      <4>1. file' = disk /\ flush' \in [Flushers -> FlushSteps] /\ Taken'
        BY <3>1, DisturbedSafe DEF Refiled
      <4>2. BatteryTypeOK'
        BY <1>0, <2>1, <4>1 DEF PopulateEnds, BatteryTypeOK, FlushSteps
      <4> QED
        BY <1>0, <2>1, <4>1, <4>2 DEF PopulateEnds, BatteryIInv, Chain, Content
    <3>2. CASE UNCHANGED <<file, flush>>
      <4>1. BatteryTypeOK'
        BY <1>0, <2>1, <3>2 DEF PopulateEnds, BatteryTypeOK
      <4> QED
        BY <1>0, <2>1, <3>2, <4>1 DEF PopulateEnds, BatteryIInv, Chain, Taken, Content
    <3> QED
      BY <2>1, <3>1, <3>2 DEF PopulateEnds
  <2>2. CASE RestorePopulated
    <3>1. file' = disk /\ flush' \in [Flushers -> FlushSteps] /\ Taken'
      BY <2>2, DisturbedSafe DEF RestorePopulated, Refiled
    <3>2. BatteryTypeOK'
      BY <1>0, <2>2, <3>1 DEF RestorePopulated, BatteryTypeOK, FlushSteps, Replayed
    <3>3. Chain'
      BY <1>0, <2>2, <3>1 DEF RestorePopulated, Chain, Content, Replayed
    <3> QED
      BY <3>1, <3>2, <3>3 DEF BatteryIInv
  <2>3. CASE RestoreVerified
    <3>1. file' = legacy /\ flush' \in [Flushers -> FlushSteps] /\ Taken'
      BY <2>3, DisturbedSafe DEF RestoreVerified, Refiled
    <3>2. BatteryTypeOK'
      BY <1>0, <2>3, <3>1 DEF RestoreVerified, BatteryTypeOK, FlushSteps
    <3> QED
      BY <2>3, <3>1, <3>2 DEF RestoreVerified, BatteryIInv, Chain
  <2>4. CASE RestoreNothing
    <3>1. core' = IF file = Absent THEN core ELSE Content(file)
      BY <2>4 DEF RestoreNothing, Replayed
    <3>2. BatteryTypeOK'
      BY <1>0, <2>4, <3>1 DEF RestoreNothing, BatteryTypeOK
    <3>3. Content(file) \subseteq core'
      BY <3>1
    <3>4. Chain' /\ Taken'
      BY <1>0, <2>4, <3>3 DEF RestoreNothing, Chain, Taken, Content
    <3> QED
      BY <3>2, <3>4 DEF BatteryIInv
  <2>5. CASE RestoreSynced
    <3>1. core' = Content(file) /\ disk' = file
      BY <2>5 DEF RestoreSynced, Replayed
    <3>2. BatteryTypeOK'
      BY <1>0, <2>5, <3>1 DEF RestoreSynced, BatteryTypeOK
    <3>3. Chain' /\ Taken'
      BY <1>0, <2>5, <3>1 DEF RestoreSynced, Chain, Taken, Content
    <3> QED
      BY <3>2, <3>3 DEF BatteryIInv
  <2>6. CASE RestoreFails
    <3>1. BatteryTypeOK'
      BY <1>0, <2>6 DEF RestoreFails, BatteryTypeOK
    <3> QED
      BY <1>0, <2>6, <3>1 DEF RestoreFails, BatteryIInv, Chain, Taken, Content
  <2> QED
    BY <1>5, <2>1, <2>2, <2>3, <2>4, <2>5, <2>6 DEF Restoring
<1>6. CASE TimerFlush
  <2>1. /\ file' \in Files /\ flush' \in [Flushers -> FlushSteps]
        /\ Chain' /\ Taken'
    BY <1>6, BeginSafe, FlushersKnown DEF TimerFlush
  <2> QED
    BY <1>0, <1>6, <2>1 DEF TimerFlush, BatteryIInv, BatteryTypeOK, FlushSteps
<1>7. CASE Flushing
  <2>1. PICK f \in Flushers : BackupWritten(f) \/ FlushSynced(f) \/ FlushFails(f)
    BY <1>7 DEF Flushing
  <2>2. flush' \in [Flushers -> FlushSteps] /\ Taken'
    BY <2>1, OneFlush DEF BackupWritten, FlushSynced, FlushFails
  <2>3. CASE BackupWritten(f)
    <3>1. backup' \in Files
      BY <1>0, <2>3 DEF BackupWritten, BatteryTypeOK, FlushSteps
    <3>2. BatteryTypeOK'
      BY <1>0, <2>2, <2>3, <3>1 DEF BackupWritten, BatteryTypeOK, FlushSteps
    <3> QED
      BY <1>0, <2>2, <2>3, <3>2 DEF BackupWritten, BatteryIInv, Chain, Content
  <2>4. CASE FlushSynced(f)
    <3>1. BatteryTypeOK'
      BY <1>0, <2>2, <2>4 DEF FlushSynced, Synced, BatteryTypeOK, FlushSteps
    <3> QED
      BY <1>0, <2>2, <2>4, <3>1 DEF FlushSynced, Synced, BatteryIInv, Chain, Content
  <2>5. CASE FlushFails(f)
    <3>1. BatteryTypeOK'
      BY <1>0, <2>2, <2>5 DEF FlushFails, BatteryTypeOK, FlushSteps
    <3> QED
      BY <1>0, <2>2, <2>5, <3>1 DEF FlushFails, BatteryIInv, Chain, Content
  <2> QED
    BY <2>1, <2>3, <2>4, <2>5
<1>8. CASE Exit \/ PageHide
  <2>1. /\ file' \in Files /\ flush' \in [Flushers -> FlushSteps]
        /\ Chain' /\ Taken'
    BY <1>8, BeginSafe, FlushersKnown DEF Exit, PageHide
  <2> QED
    BY <1>0, <1>8, <2>1 DEF Exit, PageHide, BatteryIInv, BatteryTypeOK, FlushSteps
<1>9. CASE Unload \/ Crash
  <2>1. Gone
    BY <1>9 DEF Unload, Crash
  <2>2. flush' = [f \in Flushers |-> Idle] /\ Idle \in FlushSteps /\ Idle.at = "idle"
    BY <2>1 DEF Gone, Idle, FlushSteps
  <2>3. BatteryTypeOK'
    BY <1>0, <2>1, <2>2 DEF Gone, BatteryTypeOK, FlushSteps
  <2> QED
    BY <2>1, <2>2, <2>3 DEF Gone, BatteryIInv, Chain, Taken
<1>10. CASE TabsEnded \/ UNCHANGED batteryVars
  BY <1>0, <1>10 DEF TabsEnded, BatteryIInv, BatteryTypeOK, Chain, Taken, Content
<1> QED
  BY <1>1, <1>2, <1>3, <1>4, <1>5, <1>6, <1>7, <1>8, <1>9, <1>10 DEF BatteryNext

LEMMA BatteryInvariance == BatterySpec => []BatteryIInv
<1>1. BatteryInit => BatteryIInv
  BY BatteryStarts
<1>2. BatteryIInv /\ [BatteryNext]_batteryVars => BatteryIInv'
  BY BatteryStep
<1> QED
  BY <1>1, <1>2, PTL DEF BatterySpec

\* The type invariant of the battery save, for every bound.
THEOREM BatteryTypeCorrect == BatterySpec => []BatteryTypeOK
<1>1. BatteryIInv => BatteryTypeOK
  BY DEF BatteryIInv
<1> QED
  BY BatteryInvariance, <1>1, PTL DEF BatterySpec

\* IndexedDB keeps every save of the game once the restore has ended well.
THEOREM DiskNeverShrinks == BatterySpec => DiskGrows
<1>1. BatteryIInv /\ [BatteryNext]_batteryVars =>
        [restore = "done" /\ ~rolled =>
           Content(disk) \subseteq Content(disk')]_batteryVars
  <2> SUFFICES ASSUME BatteryIInv, BatteryNext, restore = "done", ~rolled
               PROVE  Content(disk) \subseteq Content(disk')
    OBVIOUS
  <2>1. disk' = disk \/ disk' = file
    BY DEF BatteryNext, Open, GameStart, GameSaves, LoadState, Restoring, PopulateEnds,
           RestorePopulated, RestoreVerified, RestoreNothing, RestoreSynced,
           RestoreFails, TimerFlush, Flushing, BackupWritten, FlushSynced,
           FlushFails, Synced, Exit, PageHide, Unload, Crash, Gone, TabsEnded,
           batteryVars, stores
  <2> QED
    BY <2>1 DEF BatteryIInv, Chain, Content
<1> QED
  BY BatteryInvariance, <1>1, PTL DEF BatterySpec, DiskGrows

\* A flush that succeeds and was alone with the file has stored its save.
THEOREM FlushStoresItsSave == BatterySpec => FlushPersists
<1>1. BatteryIInv => [\A f \in Flushers :
                 FlushSynced(f) /\ flush[f].alone =>
                   flush[f].save \subseteq Content(disk')]_batteryVars
  BY DEF BatteryIInv, Taken, FlushSynced, Synced, Content
<1> QED
  BY BatteryInvariance, <1>1, PTL DEF BatterySpec, FlushPersists
================================================================================
