--------------------------- MODULE RendererBridge ---------------------------
(***************************************************************************)
(* The browser presentation path: EmulatorSession.startVideoRenderer waits  *)
(* for the canvas of the emulator and attaches a RendererBridge, which       *)
(* copies finished frames into bitmaps and has them drawn on a canvas above, *)
(* by a worker when the browser can transfer canvases and on the page        *)
(* otherwise.  The emulator's canvas, the source, is hidden only once a      *)
(* frame was drawn above it.  A failing renderer is replaced once by WebGL2  *)
(* on the page; a second failure leaves the source alone on the screen.      *)
(* The page and the worker exchange messages; every await is a place where   *)
(* other tasks of the page run.                                             *)
(***************************************************************************)
EXTENDS Naturals, Sequences, FiniteSets

CONSTANTS
    RingSize,   \* FRAME_RING_SIZE
    MaxFrames   \* bound: frames the bridge captures

ASSUME RingAssumption == RingSize \in Nat \ {0}
ASSUME FramesAssumption == MaxFrames \in Nat

VARIABLES
    session,      \* startVideoRenderer: idle, waiting, attached, absent
    left,         \* the pagehide handler has stopped the session
    transfers,    \* the browser transfers canvases to workers
    task,         \* what start() or recoverWebGL2() awaits
    active, stopped, retried,   \* fields of the bridge (webgl2Retried)
    backend,      \* backend on the page: none, webgpu, webgl2
    target,       \* number of the canvas above the source, 0 when removed
    hidden,       \* the source's opacity is 0
    outstanding, frameId,       \* fields of the bridge
    capture,      \* captureLatestFrame: none, awaiting bitmap, awaiting render
    effective,    \* status.effective, as VideoBackend.update keeps it
    worker,       \* the worker: state, pending and rendering frame
    toWorker,     \* frames posted and not received
    toPage,       \* messages of the worker not received
    drawn         \* the frame on the target, 0 when none

bridge == <<active, stopped, retried, backend, target, hidden, outstanding, frameId>>
channel == <<worker, toWorker, toPage>>
page == <<session, left, transfers>>
vars == <<page, task, bridge, capture, effective, channel, drawn>>

Kinds  == {"webgpu", "webgl2"}
Frames == 1 .. MaxFrames
NoWorker == [state |-> "none", pending |-> 0, rendering |-> 0]

Messages ==
    [type : {"ready"}, kind : Kinds] \cup [type : {"failed"}]
        \cup [type : {"result"}, frame : Frames, rendered : BOOLEAN]

TypeOK ==
    /\ session \in {"idle", "waiting", "attached", "absent"}
    /\ task \in {"none", "worker", "direct", "retry", "done"}
    /\ left \in BOOLEAN /\ transfers \in BOOLEAN /\ active \in BOOLEAN
    /\ stopped \in BOOLEAN /\ retried \in BOOLEAN /\ hidden \in BOOLEAN
    /\ backend \in Kinds \cup {"none"}
    /\ target \in 0 .. 2
    /\ outstanding \in 0 .. RingSize /\ frameId \in 0 .. MaxFrames
    /\ capture \in {"none", "bitmap", "render"}
    /\ effective \in Kinds \cup {"pending", "external"}
    /\ worker \in [state : Kinds \cup {"none", "init", "failed"},
                   pending : 0 .. MaxFrames, rendering : 0 .. MaxFrames]
    /\ toWorker \in Seq(Frames) /\ toPage \in Seq(Messages)
    /\ drawn \in 0 .. MaxFrames

Init ==
    /\ session = "idle" /\ left = FALSE /\ transfers \in BOOLEAN
    /\ task = "none"
    /\ active = FALSE /\ stopped = FALSE /\ retried = FALSE
    /\ backend = "none" /\ target = 0 /\ hidden = FALSE
    /\ outstanding = 0 /\ frameId = 0
    /\ capture = "none" /\ effective = "pending"
    /\ worker = NoWorker /\ toWorker = <<>> /\ toPage = <<>>
    /\ drawn = 0
-----------------------------------------------------------------------------
(* The session *)

\* startVideoRenderer, once the core has booted: waits for the source.
StartRenderer ==
    /\ session = "idle"
    /\ session' = "waiting"
    /\ UNCHANGED <<left, transfers, task, bridge, capture, effective, channel, drawn>>

\* The source did not appear in 120 frames.
CanvasMissing ==
    /\ session = "waiting"
    /\ session' = "absent" /\ effective' = "external"
    /\ UNCHANGED <<left, transfers, task, bridge, capture, channel, drawn>>

\* VideoBackend.attach makes the bridge, and start() runs to its first await.
Attach ==
    /\ session = "waiting"
    /\ session' = "attached" /\ target' = 1
    /\ task' = IF transfers THEN "worker" ELSE "direct"
    /\ worker' = IF transfers THEN [NoWorker EXCEPT !.state = "init"] ELSE worker
    /\ UNCHANGED <<left, transfers, active, stopped, retried, backend, hidden,
                   outstanding, frameId, capture, effective, toWorker, toPage, drawn>>

\* EmulatorSession.stop after pagehide: there may be no bridge yet.
Leave ==
    /\ ~left /\ left' = TRUE
    /\ session # "attached"
    /\ UNCHANGED <<session, transfers, task, bridge, capture, effective, channel, drawn>>

\* RendererBridge.stop.
Stop ==
    /\ ~left /\ left' = TRUE
    /\ session = "attached"
    /\ stopped' = TRUE /\ active' = FALSE
    /\ worker' = NoWorker /\ toWorker' = <<>> /\ toPage' = <<>>
    /\ backend' = "none" /\ target' = 0 /\ hidden' = FALSE /\ drawn' = 0
    /\ UNCHANGED <<session, transfers, task, retried, outstanding, frameId,
                   capture, effective>>
-----------------------------------------------------------------------------
(* Recovery *)

\* Mutants: of Restored, recovery leaves the source hidden; of Ended, the old
\* worker goes on; of Cleared, the count of frames in flight is kept.
RestoredLate == hidden
EndedNot == worker
ClearedNot == outstanding
Restored == FALSE
Ended == NoWorker
Cleared == 0

\* recoverWebGL2 up to its await: what was drawing is let go, and WebGL2 is
\* tried on a new canvas, unless it already was.
Recover ==
    /\ ~stopped /\ task # "retry"
    /\ active' = FALSE /\ backend' = "none" /\ outstanding' = Cleared
    /\ worker' = Ended /\ toWorker' = <<>> /\ toPage' = <<>>
    /\ hidden' = Restored /\ drawn' = 0
    /\ IF retried
       THEN /\ task' = "done" /\ target' = 0 /\ effective' = "external"
            /\ UNCHANGED retried
       ELSE task' = "retry" /\ target' = 2 /\ retried' = TRUE /\ UNCHANGED effective
    /\ UNCHANGED <<stopped, frameId, page>>

\* recoverWebGL2 on a stopped bridge, or while it is recovering, returns; a
\* start() that called it is over.
RecoverReturns ==
    /\ stopped \/ task = "retry"
    /\ task' = IF task = "retry" THEN "retry" ELSE "done"
    /\ UNCHANGED <<active, stopped, retried, backend, target, hidden, frameId,
                   effective, channel, drawn, page>>

\* The retry drew up a WebGL2 backend.
RetryReady ==
    /\ task = "retry" /\ task' = "done"
    /\ IF stopped
       THEN target' = 0 /\ UNCHANGED <<backend, active, effective>>
       ELSE /\ backend' = "webgl2" /\ active' = TRUE /\ effective' = "webgl2"
            /\ UNCHANGED target
    /\ UNCHANGED <<page, stopped, retried, hidden, outstanding, frameId, capture,
                   channel, drawn>>

\* The retry failed: the source is left as it is.
RetryFails ==
    /\ task = "retry" /\ task' = "done"
    /\ target' = 0 /\ effective' = "external"
    /\ UNCHANGED <<page, active, stopped, retried, backend, hidden, outstanding,
                   frameId, capture, channel, drawn>>
-----------------------------------------------------------------------------
(* Start *)

\* The worker's ready message resolves start().
HandleReady ==
    /\ toPage # <<>> /\ Head(toPage).type = "ready"
    /\ toPage' = Tail(toPage)
    /\ active' = TRUE /\ effective' = Head(toPage).kind /\ task' = "done"
    /\ UNCHANGED <<page, stopped, retried, backend, target, hidden, outstanding,
                   frameId, capture, worker, toWorker, drawn>>

\* A worker that fails, before ready or after it, is replaced.
HandleFailed ==
    /\ toPage # <<>> /\ Head(toPage).type = "failed"
    /\ Recover /\ UNCHANGED capture

\* No ready message within ten seconds.
InitTimeout ==
    /\ task = "worker"
    /\ Recover \/ (RecoverReturns /\ UNCHANGED outstanding)
    /\ UNCHANGED capture

\* start() on the page: its backend is there, whether or not the bridge was
\* stopped meanwhile.
DirectReady(kind) ==
    /\ task = "direct" /\ task' = "done"
    /\ backend' = kind /\ active' = TRUE /\ effective' = kind
    /\ UNCHANGED <<page, stopped, retried, target, hidden, outstanding, frameId,
                   capture, channel, drawn>>

DirectFails ==
    /\ task = "direct"
    /\ Recover \/ (RecoverReturns /\ UNCHANGED outstanding)
    /\ UNCHANGED capture
-----------------------------------------------------------------------------
(* Frames *)

\* A worker may have RingSize frames in flight, a backend on the page one.
Room == IF backend = "none" THEN outstanding < RingSize ELSE outstanding = 0

\* captureLatestFrame up to createImageBitmap, from the animation frame.
CaptureBegin ==
    /\ active /\ ~stopped /\ capture = "none" /\ Room
    /\ frameId < MaxFrames
    /\ capture' = "bitmap"
    /\ UNCHANGED <<page, task, bridge, effective, channel, drawn>>

\* The bitmap came when nothing draws any more: it is closed.
CaptureDropped ==
    /\ capture = "bitmap" /\ capture' = "none"
    /\ ~active \/ stopped
    /\ UNCHANGED <<page, task, bridge, effective, channel, drawn>>

\* The bitmap is posted to the worker.
CapturePosted ==
    /\ capture = "bitmap" /\ capture' = "none"
    /\ active /\ ~stopped /\ worker.state # "none"
    /\ frameId' = frameId + 1 /\ outstanding' = outstanding + 1
    /\ toWorker' = Append(toWorker, frameId + 1)
    /\ UNCHANGED <<page, task, active, stopped, retried, backend, target, hidden,
                   effective, worker, toPage, drawn>>

\* Of the backends, WebGPU's render waits: for the validation of its first
\* frame or of a new size.
MayWait(kind) == kind = "webgpu"

\* The page awaits a render.
CaptureWaits ==
    /\ capture = "bitmap" /\ capture' = "render"
    /\ active /\ ~stopped /\ MayWait(backend)
    /\ frameId' = frameId + 1 /\ outstanding' = outstanding + 1
    /\ UNCHANGED <<page, task, active, stopped, retried, backend, target, hidden,
                   effective, channel, drawn>>

\* Drawing on the page without a wait.
CaptureDrawn ==
    /\ capture = "bitmap" /\ capture' = "none"
    /\ active /\ ~stopped /\ backend # "none"
    /\ frameId' = frameId + 1
    /\ hidden' = TRUE /\ drawn' = frameId + 1
    /\ UNCHANGED <<page, task, active, stopped, retried, backend, target,
                   outstanding, effective, channel>>

\* The awaited render is done: the source is hidden, even on a stopped bridge.
RenderDone ==
    /\ capture = "render" /\ capture' = "none"
    /\ hidden' = TRUE /\ outstanding' = outstanding - 1
    /\ drawn' = IF stopped THEN 0 ELSE frameId
    /\ UNCHANGED <<page, task, active, stopped, retried, backend, target, frameId,
                   effective, channel>>

\* createImageBitmap or the render failed.
CaptureFails ==
    /\ capture # "none" /\ capture' = "none"
    /\ \/ Recover
       \/ /\ RecoverReturns
          /\ outstanding' = IF capture = "render" THEN outstanding - 1 ELSE outstanding

\* A frame came back from the worker.
HandleResult ==
    /\ toPage # <<>> /\ Head(toPage).type = "result"
    /\ toPage' = Tail(toPage)
    /\ outstanding' = IF outstanding = 0 THEN 0 ELSE outstanding - 1
    /\ hidden' = (hidden \/ Head(toPage).rendered)
    /\ UNCHANGED <<page, task, active, stopped, retried, backend, target, frameId,
                   capture, effective, worker, toWorker, drawn>>
-----------------------------------------------------------------------------
(* The worker *)

WorkerReady(kind) ==
    /\ worker.state = "init"
    /\ worker' = [worker EXCEPT !.state = kind]
    /\ toPage' = Append(toPage, [type |-> "ready", kind |-> kind])
    /\ UNCHANGED <<page, task, bridge, capture, effective, toWorker, drawn>>

\* No backend, or the script of the worker failed.
WorkerInitFails ==
    /\ worker.state = "init"
    /\ worker' = [worker EXCEPT !.state = "failed"]
    /\ toPage' = Append(toPage, [type |-> "failed"])
    /\ UNCHANGED <<page, task, bridge, capture, effective, toWorker, drawn>>

Result(frame, rendered) == [type |-> "result", frame |-> frame, rendered |-> rendered]

\* A frame arrives: drawing starts, or it waits and replaces the waiting one.
WorkerTakes ==
    /\ toWorker # <<>> /\ worker.state \in Kinds
    /\ toWorker' = Tail(toWorker)
    /\ worker' = IF worker.rendering = 0
                 THEN [worker EXCEPT !.rendering = Head(toWorker)]
                 ELSE [worker EXCEPT !.pending = Head(toWorker)]
    /\ toPage' = IF worker.pending = 0 THEN toPage
                 ELSE Append(toPage, Result(worker.pending, FALSE))
    /\ UNCHANGED <<page, task, bridge, capture, effective, drawn>>

\* Mutant of Answer: a frame that failed is not answered.
AnswerSuccessOnly(rendered) ==
    IF rendered THEN <<Result(worker.rendering, TRUE)>> ELSE <<[type |-> "failed"]>>
Answer(rendered) ==
    IF rendered THEN <<Result(worker.rendering, TRUE)>>
    ELSE <<Result(worker.rendering, FALSE), [type |-> "failed"]>>

\* drain: the frame is drawn, or render threw; the waiting one is next.
WorkerDraws(rendered) ==
    /\ worker.rendering # 0
    /\ toPage' = toPage \o Answer(rendered)
    /\ worker' = [worker EXCEPT !.rendering = worker.pending, !.pending = 0]
    /\ drawn' = IF rendered THEN worker.rendering ELSE drawn
    /\ UNCHANGED <<page, task, bridge, capture, effective, toWorker>>
-----------------------------------------------------------------------------
Waiting == task \in {"worker", "direct", "retry"} \/ capture # "none"

\* The page is left and nothing is under way.
Closed ==
    /\ left /\ ~Waiting /\ session \in {"attached", "absent"}
    /\ stopped \/ ~active \/ frameId = MaxFrames
    /\ worker.rendering = 0 /\ toWorker = <<>> /\ toPage = <<>>
    /\ UNCHANGED vars

Session == StartRenderer \/ CanvasMissing \/ Attach
Leaving == Leave \/ Stop
Starting == \/ HandleReady \/ HandleFailed \/ InitTimeout \/ DirectFails
            \/ RetryReady \/ RetryFails
            \/ \E kind \in Kinds : DirectReady(kind)
Capturing == CaptureDropped \/ CapturePosted \/ CaptureWaits \/ CaptureDrawn
             \/ RenderDone \/ CaptureFails
Worker == \/ \E kind \in Kinds : WorkerReady(kind)
          \/ WorkerInitFails \/ WorkerTakes
          \/ \E rendered \in BOOLEAN : WorkerDraws(rendered)

Next == \/ Session \/ Leaving \/ Starting \/ CaptureBegin \/ Capturing
        \/ HandleResult \/ Worker \/ Closed

\* The event loop runs every task that is ready, animation frames come while
\* the page is visible, and promises of the browser settle.  A worker need not
\* ever answer its init message: the timer is there for that.
Fairness ==
    /\ WF_vars(Session) /\ WF_vars(Starting) /\ WF_vars(HandleResult)
    /\ WF_vars(CaptureBegin) /\ WF_vars(Capturing)
    /\ WF_vars(\E rendered \in BOOLEAN : WorkerDraws(rendered)) /\ WF_vars(WorkerTakes)

Spec == Init /\ [][Next]_vars /\ Fairness
-----------------------------------------------------------------------------
(* Properties *)

Results(messages) == {i \in DOMAIN messages : messages[i].type = "result"}

AtWorker == (IF worker.pending = 0 THEN 0 ELSE 1)
                + (IF worker.rendering = 0 THEN 0 ELSE 1)
Awaited == IF capture = "render" THEN 1 ELSE 0

InFlight ==
    Len(toWorker) + AtWorker + Cardinality(Results(toPage)) + Awaited

\* While the bridge runs, the game is on the screen: the emulator's canvas is
\* hidden only when the canvas above shows a frame (the hidden source of
\* RenderDone on a stopped bridge is the exception the README describes).
HiddenBehindPicture == hidden /\ ~stopped => target # 0 /\ drawn # 0

\* The count of outstanding frames is the frames really in flight, through
\* failures and recovery, so the ring never jams and never overflows, and a
\* waiting frame of the worker never has to be replaced.
OutstandingExact ==
    ~stopped => /\ outstanding = InFlight /\ InFlight <= RingSize
                /\ (worker.pending # 0 /\ RingSize = 2 => toWorker = <<>>)

\* The status the player page shows names what draws: the live worker's or the
\* page's own backend, never both, or the emulator's canvas after a fallback.
StatusTruthful ==
    session = "attached" /\ ~stopped =>
        /\ (active => effective = (IF backend = "none" THEN worker.state ELSE backend))
        /\ (backend # "none" => worker = NoWorker)
        /\ (effective = "external" => ~active /\ ~hidden /\ target = 0)
        /\ (effective \in Kinds => active \/ task = "retry")

\* The renderer comes to show a frame or to fall back, unless the page is left;
\* and while it is active it goes on capturing frames: no lost answer, failure
\* or recovery jams the ring.
Progress ==
    /\ (session = "waiting") ~> (hidden \/ effective = "external" \/ stopped)
    /\ \A n \in 0 .. MaxFrames - 1 : (active /\ frameId = n) ~> (~active \/ stopped \/ frameId > n)
=============================================================================
