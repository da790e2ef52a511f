--------------------------- MODULE HostedFrameRing ---------------------------
(***************************************************************************)
(* The hosted-frame ring: the Eden companion copies each presented image    *)
(* into one of a few shared surfaces and publishes its descriptor in shared *)
(* memory; a thread of the host takes the newest descriptor, imports the    *)
(* surface as a texture and gives the slot back; the host's view draws the  *)
(* newest texture.  A process-shared mutex, which dies with its holder, is  *)
(* only ever tried, never waited for without a bound.                       *)
(*                                                                          *)
(* A surface is named by the rebuild that created it and its slot.          *)
(***************************************************************************)
EXTENDS Naturals

CONSTANTS
    RingSlots,     \* AN3_EDEN_HOSTED_RING_SLOTS
    LockAttempts,  \* tries of RingGuard before the frame is dropped
    MaxFrames,     \* bound: frames published, below the 2^32 that wrap the sequence
    MaxRebuilds    \* bound: changes of the swapchain's size

ASSUME RingAssumption == {RingSlots, LockAttempts} \subseteq Nat \ {0}
ASSUME BoundAssumption == {MaxFrames, MaxRebuilds} \subseteq Nat

VARIABLES
    nextSlot,   \* ring->next_slot
    published,  \* ring->published_sequence
    consumed,   \* ring->consumed_sequence
    busy,       \* ring->slot_consumer_busy
    latest,     \* ring->latest, NoFrame before the first
    lock,       \* holder of shm->mutex
    ppc,        \* where the producer's hook is
    slot,       \* the slot the hook is copying into
    tries,      \* tries of RingGuard left
    ready,      \* Engine::ready: the surfaces exist
    rebuilds,   \* names the current surfaces; stands for g_epoch
    cpc,        \* where the consumer thread is
    frame,      \* the descriptor it took
    stop,       \* g_stop
    texture,    \* surface of g_latest_texture
    drawing     \* surface the view's GPU work is reading

producer == <<ppc, slot, tries, ready, rebuilds>>
view     == <<texture, drawing>>
consumer == <<cpc, frame, stop>>
ring     == <<nextSlot, published, latest>>
shared   == <<consumed, busy>>
ringVars == <<ring, shared, lock, producer, consumer, view>>

Slots == 0 .. RingSlots - 1
NoSurface == [rebuild |-> MaxRebuilds + 1, slot |-> 0]
Surface == [rebuild : 0 .. MaxRebuilds, slot : Slots]
NoFrame == [sequence |-> 0, surface |-> NoSurface]
Frame == [sequence : 1 .. MaxFrames, surface : Surface]

RingTypeOK ==
    /\ nextSlot \in Slots /\ slot \in Slots
    /\ published \in 0 .. MaxFrames /\ consumed \in 0 .. MaxFrames
    /\ busy \in [Slots -> BOOLEAN]
    /\ latest \in Frame \cup {NoFrame} /\ frame \in Frame \cup {NoFrame}
    /\ lock \in {"free", "producer", "consumer"}
    /\ ppc \in {"idle", "lock", "copy", "dead"}
    /\ tries \in 0 .. LockAttempts
    /\ ready \in BOOLEAN /\ stop \in BOOLEAN
    /\ rebuilds \in 0 .. MaxRebuilds
    /\ cpc \in {"poll", "consume", "import", "release", "unlock", "stopped", "dead"}
    /\ texture \in Surface \cup {NoSurface} /\ drawing \in Surface \cup {NoSurface}

\* The companion has created the ring; the host has not attached to it yet.
RingInit ==
    /\ nextSlot = 0 /\ published = 0 /\ consumed = 0
    /\ busy = [s \in Slots |-> FALSE] /\ latest = NoFrame /\ lock = "free"
    /\ ppc = "idle" /\ slot = 0 /\ tries = 0 /\ ready = TRUE /\ rebuilds = 0
    /\ cpc = "stopped" /\ frame = NoFrame /\ stop = FALSE
    /\ texture = NoSurface /\ drawing = NoSurface
-----------------------------------------------------------------------------
(* The producer: an3_eden_hosted_frame_hook *)

HookBegin ==
    /\ ppc = "idle" /\ ready /\ published < MaxFrames
    /\ ppc' = "lock" /\ tries' = LockAttempts
    /\ UNCHANGED <<ring, shared, lock, slot, ready, rebuilds, consumer, view>>

\* ensure_ready finds another size: all surfaces are replaced, without the
\* ring's lock.  When that fails no later call is served.
HookRebuild(success) ==
    /\ ppc = "idle" /\ ready /\ rebuilds < MaxRebuilds /\ published < MaxFrames
    /\ rebuilds' = rebuilds + 1
    /\ ready' = success
    /\ ppc' = IF success THEN "lock" ELSE "idle"
    /\ tries' = LockAttempts
    /\ UNCHANGED <<ring, shared, lock, slot, consumer, view>>

\* One try of RingGuard.  At the last the frame is dropped.
HookWait ==
    /\ ppc = "lock" /\ lock # "free"
    /\ tries' = tries - 1
    /\ ppc' = IF tries = 1 THEN "idle" ELSE "lock"
    /\ UNCHANGED <<ring, shared, lock, slot, ready, rebuilds, consumer, view>>

\* pick_slot: the first slot from next_slot on that the host does not own.
Nth(attempt) == (nextSlot + attempt) % RingSlots

\* Mutant of FirstFree: the owner's mark is not consulted.
NextSlot(attempt) == attempt = 0
FirstFree(attempt) ==
    ~busy[Nth(attempt)] /\ \A earlier \in Slots : earlier < attempt => busy[Nth(earlier)]

HookPick ==
    /\ ppc = "lock" /\ lock = "free"
    /\ \E attempt \in Slots : FirstFree(attempt) /\ slot' = Nth(attempt)
    /\ lock' = "producer" /\ ppc' = "copy"
    /\ UNCHANGED <<ring, shared, tries, ready, rebuilds, consumer, view>>

\* ERR_BUSY: the frame is dropped.
HookBusy ==
    /\ ppc = "lock" /\ lock = "free"
    /\ \A attempt \in Slots : ~FirstFree(attempt)
    /\ ppc' = "idle"
    /\ UNCHANGED <<ring, shared, lock, slot, tries, ready, rebuilds, consumer, view>>

HookCopyFails ==
    /\ ppc = "copy"
    /\ ppc' = "idle" /\ lock' = "free"
    /\ UNCHANGED <<ring, shared, slot, tries, ready, rebuilds, consumer, view>>

NextAfter == (slot + 1) % RingSlots

\* publish_into, and the guard's destructor.
HookPublish ==
    /\ ppc = "copy"
    /\ published' = published + 1
    /\ latest' = [sequence |-> published + 1,
                  surface |-> [rebuild |-> rebuilds, slot |-> slot]]
    /\ nextSlot' = NextAfter
    /\ ppc' = "idle" /\ lock' = "free"
    /\ UNCHANGED <<shared, slot, tries, ready, rebuilds, consumer, view>>

\* The companion ends or crashes; a mutex it holds stays locked.
ProducerDies ==
    /\ ppc # "dead" /\ ppc' = "dead"
    /\ UNCHANGED <<ring, shared, lock, slot, tries, ready, rebuilds, consumer, view>>

Producer == \/ HookBegin \/ HookWait \/ HookPick \/ HookBusy \/ HookCopyFails
            \/ HookPublish \/ \E success \in BOOLEAN : HookRebuild(success)
-----------------------------------------------------------------------------
(* The consumer thread: consume_loop *)

\* consumer_attach joins an earlier thread, then starts one.
Attach ==
    /\ cpc = "stopped" /\ cpc' = "poll" /\ stop' = FALSE
    /\ UNCHANGED <<ring, shared, lock, producer, frame, view>>

\* consumer_detach asks the thread to stop ...
Detach ==
    /\ cpc \notin {"stopped", "dead"} /\ ~stop /\ stop' = TRUE
    /\ UNCHANGED <<ring, shared, lock, producer, cpc, frame, view>>

\* ... which it sees at the head of its loop; then the texture is dropped.
ConsumerStops ==
    /\ cpc = "poll" /\ stop
    /\ cpc' = "stopped" /\ texture' = NoSurface
    /\ UNCHANGED <<ring, shared, lock, producer, frame, stop, drawing>>

\* trylock; when the producer holds the mutex the thread sleeps and tries again.
ConsumerLock ==
    /\ cpc = "poll" /\ ~stop /\ lock = "free"
    /\ lock' = "consumer" /\ cpc' = "consume"
    /\ UNCHANGED <<ring, shared, producer, frame, stop, view>>

\* Mutants: of Newer, any published frame is taken; of MarkedBusy, no mark.
AnyPublished == published > 0
UnmarkedBusy == busy

Newer == published > consumed
MarkedBusy == [busy EXCEPT ![latest.surface.slot] = TRUE]

\* ring_consume under the lock: the newest frame, if it is newer.
Consume ==
    /\ cpc = "consume"
    /\ lock' = "free"
    /\ IF Newer
         THEN /\ frame' = latest /\ consumed' = latest.sequence
              /\ busy' = MarkedBusy
              /\ cpc' = "import"
         ELSE cpc' = "poll" /\ UNCHANGED <<frame, shared>>
    /\ UNCHANGED <<ring, producer, stop, view>>

\* IOSurfaceLookup finds only surfaces that still exist; texture creation can
\* fail.  The slot is given back in either case.
Import(success) ==
    /\ cpc = "import"
    /\ success => frame.surface.rebuild = rebuilds
    /\ texture' = IF success THEN frame.surface ELSE texture
    /\ cpc' = "release"
    /\ UNCHANGED <<ring, shared, lock, producer, frame, stop, drawing>>

\* Mutant of ReleaseLock: the thread waits for the mutex.
ReleaseWaits ==
    /\ cpc = "release" /\ lock = "free"
    /\ lock' = "consumer" /\ cpc' = "unlock"
    /\ UNCHANGED <<ring, shared, producer, frame, stop, view>>

\* One trylock: when it fails the slot is never given back.
ReleaseLock ==
    /\ cpc = "release"
    /\ IF lock = "free" THEN lock' = "consumer" /\ cpc' = "unlock"
                        ELSE cpc' = "poll" /\ UNCHANGED lock
    /\ UNCHANGED <<ring, shared, producer, frame, stop, view>>

\* ring_release under the lock.
Release ==
    /\ cpc = "unlock"
    /\ busy' = [busy EXCEPT ![frame.surface.slot] = FALSE]
    /\ lock' = "free" /\ cpc' = "poll"
    /\ UNCHANGED <<ring, consumed, producer, frame, stop, view>>

\* The host ends or crashes; a mutex it holds stays locked.
ConsumerDies ==
    /\ cpc # "dead"
    /\ cpc' = "dead" /\ texture' = NoSurface /\ drawing' = NoSurface
    /\ UNCHANGED <<ring, shared, lock, producer, frame, stop>>

Consumer == \/ ConsumerStops \/ ConsumerLock \/ Consume \/ ReleaseLock \/ Release
            \/ \E success \in BOOLEAN : Import(success)
-----------------------------------------------------------------------------
(* The view: render_latest submits GPU work that samples the texture. *)

DrawBegin ==
    /\ texture # NoSurface /\ drawing = NoSurface
    /\ drawing' = texture
    /\ UNCHANGED <<ring, shared, lock, producer, consumer, texture>>

DrawEnd ==
    /\ drawing # NoSurface /\ drawing' = NoSurface
    /\ UNCHANGED <<ring, shared, lock, producer, consumer, texture>>
-----------------------------------------------------------------------------
Ended == ppc = "dead" /\ cpc = "dead" /\ UNCHANGED ringVars

RingNext == \/ Producer \/ ProducerDies \/ Attach \/ Detach \/ Consumer \/ ConsumerDies
        \/ DrawBegin \/ DrawEnd \/ Ended

RingSpec == RingInit /\ [][RingNext]_ringVars

\* Both threads run while their process lives; no lock is granted fairly.
Fairness == WF_ringVars(Producer) /\ WF_ringVars(Consumer)

FairRingSpec == RingSpec /\ Fairness
-----------------------------------------------------------------------------
(* Properties *)

\* The slots the thread has taken and not yet given back.
Holding == cpc \in {"import", "release", "unlock"}

\* While the hook copies into a slot, the host is not importing it: the frame a
\* texture is made from is complete, and the mark keeps the producer off it
\* until it is given back.
NeverOverwriteHeld ==
    ppc = "copy" /\ Holding => frame.surface.slot # slot

\* The host never goes back to an older frame, and takes one frame once.
NewestFrameWins ==
    [][cpc = "consume" /\ cpc' = "import" =>
         frame'.sequence > frame.sequence /\ frame'.sequence = published]_ringVars

\* Neither process hangs the other: the hook always returns and detach() joins
\* its thread, even when the other side died holding the lock.
NeitherHangs ==
    /\ ppc \in {"lock", "copy"} ~> ppc \in {"idle", "dead"}
    /\ stop ~> cpc \in {"stopped", "dead"}

\* A slot is marked as the host's only while the host reads it: "Consumer
\* releases a slot after it has finished reading it."
SlotsReleased == cpc # "dead" => \A s \in Slots : busy[s] => Holding /\ frame.surface.slot = s

\* The producer does not overwrite the surface the host's GPU work is reading.
NotOverwrittenWhileDrawn ==
    ppc = "copy" => drawing # [rebuild |-> rebuilds, slot |-> slot]
=============================================================================
