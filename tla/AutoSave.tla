------------------------------- MODULE AutoSave -------------------------------
(***************************************************************************)
(* Save states of one game in the browser player: numbered slots and one    *)
(* autosave, records of one IndexedDB store (QuickSaveManager).  runAutosave *)
(* is called by a timer, by a button and by Exit, with no guard between the  *)
(* calls; it takes a snapshot, awaits its digest, skips the write when the   *)
(* digest is the last one it wrote, and awaits the transaction.  Digests are *)
(* computed in parallel and may end in any order; a transaction replaces its *)
(* record whole, or fails.  A digest is SHA-256 where the browser has it and *)
(* it works; else it is of the length and of samples, and states may share it.*)
(***************************************************************************)
EXTENDS Naturals

CONSTANTS
    Savers,     \* callers of runAutosave
    MaxStates,  \* bound: states the game goes through
    Alike       \* states of one length and the same samples

ASSUME BoundsAssumption == MaxStates \in Nat \ {0}
ASSUME SaversAssumption == {"timer", "button", "exit"} \subseteq Savers

VARIABLES
    auto,        \* the autosave's record: its state, 0 for none, and digest
    slot,        \* the record of a slot, 0 when there is none
    page,        \* closed or running
    made,        \* states so far
    mode,        \* autosaveMode, kept in localStorage: off, exit, timed
    game,        \* the state of the running game
    last,        \* lastAutosaveDigest
    saver,       \* caller -> step of its autosave, the snapshot and its digest
    loading      \* the state read and about to be imported, 0 when none

records == <<auto, slot>>
life == <<page, mode>>
tasks == <<saver, loading>>
vars == <<records, life, made, game, last, tasks>>

States == 1 .. MaxStates
Modes == {"off", "exit", "timed"}

\* stateDigest: which of the two it is, and what it tells.
Kinds == {"full", "sampled"}
Digests == [kind : Kinds \cup {"none"}, of : 0 .. MaxStates]
NoDigest == [kind |-> "none", of |-> 0]
Digest(k, v) == [kind |-> k, of |-> IF k = "sampled" /\ v \in Alike THEN 0 ELSE v]

\* A record, or what is on its way to one or from one.
Record == [state : 0 .. MaxStates, digest : Digests]
Blank == [state |-> 0, digest |-> NoDigest]
Undigested(v) == [state |-> v, digest |-> NoDigest]
Digestion(k, v) == [state |-> v, digest |-> Digest(k, v)]

Idle == [at |-> "idle", snap |-> Blank]

TypeOK ==
    /\ auto \in Record /\ slot \in 0 .. MaxStates
    /\ page \in {"closed", "running"}
    /\ made \in 0 .. MaxStates
    /\ mode \in Modes /\ game \in 0 .. MaxStates /\ last \in Digests
    /\ saver \in [Savers -> [at : {"idle", "digest", "put"}, snap : Record]]
    /\ loading \in 0 .. MaxStates

Init ==
    /\ auto = Blank /\ slot = 0
    /\ page = "closed" /\ mode \in Modes
    /\ made = 1 /\ game = 0 /\ last = NoDigest
    /\ saver = [s \in Savers |-> Idle] /\ loading = 0

Playing == page = "running"
-----------------------------------------------------------------------------
(* Playing *)

\* The page has loaded and its game started, from its beginning.
Start ==
    /\ page = "closed" /\ page' = "running"
    /\ game' = 1
    /\ UNCHANGED <<records, mode, made, last, tasks>>

\* The game goes on to a state it was never in.
Play ==
    /\ Playing /\ made < MaxStates
    /\ made' = made + 1 /\ game' = made + 1
    /\ UNCHANGED <<records, life, last, tasks>>

\* The list in the panel; the timer is restarted to match.
ChangeMode(m) ==
    /\ Playing /\ m # mode
    /\ mode' = m
    /\ UNCHANGED <<records, page, made, game, last, tasks>>
-----------------------------------------------------------------------------
(* Autosaves *)

\* runAutosave up to its digest.
Snapshot(s) == saver' = [saver EXCEPT ![s] = [at |-> "digest", snap |-> Undigested(game)]]

\* The interval of syncAutoSaveTimer.
TimerAutosave ==
    /\ Playing /\ mode = "timed" /\ saver["timer"].at = "idle"
    /\ Snapshot("timer")
    /\ UNCHANGED <<records, life, made, game, last, loading>>

\* The button of the autosave's row.
ButtonAutosave ==
    /\ Playing /\ saver["button"].at = "idle"
    /\ Snapshot("button")
    /\ UNCHANGED <<records, life, made, game, last, loading>>

\* The digest is there: nothing is written when it is the last one written.
Digested(s, k) ==
    /\ saver[s].at = "digest"
    /\ LET snap == Digestion(k, saver[s].snap.state) IN
       saver' = [saver EXCEPT ![s] =
                     IF snap.digest = last THEN Idle ELSE [at |-> "put", snap |-> snap]]
    /\ UNCHANGED <<records, life, made, game, last, loading>>

\* Mutants of Remembered: the digest is kept whether or not the record was;
\* it is the digest of the state the game is in by then.
RememberedAlways(s, ok) == saver[s].snap.digest
RememberedNow(s, ok) == IF ok THEN Digest(saver[s].snap.digest.kind, game) ELSE last
Remembered(s, ok) == IF ok THEN saver[s].snap.digest ELSE last

\* putAuto's transaction completes, or fails and leaves the record before it;
\* completions are announced in the order of the transactions.
AutoPut(s, ok) ==
    /\ saver[s].at = "put"
    /\ saver' = [saver EXCEPT ![s] = Idle]
    /\ auto' = IF ok THEN saver[s].snap ELSE auto
    /\ last' = Remembered(s, ok)
    /\ UNCHANGED <<slot, life, made, game, loading>>
-----------------------------------------------------------------------------
(* Slots and loading *)

\* saveSlot: the state of now, in a transaction that completes or fails.  It
\* is one step: nobody else writes the slot, and only a load reads it.
SaveSlot(ok) ==
    /\ Playing
    /\ slot' = IF ok THEN game ELSE slot
    /\ UNCHANGED <<auto, life, made, game, last, tasks>>

\* loadSlot, or the autosave's load button: the record is read, its bytes are
\* awaited ...
Read(state) ==
    /\ Playing /\ loading = 0 /\ state # 0
    /\ loading' = state
    /\ UNCHANGED <<records, life, made, game, last, saver>>

\* verifyAutoRecord: the digest of the autosave is computed again, and has to
\* be the record's.
Verified(k) == auto.digest = Digest(k, auto.state)

ReadSlot == Read(slot)
ReadAuto(k) == Verified(k) /\ Read(auto.state)

\* ... and imported in the running game.
Import ==
    /\ loading # 0 /\ loading' = 0
    /\ game' = loading
    /\ UNCHANGED <<records, life, made, last, saver>>
-----------------------------------------------------------------------------
(* Leaving *)

\* exitGame: a last autosave unless the mode is off.  The page is left later,
\* and may be used until then.
ExitAutosave ==
    /\ Playing /\ mode # "off" /\ saver["exit"].at = "idle"
    /\ Snapshot("exit")
    /\ UNCHANGED <<records, life, made, game, last, loading>>

\* The page is left, by Exit (after its saves or 1500 ms) or by the browser, or
\* crashes: memory and the tasks under way are lost.  The pagehide listener for
\* autosaves is on the document; the event goes to the window alone, and no
\* autosave is begun.
Leave ==
    /\ Playing /\ page' = "closed"
    /\ game' = 0 /\ last' = NoDigest
    /\ saver' = [s \in Savers |-> Idle] /\ loading' = 0
    /\ UNCHANGED <<records, mode, made>>

Storage == \/ \E s \in Savers : \/ \E k \in Kinds : Digested(s, k)
                                \/ \E ok \in BOOLEAN : AutoPut(s, ok)
           \/ Import

Next == \/ Start \/ Play \/ \E m \in Modes : ChangeMode(m)
        \/ TimerAutosave \/ ButtonAutosave \/ ExitAutosave
        \/ \E ok \in BOOLEAN : SaveSlot(ok)
        \/ ReadSlot \/ \E k \in Kinds : ReadAuto(k)
        \/ Storage \/ Leave

\* The timer fires while the game plays; digests and transactions end, and a
\* transaction that is tried again and again does not fail for ever.
Fairness ==
    /\ WF_vars(TimerAutosave)
    /\ \A s \in Savers : /\ WF_vars(\E k \in Kinds : Digested(s, k))
                         /\ WF_vars(AutoPut(s, TRUE) \/ AutoPut(s, FALSE))
                         /\ SF_vars(AutoPut(s, TRUE))

Spec == Init /\ [][Next]_vars /\ Fairness
-----------------------------------------------------------------------------
(* Properties *)

\* Skipping an autosave is safe: the write of a state is skipped only when the
\* record has the same digest, and holds that very state unless the digest is a
\* sampled one; also after calls that overlap, digests out of order, failed
\* transactions and loads.
SkipIsSafe ==
    [][\A s \in Savers, k \in Kinds :
         Digested(s, k) /\ saver'[s].at = "idle" =>
             /\ auto.digest = Digest(k, saver[s].snap.state)
             /\ k = "full" => auto.state = saver[s].snap.state]_vars

\* With the timed mode on, a state the game stays in comes to be the one saved,
\* however older snapshots were delayed and written over newer ones; or the one
\* saved has its digest, and that is a sampled one.
CatchesUp ==
    \A v \in States :
        []<>(\/ auto.state = v \/ last = Digest("sampled", v)
             \/ game # v \/ mode # "timed" \/ ~Playing)

\* Refuted by the code, AutoSave_sampled.cfg: a skipped state is the one of the
\* record.  A sampled digest does not tell two states that differ elsewhere.
SkipIsExact ==
    [][\A s \in Savers, k \in Kinds :
         Digested(s, k) /\ saver'[s].at = "idle" => auto.state = saver[s].snap.state]_vars
=============================================================================
