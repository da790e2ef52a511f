----------------------------- MODULE BatterySave -----------------------------
(***************************************************************************)
(* The battery save of one game in the browser player.  It lives in the     *)
(* core's memory, in a file of the emulator's memory file system, in        *)
(* IndexedDB (the mounted IDBFS, written by syncfs) and in a backup in      *)
(* localStorage.  restoreLocalGameSave brings it back when a game starts;   *)
(* flushLocalGameSave, from a timer, from Exit and from pagehide, writes it *)
(* out.  Every await lets other tasks of the page run, storage may fail or  *)
(* never answer, and the tab may die at any step.                           *)
(*                                                                         *)
(* The content of a save is the set of the game's own saves it descends     *)
(* from; a fresh core writes a blank one, which is a file all the same.     *)
(***************************************************************************)
EXTENDS Naturals, FiniteSets

CONSTANTS
    Flushers,   \* callers of flushLocalGameSave
    MaxSaves,   \* bound: saves the game makes
    MaxVisits   \* bound: times the player page is opened

ASSUME BoundsAssumption == MaxSaves \in Nat /\ MaxVisits \in Nat
ASSUME FlushersAssumption == Flushers = {"timer", "exit", "hide"}

VARIABLES
    disk, backup, \* what survives: IDBFS and localStorage
    tab,          \* closed, starting, running, exiting, hidden
    visits, made, \* visits so far, saves the game has made
    core, file,   \* the save in the core's memory and in the memory file system
    populating,   \* the populate of saveDatabaseLoaded is in flight
    restore,      \* restoreLocalGameSave: before, populate, hash, sync, done, failed
    legacy,       \* the backup that restore is verifying or writing
    flush,        \* caller -> its flush: step, save taken, and history (FlushFrom)
    rolled        \* history: a save state was loaded in this visit

stores == <<disk, backup>>
memory == <<core, file>>
restoring == <<populating, restore, legacy>>
life == <<tab, visits>>
batteryVars == <<stores, life, made, memory, restoring, flush, rolled>>

Saves == SUBSET (1 .. MaxSaves)
Absent == {0}   \* no file, no record
Files == Saves \cup {Absent}
Content(f) == IF f = Absent THEN {} ELSE f
Idle == [at |-> "idle", save |-> {}, alone |-> TRUE]

BatteryTypeOK ==
    /\ disk \in Files /\ backup \in Files
    /\ tab \in {"closed", "starting", "running", "exiting", "hidden"}
    /\ visits \in 0 .. MaxVisits /\ made \in 0 .. MaxSaves
    /\ core \in Saves /\ file \in Files
    /\ populating \in BOOLEAN /\ legacy \in Files /\ rolled \in BOOLEAN
    /\ restore \in {"before", "populate", "hash", "sync", "done", "failed"}
    /\ flush \in [Flushers -> [at : {"idle", "hash", "sync"}, save : Saves,
                               alone : BOOLEAN]]

BatteryInit ==
    /\ disk = Absent /\ backup = Absent
    /\ tab = "closed" /\ visits = 0 /\ made = 0
    /\ core = {} /\ file = Absent
    /\ populating = FALSE /\ restore = "before" /\ legacy = Absent
    /\ flush = [f \in Flushers |-> Idle]
    /\ rolled = FALSE
-----------------------------------------------------------------------------
(* The emulator and the game *)

\* The player page opens; the emulator announces its save database.
Open ==
    /\ tab = "closed" /\ visits < MaxVisits
    /\ tab' = "starting" /\ visits' = visits + 1
    /\ populating' = TRUE
    /\ UNCHANGED <<stores, made, memory, restore, legacy, flush, rolled>>

\* EJS_onGameStart, then finishLoading: the core has loaded the save file if
\* it was in memory by then; the restore begins and awaits its populate.
GameStart ==
    /\ tab = "starting" /\ tab' = "running"
    /\ core' = Content(file)
    /\ restore' = "populate"
    /\ UNCHANGED <<stores, visits, made, file, populating, legacy, flush, rolled>>

\* The game and its timers go on while Exit waits for its flush.
Playing == tab \in {"running", "exiting"}

\* The game writes its battery save.
GameSaves ==
    /\ Playing /\ made < MaxSaves
    /\ made' = made + 1
    /\ core' = core \cup {made + 1}
    /\ UNCHANGED <<stores, life, file, restoring, flush, rolled>>
-----------------------------------------------------------------------------
(* Restoring *)

Disturbed == [f \in Flushers |-> IF flush[f].at = "idle" THEN Idle
                                 ELSE [flush[f] EXCEPT !.alone = FALSE]]

\* The file is replaced: a flush under way was not alone with it.
Refiled(save) == file' = save /\ flush' = Disturbed

\* populate, on saveDatabaseLoaded, which nothing awaits: syncfs(true) makes
\* the file what IndexedDB has, or fails.
PopulateEnds ==
    /\ populating /\ populating' = FALSE
    /\ Refiled(disk) \/ UNCHANGED <<file, flush>>
    /\ UNCHANGED <<stores, life, made, core, restore, legacy, rolled>>

\* Mutant of Replayed: the running game does not load the file that was found.
ReplayedNot(save) == core
Replayed(save) == Content(save)

\* The restore's own populate is done: a file is played from (loadSaveFiles and
\* restart), otherwise the backup is read, to be verified.
RestorePopulated ==
    /\ restore = "populate" /\ Refiled(disk)
    /\ IF disk # Absent
       THEN restore' = "done" /\ core' = Replayed(disk) /\ UNCHANGED legacy
       ELSE restore' = "hash" /\ legacy' = backup /\ UNCHANGED core
    /\ UNCHANGED <<stores, life, made, populating, rolled>>

\* The digest agrees: the backup becomes the file, and is synced.
RestoreVerified ==
    /\ restore = "hash" /\ legacy # Absent
    /\ restore' = "sync" /\ Refiled(legacy)
    /\ UNCHANGED <<stores, life, made, core, populating, legacy, rolled>>

\* There is no backup; a file that a flush has written meanwhile is played from.
RestoreNothing ==
    /\ restore = "hash" /\ legacy = Absent
    /\ restore' = "done" /\ core' = IF file = Absent THEN core ELSE Replayed(file)
    /\ UNCHANGED <<stores, life, made, file, populating, legacy, flush, rolled>>

\* The backup is in IndexedDB, and the game is restarted with it.
RestoreSynced ==
    /\ restore = "sync" /\ restore' = "done"
    /\ disk' = file /\ core' = Replayed(file) /\ legacy' = Absent
    /\ UNCHANGED <<backup, life, made, file, populating, flush, rolled>>

\* A syncfs failed: a notice is shown and the game plays on.
RestoreFails ==
    /\ restore \in {"populate", "sync"} /\ restore' = "failed" /\ legacy' = Absent
    /\ UNCHANGED <<stores, life, made, memory, populating, flush, rolled>>
-----------------------------------------------------------------------------
(* Flushing *)

\* A flush takes the save in the core.  History: alone, nothing has replaced the
\* file by another since.
FlushFrom == [at |-> "hash", save |-> core, alone |-> TRUE]

\* flush up to its first await: the core writes the file, which is backed up.
FlushBegin(f) ==
    /\ flush[f].at = "idle"
    /\ file' = core /\ flush' = [flush EXCEPT ![f] = FlushFrom]

\* The interval of syncBatterySaveTimer.
TimerFlush ==
    /\ Playing /\ FlushBegin("timer")
    /\ UNCHANGED <<stores, life, made, core, restoring, rolled>>

\* writeBackup has its digest; storage may refuse the record.
BackupWritten(f) ==
    /\ flush[f].at = "hash"
    /\ flush' = [flush EXCEPT ![f].at = "sync"]
    /\ backup' \in {flush[f].save, backup}
    /\ UNCHANGED <<disk, life, made, memory, restoring, rolled>>

\* What syncfs(false) leaves in IndexedDB, and a mutant: called the way populate
\* calls it.
SyncedOtherWay == disk
Synced == file

\* syncfs is done; it has written what the file is by then.
FlushSynced(f) ==
    /\ flush[f].at = "sync"
    /\ flush' = [flush EXCEPT ![f] = Idle]
    /\ disk' = Synced
    /\ UNCHANGED <<backup, life, made, memory, restoring, rolled>>

FlushFails(f) ==
    /\ flush[f].at = "sync"
    /\ flush' = [flush EXCEPT ![f] = Idle]
    /\ UNCHANGED <<stores, life, made, memory, restoring, rolled>>

\* The player loads a save state: the battery save is as it was then.
LoadState ==
    /\ Playing /\ ~rolled
    /\ core' \in SUBSET core \ {core}
    /\ rolled' = TRUE /\ flush' = Disturbed
    /\ UNCHANGED <<stores, life, made, file, restoring>>
-----------------------------------------------------------------------------
(* Leaving *)

\* exitGame begins a flush, and races it with a timer of 1500 ms.
Exit ==
    /\ tab = "running" /\ tab' = "exiting"
    /\ FlushBegin("exit")
    /\ UNCHANGED <<stores, visits, made, core, restoring, rolled>>

\* Mutant of MayLeave: without the timer in the race.
MayLeaveSaved == flush["exit"].at = "idle"
MayLeave == TRUE

\* The page is left, by Exit or by the browser: pagehide flushes once more.
PageHide ==
    /\ tab = "running" \/ (tab = "exiting" /\ MayLeave)
    /\ tab' = "hidden"
    /\ FlushBegin("hide")
    /\ UNCHANGED <<stores, visits, made, core, restoring, rolled>>

\* The page is gone: memory and every task under way are lost.
Gone ==
    /\ tab' = "closed"
    /\ core' = {} /\ file' = Absent
    /\ populating' = FALSE /\ restore' = "before" /\ legacy' = Absent
    /\ flush' = [f \in Flushers |-> Idle]
    /\ rolled' = FALSE
    /\ UNCHANGED <<stores, visits, made>>

Unload == tab = "hidden" /\ Gone
Crash == tab \in {"starting", "running", "exiting"} /\ Gone

\* No more visits.
TabsEnded == tab = "closed" /\ visits = MaxVisits /\ UNCHANGED batteryVars

Restoring == \/ PopulateEnds \/ RestorePopulated \/ RestoreVerified
             \/ RestoreNothing \/ RestoreSynced \/ RestoreFails
Flushing == \E f \in Flushers : BackupWritten(f) \/ FlushSynced(f) \/ FlushFails(f)

BatteryNext == \/ Open \/ GameStart \/ GameSaves \/ LoadState
        \/ Restoring \/ TimerFlush \/ Flushing
        \/ Exit \/ PageHide \/ Unload \/ Crash \/ TabsEnded

\* Leaving a page takes only its own timer: storage may never answer.
LeavingFair == WF_batteryVars(PageHide) /\ WF_batteryVars(Unload)

BatterySpec == BatteryInit /\ [][BatteryNext]_batteryVars /\ LeavingFair
-----------------------------------------------------------------------------
(* Properties *)

\* Once the restore has ended well, no order of timer, Exit and pagehide
\* flushes, those begun before it included, with late populates, refused
\* records, failed syncs and crashes between their steps, takes a save of the
\* game away from IndexedDB, unless the player loads a state.
DiskGrows ==
    [][restore = "done" /\ ~rolled => Content(disk) \subseteq Content(disk')]_batteryVars

\* A flush that succeeds has put the save it took into IndexedDB, also when
\* others ran between its steps, unless meanwhile the restore replaced the file
\* or the player loaded a state.
FlushPersists ==
    [][\A f \in Flushers :
         FlushSynced(f) /\ flush[f].alone => flush[f].save \subseteq Content(disk')]_batteryVars

\* Exit leaves the page whatever storage does.
ExitLeaves == (tab = "exiting") ~> (tab = "closed")
=============================================================================
