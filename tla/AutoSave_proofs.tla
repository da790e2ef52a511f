---------------------------- MODULE AutoSave_proofs ----------------------------
(***************************************************************************)
(* Save states of the browser player: TypeOK, and that an autosave is       *)
(* skipped only when the record has its digest, and holds its very state    *)
(* when that digest is a full one, for any number of states and callers and *)
(* any states that look alike to a sample.  The inductive invariant ties    *)
(* the remembered digest to the record, and full digests to their states.   *)
(***************************************************************************)
EXTENDS AutoSave, TLAPS

\* The digest that is remembered is the record's.
Known == last # NoDigest => auto.digest = last

\* A full digest tells the state of what it came with.
Genuine(record) == record.digest.kind = "full" => record.digest.of = record.state

\* Full digests are genuine, in the record and on the way to it.
Told == Genuine(auto) /\ \A s \in Savers : Genuine(saver[s].snap)

IInv == TypeOK /\ Known /\ Told

Steps == [at : {"idle", "digest", "put"}, snap : Record]

LEMMA Bounds == MaxStates \in Nat /\ MaxStates >= 1
  BY BoundsAssumption

LEMMA Callers == "timer" \in Savers /\ "button" \in Savers /\ "exit" \in Savers
  BY SaversAssumption

\* What a snapshot is before and after its digest.
LEMMA Digesting ==
  ASSUME NEW v \in 0 .. MaxStates, NEW k \in Kinds
  PROVE  /\ Digest(k, v) \in Digests /\ Digest(k, v) # NoDigest
         /\ k = "full" => Digest(k, v) = [kind |-> "full", of |-> v]
         /\ Digestion(k, v) \in Record /\ Undigested(v) \in Record
         /\ Genuine(Digestion(k, v)) /\ Genuine(Undigested(v))
<1> USE Bounds
<1>1. /\ Digest(k, v) \in Digests /\ Digest(k, v).kind = k /\ NoDigest.kind # k
      /\ NoDigest \in Digests
  BY DEF Digest, Digests, NoDigest, Kinds
<1>2. k = "full" => Digest(k, v) = [kind |-> "full", of |-> v]
  BY DEF Digest
<1>3. Digestion(k, v) \in Record /\ Undigested(v) \in Record
  BY <1>1 DEF Digestion, Undigested, Record
<1>4. Genuine(Digestion(k, v)) /\ Genuine(Undigested(v))
  BY DEF Genuine, Digestion, Undigested, Digest, NoDigest
<1> QED
  BY <1>1, <1>2, <1>3, <1>4

LEMMA Idles == Idle \in Steps /\ Idle.at = "idle" /\ Genuine(Idle.snap) /\ Blank \in Record
  BY Bounds DEF Idle, Steps, Blank, Record, NoDigest, Digests, Genuine

LEMMA InitIInv == Init => IInv
<1> SUFFICES ASSUME Init PROVE IInv
  OBVIOUS
<1> USE Bounds
<1>1. NoDigest \in Digests
  BY DEF NoDigest, Digests
<1>2. saver \in [Savers -> Steps]
  BY Idles DEF Init
<1>3. TypeOK
  BY <1>1, <1>2, Idles DEF Init, TypeOK, Steps, Modes
<1>4. Known /\ Told
  BY Idles DEF Init, Known, Told, Idle
<1> QED
  BY <1>3, <1>4 DEF IInv

\* One caller's entry changes: what is left to show of the callers' table.
LEMMA Entry ==
  ASSUME IInv, NEW s \in Savers, NEW entry \in Steps, Genuine(entry.snap),
         saver' = [saver EXCEPT ![s] = entry]
  PROVE  saver' \in [Savers -> Steps] /\ \A c \in Savers : Genuine(saver'[c].snap)
<1>1. saver \in [Savers -> Steps]
  BY DEF IInv, TypeOK, Steps
<1>2. \A c \in Savers : saver'[c] = IF c = s THEN entry ELSE saver[c]
  BY <1>1
<1>3. saver' \in [Savers -> Steps]
  BY <1>1
<1> QED
  BY <1>2, <1>3 DEF IInv, Told

\* The steps of the game and the slot: no autosave is touched.
LEMMA PlayingKeeps ==
  ASSUME IInv, Start \/ Play \/ (\E m \in Modes : ChangeMode(m))
                 \/ (\E ok \in BOOLEAN : SaveSlot(ok)) \/ ReadSlot
                 \/ (\E k \in Kinds : ReadAuto(k)) \/ Import
  PROVE  IInv'
<1> USE Bounds DEF IInv
<1>1. UNCHANGED <<saver, auto, last>>
  BY DEF Start, Play, ChangeMode, SaveSlot, ReadSlot, ReadAuto, Read, Import, records, tasks
<1>2. TypeOK'
  <2>1. CASE Start \/ Play
    BY <2>1 DEF Start, Play, TypeOK, records, life, tasks
  <2>2. CASE (\E m \in Modes : ChangeMode(m)) \/ (\E ok \in BOOLEAN : SaveSlot(ok))
    BY <2>2 DEF ChangeMode, SaveSlot, TypeOK, records, life, tasks
  <2>3. CASE ReadSlot
    BY <2>3 DEF ReadSlot, Read, TypeOK, records, life
  <2>4. CASE \E k \in Kinds : ReadAuto(k)
    BY <2>4 DEF ReadAuto, Read, TypeOK, Record, records, life
  <2>5. CASE Import
    BY <2>5 DEF Import, TypeOK, records, life
  <2> QED
    BY <2>1, <2>2, <2>3, <2>4, <2>5
<1> QED
  BY <1>1, <1>2 DEF Known, Told

\* The three callers.
LEMMA CallersKeep ==
  ASSUME IInv, TimerAutosave \/ ButtonAutosave \/ ExitAutosave
  PROVE  IInv'
<1> USE Bounds DEF IInv
<1>1. UNCHANGED <<records, life, made, game, last, loading>>
  BY DEF TimerAutosave, ButtonAutosave, ExitAutosave
<1>2. PICK s \in Savers : Snapshot(s)
  BY Callers DEF TimerAutosave, ButtonAutosave, ExitAutosave
<1> DEFINE entry == [at |-> "digest", snap |-> Undigested(game)]
<1>3. entry \in Steps /\ Genuine(entry.snap)
  BY Digesting DEF TypeOK, Steps, Kinds
<1>4. saver' = [saver EXCEPT ![s] = entry]
  BY <1>2 DEF Snapshot
<1> HIDE DEF entry
<1>5. saver' \in [Savers -> Steps] /\ \A c \in Savers : Genuine(saver'[c].snap)
  BY <1>3, <1>4, Entry
<1> QED
  BY <1>1, <1>5 DEF TypeOK, Known, Told, Steps, records, life

LEMMA DigestedKeeps ==
  ASSUME IInv, NEW s \in Savers, NEW k \in Kinds, Digested(s, k)
  PROVE  IInv'
<1> USE Bounds DEF IInv
<1> DEFINE snap == Digestion(k, saver[s].snap.state)
           put == [at |-> "put", snap |-> snap]
           entry == IF snap.digest = last THEN Idle ELSE put
<1>1. saver[s].snap.state \in 0 .. MaxStates
  BY DEF TypeOK, Record
<1>2. put \in Steps /\ Genuine(put.snap)
  BY <1>1, Digesting DEF Steps
<1>3. entry \in Steps /\ Genuine(entry.snap)
  BY <1>2, Idles
<1>4. saver' = [saver EXCEPT ![s] = entry]
  BY DEF Digested
<1> HIDE DEF entry
<1>5. saver' \in [Savers -> Steps] /\ \A c \in Savers : Genuine(saver'[c].snap)
  BY <1>3, <1>4, Entry
<1> QED
  BY <1>5 DEF Digested, TypeOK, Known, Told, Steps, records, life

LEMMA AutoPutKeeps ==
  ASSUME IInv, NEW s \in Savers, NEW ok \in BOOLEAN, AutoPut(s, ok)
  PROVE  IInv'
<1> USE Bounds DEF IInv
<1>1. saver[s].snap \in Record /\ saver[s].snap.digest \in Digests
  BY DEF TypeOK, Record
<1>2. saver' \in [Savers -> Steps] /\ \A c \in Savers : Genuine(saver'[c].snap)
  BY Idles, Entry DEF AutoPut
<1>3. auto' \in Record /\ last' \in Digests
  BY <1>1 DEF TypeOK, AutoPut, Remembered
<1>4. TypeOK'
  BY <1>2, <1>3 DEF TypeOK, AutoPut, Steps, life
<1>5. Known'
  BY DEF Known, AutoPut, Remembered
<1>6. Told'
  BY <1>2 DEF Told, AutoPut
<1> QED
  BY <1>4, <1>5, <1>6

LEMMA LeaveKeeps ==
  ASSUME IInv, Leave
  PROVE  IInv'
<1> USE Bounds DEF IInv
<1>1. saver' \in [Savers -> Steps] /\ \A c \in Savers : Genuine(saver'[c].snap)
  BY Idles DEF Leave
<1>2. NoDigest \in Digests
  BY DEF NoDigest, Digests
<1>3. TypeOK'
  BY <1>1, <1>2 DEF TypeOK, Leave, Steps, records
<1> QED
  BY <1>1, <1>3 DEF Known, Told, Leave, records

LEMMA Inductive == IInv /\ [Next]_vars => IInv'
<1> SUFFICES ASSUME IInv, [Next]_vars PROVE IInv'
  OBVIOUS
<1>1. CASE Start \/ Play \/ (\E m \in Modes : ChangeMode(m))
             \/ (\E ok \in BOOLEAN : SaveSlot(ok)) \/ ReadSlot
             \/ (\E k \in Kinds : ReadAuto(k)) \/ Import
  BY <1>1, PlayingKeeps
<1>2. CASE TimerAutosave \/ ButtonAutosave \/ ExitAutosave
  BY <1>2, CallersKeep
<1>3. CASE \E s \in Savers, k \in Kinds : Digested(s, k)
  BY <1>3, DigestedKeeps
<1>4. CASE \E s \in Savers, ok \in BOOLEAN : AutoPut(s, ok)
  BY <1>4, AutoPutKeeps
<1>5. CASE Leave
  BY <1>5, LeaveKeeps
<1>6. CASE UNCHANGED vars
  BY <1>6 DEF vars, records, life, tasks, IInv, TypeOK, Known, Told
<1> QED
  BY <1>1, <1>2, <1>3, <1>4, <1>5, <1>6 DEF Next, Storage

LEMMA Invariance == Spec => []IInv
  BY InitIInv, Inductive, PTL DEF Spec

\* The type invariant, for every bound and any further callers.
THEOREM TypeCorrect == Spec => []TypeOK
<1>1. IInv => TypeOK
  BY DEF IInv
<1> QED
  BY <1>1, Invariance, PTL

\* runAutosave returns early only when the record has the digest of the state it
\* took, and holds that state if the digest is a full one.
THEOREM SkippingIsSafe == Spec => SkipIsSafe
<1>1. IInv /\ [Next]_vars
        => [\A s \in Savers, k \in Kinds :
              Digested(s, k) /\ saver'[s].at = "idle" =>
                  /\ auto.digest = Digest(k, saver[s].snap.state)
                  /\ k = "full" => auto.state = saver[s].snap.state]_vars
  <2> SUFFICES ASSUME IInv, NEW s \in Savers, NEW k \in Kinds, Digested(s, k),
                      saver'[s].at = "idle"
               PROVE  /\ auto.digest = Digest(k, saver[s].snap.state)
                      /\ k = "full" => auto.state = saver[s].snap.state
    OBVIOUS
  <2>1. saver \in [Savers -> Steps] /\ saver[s].snap.state \in 0 .. MaxStates
    BY DEF IInv, TypeOK, Steps, Record
  <2>2. Digest(k, saver[s].snap.state) = last
    BY <2>1 DEF Digested, Digestion
  <2>3. auto.digest = Digest(k, saver[s].snap.state)
    BY <2>1, <2>2, Digesting DEF IInv, Known
  <2>4. k = "full" => auto.state = saver[s].snap.state
    BY <2>1, <2>3, Digesting DEF IInv, Told, Genuine
  <2> QED
    BY <2>3, <2>4
<1> QED
  BY <1>1, Invariance, PTL DEF Spec, SkipIsSafe
================================================================================
