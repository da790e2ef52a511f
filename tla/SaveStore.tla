------------------------------ MODULE SaveStore ------------------------------
(***************************************************************************)
(* What the local save storage promises to its users, without queue,       *)
(* worker or file system: each path holds one snapshot; a snapshot is       *)
(* identified by its place in the order in which the path's writes were     *)
(* accepted.  A success may be reported only for a snapshot that is on      *)
(* disk, the disk never steps back to an older snapshot, and a crash of the *)
(* process loses nothing that was stored.                                   *)
(***************************************************************************)
EXTENDS Naturals

CONSTANTS
    Paths,       \* save-file paths
    MaxWrites    \* bound on the writes accepted for one path

VARIABLES
    stored,      \* path -> newest snapshot on disk, 0 when there is none
    accepted,    \* path -> newest accepted snapshot
    acked        \* <<path, snapshot>> pairs whose success was reported

vars == <<stored, accepted, acked>>

Snapshots == 1 .. MaxWrites

TypeOK ==
    /\ stored \in [Paths -> 0 .. MaxWrites]
    /\ accepted \in [Paths -> 0 .. MaxWrites]
    /\ acked \subseteq Paths \X Snapshots

Init ==
    /\ stored = [p \in Paths |-> 0]
    /\ accepted = [p \in Paths |-> 0]
    /\ acked = {}

\* A write request is taken in: its snapshot is the newest of its path.
Accept(p) ==
    /\ accepted[p] < MaxWrites
    /\ accepted' = [accepted EXCEPT ![p] = @ + 1]
    /\ UNCHANGED <<stored, acked>>

\* Some accepted snapshot newer than the stored one reaches the disk; the
\* snapshots between the two are superseded and never written.
Persist(p, s) ==
    /\ stored[p] < s /\ s <= accepted[p]
    /\ stored' = [stored EXCEPT ![p] = s]
    /\ UNCHANGED <<accepted, acked>>

\* A caller is told that its snapshot, or a newer one of its path, is safe.
Ack(p, s) ==
    /\ s <= stored[p]
    /\ acked' = acked \cup {<<p, s>>}
    /\ UNCHANGED <<stored, accepted>>

Next ==
    \E p \in Paths :
        \/ Accept(p)
        \/ \E s \in Snapshots : Persist(p, s) \/ Ack(p, s)

Spec == Init /\ [][Next]_vars
=============================================================================
