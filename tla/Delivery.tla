------------------------------ MODULE Delivery ------------------------------
(***************************************************************************)
(* What delivery to the service amounts to when each section under rf.mu   *)
(* is taken as one step, as the Raft modules take it: the peers hand their *)
(* committed commands to their services all at once, and a snapshot is     *)
(* installed between two deliveries.                                       *)
(***************************************************************************)
EXTENDS Naturals

CONSTANTS
    Server, Leader,
    MaxIndex,          \* bound: entries in the leader's log
    SnapShotInterval

VARIABLES
    lastIndex,          \* index of the last entry of each log
    lastIncludedIndex,
    commitIndex, lastApplied,
    applying,           \* newIndex arguments of pending applyNewCommand goroutines
    installing,         \* indices of the snapshots on their way to the service
    snapshotting,       \* indices of pending Snapshot goroutines
    appliedTo           \* what the service has applied

logVars   == <<lastIndex, lastIncludedIndex>>
applyVars == <<commitIndex, lastApplied>>
workVars  == <<applying, installing, snapshotting>>
peerVars  == <<logVars, applyVars, workVars, appliedTo>>

Greater(x, y) == IF x > y THEN x ELSE y
Smaller(x, y) == IF x < y THEN x ELSE y
Update(f, i, v) == f' = [f EXCEPT ![i] = v]

DeliveryInit ==
    /\ lastIndex = [i \in Server |-> 0]
    /\ lastIncludedIndex = [i \in Server |-> 0]
    /\ commitIndex = [i \in Server |-> 0]
    /\ lastApplied = [i \in Server |-> 0]
    /\ applying = [i \in Server |-> {}]
    /\ installing = [i \in Server |-> {}]
    /\ snapshotting = [i \in Server |-> {}]
    /\ appliedTo = [i \in Server |-> 0]

-----------------------------------------------------------------------------
(* The short sections.  Start on the leader:                               *)
Append ==
    /\ lastIndex[Leader] < MaxIndex
    /\ Update(lastIndex, Leader, lastIndex[Leader] + 1)
    /\ UNCHANGED <<lastIncludedIndex, applyVars, workVars, appliedTo>>

(* AppendEntries on a follower.  A call with entries extends its log to n; *)
(* a heartbeat, the only one with LeaderCommit set, tells that the entries *)
(* up to newIndex are committed.  Either may have been sent some time ago. *)
(* (lastApplied of the leader is its commitIndex when its rf.mu is free.)  *)
AppendEntries(i, n, newIndex) ==
    /\ i # Leader
    /\ n \in lastIndex[i] .. lastIndex[Leader]
    /\ newIndex \in 0 .. Smaller(lastIndex[i], lastApplied[Leader])
    /\ n = lastIndex[i] \/ newIndex = 0
    /\ Update(lastIndex, i, n)
    /\ Update(applying, i, IF newIndex > commitIndex[i] THEN applying[i] \cup {newIndex}
                           ELSE applying[i])
    /\ UNCHANGED <<lastIncludedIndex, applyVars, installing, snapshotting, appliedTo>>

(* The indices at which applierSnap takes a snapshot.                      *)
IsSnapshot(x) == (x + 1) % SnapShotInterval = 0

(* InstallSnapshot on a follower, with a snapshot the leader has or had.   *)
InstallSnapshot(i, s) ==
    /\ i # Leader
    /\ s \in 1 .. lastIncludedIndex[Leader] /\ IsSnapshot(s)
    /\ Update(installing, i, installing[i] \cup {s})
    /\ UNCHANGED <<logVars, applyVars, applying, snapshotting, appliedTo>>

(* One of the goroutines for index n ends; there may have been several.    *)
EndOne(work, i, n) == UNCHANGED work \/ Update(work, i, work[i] \ {n})

(* The goroutine of Snapshot: an index after the last entry is a panic,    *)
(* which ends the program.                                                 *)
Snapshot(i, x) ==
    /\ x \in snapshotting[i]
    /\ x > lastIncludedIndex[i] => x <= lastIndex[i]
    /\ EndOne(snapshotting, i, x)
    /\ Update(lastIncludedIndex, i, Greater(x, lastIncludedIndex[i]))
    /\ UNCHANGED <<lastIndex, applyVars, applying, installing, appliedTo>>

(* CondInstallSnapshot and what applierSnap does with its answer.          *)
Installs(i, s) == s > commitIndex[i] /\ s > lastIncludedIndex[i]

CondInstall(i, s) ==
    IF Installs(i, s)
    THEN /\ Update(lastIndex, i, s) /\ Update(lastIncludedIndex, i, s)
         /\ Update(commitIndex, i, s) /\ Update(lastApplied, i, s)
         /\ Update(appliedTo, i, s)
    ELSE UNCHANGED <<logVars, applyVars, appliedTo>>

-----------------------------------------------------------------------------
(* The service receives the commands from first to last and ignores those  *)
(* it has applied.                                                         *)
Taken(first, last, applied) == {x \in first .. last : x > applied /\ IsSnapshot(x)}

Deliver(i, first, last) ==
    /\ Update(appliedTo, i, IF first <= last THEN Greater(appliedTo[i], last) ELSE appliedTo[i])
    /\ Update(snapshotting, i, snapshotting[i] \cup Taken(first, last, appliedTo[i]))

applyAll(i, n) ==
    /\ n \in applying[i]
    /\ EndOne(applying, i, n)
    /\ Update(lastApplied, i, n) /\ Update(commitIndex, i, n)
    /\ Deliver(i, Greater(lastApplied[i], lastIncludedIndex[i]) + 1, Smaller(n, lastIndex[i]))
    /\ UNCHANGED <<logVars, installing>>

leaderApplyAll(n) ==
    /\ n \in commitIndex[Leader] + 1 .. lastIndex[Leader]
    /\ Update(lastApplied, Leader, n) /\ Update(commitIndex, Leader, n)
    /\ Deliver(Leader, lastApplied[Leader] + 1, n)
    /\ UNCHANGED <<logVars, applying, installing>>

InstallOne(i, s) ==
    /\ s \in installing[i]
    /\ CondInstall(i, s)
    /\ EndOne(installing, i, s)
    /\ UNCHANGED <<applying, snapshotting>>

DeliveryNext ==
    \/ Append
    \/ \E i \in Server : \E n, m \in 0 .. MaxIndex : AppendEntries(i, n, m)
    \/ \E i \in Server : \E x \in 1 .. MaxIndex :
          \/ InstallSnapshot(i, x)
          \/ Snapshot(i, x)
          \/ applyAll(i, x)
          \/ InstallOne(i, x)
    \/ \E n \in 1 .. MaxIndex : leaderApplyAll(n)

DeliverySpec == DeliveryInit /\ [][DeliveryNext]_peerVars
=============================================================================
