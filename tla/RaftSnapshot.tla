---------------------------- MODULE RaftSnapshot ----------------------------
(***************************************************************************)
(* Snapshots in raft/raft.go: Snapshot, sendInstallSnapshotToOne, the      *)
(* InstallSnapshot handler, and the tester's applierSnap that calls        *)
(* CondInstallSnapshot (raft/config.go).  A snapshot is the command at its *)
(* index, which the log keeps as its entry 0.                              *)
(***************************************************************************)
EXTENDS RaftLog

(* Faulty: the entry before index stays.                                   *)
TrimmedShort(i, index) == SubSeq(log[i], index - lastIncludedIndex[i], Len(log[i]))

Trimmed(i, index) == SubSeq(log[i], index - lastIncludedIndex[i] + 1, Len(log[i]))

(* The goroutine that Snapshot starts: the log is trimmed up to index.     *)
Snapshot(i, index) ==
    /\ index \in snapshotting[i]
    /\ IF index > lastIncludedIndex[i] /\ ~InLog(i, index)
       THEN Panic
       ELSE /\ Update(snapshotting, i, snapshotting[i] \ {index})
            /\ IF index > lastIncludedIndex[i]
               THEN /\ Update(log, i, Trimmed(i, index))
                    /\ Update(lastIncludedIndex, i, index)
               ELSE UNCHANGED logVars
            /\ UNCHANGED <<currentTerm, votedFor, votedTerm, status, electionVars, leaderVars,
                           commitVars, netVars, installing, testerVars>>
            /\ IF index > lastIncludedIndex[i] THEN persist(i) ELSE UNCHANGED saved

(* sendInstallSnapshotToOne, started by every heartbeat and every Start.   *)
sendInstallSnapshotToOne(i, j) ==
    /\ status[i] = "leader"
    /\ nextIndex[i][j] <= lastIncludedIndex[i]
    /\ Call([type |-> "InstallSnapshot", from |-> i, to |-> j, live |-> TRUE,
             Term |-> currentTerm[i], LastIncludedIndex |-> lastIncludedIndex[i],
             LastIncludedTerm |-> log[i][1].Term, Snapshot |-> log[i][1].Command])
    /\ UNCHANGED <<stateVars, logVars, electionVars, leaderVars, commitVars, snapVars, testerVars>>

(* The InstallSnapshot handler of peer m.to passes the snapshot on to the  *)
(* service, unless the call is of an earlier term.                         *)
InstallSnapshot(m) ==
    LET i == m.to IN
    /\ m.type = "InstallSnapshot"
    /\ Answer(m, [type |-> m.type, from |-> i, to |-> m.from, Term |-> currentTerm[i]])
    /\ IF m.Term < currentTerm[i]
       THEN UNCHANGED <<currentTerm, status, saved, installing>>
       ELSE /\ Update(currentTerm, i, m.Term)
            /\ IF m.Term > currentTerm[i] THEN persistTerm(i, m.Term) ELSE UNCHANGED saved
            /\ Update(status, i, "follower")
            /\ Update(installing, i, installing[i] \cup
                         {[index |-> m.LastIncludedIndex, Term |-> m.LastIncludedTerm,
                           Command |-> m.Snapshot]})
    /\ UNCHANGED <<votedFor, votedTerm, logVars, electionVars, leaderVars, commitVars,
                   snapshotting, testerVars>>

(* The rest of sendInstallSnapshotToOne, in a server that is still leader. *)
SnapshotAnswered(m) ==
    LET i == m.to IN
    /\ m.type = "InstallSnapshot"
    /\ status[i] = "leader"
    /\ replies' = replies \ {m}
    /\ UNCHANGED requests
    /\ IF m.Term > currentTerm[i]
       THEN StepDown(i, m.Term)
       ELSE /\ nextIndex' = [nextIndex EXCEPT ![i][m.from] = EndIndex(i)]
            /\ UNCHANGED <<stateVars, logVars, electionVars, matchIndex, replicating,
                           commitVars, snapVars, testerVars>>

(* applierSnap reads a snapshot s and asks CondInstallSnapshot.            *)
CondInstallSnapshot(i, s) ==
    /\ s \in installing[i]
    /\ Update(installing, i, installing[i] \ {s})
    /\ IF commitIndex[i] >= s.index \/ lastIncludedIndex[i] >= s.index
       THEN UNCHANGED <<logVars, commitIndex, lastApplied, logs, appliedTo>>
       ELSE /\ Update(log, i, <<[Term |-> s.Term, Command |-> s.Command]>>)
            /\ Update(lastIncludedIndex, i, s.index)
            /\ Update(commitIndex, i, s.index)
            /\ Update(lastApplied, i, s.index)
            /\ Update(logs, i, [x \in Indices |-> IF x = s.index THEN s.Command ELSE NotYet])
            /\ Update(appliedTo, i, s.index)
    /\ UNCHANGED <<currentTerm, votedFor, votedTerm, status, electionVars, leaderVars, netVars,
                   largestIndexMathWithLeader, applying, snapshotting, applyErr, panicked>>
    /\ IF lastIncludedIndex'[i] = lastIncludedIndex[i] THEN UNCHANGED saved ELSE persist(i)

Snapshots ==
    \/ \E i \in Server : \/ \E x \in snapshotting[i] : Snapshot(i, x)
                         \/ \E j \in Peers(i) : sendInstallSnapshotToOne(i, j)
                         \/ \E s \in installing[i] : CondInstallSnapshot(i, s)
    \/ \E m \in requests : InstallSnapshot(m)
    \/ \E m \in replies : SnapshotAnswered(m)
=============================================================================
