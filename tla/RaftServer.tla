----------------------------- MODULE RaftServer -----------------------------
(***************************************************************************)
(* The state of the Raft peers of raft/raft.go, what they persist, how     *)
(* they start and restart, and the index arithmetic over a trimmed log.    *)
(*                                                                         *)
(* log[i][k + 1] is rf.log[k] of peer i: the entry at relative index k and *)
(* absolute index k + lastIncludedIndex[i].  Entry 0 stands for everything *)
(* up to lastIncludedIndex; its Term is rf.lastIncludedTerm, which every   *)
(* assignment of the code keeps equal to it.                               *)
(*                                                                         *)
(* Every action is one section of the code that runs under rf.mu, and the  *)
(* goroutines that such a section leaves behind are sets of pending work.  *)
(* Two goroutines that would do the same thing are one member of the set.  *)
(***************************************************************************)
EXTENDS Naturals, FiniteSets, Sequences

CONSTANTS
    Server,     \* the peers
    Nobody,     \* votedFor before the first vote (0 in the code, never read)
    Command,    \* what clients may Start
    MaxTerm,    \* bound: no election starts beyond this term
    MaxIndex,   \* bound: no command is started beyond this index
    Links       \* bound: <<i, j>> when the calls of peer i to peer j may get through

ASSUME ServerAssumption ==
    /\ IsFiniteSet(Server) /\ Server # {}
    /\ Nobody \notin Server
    /\ MaxTerm \in Nat
    /\ MaxIndex \in Nat
    /\ Links \subseteq Server \X Server

VARIABLES
    currentTerm, votedFor, votedTerm,
    log, lastIncludedIndex,
    saved,          \* what the Persister holds
    status,
    ticker,         \* the ticker goroutine and its latest election round
    startElection,  \* a goroutine is blocked sending on rf.startElection
    voteRequests,   \* RequestVote calls on their way to a peer
    voteReplies,    \* and on their way back
    nextIndex, matchIndex,
    replicating,    \* peers a replicatedEntriesToOne goroutine is due for
    commitIndex, lastApplied,
    largestIndexMathWithLeader,
    applying,       \* newIndex arguments of pending applyNewCommand goroutines
    requests,       \* AppendEntries and InstallSnapshot calls, likewise
    replies,
    snapshotting,   \* index arguments of pending Snapshot goroutines
    installing,     \* snapshots waiting to be read from the apply channel
    appliedTo,      \* applierSnap's lastApplied
    logs,           \* cfg.logs: what the tester has seen applied, per server
    applyErr,       \* what the tester's checkLogs has found wrong
    panicked        \* an index was out of range: the process has died

stateVars    == <<currentTerm, votedFor, votedTerm, saved, status>>
logVars      == <<log, lastIncludedIndex>>
electionVars == <<ticker, startElection, voteRequests, voteReplies>>
leaderVars   == <<nextIndex, matchIndex, replicating>>
netVars      == <<requests, replies>>
snapVars     == <<snapshotting, installing>>
testerVars   == <<appliedTo, logs, applyErr, panicked>>
commitVars   == <<commitIndex, lastApplied, largestIndexMathWithLeader, applying>>

Peers(i) == Server \ {i}

(* Faulty: half of the peers is enough.                                    *)
HalfOfPeers == Cardinality(Server) \div 2

majority == Cardinality(Server) \div 2 + 1

Indices == 1 .. MaxIndex
NotYet  == 0

Update(f, i, v) == f' = [f EXCEPT ![i] = v]

-----------------------------------------------------------------------------
getAbsoluteIndex(i, rel) == rel + lastIncludedIndex[i]

(* Faulty: one beyond the index of the next entry.                         *)
EndIndexPast(i) == getAbsoluteIndex(i, Len(log[i]) + 1)

EndIndex(i)  == getAbsoluteIndex(i, Len(log[i]))
LastIndex(i) == getAbsoluteIndex(i, Len(log[i]) - 1)
LastTerm(i)  == log[i][Len(log[i])].Term

(* Whether rf.log[getRelativeIndex(x)] is in range, and the entry there.   *)
InLog(i, x) == lastIncludedIndex[i] <= x /\ x <= LastIndex(i)
Entry(i, x) == log[i][x - lastIncludedIndex[i] + 1]

-----------------------------------------------------------------------------
Image(i) == [currentTerm       |-> currentTerm[i],
             votedFor          |-> votedFor[i],
             votedTerm         |-> votedTerm[i],
             log               |-> log[i],
             lastIncludedIndex |-> lastIncludedIndex[i]]

(* Faulty: nothing is written.                                             *)
PersistNothing(i) == UNCHANGED saved
PersistNoTerm(i, t) == UNCHANGED saved

(* persist at the end of a section that has changed several fields, and    *)
(* right after rf.currentTerm = t.                                         *)
persist(i) == saved' = [saved EXCEPT ![i] = Image(i)']
persistTerm(i, t) == saved' = [saved EXCEPT ![i] = [Image(i) EXCEPT !.currentTerm = t]]

Asleep == [waiting |-> FALSE, term |-> 0, count |-> {}, calls |-> {},
           woken |-> FALSE, expired |-> FALSE, timer |-> FALSE]

FirstEntry == [Term |-> 0, Command |-> 0]

(* What Make sets to zero, and nothing under way.                          *)
Fresh ==
    /\ lastIncludedIndex = [i \in Server |-> 0]
    /\ startElection = [i \in Server |-> FALSE]
    /\ voteRequests = {}
    /\ voteReplies = {}
    /\ matchIndex = [i \in Server |-> [j \in Server |-> 0]]
    /\ replicating = [i \in Server |-> {}]
    /\ commitIndex = [i \in Server |-> 0]
    /\ lastApplied = [i \in Server |-> 0]
    /\ largestIndexMathWithLeader = [i \in Server |-> 0]
    /\ applying = [i \in Server |-> {}]
    /\ requests = {}
    /\ replies = {}
    /\ snapshotting = [i \in Server |-> {}]
    /\ installing = [i \in Server |-> {}]
    /\ appliedTo = [i \in Server |-> 0]
    /\ logs = [i \in Server |-> [x \in Indices |-> NotYet]]
    /\ applyErr = {}
    /\ panicked = FALSE

(* Make for every peer, with an empty persister.                           *)
Make ==
    /\ Fresh
    /\ currentTerm = [i \in Server |-> 0]
    /\ votedFor = [i \in Server |-> Nobody]
    /\ votedTerm = [i \in Server |-> 0]
    /\ log = [i \in Server |-> <<FirstEntry>>]
    /\ status = [i \in Server |-> "follower"]
    /\ ticker = [i \in Server |-> Asleep]
    /\ nextIndex = [i \in Server |-> [j \in Server |-> 0]]
    /\ saved = [i \in Server |-> Image(i)]

(* Calls whose server or caller i goes away.  A request that i has sent is *)
(* still executed, but nobody waits for its reply.                         *)
Orphaned(calls, i) ==
    {[m EXCEPT !.live = @ /\ m.from # i] : m \in {n \in calls : n.to # i}}

(* crash1 followed by start1 of the tester: the instance is abandoned with *)
(* all its goroutines and Make restores what it had persisted.             *)
Restart(i) ==
    /\ Update(currentTerm, i, saved[i].currentTerm)
    /\ Update(votedFor, i, saved[i].votedFor)
    /\ Update(votedTerm, i, saved[i].votedTerm)
    /\ Update(log, i, saved[i].log)
    /\ Update(lastIncludedIndex, i, saved[i].lastIncludedIndex)
    /\ Update(status, i, "follower")
    /\ Update(ticker, i, Asleep)
    /\ Update(startElection, i, FALSE)
    /\ voteRequests' = Orphaned(voteRequests, i)
    /\ voteReplies' = {m \in voteReplies : m.to # i}
    /\ nextIndex' = [nextIndex EXCEPT ![i] = [j \in Server |-> 0]]
    /\ matchIndex' = [matchIndex EXCEPT ![i] = [j \in Server |-> 0]]
    /\ Update(replicating, i, {})
    /\ Update(commitIndex, i, 0)
    /\ Update(lastApplied, i, 0)
    /\ Update(largestIndexMathWithLeader, i, 0)
    /\ Update(applying, i, {})
    /\ requests' = Orphaned(requests, i)
    /\ replies' = {m \in replies : m.to # i}
    /\ Update(snapshotting, i, {})
    /\ Update(installing, i, {})
    /\ Update(appliedTo, i, 0)
    /\ UNCHANGED <<saved, logs, applyErr, panicked>>
=============================================================================
