------------------------------ MODULE RaftLog -------------------------------
(***************************************************************************)
(* Log replication in raft/raft.go: Start, heartbeats, AppendEntries and   *)
(* the handling of its replies, leaderApply and applyNewCommand, and the   *)
(* tester's appliers that read the apply channel (raft/config.go).         *)
(*                                                                         *)
(* A call of AppendEntries carries heartbeat = TRUE when it comes from     *)
(* sendHeartBeatToOne (no entries, the leader's commitIndex) and FALSE     *)
(* from replicatedEntriesToOne (the entries from nextIndex on, a zero      *)
(* LeaderCommit).                                                          *)
(***************************************************************************)
EXTENDS RaftServer

CONSTANTS
    MaxCalls,          \* bound: AppendEntries and InstallSnapshot calls under way
    SnapShotInterval   \* 0 when the tester runs applier instead of applierSnap

Min2(a, b) == IF a > b THEN b ELSE a
Max2(a, b) == IF a > b THEN a ELSE b

(* Whatever uses an entry that rf.log does not have ends the process.      *)
Panic == /\ panicked' = TRUE
         /\ UNCHANGED <<stateVars, logVars, electionVars, leaderVars, commitVars, netVars,
                        snapVars, appliedTo, logs, applyErr>>

-----------------------------------------------------------------------------
(* The tester reads commands first..last from server i's apply channel and *)
(* checks each against what every server has applied at that index.        *)
(* applierSnap skips what it has applied before, and asks for a snapshot   *)
(* at every index one below a multiple of SnapShotInterval.                *)
Apply(i, first, last) ==
    LET snap   == SnapShotInterval > 0
        range  == {x \in Indices : first <= x /\ x <= last /\ (snap => x > appliedTo[i])}
        seen   == [x \in Indices |-> IF x \in range THEN Entry(i, x).Command ELSE logs[i][x]]
        differ == \E x \in range, j \in Server : logs[j][x] \notin {NotYet, seen[x]}
        gap    == \E x \in range : x > 1 /\ seen[x - 1] = NotYet
        due    == {x \in range : snap /\ (x + 1) % SnapShotInterval = 0}
    IN
    /\ Update(logs, i, seen)
    /\ applyErr' = applyErr \cup (IF differ THEN {"commit"} ELSE {})
                            \cup (IF gap THEN {"order"} ELSE {})
    /\ Update(appliedTo, i, IF snap /\ range # {} THEN last ELSE appliedTo[i])
    /\ Update(snapshotting, i, snapshotting[i] \cup due)
    /\ UNCHANGED <<installing, panicked>>

(* applyNewCommand, in the goroutine that AppendEntries starts.            *)
applyNewCommand(i, newIndex) ==
    LET from == Max2(lastApplied[i], lastIncludedIndex[i]) + 1 IN
    /\ newIndex \in applying[i]
    /\ Update(applying, i, applying[i] \ {newIndex})
    /\ Apply(i, from, Min2(newIndex, LastIndex(i)))
    /\ Update(lastApplied, i, newIndex)
    /\ Update(commitIndex, i, newIndex)
    /\ UNCHANGED <<stateVars, logVars, electionVars, leaderVars, netVars,
                   largestIndexMathWithLeader>>

-----------------------------------------------------------------------------
(* Start on a leader: append, persist, one goroutine per peer.             *)
Start(i, c) ==
    /\ status[i] = "leader"
    /\ LastIndex(i) < MaxIndex
    /\ Update(log, i, Append(log[i], [Term |-> currentTerm[i], Command |-> c]))
    /\ Update(replicating, i, Peers(i))
    /\ UNCHANGED <<currentTerm, votedFor, votedTerm, status, lastIncludedIndex, electionVars,
                   nextIndex, matchIndex, commitVars, netVars, snapVars, testerVars>>
    /\ persist(i)

Call(m) == /\ Cardinality(requests) + Cardinality(replies) < MaxCalls
           /\ requests' = requests \cup {n \in {m} : <<n.from, n.to>> \in Links}
           /\ UNCHANGED replies

AppendCall(i, j, entries, commit, heartbeat) ==
    LET prev == nextIndex[i][j] - 1 IN
    Call([type |-> "AppendEntries", from |-> i, to |-> j, live |-> TRUE,
          Term |-> currentTerm[i], PrevLogIndex |-> prev, PrevLogTerm |-> Entry(i, prev).Term,
          Entries |-> entries, LeaderCommit |-> commit, heartbeat |-> heartbeat])

CanSendTo(i, j) == status[i] = "leader" /\ nextIndex[i][j] > lastIncludedIndex[i]

(* sendHeartBeatToOne, which sendHeartBeats starts again and again while   *)
(* the server is leader.                                                   *)
sendHeartBeatToOne(i, j) ==
    /\ CanSendTo(i, j)
    /\ IF InLog(i, nextIndex[i][j] - 1)
       THEN /\ AppendCall(i, j, <<>>, commitIndex[i], TRUE)
            /\ UNCHANGED <<stateVars, logVars, electionVars, leaderVars, commitVars,
                           snapVars, testerVars>>
       ELSE Panic

(* replicatedEntriesToOne sends all the entries from nextIndex on.         *)
replicatedEntriesToOne(i, j) ==
    LET next == nextIndex[i][j]
        rest == SubSeq(log[i], next - lastIncludedIndex[i] + 1, Len(log[i]))
    IN
    /\ j \in replicating[i]
    /\ IF CanSendTo(i, j) /\ ~InLog(i, next - 1)
       THEN Panic
       ELSE /\ IF CanSendTo(i, j) THEN AppendCall(i, j, rest, 0, FALSE) ELSE UNCHANGED netVars
            /\ Update(replicating, i, replicating[i] \ {j})
            /\ UNCHANGED <<stateVars, logVars, electionVars, nextIndex, matchIndex,
                           commitVars, snapVars, testerVars>>

-----------------------------------------------------------------------------
(* isMatchPrevLog: whether the log of i has the entry before the leader's, *)
(* where the leader should try next, and whether looking for that place    *)
(* runs off the front of a trimmed log.                                    *)
Matches(i, m) ==
    /\ m.PrevLogIndex <= LastIndex(i)
    /\ m.PrevLogIndex > lastIncludedIndex[i] => Entry(i, m.PrevLogIndex).Term = m.PrevLogTerm

OtherTerm(i, x) ==
    {y \in lastIncludedIndex[i] .. x : Entry(i, y).Term # Entry(i, x).Term}

(* Faulty: one too low when the log is too short.                          *)
NewPrevLogIndexLow(i, x) == IF x > LastIndex(i) THEN LastIndex(i) - 1 ELSE 0

NewPrevLogIndex(i, x) ==
    IF x > LastIndex(i) THEN LastIndex(i)
    ELSE CHOOSE y \in OtherTerm(i, x) \cup {0} : \A z \in OtherTerm(i, x) : z <= y

RunsOff(i, m) ==
    /\ ~Matches(i, m)
    /\ m.PrevLogIndex <= LastIndex(i)
    /\ OtherTerm(i, m.PrevLogIndex) = {}
    /\ lastIncludedIndex[i] > 1

(* The log that AppendEntries builds, in the array of the old one.  When   *)
(* it is not longer than what is known to match the leader it is dropped,  *)
(* but its entries stay in the array; whether they do when it is longer    *)
(* than the old log depends on the array's capacity.                       *)

(* Faulty: entries that conflict with the leader's are kept.               *)
NewLogKept(i, m) ==
    log[i] \o SubSeq(m.Entries, LastIndex(i) - m.PrevLogIndex + 1, Len(m.Entries))

NewLog(i, m)   == SubSeq(log[i], 1, m.PrevLogIndex + 1 - lastIncludedIndex[i]) \o m.Entries
NewLast(i, m)  == getAbsoluteIndex(i, Len(NewLog(i, m)) - 1)
HasNews(i, m)  == m.Entries # <<>> /\ m.PrevLogIndex >= lastIncludedIndex[i]

(* Faulty: a shorter log replaces a longer one.                            *)
AcceptsShorter(i, m) == HasNews(i, m)

Accepts(i, m)  == HasNews(i, m) /\ largestIndexMathWithLeader[i] < NewLast(i, m)
InPlace(i, m)  == [k \in 1 .. Len(log[i]) |->
                      IF k <= Len(NewLog(i, m)) THEN NewLog(i, m)[k] ELSE log[i][k]]
Dropped(i, m)  == {InPlace(i, m)} \cup (IF NewLast(i, m) > LastIndex(i) THEN {log[i]} ELSE {})

AppendLog(i, m) ==
    IF Accepts(i, m)
    THEN /\ Update(log, i, NewLog(i, m))
         /\ Update(largestIndexMathWithLeader, i, NewLast(i, m))
    ELSE /\ UNCHANGED largestIndexMathWithLeader
         /\ \E l \in (IF HasNews(i, m) THEN Dropped(i, m) ELSE {log[i]}) : Update(log, i, l)

Answer(m, reply) ==
    /\ requests' = requests \ {m}
    /\ replies' = IF m.live THEN replies \cup {reply} ELSE replies

AppendReply(m, success, prev) ==
    [type |-> m.type, from |-> m.to, to |-> m.from, Term |-> currentTerm[m.to],
     Success |-> success, NewPrevLogIndex |-> prev, heartbeat |-> m.heartbeat,
     sendLogLastIndex |-> m.PrevLogIndex + Len(m.Entries)]

(* The AppendEntries handler of peer m.to: a call of an earlier term ...   *)
AppendEntriesStale(m) ==
    /\ m.type = "AppendEntries"
    /\ m.Term < currentTerm[m.to]
    /\ Answer(m, AppendReply(m, FALSE, 0))
    /\ UNCHANGED <<stateVars, logVars, electionVars, leaderVars, commitVars, snapVars, testerVars>>

(* ... one that does not match the log ...                                 *)
AppendEntriesMismatch(m) ==
    LET i == m.to IN
    /\ m.type = "AppendEntries"
    /\ m.Term >= currentTerm[i]
    /\ ~Matches(i, m)
    /\ IF RunsOff(i, m)
       THEN Panic
       ELSE /\ Update(currentTerm, i, m.Term)
            /\ IF m.Term > currentTerm[i] THEN persistTerm(i, m.Term) ELSE UNCHANGED saved
            /\ Update(status, i, "follower")
            /\ Answer(m, AppendReply(m, FALSE, NewPrevLogIndex(i, m.PrevLogIndex)))
            /\ UNCHANGED <<votedFor, votedTerm, logVars, electionVars, leaderVars, commitVars,
                           snapVars, testerVars>>

(* ... and one that does.                                                  *)
AppendEntries(m) ==
    LET i      == m.to
        commit == Min2(m.LeaderCommit, m.PrevLogIndex)
    IN
    /\ m.type = "AppendEntries"
    /\ m.Term >= currentTerm[i]
    /\ Matches(i, m)
    /\ Update(currentTerm, i, m.Term)
    /\ Update(status, i, "follower")
    /\ AppendLog(i, m)
    /\ Update(applying, i, applying[i] \cup (IF commit > commitIndex[i] THEN {commit} ELSE {}))
    /\ Answer(m, AppendReply(m, TRUE, 0))
    /\ UNCHANGED <<votedFor, votedTerm, lastIncludedIndex, electionVars, leaderVars,
                   commitIndex, lastApplied, snapVars, testerVars>>
    /\ IF Accepts(i, m) THEN persist(i)
       ELSE IF m.Term > currentTerm[i] THEN persistTerm(i, m.Term)
       ELSE UNCHANGED saved

-----------------------------------------------------------------------------
(* The reply tells a later term: the leader steps down.                    *)
StepDown(i, t) ==
    /\ Update(currentTerm, i, t)
    /\ Update(status, i, "follower")
    /\ persistTerm(i, t)
    /\ UNCHANGED <<votedFor, votedTerm, logVars, electionVars, leaderVars, commitVars,
                   snapVars, testerVars>>

(* Faulty: one peer less is enough.                                        *)
ReplicatedFew(i, match) ==
    {x \in commitIndex[i] + 1 .. LastIndex(i) :
        Cardinality({j \in Peers(i) : match[j] >= x}) + 1 >= Cardinality(Server) \div 2}

(* The indices that leaderApply finds on enough peers.                     *)
Replicated(i, match) ==
    {x \in commitIndex[i] + 1 .. LastIndex(i) :
        Cardinality({j \in Peers(i) : match[j] >= x}) >= Cardinality(Server) \div 2}

(* Faulty: only the newest command is applied.                             *)
leaderApplyNewest(i, match) ==
    LET found    == Replicated(i, match)
        newIndex == CHOOSE x \in found : \A y \in found : y <= x
    IN
    IF found = {}
    THEN UNCHANGED <<commitIndex, lastApplied, snapVars, testerVars>>
    ELSE /\ Update(commitIndex, i, newIndex)
         /\ Update(lastApplied, i, newIndex)
         /\ Apply(i, newIndex, newIndex)

(* leaderApply once matchIndex has become match: commit the highest of     *)
(* them.                                                                   *)
leaderApply(i, match) ==
    LET found    == Replicated(i, match)
        newIndex == CHOOSE x \in found : \A y \in found : y <= x
    IN
    IF found = {}
    THEN UNCHANGED <<commitIndex, lastApplied, snapVars, testerVars>>
    ELSE /\ Update(commitIndex, i, newIndex)
         /\ Update(lastApplied, i, newIndex)
         /\ Apply(i, lastApplied[i] + 1, newIndex)

(* The indices that leaderApply looks up start before a trimmed log.       *)
AppliesTrimmed(i, match) ==
    /\ Replicated(i, match) # {}
    /\ lastApplied[i] + 1 < lastIncludedIndex[i]

(* sendHeartBeatToOne and replicatedEntriesToOne with their reply: in a    *)
(* server that is no longer leader ...                                     *)
AppendReplyIgnored(m) ==
    /\ status[m.to] # "leader"
    /\ replies' = replies \ {m}
    /\ UNCHANGED <<requests, stateVars, logVars, electionVars, leaderVars, commitVars,
                   snapVars, testerVars>>

(* ... refused ...                                                         *)
AppendRefused(m) ==
    LET i == m.to IN
    /\ m.type = "AppendEntries"
    /\ status[i] = "leader"
    /\ ~m.Success
    /\ replies' = replies \ {m}
    /\ UNCHANGED requests
    /\ IF m.Term > currentTerm[i]
       THEN StepDown(i, m.Term)
       ELSE /\ nextIndex' = [nextIndex EXCEPT ![i][m.from] = m.NewPrevLogIndex + 1]
            /\ UNCHANGED <<stateVars, logVars, electionVars, matchIndex, replicating,
                           commitVars, snapVars, testerVars>>

(* Faulty: the last entry is not sent again.                               *)
BehindByTwo(i, j) == nextIndex[i][j] < LastIndex(i)

Behind(i, j) == nextIndex[i][j] < EndIndex(i)

(* ... a heartbeat that matched ...                                        *)
HeartBeatAccepted(m) ==
    LET i == m.to IN
    /\ m.type = "AppendEntries"
    /\ status[i] = "leader"
    /\ m.Success /\ m.heartbeat
    /\ replies' = replies \ {m}
    /\ Update(replicating, i, replicating[i] \cup
                  (IF Behind(i, m.from) THEN {m.from} ELSE {}))
    /\ UNCHANGED <<requests, stateVars, logVars, electionVars, nextIndex, matchIndex,
                   commitVars, snapVars, testerVars>>

(* ... and entries that were taken.                                        *)
EntriesAccepted(m) ==
    LET i     == m.to
        match == [matchIndex[i] EXCEPT ![m.from] = m.sendLogLastIndex]
    IN
    /\ m.type = "AppendEntries"
    /\ status[i] = "leader"
    /\ m.Success /\ ~m.heartbeat
    /\ IF AppliesTrimmed(i, match)
       THEN Panic
       ELSE /\ replies' = replies \ {m}
            /\ nextIndex' = [nextIndex EXCEPT ![i][m.from] = EndIndex(i)]
            /\ Update(matchIndex, i, match)
            /\ leaderApply(i, match)
            /\ UNCHANGED <<requests, stateVars, logVars, electionVars, replicating,
                           largestIndexMathWithLeader, applying>>

(* A request or a reply is lost: Call returns false and nothing is done.   *)
CallFails(m) ==
    /\ requests' = requests \ {m}
    /\ replies' = replies \ {m}
    /\ UNCHANGED <<stateVars, logVars, electionVars, leaderVars, commitVars, snapVars, testerVars>>

Replication ==
    \/ \E i \in Server : \/ \E c \in Command : Start(i, c)
                         \/ \E x \in applying[i] : applyNewCommand(i, x)
                         \/ \E j \in Peers(i) : \/ sendHeartBeatToOne(i, j)
                                                \/ replicatedEntriesToOne(i, j)
    \/ \E m \in requests : \/ AppendEntriesStale(m)
                           \/ AppendEntriesMismatch(m)
                           \/ AppendEntries(m)
    \/ \E m \in replies : \/ AppendReplyIgnored(m)
                          \/ AppendRefused(m)
                          \/ HeartBeatAccepted(m)
                          \/ EntriesAccepted(m)
    \/ \E m \in requests \cup replies : CallFails(m)
=============================================================================
