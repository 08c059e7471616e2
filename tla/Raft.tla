-------------------------------- MODULE Raft --------------------------------
(***************************************************************************)
(* Raft peers over a network that delays, reorders and loses calls, with   *)
(* peers that crash and restart from what they persisted.                  *)
(***************************************************************************)
EXTENDS RaftElection, RaftSnapshot

CONSTANT
    MayRestart   \* peers that the tester may crash and restart

ASSUME RestartAssumption == MayRestart \subseteq Server

vars == <<stateVars, logVars, electionVars, leaderVars, commitVars, netVars, snapVars, testerVars>>

Init == Make

(* A panic and a failed check of the tester both end the process.          *)
Running == ~panicked /\ applyErr = {}

Next ==
    /\ Running
    /\ \/ Election
       \/ Replication
       \/ Snapshots
       \/ \E i \in MayRestart : Restart(i)

Spec == Init /\ [][Next]_vars

(* What the Go scheduler and labrpc grant: a goroutine that can run does,  *)
(* a timer goes off, and every Call returns (raft.go: "Call() is           *)
(* guaranteed to return").                                                 *)
TickerRuns(i) ==
    Running /\ (TickerSkip(i) \/ TickerStart(i) \/ TickerWait(i) \/ TickerLose(i) \/ TickerWin(i))

VoteCallReturns(i, j) ==
    /\ Running
    /\ \/ VoteCallFails(i, j)
       \/ \E m \in voteReplies : /\ m.to = i /\ m.from = j /\ m.round = ticker[i].term
                                 /\ HandleVoteReply(m)

ElectionFairness ==
    /\ \A i \in Server : WF_vars(TickerRuns(i)) /\ WF_vars(Running /\ Timer(i))
    /\ \A i, j \in Server : WF_vars(VoteCallReturns(i, j))

ElectionSpec == Spec /\ ElectionFairness

(* And a leader that sends again and again to the peers it can reach, over *)
(* a network that loses calls, but not all heartbeats or all entries for   *)
(* ever (without snapshots).                                               *)
Delivered(i, j, heartbeat) ==
    /\ Running
    /\ \E m \in requests : /\ m.from = i /\ m.to = j /\ m.heartbeat = heartbeat
                           /\ \/ AppendEntriesStale(m)
                              \/ AppendEntriesMismatch(m)
                              \/ AppendEntries(m)
Answered(i, j, heartbeat) ==
    /\ Running
    /\ \E m \in replies : /\ m.from = j /\ m.to = i /\ m.heartbeat = heartbeat
                          /\ \/ AppendReplyIgnored(m)
                             \/ AppendRefused(m)
                             \/ HeartBeatAccepted(m)
                             \/ EntriesAccepted(m)

ReplicationFairness ==
    \A l \in Links : /\ SF_vars(Running /\ sendHeartBeatToOne(l[1], l[2]))
                     /\ SF_vars(Running /\ replicatedEntriesToOne(l[1], l[2]))
                     /\ \A h \in BOOLEAN : /\ SF_vars(Delivered(l[1], l[2], h))
                                           /\ SF_vars(Answered(l[1], l[2], h))

-----------------------------------------------------------------------------
LogEntry == [Term : Nat, Command : Command \cup {0}]

Round == [waiting : BOOLEAN, term : Nat, count : SUBSET Server, calls : SUBSET Server,
          woken : BOOLEAN, expired : BOOLEAN, timer : BOOLEAN]

VoteRequest == [from : Server, to : Server, Term : Nat, live : BOOLEAN,
                LastLogTerm : Nat, LastLogIndex : Nat]
VoteReply   == [from : Server, to : Server, round : Nat, Term : Nat, VoteGranted : BOOLEAN]

AppendRequest  == [type : {"AppendEntries"}, from : Server, to : Server, live : BOOLEAN,
                   Term : Nat, PrevLogIndex : Nat, PrevLogTerm : Nat, Entries : Seq(LogEntry),
                   LeaderCommit : Nat, heartbeat : BOOLEAN]
AppendAnswer   == [type : {"AppendEntries"}, from : Server, to : Server, Term : Nat,
                   Success : BOOLEAN, NewPrevLogIndex : Nat, heartbeat : BOOLEAN,
                   sendLogLastIndex : Nat]
InstallRequest == [type : {"InstallSnapshot"}, from : Server, to : Server, live : BOOLEAN,
                   Term : Nat, LastIncludedIndex : Nat, LastIncludedTerm : Nat,
                   Snapshot : Command \cup {0}]
InstallAnswer  == [type : {"InstallSnapshot"}, from : Server, to : Server, Term : Nat]

(* The fields of Raft, the RPC arguments and the tester's logs stay within *)
(* their types; no log is ever empty, and every index is a natural number. *)
TypeOK ==
    /\ currentTerm \in [Server -> Nat] /\ votedTerm \in [Server -> Nat]
    /\ votedFor \in [Server -> Server \cup {Nobody}]
    /\ log \in [Server -> Seq(LogEntry) \ {<<>>}]
    /\ lastIncludedIndex \in [Server -> Nat]
    /\ status \in [Server -> {"follower", "candidate", "leader"}]
    /\ ticker \in [Server -> Round] /\ startElection \in [Server -> BOOLEAN]
    /\ voteRequests \subseteq VoteRequest /\ voteReplies \subseteq VoteReply
    /\ nextIndex \in [Server -> [Server -> Nat]] /\ matchIndex \in [Server -> [Server -> Nat]]
    /\ replicating \in [Server -> SUBSET Server]
    /\ commitIndex \in [Server -> Nat] /\ lastApplied \in [Server -> Nat]
    /\ largestIndexMathWithLeader \in [Server -> Nat]
    /\ applying \in [Server -> SUBSET Nat]
    /\ requests \subseteq AppendRequest \cup InstallRequest
    /\ replies \subseteq AppendAnswer \cup InstallAnswer
    /\ snapshotting \in [Server -> SUBSET Indices]
    /\ installing \in [Server -> SUBSET [index : Nat, Term : Nat, Command : Command \cup {0}]]
    /\ appliedTo \in [Server -> Nat]
    /\ logs \in [Server -> [Indices -> Command \cup {0}]]
    /\ applyErr \subseteq {"commit", "order"} /\ panicked \in BOOLEAN

-----------------------------------------------------------------------------
(* At most one leader per term: what becomeLeaderInit relies on, and what  *)
(* the tester's checkOneLeader asks of GetState.                           *)
ElectionSafety ==
    \A i, j \in Server :
        status[i] = "leader" /\ status[j] = "leader" /\ currentTerm[i] = currentTerm[j] => i = j

(* One step leaves the votes and the terms as they are or moves on.        *)
VotesKept ==
    \A i \in Server : /\ currentTerm'[i] >= currentTerm[i]
                      /\ votedTerm'[i] >= votedTerm[i]
                      /\ votedTerm'[i] = votedTerm[i] => votedFor'[i] = votedFor[i]

(* RequestVote and ticker never change a vote within a term and never go   *)
(* back to an earlier term, not even when the peer restarts in between.    *)
VoteOnce == [][VotesKept]_vars

(* Whatever a peer lets others see (a vote, a term, an acknowledged entry) *)
(* is in its persister: every handler persists before it answers.          *)
SavedCurrent == \A i \in Server : saved[i] = Image(i)

(* The tester's checkLogs and applier find nothing wrong: no two servers   *)
(* apply different commands at an index, and none skips an index.          *)
AppliedLogsAgree == applyErr = {}

(* No handler looks up an entry that the log does not have.                *)
NoPanic == ~panicked

(* Two logs that agree on the term of an entry agree on all before it, as  *)
(* far as both still have them: what isMatchPrevLog relies on.             *)
LogMatching ==
    \A i, j \in Server : \A x \in 1 .. MaxIndex :
        InLog(i, x) /\ InLog(j, x) /\ Entry(i, x).Term = Entry(j, x).Term =>
            \A y \in 1 .. x : InLog(i, y) /\ InLog(j, y) => Entry(i, y) = Entry(j, y)

(* What the persister of j has for index x, trimmed entries included.      *)
SavedHas(j, x, command) ==
    LET rel == x - saved[j].lastIncludedIndex + 1 IN
    \/ x <= saved[j].lastIncludedIndex
    \/ /\ rel <= Len(saved[j].log)
       /\ saved[j].log[rel].Command = command

(* A command that some server has applied is in the persisted log of a     *)
(* majority, so that leaderApply never counts an entry that a crash or a   *)
(* reordered AppendEntries takes away again.                               *)
AppliedIsDurable ==
    \A i \in Server : \A x \in Indices :
        logs[i][x] # NotYet =>
            Cardinality({j \in Server : SavedHas(j, x, logs[i][x])}) >= majority

(* What a leader has in matchIndex is in the peer's persisted log: an      *)
(* entry that was acknowledged is not lost to a delayed, shorter call.     *)
MatchedIsSaved ==
    \A i \in Server : status[i] = "leader" =>
        \A j \in Peers(i) : \A x \in lastIncludedIndex[i] + 1 .. matchIndex[i][j] :
            SavedHas(j, x, Entry(i, x).Command)

(* The ticker always gets out of its cond.Wait loop, whatever happens to   *)
(* the calls and to the status of the peer: "otherwise this thread blocks  *)
(* and cannot enter the next election".                                    *)
TickerReturns == \A i \in Server : ticker[i].waiting ~> ~ticker[i].waiting

(* A command that Start has accepted is committed as long as the leader    *)
(* keeps running and leading.                                              *)
Agreement ==
    \A i \in Server : \A x \in Indices :
        status[i] = "leader" /\ LastIndex(i) >= x ~> status[i] # "leader" \/ commitIndex[i] >= x

(* The entry that stands for a snapshot is the command that every server   *)
(* that has applied its index has applied there: Snapshot and              *)
(* CondInstallSnapshot trim the log at the right place.                    *)
SnapshotIsApplied ==
    \A i, j \in Server : LET x == lastIncludedIndex[i] IN
        x > 0 => logs[j][x] \in {NotYet, log[i][1].Command}

(* CondInstallSnapshot switches to a snapshot only when the log has        *)
(* nothing more recent, which the switch would throw away.                 *)
InstallsOnlyNews ==
    [][\A i \in Server : \A s \in installing[i] :
          CondInstallSnapshot(i, s) /\ lastIncludedIndex'[i] # lastIncludedIndex[i] =>
              LastIndex(i) <= s.index]_vars

(* The commands that applyNewCommand sends are newly committed: no command *)
(* is delivered twice by the same peer.                                    *)
NewlyCommitted ==
    [][\A i \in Server : \A n \in applying[i] : applyNewCommand(i, n) =>
          \A x \in lastApplied[i] + 1 .. n : logs[i][x] = NotYet]_vars
=============================================================================
