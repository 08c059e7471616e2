---------------------------- MODULE RaftElection ----------------------------
(***************************************************************************)
(* Leader election in raft/raft.go: the RequestVote handler, the ticker    *)
(* goroutine with its timer and its vote-collecting goroutines, and        *)
(* checkState.                                                             *)
(*                                                                         *)
(* ticker[i] is the election round the ticker of peer i is or was last in: *)
(*   waiting  in the cond.Wait loop                                        *)
(*   term     the round's term (the local variable term)                   *)
(*   count    the peers whose votes have been counted, i's own left out    *)
(*   calls    while waiting, the peers whose goroutine has not returned;   *)
(*            finished is the number of the others.  A goroutine that      *)
(*            finds the server no longer candidate does not count as       *)
(*            finished, but the loop then ends anyway.                     *)
(*   woken    cond.Broadcast since the loop condition was last tested      *)
(*   expired  the time since rf.lastTime exceeds rf.electionTime           *)
(*   timer    the timer goroutine of the round is still asleep             *)
(*                                                                         *)
(* The goroutines send their requests when the round starts; one that is   *)
(* scheduled after the server has stopped being a candidate sends nothing, *)
(* as if its request were lost.                                            *)
(***************************************************************************)
EXTENDS RaftServer

CONSTANTS
    LateReplies,   \* whether votes may arrive after the next election timeout
    Timeouts       \* bound: <<i, t>> when peer i may time out as follower in term t

isAdvanceThanCandidate(i, LastLogTerm, LastLogIndex) ==
    \/ LastTerm(i) > LastLogTerm
    \/ LastTerm(i) = LastLogTerm /\ LastIndex(i) > LastLogIndex

(* Whether RequestVote grants the vote: the log of i is not ahead of the   *)
(* candidate's and i has not voted in the candidate's term.                *)
Grants(i, m) ==
    /\ m.Term >= currentTerm[i]
    /\ ~isAdvanceThanCandidate(i, m.LastLogTerm, m.LastLogIndex)
    /\ m.Term > currentTerm[i] \/ votedTerm[i] < m.Term

(* The RequestVote handler of peer m.to.                                   *)
RequestVote(m) ==
    LET i       == m.to
        newer   == m.Term > currentTerm[i]
        granted == Grants(i, m)
        reply   == [from |-> i, to |-> m.from, round |-> m.Term,
                    Term |-> currentTerm[i], VoteGranted |-> granted]
    IN
    /\ voteRequests' = voteRequests \ {m}
    /\ voteReplies' = IF m.live THEN voteReplies \cup {reply} ELSE voteReplies
    /\ IF newer THEN Update(currentTerm, i, m.Term) ELSE UNCHANGED currentTerm
    /\ IF newer \/ granted THEN Update(status, i, "follower") ELSE UNCHANGED status
    /\ IF granted
       THEN /\ Update(votedFor, i, m.from)
            /\ Update(votedTerm, i, m.Term)
            /\ Update(largestIndexMathWithLeader, i, 0)
       ELSE UNCHANGED <<votedFor, votedTerm, largestIndexMathWithLeader>>
    /\ UNCHANGED <<ticker, startElection, logVars, leaderVars, netVars, snapVars,
                   testerVars, commitIndex, lastApplied, applying>>
    /\ IF newer \/ granted THEN persist(i) ELSE UNCHANGED saved

-----------------------------------------------------------------------------
(* A vote of the round the ticker is waiting in is still under way.        *)
VotesPending(i) ==
    /\ ticker[i].waiting
    /\ \/ \E m \in voteRequests : m.from = i /\ m.Term = ticker[i].term
       \/ \E m \in voteReplies : m.to = i /\ m.round = ticker[i].term

(* checkState: a follower whose election time has passed.  A ticker that   *)
(* can run does so before; calls return before unless LateReplies.         *)
checkState(i) ==
    /\ status[i] = "follower"
    /\ <<i, currentTerm[i]>> \in Timeouts
    /\ ~ticker[i].woken
    /\ LateReplies \/ ~VotesPending(i)
    /\ Update(status, i, "candidate")
    /\ Update(startElection, i, TRUE)
    /\ ticker' = [ticker EXCEPT ![i].expired = ticker[i].waiting]
    /\ UNCHANGED <<currentTerm, votedFor, votedTerm, saved, voteRequests, voteReplies,
                   logVars, leaderVars, commitVars, netVars, snapVars, testerVars>>

(* The ticker is woken up in a server that is not a candidate any more.    *)
TickerSkip(i) ==
    /\ startElection[i] /\ ~ticker[i].waiting
    /\ status[i] # "candidate"
    /\ Update(startElection, i, FALSE)
    /\ UNCHANGED <<stateVars, ticker, voteRequests, voteReplies,
                   logVars, leaderVars, commitVars, netVars, snapVars, testerVars>>

(* The ticker starts a round: next term, own vote, a call to each peer.    *)
TickerStart(i) ==
    LET term == currentTerm[i] + 1 IN
    /\ startElection[i] /\ ~ticker[i].waiting
    /\ status[i] = "candidate"
    /\ term <= MaxTerm
    /\ Update(startElection, i, FALSE)
    /\ Update(currentTerm, i, term)
    /\ Update(votedFor, i, i)
    /\ Update(votedTerm, i, term)
    /\ Update(ticker, i, [waiting |-> TRUE, term |-> term, count |-> {}, calls |-> Peers(i),
                          woken |-> TRUE, expired |-> FALSE, timer |-> TRUE])
    /\ voteRequests' = voteRequests \cup
          {[from |-> i, to |-> j, Term |-> term, live |-> TRUE,
            LastLogTerm |-> LastTerm(i), LastLogIndex |-> LastIndex(i)] :
              j \in {k \in Peers(i) : <<i, k>> \in Links}}
    /\ UNCHANGED <<status, voteReplies, logVars, leaderVars, commitVars, netVars, snapVars,
                   testerVars>>
    /\ persist(i)

(* The timer goroutine of the round.  When the round is over and another   *)
(* one has started, its startElection adds nothing to that of the new one. *)
Timer(i) ==
    /\ ticker[i].timer
    /\ IF status[i] = "candidate"
       THEN /\ ticker' = [ticker EXCEPT ![i].timer = FALSE,
                                        ![i].woken = @ \/ ticker[i].waiting,
                                        ![i].expired = @ \/ ticker[i].waiting]
            /\ Update(startElection, i, TRUE)
       ELSE /\ ticker' = [ticker EXCEPT ![i].timer = FALSE]
            /\ UNCHANGED startElection
    /\ UNCHANGED <<stateVars, voteRequests, voteReplies,
                   logVars, leaderVars, commitVars, netVars, snapVars, testerVars>>

(* A vote-collecting goroutine of peer m.to gets its reply.  One of an     *)
(* earlier round has a count and a cond that nobody looks at any more.     *)
HandleVoteReply(m) ==
    LET i       == m.to
        current == ticker[i].waiting /\ m.round = ticker[i].term
        counted == current /\ status[i] = "candidate" /\ m.VoteGranted
    IN
    /\ voteReplies' = voteReplies \ {m}
    /\ IF current
       THEN ticker' = [ticker EXCEPT ![i].calls = @ \ {m.from}, ![i].woken = TRUE,
                                     ![i].count = IF counted THEN @ \cup {m.from} ELSE @]
       ELSE UNCHANGED ticker
    /\ IF status[i] = "candidate" /\ ~m.VoteGranted /\ m.Term > currentTerm[i]
       THEN /\ Update(currentTerm, i, m.Term)
            /\ Update(status, i, "follower")
            /\ persistTerm(i, m.Term)
       ELSE UNCHANGED <<currentTerm, status, saved>>
    /\ UNCHANGED <<votedFor, votedTerm, startElection, voteRequests,
                   logVars, leaderVars, commitVars, netVars, snapVars, testerVars>>

(* The call of i to j ends without a reply; wake tells whether the ticker  *)
(* is then told.                                                           *)
VoteCallEnds(i, j, wake) ==
    /\ j \in ticker[i].calls
    /\ voteRequests' = {m \in voteRequests :
                          ~(m.from = i /\ m.to = j /\ m.Term = ticker[i].term)}
    /\ voteReplies' = {m \in voteReplies :
                          ~(m.to = i /\ m.from = j /\ m.round = ticker[i].term)}
    /\ ticker' = [ticker EXCEPT ![i].calls = @ \ {j}, ![i].woken = wake]
    /\ UNCHANGED <<stateVars, startElection, logVars, leaderVars, commitVars, netVars,
                   snapVars, testerVars>>

(* Faulty: no cond.Broadcast.                                              *)
VoteCallFailsQuietly(i, j) == VoteCallEnds(i, j, ticker[i].woken)

(* The request or the reply was lost and Call returns false.               *)
VoteCallFails(i, j) == VoteCallEnds(i, j, TRUE)

-----------------------------------------------------------------------------
Won(i) == Cardinality(ticker[i].count) + 1 >= majority

(* The condition of the cond.Wait loop.                                    *)
KeepWaiting(i) ==
    /\ status[i] = "candidate"
    /\ ~Won(i)
    /\ ticker[i].calls # {}
    /\ ~ticker[i].expired

LeaveLoop(i) ==
    /\ ticker[i].waiting /\ ticker[i].woken
    /\ ~KeepWaiting(i)
    /\ ticker' = [ticker EXCEPT ![i].waiting = FALSE, ![i].calls = {},
                                ![i].woken = FALSE, ![i].expired = FALSE]

TickerWait(i) ==
    /\ ticker[i].waiting /\ ticker[i].woken
    /\ KeepWaiting(i)
    /\ ticker' = [ticker EXCEPT ![i].woken = FALSE]
    /\ UNCHANGED <<stateVars, startElection, voteRequests, voteReplies,
                   logVars, leaderVars, commitVars, netVars, snapVars, testerVars>>

TickerLose(i) ==
    /\ LeaveLoop(i)
    /\ ~(status[i] = "candidate" /\ Won(i))
    /\ UNCHANGED <<stateVars, startElection, voteRequests, voteReplies,
                   logVars, leaderVars, commitVars, netVars, snapVars, testerVars>>

(* The election is won: becomeLeaderInit.                                  *)
TickerWin(i) ==
    /\ LeaveLoop(i)
    /\ status[i] = "candidate" /\ Won(i)
    /\ Update(status, i, "leader")
    /\ nextIndex' = [nextIndex EXCEPT ![i] = [j \in Server |-> EndIndex(i)]]
    /\ matchIndex' = [matchIndex EXCEPT ![i] = [j \in Server |-> 0]]
    /\ UNCHANGED <<currentTerm, votedFor, votedTerm, saved, startElection, voteRequests,
                   voteReplies, replicating, logVars, commitVars, netVars, snapVars, testerVars>>

Election ==
    \/ \E m \in voteRequests : RequestVote(m)
    \/ \E m \in voteReplies : HandleVoteReply(m)
    \/ \E i \in Server : \/ checkState(i)
                         \/ TickerSkip(i)
                         \/ TickerStart(i)
                         \/ Timer(i)
                         \/ TickerWait(i)
                         \/ TickerLose(i)
                         \/ TickerWin(i)
    \/ \E i, j \in Server : VoteCallFails(i, j)
=============================================================================
