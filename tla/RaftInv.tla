------------------------------ MODULE RaftInv -------------------------------
(***************************************************************************)
(* The inductive invariant behind VoteOnce, and behind ElectionSafety when *)
(* every vote arrives before the candidate's next election timeout.        *)
(***************************************************************************)
EXTENDS Raft

Header == {"from", "to", "Term", "live"}

(* The part of TypeOK that elections depend on.                            *)
ElectionTypeOK ==
    /\ currentTerm \in [Server -> Nat]
    /\ votedFor \in [Server -> Server \cup {Nobody}]
    /\ votedTerm \in [Server -> Nat]
    /\ status \in [Server -> {"follower", "candidate", "leader"}]
    /\ ticker \in [Server -> Round]
    /\ \A m \in voteRequests : /\ m.from \in Server /\ m.to \in Server /\ m.from # m.to
                               /\ m.Term \in Nat \ {0} /\ m.live \in BOOLEAN
                               /\ Header \subseteq DOMAIN m
    /\ \A m \in voteReplies : /\ m.from \in Server /\ m.to \in Server /\ m.from # m.to
                              /\ m.round \in Nat \ {0} /\ m.Term \in Nat
                              /\ m.VoteGranted \in BOOLEAN
    /\ \A m \in requests : /\ m.from \in Server /\ m.to \in Server /\ m.Term \in Nat
                           /\ Header \subseteq DOMAIN m
    /\ \A m \in replies : m.from \in Server /\ m.to \in Server /\ m.Term \in Nat
    /\ \A i \in Server : ticker[i].count \subseteq Peers(i)

(* What the persister has is what the peer would otherwise forget.         *)
TermAndVoteSaved ==
    /\ saved = [i \in Server |-> saved[i]]
    /\ \A i \in Server : /\ saved[i].currentTerm = currentTerm[i]
                         /\ saved[i].votedFor = votedFor[i]
                         /\ saved[i].votedTerm = votedTerm[i]

(* Nothing of an election is ahead of the term of the peer that runs it.   *)
RoundsStarted ==
    /\ \A i \in Server : votedTerm[i] <= currentTerm[i] /\ ticker[i].term <= currentTerm[i]
    /\ \A m \in voteRequests : m.Term <= currentTerm[m.from]
    /\ \A m \in voteReplies : m.round <= currentTerm[m.to]

(* Peer v has given its vote in term t to i, as far as anybody can tell:   *)
(* the vote is counted, under way, or i's own.                             *)
Voted(v, i, t) ==
    \/ ticker[i].term = t /\ v \in ticker[i].count
    \/ ticker[i].term = t /\ v = i
    \/ \E m \in voteReplies : m.from = v /\ m.to = i /\ m.round = t /\ m.VoteGranted

VotesRemembered ==
    \A v, i \in Server : \A t \in 1 .. currentTerm[i] : Voted(v, i, t) => votedTerm[v] >= t

VotesExclusive ==
    \A v, i, j \in Server : \A t \in 1 .. currentTerm[i] :
        Voted(v, i, t) /\ Voted(v, j, t) => i = j

(* A round that may still be won is of the current term, a ticker that is  *)
(* asleep has not won, and a leader has won its term; unless votes arrive  *)
(* when the candidate has timed out and become a candidate again.          *)
RoundCurrent(i) ==
    /\ ticker[i].waiting /\ ~ticker[i].woken => ~Won(i)
    /\ ticker[i].waiting /\ status[i] = "candidate" /\ (Won(i) \/ VotesPending(i)) =>
           ticker[i].term = currentTerm[i]
    /\ ticker[i].waiting => status[i] # "leader" /\ ticker[i].term > 0
    /\ status[i] = "leader" =>
           ticker[i].term = currentTerm[i] /\ currentTerm[i] > 0 /\ Won(i)

RoundsCurrent == ~LateReplies => \A i \in Server : RoundCurrent(i)

(* The votes of RequestVote and ticker add up: each vote is given once,    *)
(* remembered and persisted, and only the current round can be won.        *)
ElectionInv ==
    /\ ElectionTypeOK
    /\ TermAndVoteSaved
    /\ RoundsStarted
    /\ VotesRemembered
    /\ VotesExclusive
    /\ RoundsCurrent
=============================================================================
