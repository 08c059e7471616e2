----------------------------- MODULE RaftProofs -----------------------------
(***************************************************************************)
(* Theorems about elections in Raft, for every set of peers and all        *)
(* bounds: each peer votes once per term, and there is at most one leader  *)
(* per term when no vote arrives after its candidate's next timeout.       *)
(***************************************************************************)
EXTENDS RaftVoteProofs, FiniteSetTheorems


(* A new candidate: the round its ticker may still be in has no vote left  *)
(* that could come in.                                                     *)
LEMMA checkStateStep ==
    ASSUME ElectionInv, NEW i \in Server, checkState(i)
    PROVE  ElectionInv'
  <1>. DEFINE r == [ticker[i] EXCEPT !.expired = ticker[i].waiting]
  <1>0. /\ TermAndVoteSaved /\ CallsOK /\ (~LateReplies => RoundCurrent(i))
        /\ status \in [Server -> {"follower", "candidate", "leader"}]
        /\ ticker \in [Server -> Round] /\ ticker[i] \in Round
    BY Zenon, InvParts DEF ElectionInv, ElectionTypeOK, RoundsCurrent
  <1>1. /\ ~LateReplies => ~ticker[i].woken /\ ~VotesPending(i)
        /\ status' = [status EXCEPT ![i] = "candidate"]
        /\ ticker' = [ticker EXCEPT ![i] = r]
        /\ UNCHANGED <<currentTerm, votedFor, votedTerm, saved, voteRequests, voteReplies, netVars>>
    BY <1>0 DEF checkState, Update, Round
  <1>2. /\ r \in Round /\ r.term = ticker[i].term /\ r.waiting = ticker[i].waiting
        /\ r.count = ticker[i].count /\ r.woken = ticker[i].woken
    BY <1>0 DEF Round
  <1>. HIDE DEF r
  <1>3. /\ \A k \in Server : /\ ticker'[k].term = ticker[k].term
                            /\ ticker'[k].waiting = ticker[k].waiting
                            /\ ticker'[k].count = ticker[k].count
                            /\ ticker'[k].woken = ticker[k].woken
        /\ ticker' \in [Server -> Round]
    BY Zenon, <1>0, <1>1, <1>2
  <1>4. TermAndVoteSaved'
    BY Zenon, <1>0, <1>1, SameSaved
  <1>5. ElectionTypeOK'
    BY Zenon, <1>0, <1>1, <1>3 DEF ElectionInv, ElectionTypeOK, netVars, Peers
  <1>6. RoundsStarted'
    BY <1>1, <1>3 DEF RoundsStarted, ElectionInv
  <1>7. \A v, j \in Server, n \in Nat \ {0} : Voted(v, j, n)' => Voted(v, j, n)
    BY Zenon, <1>1, <1>3 DEF Voted
  <1>8. VotesRemembered' /\ VotesExclusive'
    BY <1>1, <1>5, <1>7, VotedBound DEF VotesRemembered, VotesExclusive, ElectionTypeOK
  <1>9. \A k \in Server : (VotesPending(k)' <=> VotesPending(k)) /\ (Won(k)' <=> Won(k))
    BY <1>1, <1>3 DEF VotesPending, Won
  <1>10. ~LateReplies => \A k \in Server \ {i} : RoundCurrent(k)'
    <2>1. \A k \in Server \ {i} : status'[k] = status[k]
      BY Zenon, <1>0, <1>1
    <2>. QED
      BY <1>1, <1>3, <1>9, <2>1 DEF RoundCurrent, RoundsCurrent, ElectionInv
  <1>11. ~LateReplies => RoundCurrent(i)'
    <2>1. status'[i] = "candidate"
      BY <1>0, <1>1
    <2>2. ~LateReplies /\ ticker[i].waiting => ~Won(i)
      BY <1>0, <1>1 DEF RoundCurrent
    <2>. QED
      BY Zenon, <1>0, <1>1, <1>3, <1>9, <2>1, <2>2 DEF RoundCurrent
  <1>. QED
    BY Zenon, <1>4, <1>5, <1>6, <1>8, <1>10, <1>11 DEF ElectionInv, RoundsCurrent

(* The election is won in the current term.                                *)
LEMMA TickerWinStep ==
    ASSUME ElectionInv, NEW i \in Server, TickerWin(i)
    PROVE  ElectionInv'
  <1>. DEFINE r == [ticker[i] EXCEPT !.waiting = FALSE, !.calls = {}, !.woken = FALSE,
                                     !.expired = FALSE]
  <1>0. /\ TermAndVoteSaved /\ CallsOK /\ (~LateReplies => RoundCurrent(i))
        /\ status \in [Server -> {"follower", "candidate", "leader"}]
        /\ ticker \in [Server -> Round] /\ ticker[i] \in Round
    BY InvParts DEF ElectionInv, ElectionTypeOK, RoundsCurrent
  <1>1. /\ ticker[i].waiting /\ status[i] = "candidate" /\ Won(i)
        /\ status' = [status EXCEPT ![i] = "leader"]
        /\ ticker' = [ticker EXCEPT ![i] = r]
        /\ UNCHANGED <<currentTerm, votedFor, votedTerm, saved, voteRequests, voteReplies, netVars>>
    BY <1>0 DEF TickerWin, LeaveLoop, Update, Round
  <1>2. /\ r \in Round /\ r.term = ticker[i].term /\ ~r.waiting /\ r.count = ticker[i].count
    BY Zenon, <1>0 DEF Round
  <1>. HIDE DEF r
  <1>3. /\ \A k \in Server : /\ ticker'[k].term = ticker[k].term
                            /\ ticker'[k].count = ticker[k].count
        /\ \A k \in Server \ {i} : ticker'[k] = ticker[k] /\ status'[k] = status[k]
        /\ ticker' \in [Server -> Round]
        /\ status'[i] = "leader" /\ ~ticker'[i].waiting
    BY <1>0, <1>1, <1>2
  <1>4. TermAndVoteSaved'
    BY Zenon, <1>0, <1>1, SameSaved
  <1>5. ElectionTypeOK'
    BY Zenon, <1>0, <1>1, <1>3 DEF ElectionInv, ElectionTypeOK, netVars, Peers
  <1>6. RoundsStarted'
    BY Zenon, <1>1, <1>3 DEF RoundsStarted, ElectionInv
  <1>7. \A v, j \in Server, n \in Nat \ {0} : Voted(v, j, n)' => Voted(v, j, n)
    BY Zenon, <1>1, <1>3 DEF Voted
  <1>8. VotesRemembered' /\ VotesExclusive'
    BY SMTT(30), <1>1, <1>5, <1>7, VotedBound DEF VotesRemembered, VotesExclusive, ElectionTypeOK
  <1>9. \A k \in Server : Won(k)' <=> Won(k)
    BY <1>3 DEF Won
  <1>10. \A k \in Server \ {i} : VotesPending(k)' <=> VotesPending(k)
    BY Zenon, <1>1, <1>3 DEF VotesPending
  <1>11. ~LateReplies => \A k \in Server \ {i} : RoundCurrent(k)'
    BY <1>1, <1>3, <1>9, <1>10 DEF RoundCurrent, RoundsCurrent, ElectionInv
  <1>12. ~LateReplies => RoundCurrent(i)'
    <2>1. ~LateReplies => ticker[i].term = currentTerm[i] /\ ticker[i].term > 0
      BY <1>0, <1>1 DEF RoundCurrent
    <2>. QED
      BY Zenon, <1>1, <1>3, <1>9, <2>1 DEF RoundCurrent
  <1>. QED
    BY Zenon, <1>4, <1>5, <1>6, <1>8, <1>11, <1>12 DEF ElectionInv, RoundsCurrent

(* A new round: its term is later than that of any vote of i or for i.     *)
LEMMA TickerStartStep ==
    ASSUME ElectionInv, NEW i \in Server, TickerStart(i)
    PROVE  ElectionInv'
  <1>. DEFINE term == currentTerm[i] + 1
              r == [waiting |-> TRUE, term |-> term, count |-> {}, calls |-> Peers(i),
                    woken |-> TRUE, expired |-> FALSE, timer |-> TRUE]
  <1>0. /\ TermAndVoteSaved /\ CallsOK /\ RoundsStarted
        /\ currentTerm \in [Server -> Nat] /\ votedTerm \in [Server -> Nat]
        /\ votedFor \in [Server -> Server \cup {Nobody}]
        /\ ticker \in [Server -> Round] /\ term \in Nat \ {0} /\ term > currentTerm[i]
        /\ votedTerm[i] <= currentTerm[i]
    BY InvParts DEF ElectionInv, ElectionTypeOK, RoundsStarted
  <1>1. /\ status[i] = "candidate"
        /\ currentTerm' = [currentTerm EXCEPT ![i] = term]
        /\ votedFor' = [votedFor EXCEPT ![i] = i]
        /\ votedTerm' = [votedTerm EXCEPT ![i] = term]
        /\ ticker' = [ticker EXCEPT ![i] = r]
        /\ persist(i)
        /\ UNCHANGED <<status, voteReplies, netVars>>
    BY Zenon DEF TickerStart, Update
  <1>2. \A m \in voteRequests' \ voteRequests :
            /\ m.from = i /\ m.to \in Peers(i) /\ m.Term = term /\ m.live = TRUE
            /\ Header \subseteq DOMAIN m
    <2>. SUFFICES ASSUME NEW m \in voteRequests' \ voteRequests
                  PROVE  /\ m.from = i /\ m.to \in Peers(i) /\ m.Term = term /\ m.live = TRUE
                         /\ Header \subseteq DOMAIN m
      BY Zenon
    <2>1. PICK j \in Peers(i) : m = [from |-> i, to |-> j, Term |-> term, live |-> TRUE,
                                    LastLogTerm |-> LastTerm(i), LastLogIndex |-> LastIndex(i)]
      BY Zenon DEF TickerStart
    <2>. QED
      BY <2>1 DEF Header
  <1>3. r \in Round /\ r.term = term /\ r.count = {} /\ r.waiting = TRUE /\ r.woken = TRUE
    BY Zenon, <1>0 DEF Round, Peers
  <1>. HIDE DEF r, term
  <1>4. /\ \A k \in Server \ {i} : /\ ticker'[k] = ticker[k] /\ currentTerm'[k] = currentTerm[k]
                                  /\ votedTerm'[k] = votedTerm[k] /\ votedFor'[k] = votedFor[k]
        /\ currentTerm'[i] = term /\ votedTerm'[i] = term
        /\ ticker'[i] = r /\ ticker' \in [Server -> Round]
        /\ \A k \in Server : currentTerm'[k] \in Nat /\ currentTerm'[k] >= currentTerm[k]
        /\ \A k \in Server : votedTerm'[k] \in Nat /\ votedTerm'[k] >= votedTerm[k]
    BY <1>0, <1>1, <1>3
  <1>5. TermAndVoteSaved'
    BY Zenon, <1>0, <1>1, <1>4, PersistStep
  <1>6. ElectionTypeOK'
    <2>1. \A m \in voteRequests' : /\ m.from \in Server /\ m.to \in Server /\ m.from # m.to
                                  /\ m.Term \in Nat \ {0} /\ m.live \in BOOLEAN
                                  /\ Header \subseteq DOMAIN m
      BY Zenon, <1>0, <1>2 DEF ElectionInv, ElectionTypeOK, Peers
    <2>2. \A k \in Server : ticker'[k].count \subseteq Peers(k)
      BY Zenon, <1>3, <1>4 DEF ElectionInv, ElectionTypeOK
    <2>. QED
      BY Zenon, <1>0, <1>1, <1>4, <2>1, <2>2 DEF ElectionInv, ElectionTypeOK, netVars, Peers
  <1>7. RoundsStarted'
    <2>1. \A k \in Server : votedTerm'[k] <= currentTerm'[k] /\ ticker'[k].term <= currentTerm'[k]
      BY SMTT(30), <1>0, <1>3, <1>4 DEF RoundsStarted
    <2>2. \A m \in voteRequests' : m.Term <= currentTerm'[m.from]
      BY SMTT(30), <1>0, <1>2, <1>4 DEF RoundsStarted, ElectionInv, ElectionTypeOK
    <2>3. \A m \in voteReplies' : m.round <= currentTerm'[m.to]
      <3>1. \A m \in voteReplies : m.to \in Server /\ m.round \in Nat /\ m.round <= currentTerm[m.to]
        BY Zenon, <1>0 DEF RoundsStarted, ElectionInv, ElectionTypeOK
      <3>2. \A k \in Server : /\ currentTerm[k] \in Nat /\ currentTerm'[k] \in Nat
                              /\ currentTerm'[k] >= currentTerm[k]
        BY Zenon, <1>0, <1>4
      <3>3. voteReplies' = voteReplies
        BY Zenon, <1>1
      <3>. QED
        BY <3>1, <3>2, <3>3
    <2>. QED
      BY Zenon, <2>1, <2>2, <2>3 DEF RoundsStarted
  <1>8. \A v, j \in Server, n \in Nat \ {0} :
            Voted(v, j, n)' => Voted(v, j, n) \/ (v = i /\ j = i /\ n = term)
    BY ZenonT(60), <1>1, <1>3, <1>4 DEF Voted
  <1>9. \A j \in Server : ~Voted(i, j, term)
    BY <1>0, VotedBound
  <1>10. VotesRemembered'
    <2>. SUFFICES ASSUME NEW v \in Server, NEW j \in Server, NEW t \in Nat \ {0}, Voted(v, j, t)'
                  PROVE  votedTerm'[v] >= t
      BY <1>4 DEF VotesRemembered
    <2>1. CASE Voted(v, j, t)
      <3>1. votedTerm[v] >= t
        BY <2>1, VotedBound
      <3>. QED
        BY <3>1, <1>0, <1>4
    <2>2. CASE v = i /\ j = i /\ t = term
      BY <2>2, <1>0, <1>4
    <2>. QED
      BY Zenon, <2>1, <2>2, <1>8
  <1>11. VotesExclusive'
    <2>. SUFFICES ASSUME NEW v \in Server, NEW j \in Server, NEW k \in Server,
                         NEW t \in Nat \ {0}, Voted(v, j, t)', Voted(v, k, t)'
                  PROVE  j = k
      BY <1>4 DEF VotesExclusive
    <2>1. CASE Voted(v, j, t) /\ Voted(v, k, t)
      BY SMTT(30), <2>1, VotedBound
    <2>. QED
      BY <2>1, <1>8, <1>9
  <1>12. ~LateReplies => \A k \in Server \ {i} : RoundCurrent(k)'
    <2>1. \A k \in Server \ {i} : (VotesPending(k)' => VotesPending(k)) /\ (Won(k)' <=> Won(k))
      BY <1>1, <1>2, <1>4 DEF VotesPending, Won
    <2>. QED
      BY Zenon, <1>1, <1>4, <2>1 DEF RoundCurrent, RoundsCurrent, ElectionInv
  <1>13. ~LateReplies => RoundCurrent(i)'
    <2>1. /\ status'[i] = "candidate" /\ ticker'[i].term = currentTerm'[i]
          /\ ticker'[i].term > 0 /\ ticker'[i].woken
      BY <1>0, <1>1, <1>3, <1>4
    <2>. QED
      BY Zenon, <2>1 DEF RoundCurrent
  <1>. QED
    BY Zenon, <1>5, <1>6, <1>7, <1>10, <1>11, <1>12, <1>13 DEF ElectionInv, RoundsCurrent

(* A restart forgets the ticker and every reply the peer was waiting for,  *)
(* but neither its term nor its vote.                                      *)
LEMMA RestartStep ==
    ASSUME ElectionInv, NEW i \in Server, Restart(i)
    PROVE  ElectionInv'
  <1>0. /\ TermAndVoteSaved /\ CallsOK /\ RoundsStarted
        /\ currentTerm \in [Server -> Nat] /\ votedTerm \in [Server -> Nat]
        /\ votedFor \in [Server -> Server \cup {Nobody}]
        /\ status \in [Server -> {"follower", "candidate", "leader"}]
        /\ ticker \in [Server -> Round]
    BY Zenon, InvParts DEF ElectionInv, ElectionTypeOK
  <1>1. UNCHANGED <<currentTerm, votedFor, votedTerm, saved>>
    BY Zenon, <1>0 DEF Restart, Update, TermAndVoteSaved
  <1>2. /\ ticker' = [ticker EXCEPT ![i] = Asleep] /\ status' = [status EXCEPT ![i] = "follower"]
        /\ voteReplies' \subseteq voteReplies /\ replies' \subseteq replies
    BY Zenon DEF Restart, Update
  <1>3. Asleep \in Round /\ Asleep.term = 0 /\ Asleep.count = {} /\ Asleep.waiting = FALSE
    BY Zenon DEF Asleep, Round
  <1>4. /\ \A k \in Server \ {i} : ticker'[k] = ticker[k] /\ status'[k] = status[k]
        /\ ticker'[i] = Asleep /\ status'[i] = "follower" /\ ticker' \in [Server -> Round]
    BY Zenon, <1>0, <1>2, <1>3
  <1>6. \A n \in voteRequests' : \E m \in voteRequests :
            /\ n.from = m.from /\ n.to = m.to /\ n.Term = m.Term
            /\ Header \subseteq DOMAIN n /\ n.live \in BOOLEAN
    <2>. SUFFICES ASSUME NEW n \in voteRequests'
                  PROVE  \E m \in voteRequests : /\ n.from = m.from /\ n.to = m.to /\ n.Term = m.Term
                                          /\ Header \subseteq DOMAIN n /\ n.live \in BOOLEAN
      OBVIOUS
    <2>1. PICK m \in voteRequests : n = [m EXCEPT !.live = m.live /\ m.from # i]
      BY Zenon DEF Restart, Orphaned
    <2>2. Header \subseteq DOMAIN m /\ m.live \in BOOLEAN
      BY DEF ElectionInv, ElectionTypeOK
    <2>3. DOMAIN n = DOMAIN m /\ n.from = m.from /\ n.to = m.to /\ n.Term = m.Term
      BY <2>1, <2>2 DEF Header
    <2>4. n.live \in BOOLEAN
      BY Zenon, <2>1, <2>2 DEF Header
    <2>. QED
      BY Zenon, <2>2, <2>3, <2>4
  <1>7. \A n \in requests' : \E m \in requests :
            /\ n.from = m.from /\ n.to = m.to /\ n.Term = m.Term
            /\ Header \subseteq DOMAIN n
    <2>. SUFFICES ASSUME NEW n \in requests'
                  PROVE  \E m \in requests : /\ n.from = m.from /\ n.to = m.to /\ n.Term = m.Term
                                          /\ Header \subseteq DOMAIN n
      OBVIOUS
    <2>1. PICK m \in requests : n = [m EXCEPT !.live = m.live /\ m.from # i]
      BY DEF Restart, Orphaned
    <2>2. Header \subseteq DOMAIN m
      BY <1>0 DEF CallsOK
    <2>3. DOMAIN n = DOMAIN m /\ n.from = m.from /\ n.to = m.to /\ n.Term = m.Term
      BY <2>1, <2>2 DEF Header
    <2>. QED
      BY <2>2, <2>3
  <1>8. TermAndVoteSaved'
    BY Zenon, <1>0, <1>1, SameSaved
  <1>9. ElectionTypeOK'
    <2>1. \A k \in Server : ticker'[k].count \subseteq Peers(k)
      BY Zenon, <1>3, <1>4 DEF ElectionInv, ElectionTypeOK
    <2>2. CallsOK'
      BY Zenon, <1>0, <1>2, <1>7 DEF CallsOK
    <2>3. status' \in [Server -> {"follower", "candidate", "leader"}]
      BY Zenon, <1>0, <1>2
    <2>. QED
      BY SMTT(30), <1>0, <1>1, <1>2, <1>4, <1>6, <2>1, <2>2, <2>3
      DEF ElectionInv, ElectionTypeOK, CallsOK, Peers
  <1>10. RoundsStarted'
    BY SMTT(30), <1>0, <1>1, <1>2, <1>3, <1>4, <1>6 DEF RoundsStarted
  <1>11. \A v, j \in Server, n \in Nat \ {0} : Voted(v, j, n)' => Voted(v, j, n)
    BY SMTT(30), <1>2, <1>3, <1>4 DEF Voted
  <1>12. VotesRemembered' /\ VotesExclusive'
    BY SMTT(30), <1>1, <1>9, <1>11, VotedBound DEF VotesRemembered, VotesExclusive, ElectionTypeOK
  <1>13. ~LateReplies => \A k \in Server \ {i} : RoundCurrent(k)'
    <2>1. \A k \in Server \ {i} : (VotesPending(k)' => VotesPending(k)) /\ (Won(k)' <=> Won(k))
      BY <1>2, <1>4, <1>6 DEF VotesPending, Won
    <2>. QED
      BY Zenon, <1>1, <1>4, <2>1 DEF RoundCurrent, RoundsCurrent, ElectionInv
  <1>14. ~LateReplies => RoundCurrent(i)'
    BY <1>3, <1>4 DEF RoundCurrent
  <1>. QED
    BY Zenon, <1>8, <1>9, <1>10, <1>12, <1>13, <1>14 DEF ElectionInv, RoundsCurrent

-----------------------------------------------------------------------------
LEMMA InitInv ==
    ASSUME Init
    PROVE  ElectionInv
  <1>1. Asleep \in Round /\ Asleep.term = 0 /\ Asleep.count = {} /\ Asleep.waiting = FALSE
    BY Zenon DEF Asleep, Round
  <1>2. ElectionTypeOK
    BY Zenon, <1>1 DEF Init, Make, Fresh, ElectionTypeOK
  <1>3. TermAndVoteSaved
    BY Zenon DEF Init, Make, TermAndVoteSaved, Image
  <1>4. RoundsStarted /\ RoundsCurrent
    <2>1. /\ voteRequests = {} /\ voteReplies = {}
          /\ \A i \in Server : /\ currentTerm[i] = 0 /\ votedTerm[i] = 0
                               /\ ticker[i] = Asleep /\ status[i] = "follower"
      BY Zenon DEF Init, Make, Fresh
    <2>2. 0 <= 0
      OBVIOUS
    <2>3. RoundsStarted
      BY Zenon, <1>1, <2>1, <2>2 DEF RoundsStarted
    <2>4. RoundsCurrent
      BY Zenon, <1>1, <2>1 DEF RoundsCurrent, RoundCurrent
    <2>. QED
      BY Zenon, <2>3, <2>4
  <1>5. VotesRemembered /\ VotesExclusive
    BY DEF Init, Make, VotesRemembered, VotesExclusive
  <1>. QED
    BY Zenon, <1>2, <1>3, <1>4, <1>5 DEF ElectionInv

LEMMA NextInv ==
    ASSUME ElectionInv, Next
    PROVE  ElectionInv'
  <1>1. CASE Election
    BY Zenon, <1>1, RequestVoteStep, HandleVoteReplyStep, checkStateStep, TickerSteps, TickerStartStep,
       TickerWinStep DEF Election
  <1>2. CASE Replication
    BY Zenon, <1>2, LogQuietSteps, RequestSteps, ReplySteps, SnapshotSteps, ServerAssumption
    DEF Replication
  <1>3. CASE Snapshots
    BY Zenon, <1>3, SnapshotSteps, RequestSteps, ReplySteps DEF Snapshots
  <1>4. CASE \E i \in MayRestart : Restart(i)
    BY Zenon, <1>4, RestartStep, RestartAssumption
  <1>. QED
    BY Zenon, <1>1, <1>2, <1>3, <1>4 DEF Next

(* Two majorities share a peer, and that peer has voted for only one of    *)
(* the two leaders.                                                        *)
LEMMA InvImpliesSafety ==
    ASSUME ElectionInv, ~LateReplies
    PROVE  ElectionSafety
  <1>. SUFFICES ASSUME NEW i \in Server, NEW j \in Server,
                       status[i] = "leader", status[j] = "leader",
                       currentTerm[i] = currentTerm[j]
                PROVE  i = j
    BY Zenon DEF ElectionSafety
  <1>. DEFINE t == currentTerm[i]
              Supporters(k) == ticker[k].count \cup {k}
  <1>0. /\ t \in Nat /\ t > 0
        /\ ticker[i].term = t /\ Won(i) /\ ticker[j].term = t /\ Won(j)
    BY DEF ElectionInv, ElectionTypeOK, RoundsCurrent, RoundCurrent
  <1>1. IsFiniteSet(Server) /\ Cardinality(Server) \in Nat
    BY Zenon, ServerAssumption, FS_CardinalityType
  <1>2. ASSUME NEW k \in Server, Won(k)
        PROVE  /\ Supporters(k) \subseteq Server
               /\ Cardinality(Supporters(k)) \in Nat
               /\ Cardinality(Supporters(k)) >= majority
    <2>1. ticker[k].count \subseteq Server /\ k \notin ticker[k].count
      BY Zenon DEF ElectionInv, ElectionTypeOK, Peers
    <2>2. IsFiniteSet(ticker[k].count)
      BY Zenon, <1>1, <2>1, FS_Subset
    <2>3. IsFiniteSet(Supporters(k)) /\ Cardinality(Supporters(k)) = Cardinality(ticker[k].count) + 1
      BY Zenon, <2>1, <2>2, FS_AddElement
    <2>. QED
      BY Zenon, <1>2, <2>1, <2>3, FS_CardinalityType DEF Won
  <1>3. majority \in Nat /\ majority + majority > Cardinality(Server)
    BY <1>1 DEF majority
  <1>4. Cardinality(Supporters(i)) + Cardinality(Supporters(j)) > Cardinality(Server)
    <2>. HIDE DEF Supporters
    <2>. QED
      BY <1>0, <1>1, <1>2, <1>3
  <1>5. Supporters(i) \cap Supporters(j) # {}
    <2>1. Supporters(i) \subseteq Server /\ Supporters(j) \subseteq Server
      BY Zenon, <1>0, <1>2
    <2>. HIDE DEF Supporters
    <2>. QED
      BY <1>1, <1>4, <2>1, FS_MajoritiesIntersect
  <1>6. PICK v \in Server : v \in Supporters(i) /\ v \in Supporters(j)
    BY Zenon, <1>0, <1>2, <1>5
  <1>7. Voted(v, i, t) /\ Voted(v, j, t)
    BY <1>0, <1>6 DEF Voted
  <1>. QED
    BY Zenon, <1>0, <1>7, VotedBound

(* The votes of RequestVote and of ticker add up in every state: the       *)
(* inductive invariant, without any assumption on timing but in its last   *)
(* part.                                                                   *)
THEOREM ElectionInvariant == Spec => []ElectionInv
  <1>1. Init => ElectionInv
    BY InitInv
  <1>2. ElectionInv /\ [Next]_vars => ElectionInv'
    <2>1. ASSUME ElectionInv, UNCHANGED vars
          PROVE  ElectionInv'
      BY Zenon, <2>1, InvParts, QuietStep, SameSaved
      DEF vars, stateVars, electionVars, netVars, voteVars, CallsOK
    <2>. QED
      BY Zenon, <2>1, NextInv
  <1>. QED
    BY <1>1, <1>2, PTL DEF Spec

(* At most one leader per term, as long as no vote arrives after the next  *)
(* election timeout of the candidate it was meant for: for any number of   *)
(* peers, with any losses, delays, reorderings and restarts of peers.      *)
THEOREM ElectionSafe ==
    ASSUME ~LateReplies
    PROVE  Spec => []ElectionSafety
  <1>1. ElectionInv => ElectionSafety
    BY Zenon, InvImpliesSafety
  <1>. QED
    BY <1>1, ElectionInvariant, PTL

-----------------------------------------------------------------------------
(* Peer i learns of the term t at most.                                    *)
Learns(i, t) ==
    /\ t \in Nat /\ t >= currentTerm[i]
    /\ currentTerm' = [currentTerm EXCEPT ![i] = t]

LEMMA NoVote ==
    ASSUME ElectionInv, UNCHANGED <<votedFor, votedTerm>>,
           UNCHANGED currentTerm \/ \E i \in Server, t \in Nat : Learns(i, t)
    PROVE  VotesKept
  BY SMTT(30) DEF ElectionInv, ElectionTypeOK, VotesKept, Learns

(* The handlers of replication and snapshots give no votes.                *)
LEMMA ReplicationKeepsVotes ==
    ASSUME ElectionInv, Replication \/ Snapshots
    PROVE  VotesKept
  <1>0. CallsOK /\ currentTerm \in [Server -> Nat]
    BY InvParts
  <1>1. ASSUME NEW m \in requests,
               \/ AppendEntriesStale(m) \/ AppendEntriesMismatch(m) \/ AppendEntries(m)
               \/ InstallSnapshot(m)
        PROVE  VotesKept
    <2>0. m.to \in Server /\ m.Term \in Nat /\ currentTerm[m.to] \in Nat
      BY Zenon, <1>0 DEF CallsOK
    <2>1. CASE AppendEntriesStale(m)
      BY <2>1, NoVote DEF AppendEntriesStale, stateVars
    <2>2. CASE AppendEntriesMismatch(m)
      BY Zenon, <2>0, <2>2, NoVote DEF AppendEntriesMismatch, Panic, stateVars, Learns, Update
    <2>3. CASE AppendEntries(m)
      BY Zenon, <2>0, <2>3, NoVote DEF AppendEntries, Learns, Update
    <2>4. CASE InstallSnapshot(m)
      BY <2>0, <2>4, NoVote DEF InstallSnapshot, Learns, Update
    <2>. QED
      BY Zenon, <1>1, <2>1, <2>2, <2>3, <2>4
  <1>2. ASSUME NEW m \in replies,
               \/ AppendReplyIgnored(m) \/ AppendRefused(m) \/ HeartBeatAccepted(m)
               \/ EntriesAccepted(m) \/ SnapshotAnswered(m)
        PROVE  VotesKept
    <2>0. m.to \in Server /\ m.Term \in Nat /\ currentTerm[m.to] \in Nat
      BY Zenon, <1>0 DEF CallsOK
    <2>1. CASE AppendReplyIgnored(m)
      BY Zenon, <2>1, NoVote DEF AppendReplyIgnored, stateVars
    <2>2. CASE AppendRefused(m)
      BY SMTT(30), <2>0, <2>2, NoVote DEF AppendRefused, StepDown, stateVars, Learns, Update
    <2>3. CASE HeartBeatAccepted(m)
      BY Zenon, <2>0, <2>3, NoVote DEF HeartBeatAccepted, stateVars
    <2>4. CASE EntriesAccepted(m)
      BY Zenon, <2>0, <2>4, NoVote DEF EntriesAccepted, Panic, stateVars
    <2>5. CASE SnapshotAnswered(m)
      BY <2>0, <2>5, NoVote DEF SnapshotAnswered, StepDown, stateVars, Learns, Update
    <2>. QED
      BY Zenon, <1>2, <2>1, <2>2, <2>3, <2>4, <2>5
  <1>3. ASSUME NEW m \in requests \cup replies, CallFails(m)
        PROVE  VotesKept
    BY <1>3, NoVote DEF CallFails, stateVars
  <1>4. ASSUME NEW i \in Server,
               \/ \E c \in Command : Start(i, c)
               \/ \E x \in applying[i] : applyNewCommand(i, x)
               \/ \E j \in Peers(i) : \/ sendHeartBeatToOne(i, j)
                                      \/ replicatedEntriesToOne(i, j)
                                      \/ sendInstallSnapshotToOne(i, j)
               \/ \E x \in snapshotting[i] : Snapshot(i, x)
               \/ \E s \in installing[i] : CondInstallSnapshot(i, s)
        PROVE  VotesKept
    <2>1. UNCHANGED <<currentTerm, votedFor, votedTerm>>
      BY Zenon, <1>4 DEF Start, applyNewCommand, sendHeartBeatToOne, replicatedEntriesToOne,
         sendInstallSnapshotToOne, Snapshot, CondInstallSnapshot, Panic, stateVars
    <2>. QED
      BY SMTT(30), <2>1, NoVote
  <1>. QED
    BY Zenon, <1>1, <1>2, <1>3, <1>4 DEF Replication, Snapshots

(* Elections: a vote is given only in a later term than the last one.      *)
LEMMA ElectionKeepsVotes ==
    ASSUME ElectionInv, Election
    PROVE  VotesKept
  <1>0. /\ currentTerm \in [Server -> Nat] /\ votedTerm \in [Server -> Nat]
        /\ votedFor \in [Server -> Server \cup {Nobody}]
        /\ \A i \in Server : votedTerm[i] <= currentTerm[i]
    BY Zenon, InvParts DEF ElectionInv, RoundsStarted
  <1>1. ASSUME NEW m \in voteRequests, RequestVote(m)
        PROVE  VotesKept
    <2>0. m.to \in Server /\ m.Term \in Nat
      BY DEF ElectionInv, ElectionTypeOK
    <2>1. Grants(m.to, m) => votedTerm[m.to] < m.Term /\ m.Term >= currentTerm[m.to]
      BY <1>0, <2>0 DEF Grants
    <2>2. /\ \A k \in Server \ {m.to} : /\ currentTerm'[k] = currentTerm[k]
                                        /\ votedTerm'[k] = votedTerm[k] /\ votedFor'[k] = votedFor[k]
          /\ currentTerm'[m.to] = IF m.Term > currentTerm[m.to] THEN m.Term ELSE currentTerm[m.to]
          /\ Grants(m.to, m) => votedTerm'[m.to] = m.Term
          /\ ~Grants(m.to, m) => votedTerm'[m.to] = votedTerm[m.to] /\ votedFor'[m.to] = votedFor[m.to]
      BY Zenon, <1>0, <1>1, <2>0 DEF RequestVote, Update
    <2>3. ASSUME NEW k \in Server, k # m.to
          PROVE  /\ currentTerm'[k] >= currentTerm[k] /\ votedTerm'[k] >= votedTerm[k]
                 /\ votedFor'[k] = votedFor[k]
      BY <1>0, <2>2, <2>3
    <2>4. currentTerm[m.to] \in Nat /\ votedTerm[m.to] \in Nat
      BY Zenon, <1>0, <2>0
    <2>5. /\ currentTerm'[m.to] >= currentTerm[m.to] /\ votedTerm'[m.to] >= votedTerm[m.to]
          /\ votedTerm'[m.to] = votedTerm[m.to] => votedFor'[m.to] = votedFor[m.to]
      BY <2>0, <2>1, <2>2, <2>4
    <2>. QED
      BY Zenon, <2>3, <2>5 DEF VotesKept
  <1>2. ASSUME NEW m \in voteReplies, HandleVoteReply(m)
        PROVE  VotesKept
    <2>0. m.to \in Server /\ m.Term \in Nat
      BY Zenon DEF ElectionInv, ElectionTypeOK
    <2>. QED
      BY SMTT(30), <1>0, <1>2, <2>0, NoVote DEF HandleVoteReply, Learns, Update
  <1>3. ASSUME NEW i \in Server, TickerStart(i)
        PROVE  VotesKept
    <2>1. /\ \A k \in Server \ {i} : /\ currentTerm'[k] = currentTerm[k]
                                      /\ votedTerm'[k] = votedTerm[k] /\ votedFor'[k] = votedFor[k]
          /\ currentTerm'[i] = currentTerm[i] + 1 /\ votedTerm'[i] = currentTerm[i] + 1
      BY Zenon, <1>0, <1>3 DEF TickerStart, Update
    <2>2. ASSUME NEW k \in Server, k # i
          PROVE  /\ currentTerm'[k] >= currentTerm[k] /\ votedTerm'[k] >= votedTerm[k]
                 /\ votedFor'[k] = votedFor[k]
      BY <1>0, <2>1, <2>2
    <2>3. currentTerm[i] \in Nat /\ votedTerm[i] \in Nat /\ votedTerm[i] <= currentTerm[i]
      BY Zenon, <1>0
    <2>4. /\ currentTerm'[i] >= currentTerm[i]
          /\ votedTerm'[i] >= votedTerm[i] /\ votedTerm'[i] # votedTerm[i]
      BY <2>1, <2>3
    <2>. QED
      BY Zenon, <2>2, <2>4 DEF VotesKept
  <1>4. ASSUME NEW i \in Server,
               \/ checkState(i) \/ TickerSkip(i) \/ Timer(i) \/ TickerWait(i) \/ TickerLose(i)
               \/ TickerWin(i) \/ \E j \in Server : VoteCallFails(i, j)
        PROVE  VotesKept
    <2>1. UNCHANGED <<currentTerm, votedFor, votedTerm>>
      BY Zenon, <1>4 DEF checkState, TickerSkip, Timer, TickerWait, TickerLose, TickerWin,
         VoteCallFails, VoteCallEnds, stateVars
    <2>. QED
      BY <2>1, NoVote
  <1>. QED
    BY Zenon, <1>1, <1>2, <1>3, <1>4 DEF Election

(* No peer changes its vote within a term or goes back to an earlier term, *)
(* restarts included, whether or not votes arrive late.                    *)
THEOREM VotesOnce == Spec => VoteOnce
  <1>1. ElectionInv /\ [Next]_vars => [VotesKept]_vars
    <2>. SUFFICES ASSUME ElectionInv, Next
                  PROVE  VotesKept
      OBVIOUS
    <2>1. ASSUME NEW i \in MayRestart, Restart(i)
          PROVE  VotesKept
      <3>1. i \in Server /\ TermAndVoteSaved /\ currentTerm \in [Server -> Nat]
            /\ votedTerm \in [Server -> Nat] /\ votedFor \in [Server -> Server \cup {Nobody}]
        BY Zenon, InvParts, RestartAssumption
      <3>2. UNCHANGED <<currentTerm, votedFor, votedTerm>>
        BY <2>1, <3>1 DEF Restart, Update, TermAndVoteSaved
      <3>. QED
        BY Zenon, <3>2, NoVote
    <2>. QED
      BY Zenon, <2>1, ReplicationKeepsVotes, ElectionKeepsVotes DEF Next
  <1>. QED
    BY <1>1, ElectionInvariant, PTL DEF Spec, VoteOnce
=============================================================================
