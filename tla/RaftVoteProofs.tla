--------------------------- MODULE RaftVoteProofs ---------------------------
(***************************************************************************)
(* The lemmas about the invariant of elections: what a step must leave     *)
(* alone for ElectionInv to hold after it; the steps of replication and of *)
(* snapshots, which at most follow a newer term; the steps of the ticker,  *)
(* of voters and of counting votes.                                        *)
(***************************************************************************)
EXTENDS RaftInv, TLAPS


-----------------------------------------------------------------------------
(* The calls that are not votes name peers and carry a term.               *)
CallsOK ==
    /\ \A m \in requests : /\ m.from \in Server /\ m.to \in Server /\ m.Term \in Nat
                           /\ Header \subseteq DOMAIN m
    /\ \A m \in replies : m.from \in Server /\ m.to \in Server /\ m.Term \in Nat

voteVars == <<votedFor, votedTerm, ticker, voteRequests, voteReplies>>

(* A step that leaves elections alone keeps the invariant ...              *)
LEMMA QuietStep ==
    ASSUME ElectionInv, UNCHANGED <<currentTerm, status, voteVars>>,
           TermAndVoteSaved', CallsOK'
    PROVE  ElectionInv'
  BY DEF ElectionInv, ElectionTypeOK, RoundsStarted, VotesRemembered, VotesExclusive,
         RoundsCurrent, RoundCurrent, Voted, Won, VotesPending, voteVars, CallsOK, Peers

(* Evidence of a vote is never ahead of the candidate's term.              *)
LEMMA VotedBound ==
    ASSUME ElectionInv, NEW v \in Server, NEW i \in Server, NEW t \in Nat, t > 0, Voted(v, i, t)
    PROVE  /\ t \in 1 .. currentTerm[i]
           /\ votedTerm[v] >= t
           /\ \A j \in Server : Voted(v, j, t) => i = j
  <1>1. t \in 1 .. currentTerm[i]
    BY DEF ElectionInv, ElectionTypeOK, RoundsStarted, Voted, Round
  <1>. QED
    BY <1>1 DEF ElectionInv, VotesRemembered, VotesExclusive

(* ... and so does one in which peer i learns of a term and follows.       *)
LEMMA FollowStep ==
    ASSUME ElectionInv, NEW i \in Server, NEW t \in Nat, t >= currentTerm[i],
           currentTerm' = [currentTerm EXCEPT ![i] = t],
           status' = [status EXCEPT ![i] = "follower"],
           UNCHANGED voteVars, TermAndVoteSaved', CallsOK'
    PROVE  ElectionInv'
  <1>1. ElectionTypeOK'
    BY DEF ElectionInv, ElectionTypeOK, voteVars, CallsOK, Peers
  <1>2. RoundsStarted'
    BY DEF ElectionInv, ElectionTypeOK, RoundsStarted, voteVars, Round
  <1>3. \A v, j \in Server, n \in Nat \ {0} :
            Voted(v, j, n)' => Voted(v, j, n)
    BY DEF Voted, voteVars
  <1>4. VotesRemembered' /\ VotesExclusive'
    BY <1>1, <1>3, VotedBound DEF VotesRemembered, VotesExclusive, ElectionTypeOK, voteVars
  <1>5. RoundsCurrent'
    BY DEF ElectionInv, ElectionTypeOK, RoundsCurrent, RoundCurrent, voteVars, Won, VotesPending
  <1>. QED
    BY <1>1, <1>2, <1>4, <1>5 DEF ElectionInv

(* persist leaves what the peer has in its persister.                      *)
LEMMA PersistStep ==
    ASSUME TermAndVoteSaved, NEW i \in Server, persist(i),
           \A k \in Server \ {i} : /\ currentTerm'[k] = currentTerm[k]
                                   /\ votedFor'[k] = votedFor[k]
                                   /\ votedTerm'[k] = votedTerm[k]
    PROVE  TermAndVoteSaved'
  BY DEF TermAndVoteSaved, persist, Image

LEMMA InvParts ==
    ASSUME ElectionInv
    PROVE  /\ TermAndVoteSaved /\ CallsOK
           /\ currentTerm \in [Server -> Nat]
           /\ votedFor \in [Server -> Server \cup {Nobody}] /\ votedTerm \in [Server -> Nat]
           /\ status \in [Server -> {"follower", "candidate", "leader"}]
  BY DEF ElectionInv, ElectionTypeOK, CallsOK

LEMMA SameSaved ==
    ASSUME TermAndVoteSaved, UNCHANGED <<currentTerm, votedFor, votedTerm, saved>>
    PROVE  TermAndVoteSaved'
  BY DEF TermAndVoteSaved

(* A panic changes nothing that elections depend on.                       *)
LEMMA PanicStep ==
    ASSUME ElectionInv, Panic
    PROVE  ElectionInv'
  BY QuietStep, SameSaved, InvParts
  DEF Panic, stateVars, electionVars, netVars, voteVars, CallsOK

-----------------------------------------------------------------------------
(* Replication.                                                            *)

LEMMA CallStep ==
    ASSUME CallsOK, NEW m, Call(m), m.from \in Server, m.to \in Server, m.Term \in Nat,
           Header \subseteq DOMAIN m
    PROVE  CallsOK'
  BY DEF CallsOK, Call

LEMMA AnswerStep ==
    ASSUME CallsOK, NEW m, NEW reply, Answer(m, reply),
           reply.from \in Server, reply.to \in Server, reply.Term \in Nat
    PROVE  CallsOK'
  BY DEF CallsOK, Answer

LEMMA LogQuietSteps ==
    ASSUME ElectionInv, NEW i \in Server
    PROVE  /\ \A c \in Command : Start(i, c) => ElectionInv'
           /\ \A x \in applying[i] : applyNewCommand(i, x) => ElectionInv'
           /\ \A j \in Peers(i) : sendHeartBeatToOne(i, j) => ElectionInv'
           /\ \A j \in Peers(i) : replicatedEntriesToOne(i, j) => ElectionInv'
  <1>0. TermAndVoteSaved /\ CallsOK /\ currentTerm[i] \in Nat
    BY InvParts
  <1>1. ASSUME NEW c \in Command, Start(i, c)
        PROVE  ElectionInv'
    <2>1. TermAndVoteSaved'
      BY Zenon, <1>0, <1>1, PersistStep DEF Start
    <2>. QED
      BY Zenon, <2>1, <1>0, <1>1, QuietStep DEF Start, electionVars, netVars, voteVars, CallsOK
  <1>2. ASSUME NEW x \in applying[i], applyNewCommand(i, x)
        PROVE  ElectionInv'
    BY <1>0, <1>2, QuietStep, SameSaved
    DEF applyNewCommand, stateVars, electionVars, netVars, voteVars, CallsOK
  <1>3. ASSUME NEW j \in Peers(i), sendHeartBeatToOne(i, j)
        PROVE  ElectionInv'
    <2>1. CASE Panic
      BY <2>1, PanicStep
    <2>2. CASE ~Panic
      <3>1. CallsOK'
        BY <1>0, <1>3, <2>2, CallStep DEF sendHeartBeatToOne, AppendCall, Peers, Header
      <3>. QED
        BY Zenon, <3>1, <1>0, <1>3, <2>2, QuietStep, SameSaved
        DEF sendHeartBeatToOne, stateVars, electionVars, voteVars
    <2>. QED
      BY <2>1, <2>2
  <1>4. ASSUME NEW j \in Peers(i), replicatedEntriesToOne(i, j)
        PROVE  ElectionInv'
    <2>1. CASE Panic
      BY <2>1, PanicStep
    <2>2. CASE ~Panic
      <3>1. CallsOK'
        <4>1. CASE UNCHANGED netVars
          BY Zenon, <4>1, <1>0 DEF netVars, CallsOK
        <4>2. CASE ~UNCHANGED netVars
          BY <1>0, <1>4, <2>2, <4>2, CallStep DEF replicatedEntriesToOne, AppendCall, Peers, Header
        <4>. QED
          BY <4>1, <4>2
      <3>. QED
        BY Zenon, <3>1, <1>0, <1>4, <2>2, QuietStep, SameSaved
        DEF replicatedEntriesToOne, stateVars, electionVars, voteVars
    <2>. QED
      BY <2>1, <2>2
  <1>. QED
    BY <1>1, <1>2, <1>3, <1>4

(* The handlers of AppendEntries and InstallSnapshot.                      *)
LEMMA RequestSteps ==
    ASSUME ElectionInv, NEW m \in requests
    PROVE  /\ AppendEntriesStale(m) => ElectionInv'
           /\ AppendEntriesMismatch(m) => ElectionInv'
           /\ AppendEntries(m) => ElectionInv'
           /\ InstallSnapshot(m) => ElectionInv'
  <1>. DEFINE i == m.to
  <1>0. /\ TermAndVoteSaved /\ CallsOK
        /\ i \in Server /\ m.from \in Server /\ m.Term \in Nat /\ currentTerm[i] \in Nat
        /\ currentTerm \in [Server -> Nat]
    BY InvParts DEF CallsOK
  <1>1. ASSUME AppendEntriesStale(m)
        PROVE  ElectionInv'
    <2>1. CallsOK'
      BY <1>0, <1>1, AnswerStep DEF AppendEntriesStale, AppendReply
    <2>. QED
      BY Zenon, <2>1, <1>0, <1>1, QuietStep, SameSaved
      DEF AppendEntriesStale, stateVars, electionVars, voteVars
  <1>2. ASSUME AppendEntriesMismatch(m)
        PROVE  ElectionInv'
    <2>1. CASE Panic
      BY <2>1, PanicStep
    <2>2. CASE ~Panic
      <3>1. /\ currentTerm' = [currentTerm EXCEPT ![i] = m.Term] /\ m.Term >= currentTerm[i]
            /\ status' = [status EXCEPT ![i] = "follower"]
            /\ UNCHANGED <<votedFor, votedTerm, electionVars>>
            /\ IF m.Term > currentTerm[i] THEN persistTerm(i, m.Term) ELSE UNCHANGED saved
        BY Zenon, <1>2, <2>2 DEF AppendEntriesMismatch, Update
      <3>2. CallsOK'
        BY <1>0, <1>2, <2>2, AnswerStep DEF AppendEntriesMismatch, AppendReply
      <3>3. currentTerm'[i] = m.Term /\ \A k \in Server \ {i} : currentTerm'[k] = currentTerm[k]
        BY <1>0, <3>1
      <3>4. TermAndVoteSaved'
        BY <1>0, <3>1, <3>3 DEF TermAndVoteSaved, persistTerm, Image
      <3>. QED
        BY Zenon, <1>0, <3>1, <3>2, <3>4, FollowStep DEF electionVars, voteVars
    <2>. QED
      BY <2>1, <2>2
  <1>3. ASSUME AppendEntries(m)
        PROVE  ElectionInv'
    <2>1. /\ currentTerm' = [currentTerm EXCEPT ![i] = m.Term] /\ m.Term >= currentTerm[i]
          /\ status' = [status EXCEPT ![i] = "follower"]
          /\ UNCHANGED <<votedFor, votedTerm, electionVars>>
          /\ \/ persist(i)
             \/ m.Term > currentTerm[i] /\ persistTerm(i, m.Term)
             \/ ~(m.Term > currentTerm[i]) /\ UNCHANGED saved
      BY Zenon, <1>3 DEF AppendEntries, Update
    <2>2. CallsOK'
      BY <1>0, <1>3, AnswerStep DEF AppendEntries, AppendReply
    <2>3. currentTerm'[i] = m.Term /\ \A k \in Server \ {i} : currentTerm'[k] = currentTerm[k]
      BY <1>0, <2>1
    <2>4. TermAndVoteSaved'
      <3>1. CASE persist(i)
        BY <1>0, <2>1, <2>3, <3>1, PersistStep
      <3>2. CASE persistTerm(i, m.Term)
        BY <1>0, <2>1, <2>3, <3>2 DEF TermAndVoteSaved, persistTerm, Image
      <3>3. CASE m.Term = currentTerm[i] /\ UNCHANGED saved
        BY <1>0, <2>1, <2>3, <3>3 DEF TermAndVoteSaved
      <3>. QED
        BY <1>0, <2>1, <3>1, <3>2, <3>3
    <2>. QED
      BY Zenon, <1>0, <2>1, <2>2, <2>4, FollowStep DEF electionVars, voteVars
  <1>4. ASSUME InstallSnapshot(m)
        PROVE  ElectionInv'
    <2>1. CallsOK'
      BY Zenon, <1>0, <1>4, AnswerStep DEF InstallSnapshot
    <2>2. CASE m.Term < currentTerm[i]
      BY <2>1, <2>2, <1>0, <1>4, QuietStep, SameSaved DEF InstallSnapshot, electionVars, voteVars
    <2>3. CASE ~(m.Term < currentTerm[i])
      <3>1. /\ currentTerm' = [currentTerm EXCEPT ![i] = m.Term] /\ m.Term >= currentTerm[i]
            /\ status' = [status EXCEPT ![i] = "follower"]
            /\ UNCHANGED <<votedFor, votedTerm, electionVars>>
            /\ IF m.Term > currentTerm[i] THEN persistTerm(i, m.Term) ELSE UNCHANGED saved
        BY <1>0, <1>4, <2>3 DEF InstallSnapshot, Update
      <3>3. currentTerm'[i] = m.Term /\ \A k \in Server \ {i} : currentTerm'[k] = currentTerm[k]
        BY <1>0, <3>1
      <3>4. TermAndVoteSaved'
        BY <1>0, <3>1, <3>3 DEF TermAndVoteSaved, persistTerm, Image
      <3>. QED
        BY Zenon, <1>0, <2>1, <3>1, <3>4, FollowStep DEF electionVars, voteVars
    <2>. QED
      BY Zenon, <2>2, <2>3
  <1>. QED
    BY <1>1, <1>2, <1>3, <1>4

(* A leader that steps down.                                               *)
LEMMA StepDownStep ==
    ASSUME ElectionInv, NEW i \in Server, NEW t \in Nat, t > currentTerm[i],
           StepDown(i, t), CallsOK'
    PROVE  ElectionInv'
  <1>0. TermAndVoteSaved /\ currentTerm \in [Server -> Nat] /\ t >= currentTerm[i]
    BY InvParts
  <1>1. /\ currentTerm' = [currentTerm EXCEPT ![i] = t]
        /\ status' = [status EXCEPT ![i] = "follower"]
        /\ UNCHANGED <<votedFor, votedTerm, electionVars>>
        /\ persistTerm(i, t)
    BY DEF StepDown, Update
  <1>2. TermAndVoteSaved'
    BY Zenon, <1>0, <1>1 DEF TermAndVoteSaved, persistTerm, Image
  <1>. QED
    BY Zenon, <1>0, <1>1, <1>2, FollowStep DEF electionVars, voteVars

(* The replies of AppendEntries and InstallSnapshot.                       *)
LEMMA ReplySteps ==
    ASSUME ElectionInv, NEW m \in replies
    PROVE  /\ AppendReplyIgnored(m) => ElectionInv'
           /\ AppendRefused(m) => ElectionInv'
           /\ HeartBeatAccepted(m) => ElectionInv'
           /\ EntriesAccepted(m) => ElectionInv'
           /\ SnapshotAnswered(m) => ElectionInv'
  <1>0. /\ TermAndVoteSaved /\ CallsOK
        /\ m.to \in Server /\ m.Term \in Nat /\ currentTerm[m.to] \in Nat
    BY InvParts DEF CallsOK
  <1>1. ASSUME replies' = replies \ {m}, UNCHANGED requests
        PROVE  CallsOK'
    BY <1>0, <1>1 DEF CallsOK
  <1>2. ASSUME AppendReplyIgnored(m)
        PROVE  ElectionInv'
    BY Zenon, <1>0, <1>1, <1>2, QuietStep, SameSaved
    DEF AppendReplyIgnored, stateVars, electionVars, voteVars
  <1>3. ASSUME AppendRefused(m)
        PROVE  ElectionInv'
    <2>1. CASE m.Term > currentTerm[m.to]
      BY Zenon, <1>0, <1>1, <1>3, <2>1, StepDownStep DEF AppendRefused
    <2>2. CASE ~(m.Term > currentTerm[m.to])
      BY Zenon, <1>0, <1>1, <1>3, <2>2, QuietStep, SameSaved
      DEF AppendRefused, stateVars, electionVars, voteVars
    <2>. QED
      BY <2>1, <2>2
  <1>4. ASSUME HeartBeatAccepted(m)
        PROVE  ElectionInv'
    BY <1>0, <1>1, <1>4, QuietStep, SameSaved
    DEF HeartBeatAccepted, stateVars, electionVars, voteVars
  <1>5. ASSUME EntriesAccepted(m)
        PROVE  ElectionInv'
    <2>1. CASE Panic
      BY Zenon, <2>1, PanicStep
    <2>2. CASE ~Panic
      BY <1>0, <1>1, <1>5, <2>2, QuietStep, SameSaved
      DEF EntriesAccepted, stateVars, electionVars, voteVars
    <2>. QED
      BY <2>1, <2>2
  <1>6. ASSUME SnapshotAnswered(m)
        PROVE  ElectionInv'
    <2>1. CASE m.Term > currentTerm[m.to]
      BY Zenon, <1>0, <1>1, <1>6, <2>1, StepDownStep DEF SnapshotAnswered
    <2>2. CASE ~(m.Term > currentTerm[m.to])
      BY Zenon, <1>0, <1>1, <1>6, <2>2, QuietStep, SameSaved
      DEF SnapshotAnswered, stateVars, electionVars, voteVars
    <2>. QED
      BY <2>1, <2>2
  <1>. QED
    BY <1>2, <1>3, <1>4, <1>5, <1>6

(* Snapshots, and calls that are lost.                                     *)
LEMMA SnapshotSteps ==
    ASSUME ElectionInv, NEW i \in Server
    PROVE  /\ \A x \in snapshotting[i] : Snapshot(i, x) => ElectionInv'
           /\ \A j \in Peers(i) : sendInstallSnapshotToOne(i, j) => ElectionInv'
           /\ \A s \in installing[i] : CondInstallSnapshot(i, s) => ElectionInv'
           /\ \A m \in requests \cup replies : CallFails(m) => ElectionInv'
  <1>0. TermAndVoteSaved /\ CallsOK /\ currentTerm[i] \in Nat
    BY InvParts
  <1>1. ASSUME NEW x \in snapshotting[i], Snapshot(i, x)
        PROVE  ElectionInv'
    <2>1. CASE Panic
      BY <2>1, PanicStep
    <2>2. CASE ~Panic
      <3>1. /\ UNCHANGED <<currentTerm, votedFor, votedTerm, status, electionVars, netVars>>
            /\ persist(i) \/ UNCHANGED saved
        BY Zenon, <1>1, <2>2 DEF Snapshot
      <3>2. TermAndVoteSaved'
        BY Zenon, <1>0, <3>1, PersistStep, SameSaved
      <3>. QED
        BY Zenon, <1>0, <3>1, <3>2, QuietStep DEF electionVars, netVars, voteVars, CallsOK
    <2>. QED
      BY <2>1, <2>2
  <1>2. ASSUME NEW j \in Peers(i), sendInstallSnapshotToOne(i, j)
        PROVE  ElectionInv'
    <2>1. CallsOK'
      BY <1>0, <1>2, CallStep DEF sendInstallSnapshotToOne, Peers, Header
    <2>. QED
      BY Zenon, <2>1, <1>0, <1>2, QuietStep, SameSaved
      DEF sendInstallSnapshotToOne, stateVars, electionVars, voteVars
  <1>3. ASSUME NEW s \in installing[i], CondInstallSnapshot(i, s)
        PROVE  ElectionInv'
    <2>1. /\ UNCHANGED <<currentTerm, votedFor, votedTerm, status, electionVars, netVars>>
          /\ persist(i) \/ UNCHANGED saved
      BY Zenon, <1>3 DEF CondInstallSnapshot
    <2>2. TermAndVoteSaved'
      BY Zenon, <1>0, <2>1, PersistStep, SameSaved
    <2>. QED
      BY Zenon, <1>0, <2>1, <2>2, QuietStep DEF electionVars, netVars, voteVars, CallsOK
  <1>4. ASSUME NEW m \in requests \cup replies, CallFails(m)
        PROVE  ElectionInv'
    BY <1>0, <1>4, QuietStep, SameSaved DEF CallFails, stateVars, electionVars, voteVars, CallsOK
  <1>. QED
    BY <1>1, <1>2, <1>3, <1>4

(* No new evidence of a vote: the votes stay remembered and exclusive.     *)
LEMMA VotesStep ==
    ASSUME ElectionInv, UNCHANGED votedTerm,
           \A k \in Server : currentTerm'[k] \in Nat,
           \A v, j \in Server, n \in Nat \ {0} : Voted(v, j, n)' => Voted(v, j, n)
    PROVE  VotesRemembered' /\ VotesExclusive'
  <1>1. \A j \in Server : \A t \in 1 .. currentTerm'[j] : t \in Nat \ {0} /\ t \in Nat /\ t > 0
    OBVIOUS
  <1>2. VotesRemembered'
    BY Zenon, <1>1, VotedBound DEF VotesRemembered
  <1>3. VotesExclusive'
    <2>. SUFFICES ASSUME NEW v \in Server, NEW i \in Server, NEW j \in Server,
                         NEW t \in 1 .. currentTerm'[i], Voted(v, i, t)', Voted(v, j, t)'
                  PROVE  i = j
      BY Zenon DEF VotesExclusive
    <2>1. t \in Nat /\ t > 0 /\ Voted(v, i, t) /\ Voted(v, j, t)
      BY Zenon, <1>1
    <2>. QED
      BY Zenon, <2>1, VotedBound
  <1>. QED
    BY <1>2, <1>3

-----------------------------------------------------------------------------
(* Elections: steps that only move the ticker of peer i, without counting  *)
(* a vote or starting a round.                                             *)
LEMMA TickerStep ==
    ASSUME ElectionInv, NEW i \in Server, NEW r \in Round,
           ticker' = [ticker EXCEPT ![i] = r],
           r.term = ticker[i].term, r.count = ticker[i].count,
           r.waiting => ticker[i].waiting,
           ~LateReplies /\ r.waiting /\ ~r.woken => ~Won(i),
           UNCHANGED <<currentTerm, votedFor, votedTerm, status>>,
           voteRequests' \subseteq voteRequests, voteReplies' \subseteq voteReplies,
           TermAndVoteSaved', CallsOK'
    PROVE  ElectionInv'
  <1>0. /\ ticker \in [Server -> Round] /\ \A k \in Server : ticker'[k].term = ticker[k].term
        /\ \A k \in Server : ticker'[k].count = ticker[k].count
        /\ \A k \in Server : ticker'[k].waiting => ticker[k].waiting
        /\ \A k \in Server : Won(k)' <=> Won(k)
        /\ \A k \in Server : VotesPending(k)' => VotesPending(k)
    BY Zenon DEF ElectionInv, ElectionTypeOK, Won, VotesPending
  <1>1. ElectionTypeOK'
    BY Zenon, <1>0 DEF ElectionInv, ElectionTypeOK, CallsOK, Peers
  <1>2. RoundsStarted'
    BY Zenon, <1>0 DEF ElectionInv, ElectionTypeOK, RoundsStarted
  <1>3. \A v, j \in Server, n \in Nat \ {0} : Voted(v, j, n)' => Voted(v, j, n)
    BY Zenon, <1>0 DEF Voted
  <1>4. VotesRemembered' /\ VotesExclusive'
    <2>1. \A k \in Server : currentTerm'[k] \in Nat
      BY Zenon, <1>1 DEF ElectionTypeOK
    <2>. QED
      BY Zenon, <1>3, <2>1, VotesStep
  <1>5. RoundsCurrent'
    BY <1>0 DEF ElectionInv, RoundsCurrent, RoundCurrent
  <1>. QED
    BY Zenon, <1>1, <1>2, <1>4, <1>5 DEF ElectionInv

LEMMA TickerSteps ==
    ASSUME ElectionInv, NEW i \in Server
    PROVE  /\ TickerSkip(i) => ElectionInv'
           /\ Timer(i) => ElectionInv'
           /\ TickerWait(i) => ElectionInv'
           /\ TickerLose(i) => ElectionInv'
           /\ \A j \in Server : VoteCallFails(i, j) => ElectionInv'
  <1>0. /\ TermAndVoteSaved /\ CallsOK
        /\ ticker \in [Server -> Round] /\ ticker[i] \in Round
        /\ ~LateReplies /\ ticker[i].waiting /\ ~ticker[i].woken => ~Won(i)
    BY Zenon, InvParts DEF ElectionInv, ElectionTypeOK, RoundsCurrent, RoundCurrent
  <1>1. ASSUME TickerSkip(i)
        PROVE  ElectionInv'
    BY <1>0, <1>1, QuietStep, SameSaved DEF TickerSkip, stateVars, netVars, voteVars, CallsOK
  <1>2. ASSUME Timer(i)
        PROVE  ElectionInv'
    <2>. DEFINE r == IF status[i] = "candidate"
                     THEN [ticker[i] EXCEPT !.timer = FALSE,
                                            !.woken = @ \/ ticker[i].waiting,
                                            !.expired = @ \/ ticker[i].waiting]
                     ELSE [ticker[i] EXCEPT !.timer = FALSE]
    <2>1. /\ ticker' = [ticker EXCEPT ![i] = r] /\ r \in Round
          /\ r.term = ticker[i].term /\ r.count = ticker[i].count /\ r.waiting = ticker[i].waiting
          /\ ticker[i].woken => r.woken
      BY Zenon, <1>0, <1>2 DEF Timer, Round
    <2>. HIDE DEF r
    <2>. QED
      BY Zenon, <1>0, <1>2, <2>1, TickerStep, SameSaved DEF Timer, stateVars, netVars, CallsOK
  <1>3. ASSUME TickerWait(i)
        PROVE  ElectionInv'
    <2>. DEFINE r == [ticker[i] EXCEPT !.woken = FALSE]
    <2>1. /\ ticker' = [ticker EXCEPT ![i] = r] /\ r \in Round
          /\ r.term = ticker[i].term /\ r.count = ticker[i].count /\ r.waiting = ticker[i].waiting
          /\ ~Won(i)
      BY Zenon, <1>0, <1>3 DEF TickerWait, KeepWaiting, Round
    <2>. HIDE DEF r
    <2>. QED
      BY Zenon, <1>0, <1>3, <2>1, TickerStep, SameSaved DEF TickerWait, stateVars, netVars, CallsOK
  <1>4. ASSUME TickerLose(i)
        PROVE  ElectionInv'
    <2>. DEFINE r == [ticker[i] EXCEPT !.waiting = FALSE, !.calls = {}, !.woken = FALSE,
                                       !.expired = FALSE]
    <2>1. /\ ticker' = [ticker EXCEPT ![i] = r] /\ r \in Round
          /\ r.term = ticker[i].term /\ r.count = ticker[i].count /\ ~r.waiting
      BY <1>0, <1>4 DEF TickerLose, LeaveLoop, Round
    <2>. HIDE DEF r
    <2>. QED
      BY Zenon, <1>0, <1>4, <2>1, TickerStep, SameSaved DEF TickerLose, stateVars, netVars, CallsOK
  <1>5. ASSUME NEW j \in Server, VoteCallFails(i, j)
        PROVE  ElectionInv'
    <2>. DEFINE r == [ticker[i] EXCEPT !.calls = @ \ {j}, !.woken = TRUE]
    <2>1. /\ ticker' = [ticker EXCEPT ![i] = r] /\ r \in Round
          /\ r.term = ticker[i].term /\ r.count = ticker[i].count /\ r.waiting = ticker[i].waiting
          /\ r.woken
      BY Zenon, <1>0, <1>5 DEF VoteCallFails, VoteCallEnds, Round
    <2>. HIDE DEF r
    <2>. QED
      BY Zenon, <1>0, <1>5, <2>1, TickerStep, SameSaved
      DEF VoteCallFails, VoteCallEnds, stateVars, netVars, CallsOK
  <1>. QED
    BY Zenon, <1>1, <1>2, <1>3, <1>4, <1>5

(* Terms only grow, so that nothing of an election gets ahead of them.     *)
LEMMA StartedStep ==
    ASSUME ElectionInv,
           \A k \in Server : currentTerm'[k] \in Nat /\ currentTerm'[k] >= currentTerm[k],
           \A k \in Server : votedTerm'[k] <= currentTerm'[k] /\ ticker'[k].term = ticker[k].term,
           voteRequests' \subseteq voteRequests,
           \A n \in voteReplies' : n \in voteReplies \/ n.round <= currentTerm'[n.to]
    PROVE  RoundsStarted'
  <1>1. \A k \in Server : ticker[k].term \in Nat /\ currentTerm[k] \in Nat /\ ticker[k].term <= currentTerm[k]
    BY Zenon DEF ElectionInv, ElectionTypeOK, RoundsStarted, Round
  <1>2. \A n \in voteRequests : n.from \in Server /\ n.Term \in Nat /\ n.Term <= currentTerm[n.from]
    BY Zenon DEF ElectionInv, ElectionTypeOK, RoundsStarted
  <1>3. \A n \in voteReplies : n.to \in Server /\ n.round \in Nat /\ n.round <= currentTerm[n.to]
    BY Zenon DEF ElectionInv, ElectionTypeOK, RoundsStarted
  <1>4. \A k \in Server : ticker'[k].term <= currentTerm'[k]
    BY <1>1
  <1>5. \A n \in voteRequests' : n.Term <= currentTerm'[n.from]
    BY <1>1, <1>2
  <1>6. \A n \in voteReplies' : n.round <= currentTerm'[n.to]
    BY <1>1, <1>3
  <1>. QED
    BY Zenon, <1>4, <1>5, <1>6 DEF RoundsStarted

(* The RequestVote handler: the vote it grants is the only one of i in     *)
(* that term, because votedTerm is ahead of every earlier one.             *)
LEMMA RequestVoteStep ==
    ASSUME ElectionInv, NEW m \in voteRequests, RequestVote(m)
    PROVE  ElectionInv'
  <1>. DEFINE i == m.to
              c == m.from
              granted == Grants(i, m)
              newer == m.Term > currentTerm[i]
              reply == [from |-> i, to |-> c, round |-> m.Term,
                        Term |-> currentTerm[i], VoteGranted |-> granted]
  <1>0. /\ TermAndVoteSaved /\ CallsOK /\ RoundsStarted
        /\ i \in Server /\ c \in Server /\ c # i /\ m.Term \in Nat /\ m.Term > 0
        /\ currentTerm \in [Server -> Nat] /\ votedTerm \in [Server -> Nat]
        /\ m.Term <= currentTerm[c] /\ votedTerm[i] <= currentTerm[i]
        /\ granted \in BOOLEAN
    <2>1. /\ TermAndVoteSaved /\ CallsOK /\ RoundsStarted
          /\ currentTerm \in [Server -> Nat] /\ votedTerm \in [Server -> Nat]
      BY Zenon, InvParts DEF ElectionInv
    <2>2. i \in Server /\ c \in Server /\ c # i /\ m.Term \in Nat \ {0}
      BY Zenon DEF ElectionInv, ElectionTypeOK
    <2>3. m.Term \in Nat /\ m.Term > 0
      BY <2>2
    <2>4. m.Term <= currentTerm[c] /\ votedTerm[i] <= currentTerm[i]
      BY Zenon, <2>1, <2>2 DEF RoundsStarted
    <2>5. granted \in BOOLEAN
      BY Zenon DEF Grants
    <2>. QED
      BY Zenon, <2>1, <2>2, <2>3, <2>4, <2>5
  <1>1. /\ voteRequests' \subseteq voteRequests
        /\ voteReplies' = voteReplies \/ voteReplies' = voteReplies \cup {reply}
        /\ currentTerm' = IF newer THEN [currentTerm EXCEPT ![i] = m.Term] ELSE currentTerm
        /\ status' = IF newer \/ granted THEN [status EXCEPT ![i] = "follower"] ELSE status
        /\ votedFor' = IF granted THEN [votedFor EXCEPT ![i] = c] ELSE votedFor
        /\ votedTerm' = IF granted THEN [votedTerm EXCEPT ![i] = m.Term] ELSE votedTerm
        /\ UNCHANGED <<ticker, netVars>>
        /\ IF newer \/ granted THEN persist(i) ELSE UNCHANGED saved
    BY DEF RequestVote, Update
  <1>2. TermAndVoteSaved'
    <2>1. CASE newer \/ granted
      <3>1. \A k \in Server \ {i} : /\ currentTerm'[k] = currentTerm[k]
                                     /\ votedFor'[k] = votedFor[k]
                                     /\ votedTerm'[k] = votedTerm[k]
        <4>1. votedFor \in [Server -> Server \cup {Nobody}]
          BY Zenon, InvParts
        <4>. QED
          BY ZenonT(60), <1>0, <1>1, <4>1
      <3>. QED
        BY Zenon, <1>0, <1>1, <2>1, <3>1, PersistStep
    <2>2. CASE ~(newer \/ granted)
      BY Zenon, <1>0, <1>1, <2>2, SameSaved
    <2>. QED
      BY Zenon, <2>1, <2>2
  <1>3. granted => votedTerm[i] < m.Term /\ m.Term >= currentTerm[i]
    BY SMTT(30), <1>0 DEF Grants
  <1>. HIDE DEF granted
  <1>4. /\ \A k \in Server : currentTerm'[k] \in Nat /\ currentTerm'[k] >= currentTerm[k]
        /\ \A k \in Server : votedTerm'[k] \in Nat /\ votedTerm'[k] >= votedTerm[k]
        /\ votedTerm'[i] <= currentTerm'[i]
        /\ \A k \in Server \ {i} : votedTerm'[k] = votedTerm[k] /\ currentTerm'[k] = currentTerm[k]
        /\ granted => votedTerm'[i] = m.Term
    <2>1. /\ currentTerm[i] \in Nat /\ votedTerm[i] \in Nat
          /\ \A k \in Server : currentTerm[k] \in Nat /\ votedTerm[k] \in Nat
      BY Zenon, <1>0
    <2>2. /\ \A k \in Server \ {i} : votedTerm'[k] = votedTerm[k] /\ currentTerm'[k] = currentTerm[k]
          /\ currentTerm'[i] = IF newer THEN m.Term ELSE currentTerm[i]
          /\ votedTerm'[i] = IF granted THEN m.Term ELSE votedTerm[i]
      BY Zenon, <1>0, <1>1
    <2>3. /\ currentTerm'[i] \in Nat /\ currentTerm'[i] >= currentTerm[i]
          /\ votedTerm'[i] \in Nat /\ votedTerm'[i] >= votedTerm[i]
          /\ votedTerm'[i] <= currentTerm'[i]
      <3>1. m.Term \in Nat /\ votedTerm[i] <= currentTerm[i]
        BY Zenon, <1>0
      <3>2. /\ currentTerm[i] \in Nat /\ votedTerm[i] \in Nat
            /\ currentTerm'[i] = IF m.Term > currentTerm[i] THEN m.Term ELSE currentTerm[i]
            /\ votedTerm'[i] = IF granted THEN m.Term ELSE votedTerm[i]
        BY Zenon, <2>1, <2>2
      <3>3. currentTerm'[i] \in Nat /\ currentTerm'[i] >= currentTerm[i]
        BY <3>1, <3>2
      <3>4. CASE granted
        BY <1>3, <3>1, <3>2, <3>4
      <3>5. CASE ~granted
        BY <3>1, <3>2, <3>5
      <3>. QED
        BY Zenon, <3>4, <3>5
    <2>4. \A k \in Server : currentTerm[k] >= currentTerm[k] /\ votedTerm[k] >= votedTerm[k]
      BY <2>1
    <2>. QED
      BY Zenon, <2>1, <2>2, <2>3, <2>4
  <1>5. ElectionTypeOK'
    <2>1. /\ currentTerm' \in [Server -> Nat] /\ votedTerm' \in [Server -> Nat]
          /\ votedFor' \in [Server -> Server \cup {Nobody}]
          /\ status' \in [Server -> {"follower", "candidate", "leader"}]
      BY ZenonT(60), <1>0, <1>1 DEF ElectionInv, ElectionTypeOK
    <2>2. m.Term \in Nat \ {0} /\ currentTerm[i] \in Nat
      BY <1>0
    <2>3. \A n \in voteReplies' : /\ n.from \in Server /\ n.to \in Server /\ n.from # n.to
                                   /\ n.round \in Nat \ {0} /\ n.Term \in Nat
                                   /\ n.VoteGranted \in BOOLEAN
      <3>1. \A n \in voteReplies : /\ n.from \in Server /\ n.to \in Server /\ n.from # n.to
                                    /\ n.round \in Nat \ {0} /\ n.Term \in Nat
                                    /\ n.VoteGranted \in BOOLEAN
        BY Zenon DEF ElectionInv, ElectionTypeOK
      <3>2. /\ reply.from = i /\ reply.to = c /\ reply.round = m.Term
            /\ reply.Term = currentTerm[i] /\ reply.VoteGranted = granted
        BY Zenon
      <3>. HIDE DEF reply
      <3>. QED
        BY Zenon, <1>0, <1>1, <2>2, <3>1, <3>2
    <2>. HIDE DEF reply
    <2>. QED
      BY ZenonT(60), <1>1, <2>1, <2>3 DEF ElectionInv, ElectionTypeOK, netVars
  <1>6. RoundsStarted'
    <2>1. \A k \in Server : votedTerm'[k] <= currentTerm'[k]
      <3>1. \A k \in Server : votedTerm[k] <= currentTerm[k]
        BY Zenon, <1>0 DEF RoundsStarted
      <3>. QED
        BY <1>4, <3>1
    <2>2. \A n \in voteReplies' : n \in voteReplies \/ n.round <= currentTerm'[n.to]
      <3>1. reply.round <= currentTerm'[reply.to]
        BY <1>0, <1>4
      <3>. QED
        BY Zenon, <1>1, <3>1
    <2>. QED
      BY Zenon, <1>1, <1>4, <2>1, <2>2, StartedStep
  <1>7. \A v, j \in Server, n \in Nat \ {0} :
            Voted(v, j, n)' => Voted(v, j, n) \/ (granted /\ v = i /\ j = c /\ n = m.Term)
    <2>1. /\ reply.from = i /\ reply.to = c /\ reply.round = m.Term /\ reply.VoteGranted = granted
          /\ ticker' = ticker
      BY Zenon, <1>1
    <2>. HIDE DEF reply
    <2>. QED
      BY ZenonT(90), <1>1, <2>1 DEF Voted
  <1>8. granted => \A j \in Server : ~Voted(i, j, m.Term)
    BY <1>0, <1>3, VotedBound
  <1>9. VotesRemembered'
    <2>. SUFFICES ASSUME NEW v \in Server, NEW j \in Server, NEW t \in Nat \ {0}, Voted(v, j, t)'
                  PROVE  votedTerm'[v] >= t
      <3>1. \A j \in Server : currentTerm'[j] \in Nat
        BY Zenon, <1>4
      <3>2. \A j \in Server : \A t \in 1 .. currentTerm'[j] : t \in Nat \ {0}
        BY <3>1
      <3>. QED
        BY Zenon, <3>2 DEF VotesRemembered
    <2>0. t \in Nat /\ t > 0 /\ t >= t
      OBVIOUS
    <2>1. CASE Voted(v, j, t)
      <3>1. votedTerm[v] >= t
        BY Zenon, <2>0, <2>1, VotedBound
      <3>2. votedTerm[v] \in Nat /\ votedTerm'[v] \in Nat /\ votedTerm'[v] >= votedTerm[v]
        BY Zenon, <1>0, <1>4
      <3>. QED
        BY <2>0, <3>1, <3>2
    <2>2. CASE granted /\ v = i /\ j = c /\ t = m.Term
      BY Zenon, <2>0, <2>2, <1>4
    <2>. QED
      BY Zenon, <2>1, <2>2, <1>7
  <1>10. VotesExclusive'
    <2>1. \A j \in Server : currentTerm'[j] \in Nat
      BY Zenon, <1>4
    <2>2. \A j \in Server : \A t \in 1 .. currentTerm'[j] : t \in Nat \ {0} /\ t \in Nat /\ t > 0
      BY <2>1
    <2>. SUFFICES ASSUME NEW v \in Server, NEW j \in Server, NEW k \in Server,
                         NEW t \in 1 .. currentTerm'[j], Voted(v, j, t)', Voted(v, k, t)'
                  PROVE  j = k
      BY Zenon DEF VotesExclusive
    <2>3. t \in Nat \ {0} /\ t \in Nat /\ t > 0
      BY Zenon, <2>2
    <2>4. /\ Voted(v, j, t) \/ (granted /\ v = i /\ j = c /\ t = m.Term)
          /\ Voted(v, k, t) \/ (granted /\ v = i /\ k = c /\ t = m.Term)
      BY Zenon, <1>7, <2>3
    <2>5. Voted(v, j, t) /\ Voted(v, k, t) => j = k
      BY Zenon, <2>3, VotedBound
    <2>. QED
      BY Zenon, <1>8, <2>4, <2>5
  <1>11. RoundsCurrent'
    <2>1. \A k \in Server : VotesPending(k)' => VotesPending(k)
      <3>1. reply.to = c /\ reply.round = m.Term /\ ticker' = ticker
        BY Zenon, <1>1
      <3>. HIDE DEF reply
      <3>. QED
        BY ZenonT(30), <1>0, <1>1, <3>1 DEF VotesPending
    <2>2. \A k \in Server : Won(k)' <=> Won(k)
      BY Zenon, <1>1 DEF Won
    <2>3. \A k \in Server \ {i} : status'[k] = status[k] /\ currentTerm'[k] = currentTerm[k]
      <3>1. status \in [Server -> {"follower", "candidate", "leader"}]
        BY Zenon DEF ElectionInv, ElectionTypeOK
      <3>. QED
        BY Zenon, <1>1, <1>4, <3>1
    <2>4. \/ status'[i] = "follower"
          \/ status'[i] = status[i] /\ currentTerm'[i] = currentTerm[i]
      BY Zenon, <1>0, <1>1 DEF ElectionInv, ElectionTypeOK
    <2>. QED
      <3>. SUFFICES ASSUME ~LateReplies, NEW k \in Server
                    PROVE  RoundCurrent(k)'
        BY Zenon DEF RoundsCurrent
      <3>1. RoundCurrent(k) /\ ticker' = ticker
        BY Zenon, <1>1 DEF RoundsCurrent, ElectionInv
      <3>2. CASE k # i
        BY Zenon, <2>1, <2>2, <2>3, <3>1, <3>2 DEF RoundCurrent
      <3>3. CASE k = i
        BY Zenon, <2>1, <2>2, <2>4, <3>1, <3>3 DEF RoundCurrent
      <3>. QED
        BY Zenon, <3>2, <3>3
  <1>. QED
    BY Zenon, <1>2, <1>5, <1>6, <1>9, <1>10, <1>11 DEF ElectionInv

(* A vote is counted: the evidence moves from the reply to the ticker.     *)
LEMMA HandleVoteReplyStep ==
    ASSUME ElectionInv, NEW m \in voteReplies, HandleVoteReply(m)
    PROVE  ElectionInv'
  <1>. DEFINE i == m.to
              current == ticker[i].waiting /\ m.round = ticker[i].term
              counted == current /\ status[i] = "candidate" /\ m.VoteGranted
              behind == status[i] = "candidate" /\ ~m.VoteGranted /\ m.Term > currentTerm[i]
              r == [ticker[i] EXCEPT !.calls = @ \ {m.from}, !.woken = TRUE,
                                     !.count = IF counted THEN @ \cup {m.from} ELSE @]
  <1>0. /\ TermAndVoteSaved /\ CallsOK /\ RoundsStarted
        /\ i \in Server /\ m.from \in Server /\ m.from # i /\ m.Term \in Nat /\ m.round \in Nat \ {0}
        /\ currentTerm \in [Server -> Nat] /\ votedTerm \in [Server -> Nat]
        /\ status \in [Server -> {"follower", "candidate", "leader"}]
        /\ ticker \in [Server -> Round] /\ ticker[i] \in Round
    BY InvParts DEF ElectionInv, ElectionTypeOK
  <1>1. /\ voteReplies' = voteReplies \ {m}
        /\ ticker' = IF current THEN [ticker EXCEPT ![i] = r] ELSE ticker
        /\ currentTerm' = IF behind THEN [currentTerm EXCEPT ![i] = m.Term] ELSE currentTerm
        /\ status' = IF behind THEN [status EXCEPT ![i] = "follower"] ELSE status
        /\ IF behind THEN persistTerm(i, m.Term) ELSE UNCHANGED saved
        /\ UNCHANGED <<votedFor, votedTerm, voteRequests, netVars>>
    BY Zenon, <1>0 DEF HandleVoteReply, Update, Round
  <1>2. /\ r \in Round /\ r.term = ticker[i].term /\ r.waiting = ticker[i].waiting /\ r.woken
        /\ r.count = IF counted THEN ticker[i].count \cup {m.from} ELSE ticker[i].count
    BY Zenon, <1>0 DEF Round
  <1>. HIDE DEF r
  <1>3. /\ \A k \in Server \ {i} : ticker'[k] = ticker[k] /\ currentTerm'[k] = currentTerm[k]
        /\ \A k \in Server : ticker'[k].term = ticker[k].term /\ ticker'[k].waiting = ticker[k].waiting
        /\ \A k \in Server : currentTerm'[k] \in Nat /\ currentTerm'[k] >= currentTerm[k]
        /\ ticker' \in [Server -> Round]
        /\ ticker'[i].count = IF counted THEN ticker[i].count \cup {m.from} ELSE ticker[i].count
        /\ ticker'[i] = ticker[i] \/ ticker'[i].woken
    <2>1. /\ \A k \in Server \ {i} : ticker'[k] = ticker[k] /\ currentTerm'[k] = currentTerm[k]
          /\ ticker'[i] = IF current THEN r ELSE ticker[i]
          /\ currentTerm'[i] = IF behind THEN m.Term ELSE currentTerm[i]
      <3>. HIDE DEF current, behind
      <3>. QED
        BY Zenon, <1>0, <1>1
    <2>2. ticker' \in [Server -> Round]
      <3>. HIDE DEF current
      <3>. QED
        BY Zenon, <1>0, <1>1, <1>2
    <2>3. \A k \in Server : currentTerm'[k] \in Nat /\ currentTerm'[k] >= currentTerm[k]
      <3>1. m.Term \in Nat /\ \A k \in Server : currentTerm[k] \in Nat
        BY Zenon, <1>0
      <3>2. behind => m.Term > currentTerm[i]
        BY Zenon
      <3>. HIDE DEF behind
      <3>. QED
        BY <2>1, <3>1, <3>2
    <2>4. /\ ticker'[i].term = ticker[i].term /\ ticker'[i].waiting = ticker[i].waiting
          /\ ticker'[i].count = IF counted THEN ticker[i].count \cup {m.from} ELSE ticker[i].count
          /\ ticker'[i] = ticker[i] \/ ticker'[i].woken
      <3>1. CASE current
        <4>. HIDE DEF current, counted
        <4>. QED
          BY Zenon, <1>2, <2>1, <3>1
      <3>2. CASE ~current
        <4>1. ~counted
          BY Zenon, <3>2
        <4>. HIDE DEF current, counted
        <4>. QED
          BY Zenon, <2>1, <3>2, <4>1
      <3>. QED
        BY Zenon, <3>1, <3>2
    <2>. HIDE DEF current, counted, behind
    <2>. QED
      BY Zenon, <2>1, <2>2, <2>3, <2>4
  <1>4. /\ voteReplies' \subseteq voteReplies /\ UNCHANGED <<votedTerm, voteRequests>>
        /\ \A k \in Server : ticker'[k].term = ticker[k].term /\ ticker'[k].waiting = ticker[k].waiting
        /\ \A k \in Server : currentTerm'[k] \in Nat /\ currentTerm'[k] >= currentTerm[k]
    BY Zenon, <1>1, <1>3
  <1>. HIDE DEF current, counted, behind
  <1>5. TermAndVoteSaved'
    <2>1. CASE behind
      BY SMTT(30), <1>0, <1>1, <2>1 DEF TermAndVoteSaved, persistTerm, Image, behind
    <2>2. CASE ~behind
      BY <1>0, <1>1, <2>2, SameSaved
    <2>. QED
      BY <2>1, <2>2
  <1>6. ElectionTypeOK'
    <2>1. \A k \in Server : ticker'[k].count \subseteq Peers(k)
      <3>1. \A k \in Server : ticker[k].count \subseteq Peers(k)
        BY Zenon DEF ElectionInv, ElectionTypeOK
      <3>2. m.from \in Peers(i) /\ i \in Server
        BY Zenon, <1>0 DEF Peers
      <3>. QED
        BY Zenon, <1>3, <3>1, <3>2
    <2>. QED
      BY ZenonT(60), <1>0, <1>1, <1>3, <2>1 DEF ElectionInv, ElectionTypeOK, netVars, Peers
  <1>7. RoundsStarted'
    <2>1. \A k \in Server : votedTerm'[k] = votedTerm[k] /\ votedTerm[k] <= currentTerm[k]
      BY Zenon, <1>0, <1>4 DEF RoundsStarted
    <2>2. \A k \in Server : votedTerm'[k] <= currentTerm'[k]
      <3>1. \A k \in Server : /\ votedTerm[k] \in Nat /\ currentTerm[k] \in Nat
                              /\ currentTerm'[k] \in Nat /\ currentTerm'[k] >= currentTerm[k]
        BY Zenon, <1>0, <1>4
      <3>. QED
        BY <2>1, <3>1
    <2>. QED
      BY Zenon, <1>4, <2>2, StartedStep
  <1>8. \A v, j \in Server, n \in Nat \ {0} : Voted(v, j, n)' => Voted(v, j, n)
    <2>. SUFFICES ASSUME NEW v \in Server, NEW j \in Server, NEW n \in Nat \ {0}, Voted(v, j, n)'
                  PROVE  Voted(v, j, n)
      OBVIOUS
    <2>1. CASE ticker'[j].term = n /\ v \in ticker'[j].count
      <3>1. CASE v \in ticker[j].count
        BY Zenon, <1>4, <2>1, <3>1 DEF Voted
      <3>2. CASE v \notin ticker[j].count
        <4>1. j = i /\ counted /\ v = m.from
          BY ZenonT(30), <1>3, <2>1, <3>2
        <4>2. m.from = v /\ m.to = j /\ m.round = n /\ m.VoteGranted
          BY Zenon, <1>4, <2>1, <4>1 DEF counted, current
        <4>. QED
          BY Zenon, <4>2 DEF Voted
      <3>. QED
        BY Zenon, <3>1, <3>2
    <2>2. CASE ticker'[j].term = n /\ v = j
      BY Zenon, <1>4, <2>2 DEF Voted
    <2>3. CASE \E q \in voteReplies' : q.from = v /\ q.to = j /\ q.round = n /\ q.VoteGranted
      BY Zenon, <1>4, <2>3 DEF Voted
    <2>. QED
      BY Zenon, <2>1, <2>2, <2>3 DEF Voted
  <1>9. VotesRemembered' /\ VotesExclusive'
    BY Zenon, <1>4, <1>8, VotesStep
  <1>10. RoundsCurrent'
    <2>1. \A k \in Server : VotesPending(k)' => VotesPending(k)
      BY Zenon, <1>4 DEF VotesPending
    <2>2. \A k \in Server \ {i} : Won(k)' <=> Won(k)
      BY Zenon, <1>0, <1>3 DEF Won
    <2>3. counted => VotesPending(i)
      BY Zenon, <1>0 DEF VotesPending, counted, current
    <2>4. ~counted => (Won(i)' <=> Won(i))
      BY Zenon, <1>3 DEF Won
    <2>5. \A k \in Server \ {i} : status'[k] = status[k]
      BY Zenon, <1>0, <1>1
    <2>6. \/ status'[i] = "follower"
          \/ status'[i] = status[i] /\ currentTerm'[i] = currentTerm[i]
      BY <1>0, <1>1
    <2>. SUFFICES ASSUME ~LateReplies
                  PROVE  \A k \in Server : RoundCurrent(k)'
      BY SMTT(30) DEF RoundsCurrent
    <2>7. ASSUME NEW k \in Server \ {i}
          PROVE  RoundCurrent(k)'
      BY Zenon, <1>0, <1>3, <2>1, <2>2, <2>5 DEF RoundsCurrent, RoundCurrent, ElectionInv
    <2>8. RoundCurrent(i)'
      <3>0. RoundCurrent(i)
        BY Zenon, <1>0 DEF RoundsCurrent, ElectionInv
      <3>1. CASE counted
        <4>1. /\ status[i] = "candidate" /\ ticker[i].term = currentTerm[i] /\ ticker[i].term > 0
          BY ZenonT(30), <2>3, <3>0, <3>1 DEF RoundCurrent, counted, current
        <4>2. ticker'[i].woken
          BY Zenon, <1>0, <1>1, <1>2, <3>1 DEF counted
        <4>. QED
          BY Zenon, <1>0, <1>3, <2>6, <4>1, <4>2 DEF RoundCurrent
      <3>2. CASE ~counted
        <4>1. /\ ticker'[i].term = ticker[i].term /\ ticker'[i].waiting = ticker[i].waiting
              /\ ~ticker'[i].woken => ~ticker[i].woken
          BY Zenon, <1>0, <1>3
        <4>. QED
          BY Zenon, <1>0, <4>1, <2>1, <2>4, <2>6, <3>0, <3>2 DEF RoundCurrent
      <3>. QED
        BY Zenon, <3>1, <3>2
    <2>. QED
      BY <2>7, <2>8
  <1>. QED
    BY Zenon, <1>5, <1>6, <1>7, <1>9, <1>10 DEF ElectionInv
=============================================================================
