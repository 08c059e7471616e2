--------------------------- MODULE ApplyChProofs ----------------------------
(***************************************************************************)
(* Theorems about the locks and channels between Raft and the service, for *)
(* any set of peers, length of the log and snapshot interval: a delivery   *)
(* reads only what the log has, and is one step for everybody else.        *)
(***************************************************************************)
EXTENDS ApplyCh, TLAPS

Loop == [next : Nat, last : Nat, newIndex : Nat]
Hand == [pc : {"reading", "command", "snapshot", "installing"}, index : Nat]

TypeOK ==
    /\ lastIndex \in [Server -> Nat] /\ lastIncludedIndex \in [Server -> Nat]
    /\ commitIndex \in [Server -> Nat] /\ lastApplied \in [Server -> Nat]
    /\ applying \in [Server -> SUBSET Nat] /\ installing \in [Server -> SUBSET Nat]
    /\ snapshotting \in [Server -> SUBSET Nat] /\ appliedTo \in [Server -> Nat]
    /\ sending \in [Server -> Loop] /\ applier \in [Server -> Hand]

(* A loop that holds rf.mu has something left to send, and the log has it. *)
LoopInv == \A i \in Server : Locked(i) =>
    /\ 0 < sending[i].next /\ sending[i].next <= sending[i].last
    /\ lastIncludedIndex[i] < sending[i].next /\ sending[i].last <= lastIndex[i]

(* A snapshot in the hands of an applier has an index of the log.          *)
HandInv == \A i \in Server :
    applier[i].pc \in {"snapshot", "installing"} => applier[i].index \in 1 .. MaxIndex

(* What the service of the leader has been sent: everything its snapshots  *)
(* cover.  It follows nobody, so that none is installed on it.             *)
SentByLeader == IF Locked(Leader) THEN sending[Leader].next - 1 ELSE lastApplied[Leader]

LeaderInv ==
    /\ applying[Leader] = {} /\ installing[Leader] = {}
    /\ applier[Leader].pc \in {"reading", "command"}
    /\ \A x \in snapshotting[Leader] : x <= SentByLeader
    /\ InHand(Leader) <= SentByLeader
    /\ lastIncludedIndex[Leader] <= lastApplied[Leader]
    /\ Locked(Leader) => /\ lastApplied[Leader] < sending[Leader].next
                         /\ sending[Leader].newIndex = sending[Leader].last
    /\ ~Locked(Leader) => commitIndex[Leader] = lastApplied[Leader]

ApplyInv == TypeOK /\ LoopInv /\ HandInv /\ LeaderInv

-----------------------------------------------------------------------------
(* The steps, one by one.                                                  *)
USE ApplyAssumption DEF peerVars, logVars, applyVars, workVars, chanVars, Update, NotSending,
    Reading, Locked

(* A client calls Start.                                                   *)
LEMMA CallStartStep ==
    ASSUME ApplyInv, NEW i \in Server, CallStart(i)
    PROVE  ApplyInv'
  <1>. USE DEF CallStart
  <1>1. TypeOK'
    BY DEF ApplyInv, TypeOK, Loop, Hand
  <1>2. LoopInv'
    BY DEF ApplyInv, TypeOK, Loop, Hand, LoopInv, LeaderInv
  <1>3. HandInv'
    BY DEF ApplyInv, TypeOK, Loop, Hand, HandInv
  <1>4. LeaderInv'
    BY DEF ApplyInv, TypeOK, Loop, Hand, LoopInv, LeaderInv, SentByLeader, InHand
  <1>. QED
    BY <1>1, <1>2, <1>3, <1>4 DEF ApplyInv

(* Start appends on the leader.                                            *)
LEMMA StartStep ==
    ASSUME ApplyInv, NEW i \in Server, Start(i)
    PROVE  ApplyInv'
  <1>. USE DEF Start, Append
  <1>1. TypeOK'
    <2>1. CASE i = Leader /\ lastIndex[i] < MaxIndex
      BY <2>1 DEF ApplyInv, TypeOK, Loop, Hand
    <2>2. CASE ~(i = Leader /\ lastIndex[i] < MaxIndex)
      BY <2>2 DEF ApplyInv, TypeOK, Loop, Hand
    <2>. QED
      BY <2>1, <2>2
  <1>2. LoopInv'
    BY Zenon DEF ApplyInv, TypeOK, Loop, Hand, LoopInv, LeaderInv
  <1>3. HandInv'
    BY DEF ApplyInv, TypeOK, Loop, Hand, HandInv
  <1>4. LeaderInv'
    BY DEF ApplyInv, TypeOK, Loop, Hand, LoopInv, LeaderInv, SentByLeader, InHand
  <1>. QED
    BY <1>1, <1>2, <1>3, <1>4 DEF ApplyInv

(* AppendEntries finds rf.mu free: no loop is reading the log.             *)
LEMMA HandleAppendEntriesStep ==
    ASSUME ApplyInv, NEW i \in Server, NEW n \in 0 .. MaxIndex, NEW m \in 0 .. MaxIndex,
           HandleAppendEntries(i, n, m)
    PROVE  ApplyInv'
  <1>. USE DEF HandleAppendEntries, AppendEntries
  <1>1. TypeOK'
    BY DEF ApplyInv, TypeOK, Loop, Hand
  <1>2. LoopInv'
    BY DEF ApplyInv, TypeOK, Loop, Hand, LoopInv, LeaderInv
  <1>3. HandInv'
    BY DEF ApplyInv, TypeOK, Loop, Hand, HandInv
  <1>4. LeaderInv'
    BY DEF ApplyInv, TypeOK, Loop, Hand, LoopInv, LeaderInv, SentByLeader, InHand
  <1>. QED
    BY <1>1, <1>2, <1>3, <1>4 DEF ApplyInv

(* InstallSnapshot starts the goroutine that will send the snapshot.       *)
LEMMA HandleInstallSnapshotStep ==
    ASSUME ApplyInv, NEW i \in Server, NEW x \in 1 .. MaxIndex, HandleInstallSnapshot(i, x)
    PROVE  ApplyInv'
  <1>. USE DEF HandleInstallSnapshot, InstallSnapshot
  <1>1. TypeOK'
    BY DEF ApplyInv, TypeOK, Loop, Hand
  <1>2. LoopInv'
    BY DEF ApplyInv, TypeOK, Loop, Hand, LoopInv, LeaderInv
  <1>3. HandInv'
    BY DEF ApplyInv, TypeOK, Loop, Hand, HandInv
  <1>4. LeaderInv'
    BY DEF ApplyInv, TypeOK, Loop, Hand, LoopInv, LeaderInv, SentByLeader, InHand
  <1>. QED
    BY <1>1, <1>2, <1>3, <1>4 DEF ApplyInv

(* Snapshot trims, on the leader only what the service has been sent.      *)
LEMMA RunSnapshotStep ==
    ASSUME ApplyInv, NEW i \in Server, NEW x \in 1 .. MaxIndex, RunSnapshot(i, x)
    PROVE  ApplyInv'
  <1>. USE DEF RunSnapshot, Snapshot, EndOne, Greater
  <1>1. TypeOK'
    <2>1. snapshotting' \in [Server -> SUBSET Nat]
      BY DEF ApplyInv, TypeOK
    <2>2. lastIncludedIndex' \in [Server -> Nat]
      BY DEF ApplyInv, TypeOK
    <2>. QED
      BY <2>1, <2>2 DEF ApplyInv, TypeOK, Loop, Hand
  <1>2. LoopInv'
    BY DEF ApplyInv, TypeOK, Loop, Hand, LoopInv, LeaderInv
  <1>3. HandInv'
    BY DEF ApplyInv, TypeOK, Loop, Hand, HandInv
  <1>4. LeaderInv'
    BY DEF ApplyInv, TypeOK, Loop, Hand, LoopInv, LeaderInv, SentByLeader, InHand
  <1>. QED
    BY <1>1, <1>2, <1>3, <1>4 DEF ApplyInv

(* applyNewCommand sends what the log has or ends at once.                 *)
LEMMA applyNewCommandStep ==
    ASSUME ApplyInv, NEW i \in Server, NEW x \in 1 .. MaxIndex, applyNewCommand(i, x)
    PROVE  ApplyInv'
  <1>. USE DEF applyNewCommand, EndOne, FirstToApply, Greater, Smaller
  <1>0. /\ FirstToApply(i) \in Nat /\ 0 < FirstToApply(i) /\ lastIncludedIndex[i] < FirstToApply(i)
        /\ Smaller(x, lastIndex[i]) \in Nat /\ Smaller(x, lastIndex[i]) <= lastIndex[i]
    BY DEF ApplyInv, TypeOK
  <1>1. TypeOK'
    <2>1. applying' \in [Server -> SUBSET Nat]
      BY DEF ApplyInv, TypeOK
    <2>. HIDE DEF FirstToApply, Smaller, Greater
    <2>2. CASE FirstToApply(i) > Smaller(x, lastIndex[i])
      <3>1. x \in Nat
        OBVIOUS
      <3>. QED
        <4>1. /\ lastApplied' = [lastApplied EXCEPT ![i] = x]
              /\ commitIndex' = [commitIndex EXCEPT ![i] = x] /\ UNCHANGED sending
          BY Zenon, <2>2
        <4>2. lastApplied' \in [Server -> Nat] /\ commitIndex' \in [Server -> Nat]
          BY <3>1, <4>1 DEF ApplyInv, TypeOK
        <4>. QED
          BY <2>1, <4>1, <4>2 DEF ApplyInv, TypeOK
    <2>3. CASE ~(FirstToApply(i) > Smaller(x, lastIndex[i]))
      <3>1. [next |-> FirstToApply(i), last |-> Smaller(x, lastIndex[i]), newIndex |-> x] \in Loop
        BY <1>0 DEF Loop
      <3>. QED
        <4>1. /\ sending' = [sending EXCEPT ![i] = [next |-> FirstToApply(i),
                                    last |-> Smaller(x, lastIndex[i]), newIndex |-> x]]
              /\ UNCHANGED applyVars
          BY Zenon, <2>3
        <4>2. sending' \in [Server -> Loop]
          BY <3>1, <4>1 DEF ApplyInv, TypeOK
        <4>. QED
          BY <2>1, <4>1, <4>2 DEF ApplyInv, TypeOK
    <2>. QED
      BY <2>2, <2>3
  <1>2. LoopInv'
    <2>2. CASE FirstToApply(i) > Smaller(x, lastIndex[i])
      BY <2>2 DEF ApplyInv, TypeOK, Loop, LoopInv
    <2>3. CASE ~(FirstToApply(i) > Smaller(x, lastIndex[i]))
      <3>. DEFINE first == FirstToApply(i)
                  last == Smaller(x, lastIndex[i])
      <3>. HIDE DEF FirstToApply, Smaller, Greater
      <3>1. /\ sending' = [sending EXCEPT ![i] = [next |-> first, last |-> last, newIndex |-> x]]
            /\ UNCHANGED logVars /\ sending \in [Server -> Loop] /\ LoopInv
        BY Zenon, <2>3 DEF ApplyInv, TypeOK
      <3>2. /\ sending'[i].next = first /\ sending'[i].last = last
            /\ \A j \in Server \ {i} : sending'[j] = sending[j]
        BY Zenon, <3>1
      <3>3. /\ 0 < first /\ first <= last
            /\ lastIncludedIndex[i] < first /\ last <= lastIndex[i]
        BY <1>0, <2>3
      <3>. QED
        BY Zenon, <3>1, <3>2, <3>3 DEF LoopInv
    <2>. QED
      BY <2>2, <2>3
  <1>3. HandInv'
    BY DEF ApplyInv, TypeOK, Loop, Hand, HandInv
  <1>4. LeaderInv'
    <2>1. i # Leader
      BY Zenon DEF ApplyInv, LeaderInv
    <2>2. /\ applying'[Leader] = applying[Leader] /\ lastApplied'[Leader] = lastApplied[Leader]
          /\ commitIndex'[Leader] = commitIndex[Leader] /\ sending'[Leader] = sending[Leader]
      BY <2>1 DEF ApplyInv, TypeOK
    <2>. QED
      BY Zenon, <2>2 DEF ApplyInv, LeaderInv, SentByLeader, InHand
  <1>. QED
    BY <1>1, <1>2, <1>3, <1>4 DEF ApplyInv

(* The applier receives a snapshot.                                        *)
LEMMA SendSnapshotStep ==
    ASSUME ApplyInv, NEW i \in Server, NEW x \in 1 .. MaxIndex, SendSnapshot(i, x)
    PROVE  ApplyInv'
  <1>. USE DEF SendSnapshot
  <1>1. TypeOK'
    BY DEF ApplyInv, TypeOK, Loop, Hand
  <1>2. LoopInv'
    BY DEF ApplyInv, TypeOK, Loop, Hand, LoopInv, LeaderInv
  <1>3. HandInv'
    BY DEF ApplyInv, TypeOK, Loop, Hand, HandInv
  <1>4. LeaderInv'
    BY DEF ApplyInv, TypeOK, Loop, Hand, LoopInv, LeaderInv, SentByLeader, InHand
  <1>. QED
    BY <1>1, <1>2, <1>3, <1>4 DEF ApplyInv

(* The applier receives a command; the loop goes on or ends.               *)
LEMMA SendCommandStep ==
    ASSUME ApplyInv, NEW i \in Server, SendCommand(i)
    PROVE  ApplyInv'
  <1>. USE DEF SendCommand
  <1>1. TypeOK'
    <2>0. sending[i] \in Loop /\ [pc |-> "command", index |-> sending[i].next] \in Hand
      BY DEF ApplyInv, TypeOK, Loop, Hand
    <2>1. CASE sending[i].next < sending[i].last
      <3>1. [sending[i] EXCEPT !.next = @ + 1] \in Loop
        BY <2>0 DEF Loop
      <3>. QED
        <4>1. sending' = [sending EXCEPT ![i] = [sending[i] EXCEPT !.next = @ + 1]] /\ UNCHANGED applyVars
          BY Zenon, <2>1
        <4>2. sending' \in [Server -> Loop] /\ applier' \in [Server -> Hand]
          BY Zenon, <2>0, <3>1, <4>1 DEF ApplyInv, TypeOK
        <4>. QED
          BY <4>1, <4>2 DEF ApplyInv, TypeOK
    <2>2. CASE ~(sending[i].next < sending[i].last)
      <3>1. NotSending \in Loop /\ sending[i].newIndex \in Nat
        BY <2>0 DEF Loop
      <3>. QED
        <4>1. sending' \in [Server -> Loop] /\ applier' \in [Server -> Hand]
          BY <2>0, <2>2, <3>1 DEF ApplyInv, TypeOK
        <4>2. lastApplied' \in [Server -> Nat] /\ commitIndex' \in [Server -> Nat]
          BY Zenon, <2>2, <3>1 DEF ApplyInv, TypeOK
        <4>. QED
          BY <4>1, <4>2 DEF ApplyInv, TypeOK
    <2>. QED
      BY <2>1, <2>2
  <1>2. LoopInv'
    <2>1. CASE sending[i].next < sending[i].last
      <3>1. /\ sending'[i].next = sending[i].next + 1 /\ sending'[i].last = sending[i].last
            /\ \A j \in Server \ {i} : sending'[j] = sending[j]
            /\ UNCHANGED logVars
        BY <2>1 DEF ApplyInv, TypeOK, Loop
      <3>2. /\ sending[i].next \in Nat /\ sending[i].last \in Nat
            /\ lastIncludedIndex[i] \in Nat /\ lastIndex[i] \in Nat
        BY DEF ApplyInv, TypeOK, Loop
      <3>3. /\ 0 < sending[i].next /\ lastIncludedIndex[i] < sending[i].next
            /\ sending[i].last <= lastIndex[i]
        BY Zenon DEF ApplyInv, LoopInv
      <3>4. /\ 0 < sending[i].next + 1 /\ sending[i].next + 1 <= sending[i].last
            /\ lastIncludedIndex[i] < sending[i].next + 1
        BY <2>1, <3>2, <3>3
      <3>5. \A j \in Server \ {i} : Locked(j)' =>
                /\ 0 < sending'[j].next /\ sending'[j].next <= sending'[j].last
                /\ lastIncludedIndex'[j] < sending'[j].next /\ sending'[j].last <= lastIndex'[j]
        BY Zenon, <3>1 DEF ApplyInv, LoopInv, Locked
      <3>. QED
        BY Zenon, <3>1, <3>3, <3>4, <3>5 DEF LoopInv
    <2>2. CASE ~(sending[i].next < sending[i].last)
      <3>1. sending' = [sending EXCEPT ![i] = NotSending] /\ UNCHANGED logVars /\ LoopInv
        BY Zenon, <2>2 DEF ApplyInv
      <3>2. sending'[i] = NotSending /\ \A j \in Server \ {i} : sending'[j] = sending[j]
        BY Zenon, <3>1 DEF ApplyInv, TypeOK
      <3>. QED
        BY Zenon, <3>1, <3>2 DEF LoopInv
    <2>. QED
      BY <2>1, <2>2
  <1>3. HandInv'
    BY DEF ApplyInv, TypeOK, Loop, Hand, HandInv
  <1>4. LeaderInv'
    <2>1. CASE sending[i].next < sending[i].last
      <3>1. /\ sending'[i].next = sending[i].next + 1 /\ sending'[i].last = sending[i].last
            /\ sending'[i].newIndex = sending[i].newIndex
            /\ sending[i].next \in Nat /\ Locked(i)'
        BY <2>1 DEF ApplyInv, TypeOK, Loop, Locked, NotSending
      <3>2. /\ \A j \in Server \ {i} : sending'[j] = sending[j] /\ applier'[j] = applier[j]
            /\ applier'[i] = [pc |-> "command", index |-> sending[i].next] /\ Locked(i)
            /\ UNCHANGED <<lastApplied, commitIndex, lastIncludedIndex, applying, installing,
                           snapshotting>>
        BY Zenon, <2>1 DEF ApplyInv, TypeOK
      <3>3. CASE i # Leader
        <4>1. sending'[Leader] = sending[Leader] /\ applier'[Leader] = applier[Leader]
          BY Zenon, <3>2, <3>3, ApplyAssumption
        <4>. QED
          BY Zenon, <3>2, <4>1 DEF ApplyInv, LeaderInv, SentByLeader, InHand, Locked
      <3>4. CASE i = Leader
        <4>1. /\ SentByLeader = sending[i].next - 1 /\ SentByLeader' = sending[i].next + 1 - 1
              /\ InHand(Leader)' = sending[i].next /\ applier'[Leader].pc = "command"
          BY <3>1, <3>2, <3>4 DEF SentByLeader, InHand
        <4>2. /\ \A x \in snapshotting[Leader] : x \in Nat /\ x <= sending[i].next - 1
              /\ lastApplied[Leader] \in Nat /\ lastApplied[Leader] < sending[i].next
          BY Zenon, <3>2, <3>4, <4>1 DEF ApplyInv, TypeOK, LeaderInv
        <4>3. /\ \A x \in snapshotting[Leader] : x <= SentByLeader'
              /\ InHand(Leader)' <= SentByLeader'
              /\ lastApplied[Leader] < sending[i].next + 1
          BY <3>1, <4>1, <4>2
        <4>. QED
          BY Zenon, <3>1, <3>2, <3>4, <4>1, <4>3 DEF ApplyInv, LeaderInv
      <3>. QED
        BY Zenon, <3>3, <3>4
    <2>2. CASE ~(sending[i].next < sending[i].last)
      BY <2>2 DEF ApplyInv, TypeOK, Loop, Hand, LoopInv, LeaderInv, SentByLeader, InHand
    <2>. QED
      BY <2>1, <2>2
  <1>. QED
    BY <1>1, <1>2, <1>3, <1>4 DEF ApplyInv

(* The service applies a command and may ask for a snapshot.               *)
LEMMA ApplyCommandStep ==
    ASSUME ApplyInv, NEW i \in Server, ApplyCommand(i)
    PROVE  ApplyInv'
  <1>. USE DEF ApplyCommand
  <1>1. TypeOK'
    BY DEF ApplyInv, TypeOK, Loop, Hand
  <1>2. LoopInv'
    BY DEF ApplyInv, TypeOK, Loop, Hand, LoopInv, LeaderInv
  <1>3. HandInv'
    BY DEF ApplyInv, TypeOK, Loop, Hand, HandInv
  <1>4. LeaderInv'
    BY DEF ApplyInv, TypeOK, Loop, Hand, LoopInv, LeaderInv, SentByLeader, InHand
  <1>. QED
    BY <1>1, <1>2, <1>3, <1>4 DEF ApplyInv

(* The service ignores an old command.                                     *)
LEMMA IgnoreCommandStep ==
    ASSUME ApplyInv, NEW i \in Server, IgnoreCommand(i)
    PROVE  ApplyInv'
  <1>. USE DEF IgnoreCommand
  <1>1. TypeOK'
    BY DEF ApplyInv, TypeOK, Loop, Hand
  <1>2. LoopInv'
    BY DEF ApplyInv, TypeOK, Loop, Hand, LoopInv, LeaderInv
  <1>3. HandInv'
    BY DEF ApplyInv, TypeOK, Loop, Hand, HandInv
  <1>4. LeaderInv'
    BY DEF ApplyInv, TypeOK, Loop, Hand, LoopInv, LeaderInv, SentByLeader, InHand
  <1>. QED
    BY <1>1, <1>2, <1>3, <1>4 DEF ApplyInv

(* The applier takes cfg.mu.                                               *)
LEMMA LockForSnapshotStep ==
    ASSUME ApplyInv, NEW i \in Server, LockForSnapshot(i)
    PROVE  ApplyInv'
  <1>. USE DEF LockForSnapshot
  <1>1. TypeOK'
    <2>1. [applier[i] EXCEPT !.pc = "installing"] \in Hand
      BY DEF ApplyInv, TypeOK, Hand
    <2>2. applier' \in [Server -> Hand]
      BY Zenon, <2>1 DEF ApplyInv, TypeOK
    <2>. QED
      BY Zenon, <2>2 DEF ApplyInv, TypeOK
  <1>2. LoopInv'
    BY DEF ApplyInv, TypeOK, Loop, Hand, LoopInv, LeaderInv
  <1>3. HandInv'
    BY DEF ApplyInv, TypeOK, Loop, Hand, HandInv
  <1>4. LeaderInv'
    BY DEF ApplyInv, TypeOK, Loop, Hand, LoopInv, LeaderInv, SentByLeader, InHand
  <1>. QED
    BY <1>1, <1>2, <1>3, <1>4 DEF ApplyInv

(* CondInstallSnapshot: never on the leader, and with rf.mu free.          *)
LEMMA CondInstallSnapshotStep ==
    ASSUME ApplyInv, NEW i \in Server, CondInstallSnapshot(i)
    PROVE  ApplyInv'
  <1>. USE DEF CondInstallSnapshot, CondInstall, Installs
  <1>1. TypeOK'
    <2>1. Reading \in Hand /\ applier[i].index \in Nat
      BY DEF ApplyInv, TypeOK, Hand
    <2>2. applier' \in [Server -> Hand]
      BY Zenon, <2>1 DEF ApplyInv, TypeOK
    <2>3. CASE Installs(i, applier[i].index)
      <3>1. /\ lastIndex' \in [Server -> Nat] /\ lastIncludedIndex' \in [Server -> Nat]
            /\ commitIndex' \in [Server -> Nat] /\ lastApplied' \in [Server -> Nat]
            /\ appliedTo' \in [Server -> Nat]
        BY ZenonT(60), <2>1, <2>3 DEF ApplyInv, TypeOK
      <3>. QED
        BY Zenon, <2>2, <3>1 DEF ApplyInv, TypeOK
    <2>4. CASE ~Installs(i, applier[i].index)
      BY Zenon, <2>2, <2>4 DEF ApplyInv, TypeOK
    <2>. QED
      BY <2>3, <2>4
  <1>2. LoopInv'
    <2>. SUFFICES ASSUME NEW j \in Server, Locked(j)'
                  PROVE  /\ 0 < sending'[j].next /\ sending'[j].next <= sending'[j].last
                         /\ lastIncludedIndex'[j] < sending'[j].next /\ sending'[j].last <= lastIndex'[j]
      BY Zenon DEF LoopInv
    <2>1. UNCHANGED sending /\ Locked(j) /\ j # i
      BY Zenon DEF Locked
    <2>2. lastIncludedIndex'[j] = lastIncludedIndex[j] /\ lastIndex'[j] = lastIndex[j]
      BY ZenonT(60), <2>1 DEF ApplyInv, TypeOK
    <2>. QED
      BY Zenon, <2>1, <2>2 DEF ApplyInv, LoopInv
  <1>3. HandInv'
    BY DEF ApplyInv, TypeOK, Loop, Hand, HandInv
  <1>4. LeaderInv'
    BY DEF ApplyInv, TypeOK, Loop, Hand, LoopInv, LeaderInv, SentByLeader, InHand
  <1>. QED
    BY <1>1, <1>2, <1>3, <1>4 DEF ApplyInv

(* leaderApply starts after the last command sent, past what is trimmed.   *)
LEMMA leaderApplyStep ==
    ASSUME ApplyInv, NEW i \in Server, NEW x \in 1 .. MaxIndex, leaderApply(x)
    PROVE  ApplyInv'
  <1>. USE DEF leaderApply
  <1>1. TypeOK'
    BY DEF ApplyInv, TypeOK, Loop, Hand
  <1>2. LoopInv'
    BY DEF ApplyInv, TypeOK, Loop, Hand, LoopInv, LeaderInv
  <1>3. HandInv'
    BY DEF ApplyInv, TypeOK, Loop, Hand, HandInv
  <1>4. LeaderInv'
    BY DEF ApplyInv, TypeOK, Loop, Hand, LoopInv, LeaderInv, SentByLeader, InHand
  <1>. QED
    BY <1>1, <1>2, <1>3, <1>4 DEF ApplyInv

HIDE ApplyAssumption DEF peerVars, logVars, applyVars, workVars, chanVars, Update, NotSending,
    Reading, Locked

-----------------------------------------------------------------------------
(* ApplyInv is an invariant.                                               *)
LEMMA ApplyInit == Init => ApplyInv
  BY ApplyAssumption
  DEF Init, DeliveryInit, ApplyInv, TypeOK, Loop, Hand, LoopInv, HandInv, LeaderInv, SentByLeader,
      InHand, Locked, NotSending, Reading

(* Every step keeps ApplyInv.                                              *)
LEMMA ApplyNext == ApplyInv /\ [Next]_vars => ApplyInv'
  <1>. SUFFICES ASSUME ApplyInv, [Next]_vars
                PROVE  ApplyInv'
    OBVIOUS
  <1>1. CASE UNCHANGED vars
    BY <1>1 DEF vars, peerVars, logVars, applyVars, workVars, chanVars, ApplyInv, TypeOK, LoopInv,
                HandInv, LeaderInv, SentByLeader, InHand, Locked
  <1>2. ASSUME NEW i \in Server,
               \/ CallStart(i) \/ Start(i)
               \/ \E n, m \in 0 .. MaxIndex : HandleAppendEntries(i, n, m)
               \/ \E x \in 1 .. MaxIndex :
                     \/ HandleInstallSnapshot(i, x)
                     \/ RunSnapshot(i, x)
                     \/ applyNewCommand(i, x)
                     \/ SendSnapshot(i, x)
               \/ SendCommand(i)
               \/ ApplyCommand(i) \/ IgnoreCommand(i)
               \/ LockForSnapshot(i) \/ CondInstallSnapshot(i)
        PROVE  ApplyInv'
    BY Zenon, <1>2, CallStartStep, StartStep, HandleAppendEntriesStep, HandleInstallSnapshotStep,
       RunSnapshotStep, applyNewCommandStep, SendSnapshotStep, SendCommandStep, ApplyCommandStep,
       IgnoreCommandStep, LockForSnapshotStep, CondInstallSnapshotStep
  <1>3. ASSUME NEW x \in 1 .. MaxIndex, leaderApply(x)
        PROVE  ApplyInv'
    BY Zenon, <1>3, leaderApplyStep, ApplyAssumption
  <1>. QED
    BY Zenon, <1>1, <1>2, <1>3 DEF Next

(* ApplyInv holds throughout.                                              *)
LEMMA ApplyInvariant == Spec => []ApplyInv
  BY ApplyInit, ApplyNext, PTL DEF Spec

(* A delivery, whether applyNewCommand's or leaderApply's, reads only      *)
(* entries that the log still has: Snapshot has not trimmed them and       *)
(* CondInstallSnapshot has not cut them off.                               *)
THEOREM DeliversWhatLogHas == Spec => []DeliversFromLog
  <1>1. ApplyInv => DeliversFromLog
    BY DEF ApplyInv, LoopInv, DeliversFromLog
  <1>. QED
    BY <1>1, ApplyInvariant, PTL

-----------------------------------------------------------------------------
(* The refinement: what happens to the other peers, as Delivery sees them, *)
(* and to the peer that takes the step.                                    *)
Others(i) == \A j \in Server \ {i} :
    /\ sending'[j] = sending[j] /\ applier'[j] = applier[j]
    /\ lastApplied'[j] = lastApplied[j] /\ commitIndex'[j] = commitIndex[j]
    /\ installing'[j] = installing[j] /\ snapshotting'[j] = snapshotting[j]
    /\ appliedTo'[j] = appliedTo[j]

(* Functions on the peers are equal when their values are.                 *)
LEMMA Extensional ==
    ASSUME NEW f, NEW g, f = [j \in Server |-> f[j]], g = [j \in Server |-> g[j]],
           \A j \in Server : g[j] = f[j]
    PROVE  g = f
  <1>1. [j \in Server |-> f[j]] = [j \in Server |-> g[j]]
    BY Zenon
  <1>. QED
    BY Zenon, <1>1

(* A function that changes at i only.                                      *)
LEMMA Pointwise ==
    ASSUME NEW f, NEW g, NEW i \in Server, f = [j \in Server |-> f[j]], g = [j \in Server |-> g[j]],
           \A j \in Server \ {i} : g[j] = f[j]
    PROVE  g = [f EXCEPT ![i] = g[i]] /\ (g[i] = f[i] => g = f)
  <1>. DEFINE h == [f EXCEPT ![i] = g[i]]
  <1>1. h = [j \in Server |-> IF j = i THEN g[i] ELSE f[j]]
    BY Zenon
  <1>2. \A j \in Server : h[j] = g[j]
    BY Zenon, <1>1
  <1>3. h = [j \in Server |-> h[j]]
    BY Zenon, <1>1
  <1>4. h = g
    BY Zenon, <1>2, <1>3
  <1>5. ASSUME g[i] = f[i]
        PROVE  g = f
    <2>1. \A j \in Server : g[j] = f[j]
      BY Zenon, <1>5
    <2>. QED
      BY Zenon, <2>1, Extensional
  <1>. QED
    BY Zenon, <1>4, <1>5

(* The mapped variables change at i only.                                  *)
LEMMA OthersStep ==
    ASSUME NEW i \in Server, Others(i)
    PROVE  /\ LastApplied' = [LastApplied EXCEPT ![i] = LastApplied'[i]]
           /\ Committed' = [Committed EXCEPT ![i] = Committed'[i]]
           /\ InstalledSoon' = [InstalledSoon EXCEPT ![i] = InstalledSoon'[i]]
           /\ AppliedSoon' = [AppliedSoon EXCEPT ![i] = AppliedSoon'[i]]
           /\ TakenSoon' = [TakenSoon EXCEPT ![i] = TakenSoon'[i]]
           /\ LastApplied'[i] = LastApplied[i] => UNCHANGED LastApplied
           /\ Committed'[i] = Committed[i] => UNCHANGED Committed
           /\ InstalledSoon'[i] = InstalledSoon[i] => UNCHANGED InstalledSoon
           /\ AppliedSoon'[i] = AppliedSoon[i] => UNCHANGED AppliedSoon
           /\ TakenSoon'[i] = TakenSoon[i] => UNCHANGED TakenSoon
  <1>1. \A j \in Server \ {i} : LastApplied'[j] = LastApplied[j] /\ Committed'[j] = Committed[j]
    BY Zenon DEF Others, LastApplied, Committed, Locked
  <1>2. \A j \in Server \ {i} : InstalledSoon'[j] = InstalledSoon[j]
    BY Zenon DEF Others, InstalledSoon
  <1>3. \A j \in Server \ {i} : AppliedSoon'[j] = AppliedSoon[j]
    BY Zenon DEF Others, AppliedSoon, HandApplied, InHand, Locked
  <1>4. \A j \in Server \ {i} : TakenSoon'[j] = TakenSoon[j]
    BY Zenon DEF Others, TakenSoon, HandApplied, InHand, Locked
  <1>5. /\ LastApplied = [j \in Server |-> LastApplied[j]] /\ LastApplied' = [j \in Server |-> LastApplied'[j]]
        /\ Committed = [j \in Server |-> Committed[j]] /\ Committed' = [j \in Server |-> Committed'[j]]
        /\ InstalledSoon = [j \in Server |-> InstalledSoon[j]]
        /\ InstalledSoon' = [j \in Server |-> InstalledSoon'[j]]
        /\ AppliedSoon = [j \in Server |-> AppliedSoon[j]] /\ AppliedSoon' = [j \in Server |-> AppliedSoon'[j]]
        /\ TakenSoon = [j \in Server |-> TakenSoon[j]] /\ TakenSoon' = [j \in Server |-> TakenSoon'[j]]
    BY Zenon DEF LastApplied, Committed, InstalledSoon, AppliedSoon, TakenSoon
  <1>6. /\ LastApplied' = [LastApplied EXCEPT ![i] = LastApplied'[i]]
        /\ LastApplied'[i] = LastApplied[i] => UNCHANGED LastApplied
    BY <1>1, <1>5, Pointwise
  <1>7. /\ Committed' = [Committed EXCEPT ![i] = Committed'[i]]
        /\ Committed'[i] = Committed[i] => UNCHANGED Committed
    BY <1>1, <1>5, Pointwise
  <1>8. /\ InstalledSoon' = [InstalledSoon EXCEPT ![i] = InstalledSoon'[i]]
        /\ InstalledSoon'[i] = InstalledSoon[i] => UNCHANGED InstalledSoon
    BY <1>2, <1>5, Pointwise
  <1>9. /\ AppliedSoon' = [AppliedSoon EXCEPT ![i] = AppliedSoon'[i]]
        /\ AppliedSoon'[i] = AppliedSoon[i] => UNCHANGED AppliedSoon
    BY <1>3, <1>5, Pointwise
  <1>10. /\ TakenSoon' = [TakenSoon EXCEPT ![i] = TakenSoon'[i]]
         /\ TakenSoon'[i] = TakenSoon[i] => UNCHANGED TakenSoon
    BY <1>4, <1>5, Pointwise
  <1>. QED
    BY Zenon, <1>6, <1>7, <1>8, <1>9, <1>10

(* The snapshots taken from a range of commands, one command at a time.    *)
LEMMA TakenOne ==
    ASSUME NEW h \in Nat, NEW a \in Nat
    PROVE  Taken(h, h, a) = IF h > a THEN (IF IsSnapshot(h) THEN {h} ELSE {}) ELSE {}
  BY DEF Taken

(* A range of commands, its first one and the others.                      *)
LEMMA TakenSplit ==
    ASSUME NEW f \in Nat, NEW l \in Nat, NEW a \in Nat, f <= l
    PROVE  Taken(f, l, a) = Taken(f, f, a) \cup Taken(f + 1, l, Greater(a, f))
  BY DEF Taken, Greater

(* An empty range.                                                         *)
LEMMA TakenNone ==
    ASSUME NEW f \in Nat, NEW l \in Nat, NEW a \in Nat, f > l
    PROVE  Taken(f, l, a) = {}
  BY DEF Taken

(* A step that Delivery does not see.                                      *)
LEMMA Unseen ==
    ASSUME NEW i \in Server, Others(i), UNCHANGED <<logVars, applying>>,
           LastApplied'[i] = LastApplied[i], Committed'[i] = Committed[i],
           InstalledSoon'[i] = InstalledSoon[i], AppliedSoon'[i] = AppliedSoon[i],
           TakenSoon'[i] = TakenSoon[i]
    PROVE  UNCHANGED Atomic!peerVars
  <1>1. /\ UNCHANGED LastApplied /\ UNCHANGED Committed /\ UNCHANGED InstalledSoon
        /\ UNCHANGED AppliedSoon /\ UNCHANGED TakenSoon
    BY Zenon, OthersStep
  <1>. QED
    BY <1>1 DEF Atomic!peerVars, Atomic!logVars, Atomic!applyVars, Atomic!workVars, logVars

(* A command or a snapshot changes hands.                                  *)
LEMMA SendCommandUnseen ==
    ASSUME ApplyInv, NEW i \in Server, SendCommand(i)
    PROVE  UNCHANGED Atomic!peerVars
  <1>. DEFINE a == appliedTo[i]
              f == sending[i].next
              l == sending[i].last
  <1>1. /\ a \in Nat /\ f \in Nat /\ l \in Nat /\ f <= l /\ Locked(i) /\ 0 < f
        /\ applier[i].pc = "reading" /\ applier[i].index = 0
        /\ applier'[i].pc = "command" /\ applier'[i].index = f
    BY DEF ApplyInv, TypeOK, LoopInv, Loop, Hand, SendCommand, Update, Reading
  <1>2. /\ Others(i) /\ UNCHANGED <<logVars, workVars, appliedTo>>
    BY DEF ApplyInv, TypeOK, SendCommand, Others, Update, logVars, applyVars, workVars
  <1>3. \/ /\ f < l /\ Locked(i)' /\ UNCHANGED applyVars /\ sending'[i].newIndex = sending[i].newIndex
           /\ sending'[i].next = f + 1 /\ sending'[i].last = l
        \/ /\ f = l /\ ~Locked(i)'
           /\ lastApplied'[i] = sending[i].newIndex /\ commitIndex'[i] = sending[i].newIndex
    <2>1. sending[i] \in Loop /\ sending \in [Server -> Loop] /\ lastApplied \in [Server -> Nat]
          /\ commitIndex \in [Server -> Nat]
      BY Zenon DEF ApplyInv, TypeOK
    <2>2. CASE f < l
      <3>1. sending' = [sending EXCEPT ![i] = [sending[i] EXCEPT !.next = @ + 1]] /\ UNCHANGED applyVars
        BY Zenon, <2>2 DEF SendCommand, Update
      <3>. QED
        BY <1>1, <2>1, <2>2, <3>1 DEF Loop, Locked, NotSending
    <2>3. CASE ~(f < l)
      <3>1. /\ sending' = [sending EXCEPT ![i] = NotSending]
            /\ lastApplied' = [lastApplied EXCEPT ![i] = sending[i].newIndex]
            /\ commitIndex' = [commitIndex EXCEPT ![i] = sending[i].newIndex]
        BY Zenon, <2>3 DEF SendCommand, Update
      <3>. QED
        BY <1>1, <2>1, <2>3, <3>1 DEF Locked
    <2>. QED
      BY <2>2, <2>3
  <1>4. /\ InHand(i) = 0 /\ InHand(i)' = f /\ HandApplied(i) = a /\ HandApplied(i)' = Greater(a, f)
    BY <1>1, <1>2 DEF InHand, HandApplied, Greater
  <1>5. Taken(0, 0, a) = {}
    BY <1>1, TakenOne
  <1>6. Taken(f, l, a) = Taken(f, f, a) \cup Taken(f + 1, l, Greater(a, f))
    BY <1>1, TakenSplit
  <1>7. f = l => Taken(f + 1, l, Greater(a, f)) = {}
    BY <1>1, TakenNone DEF Greater
  <1>8. LastApplied'[i] = LastApplied[i] /\ Committed'[i] = Committed[i]
    BY <1>1, <1>3 DEF LastApplied, Committed, applyVars
  <1>9. InstalledSoon'[i] = InstalledSoon[i]
    BY Zenon, <1>1, <1>2 DEF InstalledSoon, workVars
  <1>10. AppliedSoon'[i] = AppliedSoon[i]
    <2>1. AppliedSoon[i] = Greater(a, l)
      BY <1>1, <1>4 DEF AppliedSoon
    <2>2. AppliedSoon'[i] = IF Locked(i)' THEN Greater(Greater(a, f), sending'[i].last) ELSE Greater(a, f)
      BY Zenon, <1>4 DEF AppliedSoon
    <2>. QED
      BY <1>1, <1>3, <2>1, <2>2 DEF Greater
  <1>11. TakenSoon'[i] = TakenSoon[i]
    <2>1. TakenSoon[i] = snapshotting[i] \cup Taken(0, 0, a) \cup Taken(f, l, a)
      BY <1>1, <1>4 DEF TakenSoon
    <2>2. TakenSoon'[i] = snapshotting[i] \cup Taken(f, f, a) \cup
                          (IF Locked(i)' THEN Taken(sending'[i].next, sending'[i].last, Greater(a, f)) ELSE {})
      BY <1>2, <1>4 DEF TakenSoon, workVars
    <2>. QED
      BY <1>3, <1>5, <1>6, <1>7, <2>1, <2>2
  <1>. QED
    BY Zenon, <1>2, <1>8, <1>9, <1>10, <1>11, Unseen DEF workVars

LEMMA GreaterOf ==
    ASSUME NEW m \in Nat, NEW n \in Nat
    PROVE  /\ ~(0 > m) /\ Greater(m, 0) = m
           /\ n > m => Greater(m, n) = n
           /\ n <= m => Greater(m, n) = m
  BY DEF Greater

(* The service takes a command that counts as taken already.               *)
LEMMA ApplierUnseen ==
    ASSUME ApplyInv, NEW i \in Server, ApplyCommand(i) \/ IgnoreCommand(i) \/ LockForSnapshot(i)
    PROVE  UNCHANGED Atomic!peerVars
  <1>. DEFINE a == appliedTo[i]
              h == applier[i].index
  <1>1. a \in Nat /\ h \in Nat /\ snapshotting[i] \in SUBSET Nat
    BY DEF ApplyInv, TypeOK, Hand
  <1>2. Others(i) /\ UNCHANGED <<logVars, applyVars, applying, installing, sending>>
    BY DEF ApplyInv, TypeOK, ApplyCommand, IgnoreCommand, LockForSnapshot, Others, Update, peerVars, applyVars,
           workVars
  <1>3. /\ LastApplied'[i] = LastApplied[i] /\ Committed'[i] = Committed[i]
        /\ Locked(i)' = Locked(i)
    BY Zenon, <1>2 DEF LastApplied, Committed, Locked, applyVars
  <1>4. /\ HandApplied(i)' = HandApplied(i) /\ InstalledSoon'[i] = InstalledSoon[i]
        /\ snapshotting'[i] \cup Taken(InHand(i), InHand(i), a)'
              = snapshotting[i] \cup Taken(InHand(i), InHand(i), a)
    <2>1. CASE ApplyCommand(i)
      <3>1. /\ InHand(i) = h /\ InHand(i)' = 0 /\ h > a /\ appliedTo'[i] = h
            /\ applier[i].pc = "command" /\ applier'[i].pc = "reading"
            /\ snapshotting'[i] = snapshotting[i] \cup (IF IsSnapshot(h) THEN {h} ELSE {})
        BY <1>1, <2>1 DEF ApplyInv, TypeOK, ApplyCommand, Update, Reading, InHand
      <3>2. Taken(0, 0, h) = {} /\ Taken(h, h, a) = IF IsSnapshot(h) THEN {h} ELSE {}
        <4>1. 0 \in Nat /\ ~(0 > h) /\ h > a
          <5>1. 0 \in Nat
            OBVIOUS
          <5>. QED
            BY Zenon, <1>1, <3>1, <5>1, GreaterOf
        <4>2. Taken(0, 0, h) = IF 0 > h THEN (IF IsSnapshot(0) THEN {0} ELSE {}) ELSE {}
          BY Zenon, <4>1, <1>1, TakenOne
        <4>3. Taken(h, h, a) = IF h > a THEN (IF IsSnapshot(h) THEN {h} ELSE {}) ELSE {}
          BY Zenon, <1>1, TakenOne
        <4>. QED
          BY Zenon, <4>1, <4>2, <4>3
      <3>3. Taken(InHand(i), InHand(i), a)' = {}
        BY Zenon, <3>1, <3>2
      <3>4. HandApplied(i)' = HandApplied(i)
        <4>1. Greater(a, h) = h /\ Greater(h, 0) = h
          BY Zenon, <1>1, <3>1, GreaterOf
        <4>2. HandApplied(i) = Greater(a, h) /\ HandApplied(i)' = Greater(h, 0)
          BY Zenon, <3>1 DEF HandApplied
        <4>. QED
          BY Zenon, <4>1, <4>2
      <3>5. InstalledSoon'[i] = InstalledSoon[i]
        BY Zenon, <1>2, <3>1 DEF InstalledSoon
      <3>6. snapshotting'[i] = snapshotting[i] \cup Taken(h, h, a)
        BY Zenon, <3>1, <3>2
      <3>. QED
        BY Zenon, <3>1, <3>3, <3>4, <3>5, <3>6
    <2>2. CASE IgnoreCommand(i)
      <3>1. /\ InHand(i) = h /\ InHand(i)' = 0 /\ h <= a /\ appliedTo'[i] = a
            /\ applier[i].pc = "command" /\ applier'[i].pc = "reading"
            /\ snapshotting'[i] = snapshotting[i]
        BY Zenon, <1>1, <2>2 DEF ApplyInv, TypeOK, IgnoreCommand, Update, Reading, InHand, peerVars, workVars
      <3>2. Taken(0, 0, a) = {} /\ Taken(h, h, a) = {}
        BY <1>1, <3>1, TakenOne
      <3>3. Taken(InHand(i), InHand(i), a)' = {}
        BY Zenon, <3>1, <3>2
      <3>4. HandApplied(i)' = HandApplied(i)
        BY Zenon, <1>1, <3>1, GreaterOf DEF HandApplied
      <3>5. InstalledSoon'[i] = InstalledSoon[i]
        BY Zenon, <1>2, <3>1 DEF InstalledSoon
      <3>. QED
        BY Zenon, <3>1, <3>2, <3>3, <3>4, <3>5
    <2>3. CASE LockForSnapshot(i)
      <3>1. /\ InHand(i) = 0 /\ InHand(i)' = 0 /\ appliedTo'[i] = a
            /\ applier[i].pc = "snapshot" /\ applier'[i].pc = "installing" /\ applier'[i].index = h
            /\ snapshotting'[i] = snapshotting[i]
        BY <1>1, <2>3 DEF ApplyInv, TypeOK, Hand, LockForSnapshot, Update, InHand, peerVars, workVars
      <3>. QED
        BY <1>1, <1>2, <3>1 DEF HandApplied, Greater, InstalledSoon
    <2>. QED
      BY Zenon, <2>1, <2>2, <2>3
  <1>5. AppliedSoon'[i] = AppliedSoon[i]
    BY Zenon, <1>2, <1>3, <1>4 DEF AppliedSoon
  <1>6. TakenSoon'[i] = TakenSoon[i]
    BY Zenon, <1>2, <1>3, <1>4 DEF TakenSoon
  <1>. QED
    BY Zenon, <1>2, <1>3, <1>4, <1>5, <1>6, Unseen

(* A snapshot that is received stays on its way to the service.            *)
LEMMA SendSnapshotUnseen ==
    ASSUME ApplyInv, NEW i \in Server, NEW x \in 1 .. MaxIndex, SendSnapshot(i, x)
    PROVE  UNCHANGED Atomic!peerVars
  <1>1. Others(i) /\ UNCHANGED <<logVars, applyVars, applying, snapshotting, appliedTo, sending>>
    BY DEF ApplyInv, TypeOK, SendSnapshot, Others, Update, applyVars
  <1>2. /\ InHand(i) = 0 /\ InHand(i)' = 0 /\ Locked(i)' = Locked(i)
        /\ applier[i].pc = "reading" /\ applier'[i].pc = "snapshot" /\ applier'[i].index = x
        /\ x \in installing[i] /\ installing'[i] = installing[i] \ {x}
    BY DEF ApplyInv, TypeOK, Hand, SendSnapshot, Update, InHand, Reading, Locked
  <1>3. /\ LastApplied'[i] = LastApplied[i] /\ Committed'[i] = Committed[i]
        /\ AppliedSoon'[i] = AppliedSoon[i] /\ TakenSoon'[i] = TakenSoon[i]
    BY Zenon, <1>1, <1>2 DEF LastApplied, Committed, AppliedSoon, TakenSoon, HandApplied, applyVars
  <1>4. InstalledSoon'[i] = InstalledSoon[i]
    BY <1>2 DEF InstalledSoon
  <1>. QED
    BY Zenon, <1>1, <1>3, <1>4, Unseen

-----------------------------------------------------------------------------
(* The steps that Delivery sees.  Its operators are those of ApplyCh.      *)
LEMMA SameOperators ==
    /\ \A x, y : Atomic!Greater(x, y) = Greater(x, y) /\ Atomic!Smaller(x, y) = Smaller(x, y)
    /\ \A x : Atomic!IsSnapshot(x) = IsSnapshot(x)
    /\ \A f, l, a : Atomic!Taken(f, l, a) = Taken(f, l, a)
  BY Zenon DEF Greater, Smaller, IsSnapshot, Taken, Atomic!Greater, Atomic!Smaller, Atomic!IsSnapshot,
     Atomic!Taken

(* Nothing but the log, the goroutines or the snapshots of a peer changes. *)
LEMMA CallStartUnseen ==
    ASSUME NEW i \in Server, CallStart(i)
    PROVE  UNCHANGED Atomic!peerVars
  <1>1. Others(i) /\ UNCHANGED <<logVars, applying>>
    BY Zenon DEF CallStart, Others, peerVars, applyVars, workVars
  <1>2. /\ LastApplied'[i] = LastApplied[i] /\ Committed'[i] = Committed[i]
        /\ InstalledSoon'[i] = InstalledSoon[i] /\ AppliedSoon'[i] = AppliedSoon[i]
        /\ TakenSoon'[i] = TakenSoon[i]
    BY Zenon DEF CallStart, peerVars, applyVars, workVars, LastApplied, Committed, InstalledSoon, AppliedSoon,
                 TakenSoon, HandApplied, InHand, Locked
  <1>. QED
    BY Zenon, <1>1, <1>2, Unseen

(* Start is Append on the leader and nothing elsewhere.                    *)
LEMMA StartSeen ==
    ASSUME ApplyInv, NEW i \in Server, Start(i)
    PROVE  Atomic!Append \/ UNCHANGED Atomic!peerVars
  <1>1. Others(i) /\ UNCHANGED <<lastIncludedIndex, applyVars, workVars, appliedTo, sending, applier>>
    BY Zenon DEF Start, Append, Others, peerVars, applyVars, workVars, logVars
  <1>2. /\ UNCHANGED LastApplied /\ UNCHANGED Committed /\ UNCHANGED InstalledSoon
        /\ UNCHANGED AppliedSoon /\ UNCHANGED TakenSoon
    BY Zenon, <1>1 DEF applyVars, workVars, LastApplied, Committed, InstalledSoon, AppliedSoon, TakenSoon,
                 HandApplied, InHand, Locked
  <1>3. CASE i = Leader /\ lastIndex[i] < MaxIndex
    BY <1>1, <1>2, <1>3 DEF Start, Append, Update, Atomic!Append, Atomic!Update, Atomic!applyVars,
       Atomic!workVars, workVars
  <1>4. CASE ~(i = Leader /\ lastIndex[i] < MaxIndex)
    BY <1>1, <1>2, <1>4 DEF Start, peerVars, logVars, workVars, Atomic!peerVars, Atomic!logVars,
       Atomic!applyVars, Atomic!workVars
  <1>. QED
    BY <1>3, <1>4

(* The leader tells of no more than what Delivery says it has applied.     *)
LEMMA AppendEntriesSeen ==
    ASSUME ApplyInv, NEW i \in Server, NEW n, NEW m, HandleAppendEntries(i, n, m)
    PROVE  Atomic!AppendEntries(i, n, m)
  <1>1. UNCHANGED <<lastIncludedIndex, applyVars, installing, snapshotting, appliedTo, sending, applier>>
    BY Zenon DEF HandleAppendEntries, AppendEntries, chanVars
  <1>2. /\ UNCHANGED LastApplied /\ UNCHANGED Committed /\ UNCHANGED InstalledSoon
        /\ UNCHANGED AppliedSoon /\ UNCHANGED TakenSoon
    BY Zenon, <1>1 DEF applyVars, LastApplied, Committed, InstalledSoon, AppliedSoon, TakenSoon,
                 HandApplied, InHand, Locked
  <1>3. Committed[i] = commitIndex[i] /\ Atomic!Smaller(lastIndex[i], LastApplied[Leader])
                                           = Smaller(lastIndex[i], LastApplied[Leader])
    BY Zenon, SameOperators DEF HandleAppendEntries, Committed
  <1>4. /\ lastApplied[Leader] \in Nat /\ LastApplied[Leader] \in Nat /\ lastIndex[i] \in Nat
        /\ lastApplied[Leader] <= LastApplied[Leader]
    BY ApplyAssumption DEF ApplyInv, TypeOK, Loop, LoopInv, LeaderInv, LastApplied
  <1>5. m \in 0 .. Smaller(lastIndex[i], lastApplied[Leader])
            => m \in 0 .. Smaller(lastIndex[i], LastApplied[Leader])
    BY <1>4 DEF Smaller
  <1>. QED
    BY Zenon, <1>1, <1>2, <1>3, <1>5
    DEF HandleAppendEntries, AppendEntries, Update, Atomic!AppendEntries, Atomic!Update, Atomic!applyVars

(* One more snapshot is on its way.                                        *)
LEMMA InstallSnapshotSeen ==
    ASSUME ApplyInv, NEW i \in Server, NEW x, HandleInstallSnapshot(i, x)
    PROVE  Atomic!InstallSnapshot(i, x)
  <1>1. Others(i) /\ UNCHANGED <<logVars, applyVars, applying, snapshotting, appliedTo, sending, applier>>
    BY DEF ApplyInv, TypeOK, HandleInstallSnapshot, InstallSnapshot, Others, Update, applyVars, chanVars
  <1>2. /\ UNCHANGED LastApplied /\ UNCHANGED Committed
        /\ UNCHANGED AppliedSoon /\ UNCHANGED TakenSoon
    BY Zenon, <1>1 DEF applyVars, LastApplied, Committed, AppliedSoon, TakenSoon, HandApplied, InHand, Locked
  <1>3. InstalledSoon'[i] = InstalledSoon[i] \cup {x}
    BY <1>1 DEF ApplyInv, TypeOK, HandleInstallSnapshot, InstallSnapshot, Update, InstalledSoon
  <1>4. InstalledSoon' = [InstalledSoon EXCEPT ![i] = InstalledSoon[i] \cup {x}]
    BY Zenon, <1>1, <1>3, OthersStep
  <1>. QED
    BY Zenon, <1>1, <1>2, <1>4, SameOperators
    DEF HandleInstallSnapshot, InstallSnapshot, logVars, Atomic!InstallSnapshot, Atomic!Update, Atomic!logVars,
        Atomic!applyVars

(* The index may be in the applier's hands as well.                        *)
LEMMA SnapshotSeen ==
    ASSUME ApplyInv, NEW i \in Server, NEW x \in 1 .. MaxIndex, RunSnapshot(i, x)
    PROVE  Atomic!Snapshot(i, x)
  <1>. DEFINE H == Taken(InHand(i), InHand(i), appliedTo[i])
  <1>1. /\ Others(i) /\ UNCHANGED <<lastIndex, applyVars, applying, installing, appliedTo, sending, applier>>
        /\ x \in snapshotting[i] /\ snapshotting'[i] = snapshotting[i] \ {x} /\ ~Locked(i)
    BY DEF ApplyInv, TypeOK, RunSnapshot, Snapshot, EndOne, Others, Update, applyVars, chanVars
  <1>2. /\ UNCHANGED LastApplied /\ UNCHANGED Committed
        /\ UNCHANGED AppliedSoon /\ UNCHANGED InstalledSoon
    BY Zenon, <1>1 DEF applyVars, LastApplied, Committed, AppliedSoon, InstalledSoon, HandApplied, InHand, Locked
  <1>3. TakenSoon[i] = snapshotting[i] \cup H /\ TakenSoon'[i] = (snapshotting[i] \ {x}) \cup H
    BY <1>1 DEF TakenSoon, InHand, Locked
  <1>. HIDE DEF H
  <1>4. x \in TakenSoon[i] /\ (TakenSoon'[i] = TakenSoon[i] \/ TakenSoon'[i] = TakenSoon[i] \ {x})
    BY <1>1, <1>3
  <1>5. UNCHANGED TakenSoon \/ TakenSoon' = [TakenSoon EXCEPT ![i] = TakenSoon[i] \ {x}]
    BY Zenon, <1>1, <1>4, OthersStep
  <1>. QED
    BY Zenon, <1>1, <1>2, <1>4, <1>5, SameOperators
    DEF RunSnapshot, Snapshot, Update, Atomic!Snapshot, Atomic!EndOne, Atomic!Update, Atomic!applyVars

(* The snapshot in the applier's hands is installed, or ignored.           *)
LEMMA CondInstallSeen ==
    ASSUME ApplyInv, NEW i \in Server, CondInstallSnapshot(i)
    PROVE  \E x \in 1 .. MaxIndex : Atomic!InstallOne(i, x)
  <1>. DEFINE x == applier[i].index
  <1>1. /\ x \in 1 .. MaxIndex /\ applier[i].pc = "installing" /\ applier'[i].pc = "reading"
        /\ ~Locked(i) /\ ~Locked(i)'
    BY DEF ApplyInv, TypeOK, HandInv, CondInstallSnapshot, Update, Reading, Locked
  <1>2. Others(i) /\ UNCHANGED <<applying, installing, snapshotting, sending>>
    BY DEF ApplyInv, TypeOK, CondInstallSnapshot, CondInstall, Others, Update, applyVars, workVars
  <1>3. /\ LastApplied[i] = lastApplied[i] /\ LastApplied'[i] = lastApplied'[i]
        /\ Committed[i] = commitIndex[i] /\ Committed'[i] = commitIndex'[i]
    BY Zenon, <1>1 DEF LastApplied, Committed
  <1>4. /\ AppliedSoon[i] = appliedTo[i] /\ AppliedSoon'[i] = appliedTo'[i]
        /\ TakenSoon[i] = snapshotting[i] /\ TakenSoon'[i] = snapshotting'[i]
    <2>1. appliedTo[i] \in Nat /\ appliedTo'[i] \in Nat
      BY CondInstallSnapshotStep DEF ApplyInv, TypeOK
    <2>2. InHand(i) = 0 /\ InHand(i)' = 0
      BY Zenon, <1>1 DEF InHand
    <2>3. HandApplied(i) = appliedTo[i] /\ HandApplied(i)' = appliedTo'[i]
      BY <2>1, <2>2 DEF HandApplied, Greater
    <2>4. Taken(0, 0, appliedTo[i]) = {} /\ Taken(0, 0, appliedTo'[i]) = {}
      BY <2>1, TakenOne
    <2>5. AppliedSoon[i] = appliedTo[i] /\ AppliedSoon'[i] = appliedTo'[i]
      BY Zenon, <1>1, <2>3 DEF AppliedSoon
    <2>6. /\ TakenSoon[i] = snapshotting[i] \cup {} \cup {}
          /\ TakenSoon'[i] = snapshotting'[i] \cup {} \cup {}
      BY Zenon, <1>1, <2>2, <2>4 DEF TakenSoon
    <2>. QED
      BY <2>5, <2>6
  <1>5. /\ x \in InstalledSoon[i]
        /\ InstalledSoon'[i] = InstalledSoon[i] \/ InstalledSoon'[i] = InstalledSoon[i] \ {x}
    BY <1>1, <1>2 DEF InstalledSoon
  <1>6. UNCHANGED TakenSoon
    BY Zenon, <1>2, <1>4, OthersStep
  <1>7. UNCHANGED InstalledSoon \/ InstalledSoon' = [InstalledSoon EXCEPT ![i] = InstalledSoon[i] \ {x}]
    BY Zenon, <1>2, <1>5, OthersStep
  <1>8. Atomic!CondInstall(i, x)
    <2>1. CASE Installs(i, x)
      <3>1. /\ Update(lastIndex, i, x) /\ Update(lastIncludedIndex, i, x)
            /\ lastApplied'[i] = x /\ commitIndex'[i] = x /\ appliedTo'[i] = x
        BY <2>1 DEF ApplyInv, TypeOK, CondInstallSnapshot, CondInstall, Update
      <3>2. /\ LastApplied' = [LastApplied EXCEPT ![i] = x] /\ Committed' = [Committed EXCEPT ![i] = x]
            /\ AppliedSoon' = [AppliedSoon EXCEPT ![i] = x]
        BY ZenonT(60), <1>2, <1>3, <1>4, <3>1, OthersStep
      <3>. QED
        BY Zenon, <1>3, <2>1, <3>1, <3>2
        DEF Update, Installs, Atomic!CondInstall, Atomic!Installs, Atomic!Update
    <2>2. CASE ~Installs(i, x)
      <3>1. UNCHANGED <<logVars, applyVars, appliedTo>>
        BY Zenon, <2>2 DEF CondInstallSnapshot, CondInstall
      <3>2. UNCHANGED LastApplied /\ UNCHANGED Committed /\ UNCHANGED AppliedSoon
        BY Zenon, <1>2, <1>3, <1>4, <3>1, OthersStep DEF applyVars
      <3>. QED
        BY Zenon, <1>3, <2>2, <3>1, <3>2
        DEF Installs, logVars, Atomic!CondInstall, Atomic!Installs, Atomic!logVars, Atomic!applyVars
    <2>. QED
      BY <2>1, <2>2
  <1>. QED
    BY Zenon, <1>1, <1>2, <1>5, <1>6, <1>7, <1>8 DEF Atomic!InstallOne, Atomic!EndOne, Atomic!Update

(* A loop gets rf.mu with the commands from f to l to send: Delivery takes *)
(* them as sent.                                                           *)
LEMMA LoopSeen ==
    ASSUME ApplyInv, ApplyInv', NEW i \in Server, NEW f \in Nat, NEW l \in Nat, NEW n \in Nat, Others(i),
           ~Locked(i), UNCHANGED <<logVars, installing, snapshotting, appliedTo, applier>>,
           \/ f <= l /\ Locked(i)' /\ sending'[i] = [next |-> f, last |-> l, newIndex |-> n]
           \/ f > l /\ ~Locked(i)' /\ lastApplied'[i] = n /\ commitIndex'[i] = n
    PROVE  /\ LastApplied' = [LastApplied EXCEPT ![i] = n] /\ Committed' = [Committed EXCEPT ![i] = n]
           /\ Atomic!Deliver(i, f, l) /\ UNCHANGED InstalledSoon
  <1>1. LastApplied'[i] = n /\ Committed'[i] = n
    <2>1. CASE Locked(i)' /\ sending'[i] = [next |-> f, last |-> l, newIndex |-> n]
      <3>1. sending'[i].newIndex = n
        BY <2>1
      <3>. QED
        BY Zenon, <2>1, <3>1 DEF LastApplied, Committed
    <2>2. CASE ~Locked(i)' /\ lastApplied'[i] = n /\ commitIndex'[i] = n
      BY Zenon, <2>2 DEF LastApplied, Committed
    <2>. QED
      BY Zenon, <2>1, <2>2
  <1>2. InHand(i)' = InHand(i) /\ HandApplied(i)' = HandApplied(i) /\ UNCHANGED InstalledSoon
    BY Zenon DEF InHand, HandApplied, InstalledSoon
  <1>3. AppliedSoon[i] = HandApplied(i) /\ HandApplied(i) \in Nat
    BY Zenon DEF ApplyInv, TypeOK, Hand, AppliedSoon, HandApplied, InHand, Greater
  <1>4. AppliedSoon'[i] = IF f <= l THEN Greater(AppliedSoon[i], l) ELSE AppliedSoon[i]
    <2>1. CASE f <= l /\ Locked(i)' /\ sending'[i] = [next |-> f, last |-> l, newIndex |-> n]
      <3>1. sending'[i].last = l
        BY <2>1
      <3>. QED
        BY Zenon, <1>2, <1>3, <2>1, <3>1 DEF AppliedSoon
    <2>2. CASE f > l /\ ~Locked(i)'
      <3>1. ~(f <= l)
        BY <2>2
      <3>. QED
        BY Zenon, <1>2, <1>3, <2>2, <3>1 DEF AppliedSoon
    <2>. QED
      BY Zenon, <2>1, <2>2
  <1>5. TakenSoon'[i] = TakenSoon[i] \cup Taken(f, l, AppliedSoon[i])
    <2>1. TakenSoon[i] = snapshotting[i] \cup Taken(InHand(i), InHand(i), appliedTo[i])
      BY DEF TakenSoon
    <2>2. CASE f <= l
      <3>1. Locked(i)' /\ sending'[i].next = f /\ sending'[i].last = l
        BY <2>2
      <3>2. TakenSoon'[i] = snapshotting[i] \cup Taken(InHand(i), InHand(i), appliedTo[i])
                                           \cup Taken(f, l, HandApplied(i))
        BY Zenon, <1>2, <3>1 DEF TakenSoon
      <3>. QED
        BY Zenon, <1>3, <2>1, <3>2
    <2>3. CASE f > l
      <3>1. ~Locked(i)' /\ Taken(f, l, AppliedSoon[i]) = {}
        BY <1>3, <2>3, TakenNone
      <3>2. TakenSoon'[i] = snapshotting[i] \cup Taken(InHand(i), InHand(i), appliedTo[i])
        BY <1>2, <3>1 DEF TakenSoon
      <3>. QED
        BY Zenon, <2>1, <3>1, <3>2
    <2>. QED
      BY <2>2, <2>3
  <1>6. /\ LastApplied' = [LastApplied EXCEPT ![i] = n] /\ Committed' = [Committed EXCEPT ![i] = n]
        /\ AppliedSoon' = [AppliedSoon EXCEPT ![i] = IF f <= l THEN Greater(AppliedSoon[i], l)
                                                     ELSE AppliedSoon[i]]
        /\ TakenSoon' = [TakenSoon EXCEPT ![i] = TakenSoon[i] \cup Taken(f, l, AppliedSoon[i])]
    BY Zenon, <1>1, <1>4, <1>5, OthersStep
  <1>. QED
    BY Zenon, <1>2, <1>6, SameOperators DEF Atomic!Deliver, Atomic!Update

(* applyNewCommand is applyAll when it gets rf.mu.                         *)
LEMMA applyNewCommandSeen ==
    ASSUME ApplyInv, NEW i \in Server, NEW x \in 1 .. MaxIndex, applyNewCommand(i, x)
    PROVE  Atomic!applyAll(i, x)
  <1>0. PICK f \in Nat, l \in Nat : f = FirstToApply(i) /\ l = Smaller(x, lastIndex[i])
    <2>1. FirstToApply(i) \in Nat /\ Smaller(x, lastIndex[i]) \in Nat
      BY ApplyAssumption DEF ApplyInv, TypeOK, FirstToApply, Greater, Smaller
    <2>. QED
      BY <2>1
  <1>1. /\ f \in Nat /\ l \in Nat /\ x \in Nat /\ 0 < f
    BY <1>0, ApplyAssumption DEF ApplyInv, TypeOK, FirstToApply, Greater
  <1>2. /\ Others(i) /\ ~Locked(i) /\ UNCHANGED <<logVars, installing, snapshotting, appliedTo, applier>>
        /\ x \in applying[i] /\ EndOne(applying, i, x)
    BY Zenon DEF ApplyInv, TypeOK, applyNewCommand, Others, Update, applyVars
  <1>3. \/ f <= l /\ Locked(i)' /\ sending'[i] = [next |-> f, last |-> l, newIndex |-> x]
        \/ f > l /\ ~Locked(i)' /\ lastApplied'[i] = x /\ commitIndex'[i] = x
    <2>1. CASE f > l
      <3>1. UNCHANGED sending /\ Update(lastApplied, i, x) /\ Update(commitIndex, i, x)
        BY Zenon, <1>0, <2>1 DEF applyNewCommand
      <3>. QED
        BY <1>2, <2>1, <3>1 DEF ApplyInv, TypeOK, Update, Locked
    <2>2. CASE ~(f > l)
      <3>1. Update(sending, i, [next |-> f, last |-> l, newIndex |-> x])
        BY Zenon, <1>0, <2>2 DEF applyNewCommand
      <3>2. sending'[i] = [next |-> f, last |-> l, newIndex |-> x]
        BY Zenon, <3>1 DEF ApplyInv, TypeOK, Update
      <3>3. sending'[i].next = f
        BY <3>2
      <3>. QED
        BY <1>1, <2>2, <3>2, <3>3 DEF Locked, NotSending
    <2>. QED
      BY <2>1, <2>2
  <1>4. f = Atomic!Greater(LastApplied[i], lastIncludedIndex[i]) + 1 /\ l = Atomic!Smaller(x, lastIndex[i])
    BY Zenon, <1>0, <1>2, SameOperators DEF FirstToApply, LastApplied
  <1>5. /\ LastApplied' = [LastApplied EXCEPT ![i] = x] /\ Committed' = [Committed EXCEPT ![i] = x]
        /\ Atomic!Deliver(i, f, l) /\ UNCHANGED InstalledSoon
    <2>1. ApplyInv'
      BY Zenon, applyNewCommandStep
    <2>. QED
      BY <1>1, <1>2, <1>3, <2>1, LoopSeen
  <1>. QED
    BY Zenon, <1>2, <1>4, <1>5
    DEF EndOne, Update, logVars, Atomic!applyAll, Atomic!EndOne, Atomic!Update, Atomic!logVars

(* leaderApply is leaderApplyAll when it finds a majority.                 *)
LEMMA leaderApplySeen ==
    ASSUME ApplyInv, NEW x \in 1 .. MaxIndex, leaderApply(x)
    PROVE  Atomic!leaderApplyAll(x)
  <1>0. PICK f \in Nat : f = lastApplied[Leader] + 1
    BY ApplyAssumption DEF ApplyInv, TypeOK
  <1>1. /\ Leader \in Server /\ f \in Nat /\ x \in Nat /\ 0 < f /\ f <= x /\ ~Locked(Leader)
        /\ commitIndex[Leader] = lastApplied[Leader]
    <2>1. /\ Leader \in Server /\ ~Locked(Leader) /\ commitIndex[Leader] = lastApplied[Leader]
          /\ lastApplied[Leader] \in Nat /\ lastIndex[Leader] \in Nat
          /\ x \in commitIndex[Leader] + 1 .. lastIndex[Leader]
      BY Zenon, ApplyAssumption DEF ApplyInv, TypeOK, LeaderInv, leaderApply
    <2>. QED
      BY <1>0, <2>1
  <1>2. /\ Others(Leader) /\ UNCHANGED <<logVars, applying, installing, snapshotting, appliedTo, applier>>
    BY DEF ApplyInv, TypeOK, leaderApply, Others, Update, workVars
  <1>3. sending'[Leader] = [next |-> f, last |-> x, newIndex |-> x] /\ Locked(Leader)'
    <2>1. sending'[Leader] = [next |-> f, last |-> x, newIndex |-> x]
      BY Zenon, <1>0, <1>1 DEF ApplyInv, TypeOK, leaderApply, Update
    <2>2. sending'[Leader].next = f
      BY <2>1
    <2>3. NotSending.next = 0 /\ f # 0
      BY <1>1 DEF NotSending
    <2>. QED
      BY Zenon, <2>1, <2>2, <2>3 DEF Locked
  <1>4. LastApplied[Leader] = lastApplied[Leader] /\ Committed[Leader] = commitIndex[Leader]
    BY Zenon, <1>1 DEF LastApplied, Committed
  <1>5. /\ LastApplied' = [LastApplied EXCEPT ![Leader] = x] /\ Committed' = [Committed EXCEPT ![Leader] = x]
        /\ Atomic!Deliver(Leader, f, x) /\ UNCHANGED InstalledSoon
    <2>1. ApplyInv'
      BY Zenon, <1>1, leaderApplyStep
    <2>. QED
      BY <1>1, <1>2, <1>3, <2>1, LoopSeen
  <1>. QED
    BY Zenon, <1>0, <1>2, <1>4, <1>5
    DEF leaderApply, logVars, Atomic!leaderApplyAll, Atomic!Update, Atomic!logVars

(* Delivering commands one by one under rf.mu, to an applier that takes    *)
(* them with other mutexes, is one step for the rest of Raft: ApplyCh      *)
(* implements Delivery.                                                    *)
THEOREM DeliveryIsAtomic == Spec => ImplementsDelivery
  <1>1. Init => Atomic!DeliveryInit
    <2>. SUFFICES ASSUME Init
                  PROVE  Atomic!DeliveryInit
      OBVIOUS
    <2>1. \A i \in Server :
             /\ sending[i] = NotSending /\ applier[i].pc = "reading" /\ installing[i] = {}
             /\ lastApplied[i] = 0 /\ commitIndex[i] = 0 /\ appliedTo[i] = 0 /\ snapshotting[i] = {}
      BY Zenon DEF Init, DeliveryInit, Reading
    <2>2. \A i \in Server : ~Locked(i) /\ InHand(i) = 0 /\ HandApplied(i) = 0
      <3>1. Greater(0, 0) = 0
        BY DEF Greater
      <3>. QED
        BY Zenon, <2>1, <3>1 DEF Locked, InHand, HandApplied
    <2>3. Taken(0, 0, 0) = {}
      BY TakenOne
    <2>4. \A i \in Server : /\ LastApplied[i] = 0 /\ Committed[i] = 0 /\ AppliedSoon[i] = 0
      BY Zenon, <2>1, <2>2 DEF LastApplied, Committed, AppliedSoon
    <2>5. \A i \in Server : InstalledSoon[i] = {} /\ TakenSoon[i] = {}
      <3>. SUFFICES ASSUME NEW i \in Server
                    PROVE  InstalledSoon[i] = {} /\ TakenSoon[i] = {}
        BY Zenon
      <3>1. InstalledSoon[i] = installing[i] \cup {}
        BY Zenon, <2>1 DEF InstalledSoon
      <3>2. TakenSoon[i] = snapshotting[i] \cup Taken(0, 0, 0) \cup {}
        BY Zenon, <2>1, <2>2 DEF TakenSoon
      <3>. QED
        BY <2>1, <2>3, <3>1, <3>2
    <2>6. /\ LastApplied = [i \in Server |-> LastApplied[i]] /\ Committed = [i \in Server |-> Committed[i]]
          /\ InstalledSoon = [i \in Server |-> InstalledSoon[i]]
          /\ AppliedSoon = [i \in Server |-> AppliedSoon[i]] /\ TakenSoon = [i \in Server |-> TakenSoon[i]]
      BY Zenon DEF LastApplied, Committed, InstalledSoon, AppliedSoon, TakenSoon
    <2>7. /\ LastApplied = [i \in Server |-> 0] /\ Committed = [i \in Server |-> 0]
          /\ AppliedSoon = [i \in Server |-> 0]
      BY <2>4, <2>6
    <2>8. InstalledSoon = [i \in Server |-> {}] /\ TakenSoon = [i \in Server |-> {}]
      BY <2>5, <2>6
    <2>. QED
      BY <2>7, <2>8 DEF Init, DeliveryInit, Atomic!DeliveryInit
  <1>2. ASSUME ApplyInv, [Next]_vars
        PROVE  [Atomic!DeliveryNext]_(Atomic!peerVars)
    <2>1. CASE UNCHANGED vars
      BY <2>1 DEF vars, peerVars, logVars, applyVars, workVars, chanVars, Atomic!peerVars, Atomic!logVars,
         Atomic!applyVars, Atomic!workVars, LastApplied, Committed, InstalledSoon, AppliedSoon, TakenSoon,
         HandApplied, InHand, Locked
    <2>2. ASSUME NEW i \in Server,
                 \/ CallStart(i) \/ Start(i)
                 \/ \E n, m \in 0 .. MaxIndex : HandleAppendEntries(i, n, m)
                 \/ \E x \in 1 .. MaxIndex :
                       \/ HandleInstallSnapshot(i, x)
                       \/ RunSnapshot(i, x)
                       \/ applyNewCommand(i, x)
                       \/ SendSnapshot(i, x)
                 \/ SendCommand(i)
                 \/ ApplyCommand(i) \/ IgnoreCommand(i)
                 \/ LockForSnapshot(i) \/ CondInstallSnapshot(i)
          PROVE  [Atomic!DeliveryNext]_(Atomic!peerVars)
      BY Zenon, <1>2, <2>2, CallStartUnseen, StartSeen, AppendEntriesSeen, InstallSnapshotSeen, SnapshotSeen,
         applyNewCommandSeen, SendSnapshotUnseen, SendCommandUnseen, ApplierUnseen, CondInstallSeen
      DEF Atomic!DeliveryNext
    <2>3. ASSUME NEW x \in 1 .. MaxIndex, leaderApply(x)
          PROVE  Atomic!DeliveryNext
      BY Zenon, <1>2, <2>3, leaderApplySeen DEF Atomic!DeliveryNext
    <2>. QED
      BY Zenon, <1>2, <2>1, <2>2, <2>3 DEF Next
  <1>. QED
    BY <1>1, <1>2, ApplyInvariant, PTL DEF Spec, ImplementsDelivery, Atomic!DeliverySpec
=============================================================================
