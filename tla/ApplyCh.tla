------------------------------- MODULE ApplyCh ------------------------------
(***************************************************************************)
(* The locks and channels between Raft and the service: rf.mu of each      *)
(* peer, its unbuffered applyCh, the applierSnap goroutine that reads it,  *)
(* and the tester's cfg.mu, which all appliers share.                      *)
(*                                                                         *)
(* Commands are sent on applyCh by a goroutine that holds rf.mu; snapshots *)
(* are sent by goroutines that do not.  Every section under rf.mu without  *)
(* a send in it is one step of a free mutex (see Delivery), and so is      *)
(* every section under cfg.mu that does not call into Raft.                *)
(***************************************************************************)
EXTENDS Delivery

CONSTANT Nobody   \* the owner of a free mutex

ASSUME ApplyAssumption ==
    /\ Leader \in Server /\ Nobody \notin Server
    /\ MaxIndex \in Nat /\ SnapShotInterval \in Nat \ {0}

VARIABLES
    sending,    \* the loop that holds rf.mu and is blocked sending on applyCh
    applier,    \* what applierSnap is doing, and with which message
    cfgmu,      \* the peer whose applier holds cfg.mu across a call into Raft
    starting    \* the peers on which a client is in Start, waiting for rf.mu

chanVars == <<sending, applier, cfgmu, starting>>
vars == <<peerVars, chanVars>>

NotSending == [next |-> 0, last |-> 0, newIndex |-> 0]
Reading == [pc |-> "reading", index |-> 0]

Init ==
    /\ DeliveryInit
    /\ sending = [i \in Server |-> NotSending]
    /\ applier = [i \in Server |-> Reading]
    /\ cfgmu = Nobody
    /\ starting = {}

(* rf.mu is held while a send is blocked, and free between two steps       *)
(* otherwise.                                                              *)
Locked(i) == sending[i] # NotSending

-----------------------------------------------------------------------------
CallStart(i) ==
    /\ i \notin starting
    /\ starting' = starting \cup {i}
    /\ UNCHANGED <<peerVars, sending, applier, cfgmu>>

(* Start gets rf.mu, appends if the peer leads, and returns.               *)
Start(i) ==
    /\ i \in starting /\ ~Locked(i)
    /\ starting' = starting \ {i}
    /\ IF i = Leader /\ lastIndex[i] < MaxIndex THEN Append ELSE UNCHANGED peerVars
    /\ UNCHANGED <<sending, applier, cfgmu>>

(* Faulty: rf.mu is not taken.                                             *)
AppendEntriesUnlocked(i, n, newIndex) ==
    /\ AppendEntries(i, n, newIndex)
    /\ UNCHANGED chanVars

(* The handlers and the goroutine of Snapshot wait for rf.mu.              *)
HandleAppendEntries(i, n, newIndex) ==
    /\ ~Locked(i)
    /\ AppendEntries(i, n, newIndex)
    /\ UNCHANGED chanVars

HandleInstallSnapshot(i, s) ==
    /\ ~Locked(i)
    /\ InstallSnapshot(i, s)
    /\ UNCHANGED chanVars

RunSnapshot(i, x) ==
    /\ ~Locked(i)
    /\ Snapshot(i, x)
    /\ x \notin snapshotting'[i]   \* another one for x would return at once
    /\ UNCHANGED chanVars

-----------------------------------------------------------------------------
(* Faulty: a lastApplied below the trimmed part of the log is kept.        *)
FirstToApplyKept(i) == lastApplied[i] + 1

FirstToApply(i) == Greater(lastApplied[i], lastIncludedIndex[i]) + 1

(* applyNewCommand gets rf.mu: with nothing to send it ends at once.       *)
applyNewCommand(i, n) ==
    LET last == Smaller(n, lastIndex[i]) IN
    /\ n \in applying[i] /\ ~Locked(i)
    /\ EndOne(applying, i, n)
    /\ IF FirstToApply(i) > last
       THEN Update(lastApplied, i, n) /\ Update(commitIndex, i, n) /\ UNCHANGED sending
       ELSE /\ Update(sending, i, [next |-> FirstToApply(i), last |-> last, newIndex |-> n])
            /\ UNCHANGED applyVars
    /\ UNCHANGED <<logVars, installing, snapshotting, appliedTo, applier, cfgmu, starting>>

(* leaderApply finds that entries up to n are on a majority.               *)
leaderApply(n) ==
    /\ ~Locked(Leader)
    /\ n \in commitIndex[Leader] + 1 .. lastIndex[Leader]
    /\ Update(commitIndex, Leader, n)
    /\ Update(sending, Leader, [next |-> lastApplied[Leader] + 1, last |-> n, newIndex |-> n])
    /\ UNCHANGED <<logVars, lastApplied, workVars, appliedTo, applier, cfgmu, starting>>

(* A command goes from the sending loop to the applier.  After the last    *)
(* one the loop sets lastApplied and commitIndex and rf.mu is released.    *)
SendCommand(i) ==
    LET s == sending[i] IN
    /\ Locked(i) /\ applier[i] = Reading
    /\ Update(applier, i, [pc |-> "command", index |-> s.next])
    /\ IF s.next < s.last
       THEN Update(sending, i, [s EXCEPT !.next = @ + 1]) /\ UNCHANGED applyVars
       ELSE /\ Update(sending, i, NotSending)
            /\ Update(lastApplied, i, s.newIndex) /\ Update(commitIndex, i, s.newIndex)
    /\ UNCHANGED <<logVars, workVars, appliedTo, cfgmu, starting>>

(* A snapshot goes from the goroutine of InstallSnapshot to the applier.   *)
SendSnapshot(i, s) ==
    /\ s \in installing[i] /\ applier[i] = Reading
    /\ Update(applier, i, [pc |-> "snapshot", index |-> s])
    /\ Update(installing, i, installing[i] \ {s})
    /\ UNCHANGED <<logVars, applyVars, applying, snapshotting, appliedTo, sending, cfgmu, starting>>

-----------------------------------------------------------------------------
(* Faulty: Snapshot waits for rf.mu itself, without a goroutine.           *)
ApplyCommandSync(i) ==
    LET x == applier[i].index IN
    /\ applier[i].pc = "command" /\ x > appliedTo[i]
    /\ cfgmu = Nobody
    /\ IsSnapshot(x) => ~Locked(i)
    /\ Update(appliedTo, i, x)
    /\ Update(snapshotting, i, snapshotting[i] \cup (IF IsSnapshot(x) THEN {x} ELSE {}))
    /\ Update(applier, i, Reading)
    /\ UNCHANGED <<logVars, applyVars, applying, installing, sending, cfgmu, starting>>

(* applierSnap: checkLogs under cfg.mu, then perhaps Snapshot, which only  *)
(* starts a goroutine; an old command is ignored.  (A gap between commands *)
(* would end the program; here it may go on.)                              *)
ApplyCommand(i) ==
    LET x == applier[i].index IN
    /\ applier[i].pc = "command" /\ x > appliedTo[i]
    /\ cfgmu = Nobody
    /\ Update(appliedTo, i, x)
    /\ Update(snapshotting, i, snapshotting[i] \cup (IF IsSnapshot(x) THEN {x} ELSE {}))
    /\ Update(applier, i, Reading)
    /\ UNCHANGED <<logVars, applyVars, applying, installing, sending, cfgmu, starting>>

IgnoreCommand(i) ==
    /\ applier[i].pc = "command" /\ applier[i].index <= appliedTo[i]
    /\ Update(applier, i, Reading)
    /\ UNCHANGED <<peerVars, sending, cfgmu, starting>>

(* For a snapshot it holds cfg.mu and waits for rf.mu ...                  *)
LockForSnapshot(i) ==
    /\ applier[i].pc = "snapshot" /\ cfgmu = Nobody
    /\ cfgmu' = i
    /\ Update(applier, i, [applier[i] EXCEPT !.pc = "installing"])
    /\ UNCHANGED <<peerVars, sending, starting>>

(* ... in CondInstallSnapshot.                                             *)
CondInstallSnapshot(i) ==
    /\ applier[i].pc = "installing" /\ ~Locked(i)
    /\ CondInstall(i, applier[i].index)
    /\ cfgmu' = Nobody
    /\ Update(applier, i, Reading)
    /\ UNCHANGED <<workVars, sending, starting>>

-----------------------------------------------------------------------------
Next ==
    \/ \E i \in Server :
          \/ CallStart(i) \/ Start(i)
          \/ \E n, m \in 0 .. MaxIndex : HandleAppendEntries(i, n, m)
          \/ \E x \in 1 .. MaxIndex :
                \/ HandleInstallSnapshot(i, x)
                \/ RunSnapshot(i, x)
                \/ applyNewCommand(i, x)
                \/ SendSnapshot(i, x)
          \/ SendCommand(i)
          \/ ApplyCommand(i) \/ IgnoreCommand(i)
          \/ LockForSnapshot(i) \/ CondInstallSnapshot(i)
    \/ \E n \in 1 .. MaxIndex : leaderApply(n)

Spec == Init /\ [][Next]_vars

(* Goroutines that can run do, and a mutex that is free again and again is *)
(* eventually handed to each goroutine that waits for it.                  *)
Fairness ==
    \A i \in Server :
        /\ WF_vars(SendCommand(i) \/ IgnoreCommand(i) \/ CondInstallSnapshot(i))
        /\ SF_vars(ApplyCommand(i) \/ LockForSnapshot(i))
        /\ SF_vars(Start(i))

FairSpec == Spec /\ Fairness

-----------------------------------------------------------------------------
(* A delivery reads only entries that the log still has, also after a late *)
(* applyNewCommand has moved lastApplied back below what Snapshot trimmed. *)
DeliversFromLog ==
    \A i \in Server : Locked(i) =>
        /\ lastIncludedIndex[i] < sending[i].next
        /\ sending[i].last <= lastIndex[i]

(* The applier waits for rf.mu in CondInstallSnapshot while the loop that  *)
(* holds rf.mu waits for the applier.                                      *)
Embrace(i) == applier[i].pc \in {"snapshot", "installing"} /\ Locked(i)

(* Start returns on every peer, unless some peer is in that embrace, whose *)
(* applier holds cfg.mu or is about to; nothing else blocks.               *)
StartReturns ==
    \A i \in Server : i \in starting ~> i \notin starting \/ \E j \in Server : Embrace(j)

(* "Start the agreement and return immediately", as the comment on Start   *)
(* has it, whatever the service does.                                      *)
StartAlwaysReturns == \A i \in Server : i \in starting ~> i \notin starting

(* What the service will have applied, and asked to snapshot, when the     *)
(* applier is done with the command in its hands and with those that the   *)
(* loop under rf.mu is sending.                                            *)
InHand(i) == IF applier[i].pc = "command" THEN applier[i].index ELSE 0
HandApplied(i) == Greater(appliedTo[i], InHand(i))

AppliedSoon == [i \in Server |-> IF Locked(i) THEN Greater(HandApplied(i), sending[i].last)
                                 ELSE HandApplied(i)]
TakenSoon == [i \in Server |->
    snapshotting[i] \cup Taken(InHand(i), InHand(i), appliedTo[i]) \cup
    (IF Locked(i) THEN Taken(sending[i].next, sending[i].last, HandApplied(i)) ELSE {})]
InstalledSoon == [i \in Server |->
    installing[i] \cup
    (IF applier[i].pc \in {"snapshot", "installing"} THEN {applier[i].index} ELSE {})]
LastApplied == [i \in Server |-> IF Locked(i) THEN sending[i].newIndex ELSE lastApplied[i]]
Committed == [i \in Server |-> IF Locked(i) THEN sending[i].newIndex ELSE commitIndex[i]]

Atomic == INSTANCE Delivery WITH
    lastApplied <- LastApplied, commitIndex <- Committed, installing <- InstalledSoon,
    appliedTo <- AppliedSoon, snapshotting <- TakenSoon

(* Delivery is atomic for everybody else, although the commands are sent   *)
(* one by one: no snapshot is installed between two of them and none of    *)
(* the fields under rf.mu changes, so that a section under rf.mu may be    *)
(* taken as one step.                                                      *)
ImplementsDelivery == Atomic!DeliverySpec
=============================================================================
