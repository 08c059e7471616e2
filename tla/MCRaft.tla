------------------------------- MODULE MCRaft -------------------------------
(* Values of the constants of Raft for model checking.                     *)
EXTENDS RaftInv, TLC

CONSTANTS s1, s2, s3, c1, c2

Three  == {s1, s2, s3}
Two    == {s1, s2}
None   == {}
Cmds   == {c1, c2}
OneCmd == {c1}
Voter  == {s3}

(* Who may time out as follower, and in which term: two rivals and a third *)
(* peer that only votes; s2 after s1, and then s1 again; s2 in term 1.     *)
Rivals    == {s1, s2} \X (0 .. MaxTerm - 1)
Twice     == {<<s1, 0>>, <<s2, 1>>}
Overtaken == Twice \cup {<<s1, 2>>}
Overtake  == {<<s2, 1>>}
Seesaw    == {<<s1, 2>>, <<s2, 3>>}

(* Which calls may get through.                                            *)
AllLinks     == Server \X Server
LeaderLink   == {<<s1, s2>>}
Downward     == {<<s1, s3>>, <<s2, s3>>, <<s2, s1>>}
ThroughVoter == {s1, s2} \X {s3}
Contest      == ThroughVoter \cup LeaderLink

FollowerSymmetry == Permutations({s2, s3}) \cup Permutations({c1, c2})
CommandSymmetry  == Permutations({c1, c2})
RivalSymmetry    == Permutations({s1, s2})

(* A quiet state in which l leads term t by the votes of voters, the       *)
(* others have voted for themselves in the term before, and peer i has     *)
(* entries[i] in its log.                                                  *)
LedBy(l, t, voters, entries) ==
    LET with(i) == i = l \/ i \in voters IN
    /\ Fresh
    /\ currentTerm = [i \in Server |-> t]
    /\ votedFor = [i \in Server |-> IF with(i) THEN l ELSE i]
    /\ votedTerm = [i \in Server |-> IF with(i) THEN t ELSE t - 1]
    /\ log = [i \in Server |-> <<FirstEntry>> \o entries[i]]
    /\ status = [i \in Server |-> IF i = l THEN "leader" ELSE "follower"]
    /\ ticker = [i \in Server |-> IF i = l THEN [Asleep EXCEPT !.term = t, !.count = voters]
                                   ELSE Asleep]
    /\ nextIndex = [i \in Server |-> [j \in Server |-> IF i = l THEN 1 ELSE 0]]
    /\ saved = [i \in Server |-> Image(i)]

LiveSpec == Spec /\ ElectionFairness /\ ReplicationFairness

(* s1 has been elected by everyone.                                        *)
Led     == LedBy(s1, 1, Peers(s1), [i \in Server |-> <<>>])
LedSpec == Led /\ [][Next]_vars
LedFairSpec == LedSpec /\ ReplicationFairness

(* s1 has led term 1 and s2 leads term 2 by the vote of s3; each has taken *)
(* a command that has not reached anybody else.  (What s1 keeps in its     *)
(* nextIndex is not read before it is elected again.)                      *)
Split == LedBy(s2, 2, {s3}, [i \in Server |-> CASE i = s1 -> <<[Term |-> 1, Command |-> c1]>>
                                               [] i = s2 -> <<[Term |-> 2, Command |-> c2]>>
                                               [] OTHER  -> <<>>])
SplitSpec == Split /\ [][Next]_vars
=============================================================================
