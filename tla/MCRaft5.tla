------------------------------- MODULE MCRaft5 ------------------------------
(* Raft with five peers.                                                   *)
EXTENDS MCRaft

CONSTANTS s4, s5

Five == {s1, s2, s3, s4, s5}

(* s1 reaches s3 only; s2 is elected by s4 and s5 and reaches s3 later.    *)
MinorityLinks == {<<s1, s3>>, <<s2, s3>>, <<s2, s4>>, <<s2, s5>>}
=============================================================================
