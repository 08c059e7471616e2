----------------------------- MODULE MCCtrler -------------------------------
(* Values of the constants of CtrlerService for model checking.            *)
EXTENDS CtrlerService

CONSTANTS n1, n2, c1, join

Two == {n1, n2}
OneClerk == {c1}
Instances == 1 .. MaxInstance
Callers == (Name \X Instances) \cup (Clerk \X {0})
Requests == {join}
InOrder == <<n1, n2>>
OneOrder == {InOrder}
First == {n1}
Split == {<<<<n1>>, <<n2>>>>}
=============================================================================
