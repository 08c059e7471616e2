---------------------------- MODULE CtrlerClerk -----------------------------
(***************************************************************************)
(* The clerk of the shard controller (shardctrler/client.go).  Query,      *)
(* Join, Leave and Move differ in their arguments and run the same loop:   *)
(* every known server is tried in turn until one answers as leader, with a *)
(* pause after each round.                                                 *)
(***************************************************************************)
EXTENDS CtrlerConfig

CONSTANT Orders   \* the orders in which random_handles may return the servers

ASSUME OrderAssumption == \A s \in Orders : s \in Seq(Name) /\ Members(s) = Name

VARIABLES
    ck,        \* what each clerk does: its pc, the operation, the server it is at
    handles    \* each clerk's servers in the order given by random_handles

clerkVars == <<ck, handles>>

ClerkInit ==
    /\ ck = [c \in Clerk |-> [pc |-> "unmade", op |-> Nil, srv |-> 1]]
    /\ handles = [c \in Clerk |-> <<>>]

MakeClerk(c, to) ==
    /\ ck[c].pc = "unmade"
    /\ makeClient(c, to)
    /\ ck' = [ck EXCEPT ![c].pc = "idle"]
    /\ \E s \in Orders : handles' = [handles EXCEPT ![c] = s]

(* A test calls Query, Join, Leave or Move.                                *)
Invoke(c, op) ==
    /\ ck[c].pc = "idle"
    /\ ck' = [ck EXCEPT ![c] = [pc |-> "trying", op |-> op, srv |-> 1]]
    /\ UNCHANGED <<netVars, testerVars, handles>>

(* srv.Call in the inner loop.                                             *)
TryServer(c) ==
    /\ ck[c].pc = "trying"
    /\ Call(Client(c), handles[c][ck[c].srv], ck[c].op)
    /\ ck' = [ck EXCEPT ![c].pc = "calling"]
    /\ UNCHANGED <<testerVars, handles>>

(* Faulty: the last server of the list is never tried.                     *)
NextServerShort(c) ==
    IF ck[c].srv < Len(handles[c]) - 1 THEN [ck[c] EXCEPT !.pc = "trying", !.srv = @ + 1]
    ELSE [ck[c] EXCEPT !.pc = "asleep", !.srv = 1]

(* Faulty: the loop runs past the end of the list.                         *)
NextServerOver(c) ==
    IF ck[c].srv <= Len(handles[c]) THEN [ck[c] EXCEPT !.pc = "trying", !.srv = @ + 1]
    ELSE [ck[c] EXCEPT !.pc = "asleep", !.srv = 1]

(* The next server of the range loop, or the pause after the last one.     *)
NextServer(c) ==
    IF ck[c].srv < Len(handles[c]) THEN [ck[c] EXCEPT !.pc = "trying", !.srv = @ + 1]
    ELSE [ck[c] EXCEPT !.pc = "asleep", !.srv = 1]

(* Call has returned: ok && reply.WrongLeader == false ends the operation. *)
Answered(c) ==
    /\ ck[c].pc = "calling"
    /\ \/ /\ returnTrue(Client(c))
          /\ ck' = [ck EXCEPT ![c] = IF call[Client(c)].reply = "OK"
                                     THEN [pc |-> "idle", op |-> Nil, srv |-> 1]
                                     ELSE NextServer(c)]
       \/ /\ returnFalse(Client(c))
          /\ ck' = [ck EXCEPT ![c] = NextServer(c)]
    /\ UNCHANGED <<testerVars, handles>>

WakeUp(c) ==
    /\ ck[c].pc = "asleep"
    /\ ck' = [ck EXCEPT ![c].pc = "trying"]
    /\ UNCHANGED <<netVars, testerVars, handles>>

ClerkTypeOK ==
    /\ ck \in [Clerk -> [pc : {"unmade", "idle", "trying", "calling", "asleep"},
                         op : Args \cup {Nil}, srv : Nat \ {0}]]
    /\ handles \in [Clerk -> Seq(Name)]
    /\ \A c \in Clerk : ck[c].pc \in {"trying", "calling"} => ck[c].srv <= Len(handles[c])
=============================================================================
