----------------------------- MODULE RpcPromise -----------------------------
(***************************************************************************)
(* What labrpc promises to its users: a server executes a request at most  *)
(* once; Call returns true only if it has; and a request may be executed   *)
(* after Call has given up on it and returned false.                       *)
(***************************************************************************)
EXTENDS Naturals

CONSTANTS Caller, Args, Place, Nil

VARIABLES
    asked,   \* the request of each caller's call, Nil outside of Call
    phase,   \* "asked", "executed" or "lost" while it is in Call
    ok,      \* what its last Call has returned
    stray    \* requests that were given up and may still be executed somewhere

rpcVars == <<asked, phase, ok, stray>>

RpcInit ==
    /\ asked = [c \in Caller |-> Nil]
    /\ phase = [c \in Caller |-> "none"]
    /\ ok = [c \in Caller |-> FALSE]
    /\ stray = {}

Ask(c, a) ==
    /\ phase[c] = "none"
    /\ asked' = [asked EXCEPT ![c] = a]
    /\ phase' = [phase EXCEPT ![c] = "asked"]
    /\ ok' = [ok EXCEPT ![c] = FALSE]
    /\ UNCHANGED <<stray>>

Execute(c) ==
    /\ phase[c] = "asked"
    /\ phase' = [phase EXCEPT ![c] = "executed"]
    /\ UNCHANGED <<asked, ok, stray>>

ExecuteStray(s) ==
    /\ s \in stray
    /\ stray' = stray \ {s}
    /\ UNCHANGED <<asked, phase, ok>>

(* The request or the reply is lost, or the request is left on its own.    *)
Lose(c) ==
    /\ phase[c] \in {"asked", "executed"}
    /\ phase' = [phase EXCEPT ![c] = "lost"]
    /\ \/ UNCHANGED stray
       \/ /\ phase[c] = "asked"
          /\ \E p \in Place : stray' = stray \cup {<<c, asked[c], p>>}
    /\ UNCHANGED <<asked, ok>>

Return(c, yes) ==
    /\ phase[c] \in (IF yes THEN {"executed"} ELSE {"asked", "lost"})
    /\ asked' = [asked EXCEPT ![c] = Nil]
    /\ phase' = [phase EXCEPT ![c] = "none"]
    /\ ok' = [ok EXCEPT ![c] = yes]
    /\ UNCHANGED <<stray>>

RpcNext ==
    \/ \E c \in Caller : \/ \E a \in Args : Ask(c, a)
                         \/ Execute(c)
                         \/ Lose(c)
                         \/ \E yes \in BOOLEAN : Return(c, yes)
    \/ \E s \in stray : ExecuteStray(s)

RpcSpec == RpcInit /\ [][RpcNext]_rpcVars
=============================================================================
