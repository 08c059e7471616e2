----------------------------- MODULE KvHistory ------------------------------
(***************************************************************************)
(* Histories of a key/value store (models/kv.go) and what it means for one *)
(* to be linearizable: the reference that the checker of Porcupine is      *)
(* compared with.                                                          *)
(*                                                                         *)
(* A history is a function from operation ids to operations with the times *)
(* of their call and return.  A stored value is the sequence of the values *)
(* that were put or appended; it starts out empty.                         *)
(***************************************************************************)
EXTENDS Naturals, FiniteSets, Sequences

KvInit == <<>>

(* Step of KvModel: whether the operation can have its output in state st, *)
(* and the state it leaves.                                                *)
StepOk(st, op) == op.Op = "get" => op.Output = st

NewState(st, op) == CASE op.Op = "get"    -> st
                      [] op.Op = "put"    -> <<op.Value>>
                      [] op.Op = "append" -> Append(st, op.Value)

(* Partition of KvModel: the operations on each key that occurs.           *)
KeysOf(ops)   == {ops[x].Key : x \in DOMAIN ops}
OpsOf(ops, k) == {x \in DOMAIN ops : ops[x].Key = k}

-----------------------------------------------------------------------------
(* The sequences over S without repetition.                                *)
Orders(S) ==
    UNION {{s \in [1 .. n -> S] : \A a, b \in 1 .. n : s[a] = s[b] => a = b} :
              n \in 0 .. Cardinality(S)}

(* The operations in the order s have the outputs they should have.        *)
Legal(ops, s) ==
    LET store[n \in 0 .. Len(s)] ==
            IF n = 0 THEN [k \in KeysOf(ops) |-> KvInit]
            ELSE [store[n - 1] EXCEPT ![ops[s[n]].Key] = NewState(@, ops[s[n]])]
    IN \A n \in 1 .. Len(s) : StepOk(store[n - 1][ops[s[n]].Key], ops[s[n]])

(* Whatever has returned before an operation of s was called comes first.  *)
InTime(ops, S, s) ==
    \A n \in 1 .. Len(s) : \A x \in S :
        ops[x].Return < ops[s[n]].Call => \E m \in 1 .. n - 1 : s[m] = x

(* The ways to linearize some of the operations in S, and all of them.     *)
Partials(ops, S) == {s \in Orders(S) : InTime(ops, S, s) /\ Legal(ops, s)}

Linearizable(ops) == \E s \in Partials(ops, DOMAIN ops) : Len(s) = Cardinality(DOMAIN ops)
=============================================================================
