---------------------------- MODULE MCPorcupine -----------------------------
(* Checks of all the histories of a few operations.                        *)
EXTENDS Porcupine

CONSTANTS a, b

Get(v) == [Op |-> "get", Value |-> a, Output |-> v]
Put(v) == [Op |-> "put", Value |-> v, Output |-> <<>>]
Add(v) == [Op |-> "append", Value |-> v, Output |-> <<>>]

Operation(k, i, t) == [Key |-> k, Op |-> i.Op, Value |-> i.Value, Output |-> i.Output,
                       Call |-> t[1], Return |-> t[2]]

Spans(last, least) == {t \in (0 .. last) \X (0 .. last) : t[1] + least <= t[2]}

(* The order of the operations in the history only matters for ties, which *)
(* makeEntries breaks in every way: one order of each history will do.     *)
Rank(c, last) == (c[2][1] * (last + 1) + c[2][2]) * 10 + c[1]
Histories(n, keys, inputs, last, least) ==
    {[x \in 1 .. n |-> Operation(f[x][3], inputs[f[x][1]], f[x][2])] :
        f \in {g \in [1 .. n -> (DOMAIN inputs) \X Spans(last, least) \X keys] :
                 \A x \in 1 .. n - 1 : Rank(g[x], last) <= Rank(g[x + 1], last)}}

(* Two operations on two keys in all the ways to ask; three on one key.    *)
TwoKeys == Histories(2, {a, b}, <<Get(<<>>), Get(<<a>>), Put(a)>>, 1, 0)
OneKey  == Histories(3, {a}, <<Get(<<>>), Get(<<a, b>>), Put(a), Add(b)>>, 2, 0)

AllChecks ==
    UNION {{CheckOperations(h), CheckOperationsTimeout(h),
            CheckOperationsVerbose(h, FALSE), CheckOperationsVerbose(h, TRUE)} : h \in TwoKeys}
        \cup {CheckOperationsVerbose(h, FALSE) : h \in OneKey}
=============================================================================
