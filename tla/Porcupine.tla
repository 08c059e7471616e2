----------------------------- MODULE Porcupine ------------------------------
(***************************************************************************)
(* The linearizability checker of porcupine/checker.go: checkOperations,   *)
(* which splits a history by key and sorts the calls and returns of each   *)
(* part; checkSingle, the backtracking search over the linked list of what *)
(* is still to be linearized; checkParallel, which runs one search per     *)
(* part and collects the results until a timeout.                          *)
(*                                                                         *)
(* Node x of the list of part p is entries[p][x], node 0 is headEntry, and *)
(* the nil at the end is End(p), whose prev nobody reads.  An iteration of *)
(* the search is one step: the goroutines share only kill and results.     *)
(***************************************************************************)
EXTENDS KvHistory, Bitset

CONSTANT Checks   \* the checks that may be asked for

VARIABLES
    ops,                   \* the history
    computeInfo, timeout,  \* whether CheckOperationsVerbose, and a timeout, are used
    entries,               \* per part: its calls and returns by time
    next, prev,            \* the linked list
    entry,                 \* the node the search looks at
    state, calls, cache,
    words,                 \* the bitsets of a search; the first is linearized
    longest,               \* per operation: a partial linearization, <<>> for nil
    done,                  \* what checkSingle has returned, "no" while it runs
    results,               \* parts whose result is in the channel
    count, ok, timedOut, kill,
    main                   \* checkParallel: "loop", "left", or its result

searchVars == <<next, prev, entry, state, words, calls, cache, longest, done>>
inputVars  == <<ops, computeInfo, timeout, entries>>
mainVars   == <<count, ok, timedOut, kill, main>>
vars == <<inputVars, searchVars, results, mainVars>>

Parts  == KeysOf(ops)
End(p) == Len(entries[p]) + 1

(* The functions that ask for a check of a history.                        *)
CheckOperations(h) == [history |-> h, verbose |-> FALSE, timeout |-> FALSE]
CheckOperationsTimeout(h) == [history |-> h, verbose |-> FALSE, timeout |-> TRUE]
CheckOperationsVerbose(h, t) == [history |-> h, verbose |-> TRUE, timeout |-> t]

-----------------------------------------------------------------------------
(* byTime and makeEntries: sorted by time, calls first.  sort.Sort may     *)
(* leave the rest in any order.                                            *)
Entries(h, p) == [id : OpsOf(h, p), kind : {"call", "return"}]
Time(h, e)    == IF e.kind = "call" THEN h[e.id].Call ELSE h[e.id].Return
Less(h, a, b) ==
    \/ Time(h, a) < Time(h, b)
    \/ Time(h, a) = Time(h, b) /\ a.kind = "call" /\ b.kind = "return"

makeEntries(h, p) ==
    LET sorts[S \in SUBSET Entries(h, p)] ==
            IF S = {} THEN {<<>>}
            ELSE UNION {{<<e>> \o s : s \in sorts[S \ {e}]} :
                           e \in {x \in S : \A y \in S : ~Less(h, y, x)}}
    IN sorts[Entries(h, p)]

(* checkOperations: the entries of every part.                             *)
checkOperations(h) ==
    LET sorted == [p \in KeysOf(h) |-> makeEntries(h, p)] IN
    {f \in [KeysOf(h) -> UNION {sorted[p] : p \in KeysOf(h)}] :
        \A p \in KeysOf(h) : f[p] \in sorted[p]}

(* makeLinkedEntries with headEntry in front.                              *)
NextNodes(es) == [x \in 0 .. Len(es) |-> x + 1]
PrevNodes(es) == [x \in 1 .. Len(es) + 1 |-> x - 1]

(* checkParallel has started a search for every part.                      *)
Init ==
    /\ \E c \in Checks : ops = c.history /\ computeInfo = c.verbose /\ timeout = c.timeout
    /\ entries \in checkOperations(ops)
    /\ next = [p \in Parts |-> NextNodes(entries[p])]
    /\ prev = [p \in Parts |-> PrevNodes(entries[p])]
    /\ entry = [p \in Parts |-> 1]
    /\ state = [p \in Parts |-> KvInit]
    /\ words = [p \in Parts |-> <<newBitset(Cardinality(OpsOf(ops, p)))>>]
    /\ calls = [p \in Parts |-> <<>>]
    /\ cache = [p \in Parts |-> {}]
    /\ longest = [p \in Parts |-> [x \in OpsOf(ops, p) |-> <<>>]]
    /\ done = [p \in Parts |-> "no"]
    /\ results = {}
    /\ count = 0 /\ ok = TRUE /\ timedOut = FALSE /\ kill = FALSE
    /\ main = "loop"

-----------------------------------------------------------------------------
Searching(p) == done[p] = "no" /\ next[p][0] # End(p)

IsCall(p) == entries[p][entry[p]].kind = "call"
Id(p, x)  == entries[p][x].id
Match(p, x) == CHOOSE y \in 1 .. Len(entries[p]) :
                   entries[p][y] = [id |-> Id(p, x), kind |-> "return"]

(* entry.id: the operations of a part are numbered in order.               *)
Number(p, x) == Cardinality({y \in OpsOf(ops, p) : y < x})

(* lift takes a call and then its return out of the list; unlift puts them *)
(* back in the opposite order.                                             *)
lift(p, x) ==
    LET m  == Match(p, x)
        n1 == [next[p] EXCEPT ![prev[p][x]] = next[p][x]]
        p1 == [prev[p] EXCEPT ![next[p][x]] = prev[p][x]]
    IN
    /\ next' = [next EXCEPT ![p] = [n1 EXCEPT ![p1[m]] = n1[m]]]
    /\ prev' = [prev EXCEPT ![p] = [p1 EXCEPT ![n1[m]] = p1[m]]]

(* Faulty: the return stays out of the list.                               *)
unliftCall(p, x) ==
    /\ next' = [next EXCEPT ![p] = [@ EXCEPT ![prev[p][x]] = x]]
    /\ prev' = [prev EXCEPT ![p] = [@ EXCEPT ![next[p][x]] = x]]

unlift(p, x) ==
    LET m == Match(p, x) IN
    /\ next' = [next EXCEPT ![p] = [@ EXCEPT ![prev[p][m]] = m, ![prev[p][x]] = x]]
    /\ prev' = [prev EXCEPT ![p] = [@ EXCEPT ![next[p][m]] = m, ![next[p][x]] = x]]

(* newLinearized := linearized.clone().set(entry.id)                       *)
linearized == 1
newLinearized(p) ==
    LET c == clone(words[p], linearized) IN
    [c EXCEPT !.store = setAt(@, c.at, Number(p, Id(p, entry[p])))]

newState(p) == NewState(state[p], ops[Id(p, entry[p])])

(* An equal bitset in the bucket of this hash, which is the one the entry  *)
(* had when it was added.                                                  *)
Found(old, new) ==
    /\ equals(new.store[new.at], new.store[old.linearized])
    /\ hash(new.store[new.at]) = hash(old.added)

(* Faulty: the same operations are enough, whatever state they lead to.    *)
cacheContainsAny(p, new) == \E old \in cache[p] : Found(old, new)

cacheContains(p, new) == \E old \in cache[p] : newState(p) = old.state /\ Found(old, new)

CanLinearize(p) ==
    /\ StepOk(state[p], ops[Id(p, entry[p])])
    /\ ~cacheContains(p, newLinearized(p))

Linearize(p) ==
    LET new == newLinearized(p) IN
    /\ Searching(p) /\ ~kill
    /\ IsCall(p) /\ CanLinearize(p)
    /\ cache' = [cache EXCEPT ![p] = @ \cup
           {[added |-> new.store[new.at], linearized |-> new.at, state |-> newState(p)]}]
    /\ calls' = [calls EXCEPT ![p] = Append(@, [entry |-> entry[p], state |-> state[p]])]
    /\ state' = [state EXCEPT ![p] = newState(p)]
    /\ words' = [words EXCEPT ![p] =
           setAt(new.store, linearized, Number(p, Id(p, entry[p])))]
    /\ lift(p, entry[p])
    /\ entry' = [entry EXCEPT ![p] = next'[p][0]]
    /\ UNCHANGED <<inputVars, longest, done, results, mainVars>>

Skip(p) ==
    /\ Searching(p) /\ ~kill
    /\ IsCall(p) /\ ~CanLinearize(p)
    /\ entry' = [entry EXCEPT ![p] = next[p][@]]
    /\ UNCHANGED <<inputVars, next, prev, state, words, calls, cache, longest, done,
                   results, mainVars>>

(* The operations linearized so far, in order.                             *)
Order(p) == [n \in 1 .. Len(calls[p]) |-> Id(p, calls[p][n].entry)]

(* Faulty: the first one found is kept.                                    *)
FirstOnly(p, x) == longest[p][x] = <<>>

Longer(p, x) == longest[p][x] = <<>> \/ Len(calls[p]) > Len(longest[p][x])

(* A return that comes before every call still to be tried: undo the last  *)
(* choice.                                                                 *)
Backtrack(p) ==
    LET top == calls[p][Len(calls[p])] IN
    /\ Searching(p) /\ ~kill
    /\ ~IsCall(p) /\ calls[p] # <<>>
    /\ longest' = [longest EXCEPT ![p] = [x \in DOMAIN @ |->
           IF computeInfo /\ x \in Range(Order(p)) /\ Longer(p, x) THEN Order(p) ELSE @[x]]]
    /\ state' = [state EXCEPT ![p] = top.state]
    /\ words' = [words EXCEPT ![p] = clearAt(@, linearized, Number(p, Id(p, top.entry)))]
    /\ calls' = [calls EXCEPT ![p] = SubSeq(@, 1, Len(@) - 1)]
    /\ unlift(p, top.entry)
    /\ entry' = [entry EXCEPT ![p] = next'[p][top.entry]]
    /\ UNCHANGED <<inputVars, cache, done, results, mainVars>>

(* checkSingle returns and its result goes into the channel.               *)
Ends(p, result) ==
    /\ done' = [done EXCEPT ![p] = result]
    /\ results' = results \cup {p}
    /\ UNCHANGED <<inputVars, next, prev, entry, state, words, calls, cache, mainVars>>

Fail(p) ==
    /\ Searching(p) /\ ~kill
    /\ ~IsCall(p) /\ calls[p] = <<>>
    /\ Ends(p, "false") /\ UNCHANGED longest

Killed(p) == Searching(p) /\ kill /\ Ends(p, "false") /\ UNCHANGED longest

Finish(p) ==
    /\ done[p] = "no" /\ next[p][0] = End(p)
    /\ longest' = [longest EXCEPT ![p] = [x \in DOMAIN @ |-> Order(p)]]
    /\ Ends(p, "true")

checkSingle(p) == Linearize(p) \/ Skip(p) \/ Backtrack(p) \/ Fail(p) \/ Killed(p) \/ Finish(p)

-----------------------------------------------------------------------------
(* Faulty: one result too many is waited for.                              *)
AllReceivedLate(n) == n > Cardinality(Parts)

AllReceived(n) == n >= Cardinality(Parts)

(* checkParallel takes a result from the channel and goes on or leaves its *)
(* loop; a timeout also makes it leave.                                    *)
Receive(p) ==
    /\ main = "loop" /\ p \in results
    /\ results' = results \ {p}
    /\ count' = count + 1
    /\ ok' = (ok /\ done[p] = "true")
    /\ IF ~ok' /\ ~computeInfo THEN main' = "left" /\ kill' = TRUE
       ELSE /\ main' = IF AllReceived(count') THEN "left" ELSE "loop"
            /\ UNCHANGED kill
    /\ UNCHANGED <<inputVars, searchVars, timedOut>>

TimeOut ==
    /\ main = "loop" /\ timeout
    /\ timedOut' = TRUE /\ kill' = TRUE /\ main' = "left"
    /\ UNCHANGED <<inputVars, searchVars, results, count, ok>>

(* Faulty: nobody waits for the searches.                                  *)
DoNotWait == FALSE

(* With computeInfo the results that are still to come are waited for.     *)
MustWait == computeInfo /\ count < Cardinality(Parts)

Drain(p) ==
    /\ main = "left" /\ MustWait
    /\ p \in results
    /\ results' = results \ {p}
    /\ count' = count + 1
    /\ UNCHANGED <<inputVars, searchVars, ok, timedOut, kill, main>>

CheckResult == IF ~ok THEN "Illegal" ELSE IF timedOut THEN "Unknown" ELSE "Ok"

Return ==
    /\ main = "left" /\ ~MustWait
    /\ main' = CheckResult
    /\ UNCHANGED <<inputVars, searchVars, results, count, ok, timedOut, kill>>

Work ==
    \/ \E p \in Parts : checkSingle(p) \/ Receive(p) \/ Drain(p)
    \/ Return

Next == Work \/ TimeOut

Spec == Init /\ [][Next]_vars

(* As long as a goroutine can run, some goroutine does.  The timer need    *)
(* not go off.                                                             *)
FairSpec == Spec /\ WF_vars(Work)

-----------------------------------------------------------------------------
(* The verdict of checkParallel is the truth about the whole history, over *)
(* all keys: no false alarm when searches are killed, no approval on a     *)
(* timeout.                                                                *)
VerdictRight ==
    /\ main = "Ok" => Linearizable(ops)
    /\ main = "Illegal" => ~Linearizable(ops)

(* After any number of lifts and unlifts the list holds the calls and      *)
(* returns of the operations that are not linearized, in their order, and  *)
(* the bits of linearized, over all its words, are what calls will undo.   *)
ListIsRest ==
    \A p \in Parts :
        LET lifted == Range(Order(p))
            rest   == {x \in 1 .. Len(entries[p]) : Id(p, x) \notin lifted}
        IN
        /\ lifted = {x \in OpsOf(ops, p) : get(words[p][linearized], Number(p, x))}
        /\ \A x \in rest \cup {0} : LET y == next[p][x] IN
              /\ y \in rest \cup {End(p)} /\ y > x
              /\ \A z \in rest : z > x => y <= z
              /\ y # End(p) => prev[p][y] = x

(* What CheckOperationsVerbose returns about a search that has failed: for *)
(* each operation a longest linearizable prefix that includes it, none     *)
(* when there is none; after a timeout still a linearizable prefix.        *)
LongestPrefix ==
    \A p \in Parts : computeInfo /\ main \notin {"loop", "left"} /\ done[p] = "false" =>
        LET partials == Partials(ops, OpsOf(ops, p)) IN
        \A x \in OpsOf(ops, p) :
            /\ longest[p][x] # <<>> => longest[p][x] \in partials
            /\ ~kill => \A s \in partials :
                  (\E n \in 1 .. Len(s) : s[n] = x) => Len(s) <= Len(longest[p][x])

(* When CheckOperationsVerbose returns, every search has handed in its     *)
(* longest and none writes to it later: "otherwise we might race on access *)
(* to longest[]".                                                          *)
InfoIsFinal ==
    [][computeInfo /\ main \notin {"loop", "left"} => UNCHANGED <<longest, done>>]_vars

(* The check of a history returns, with or without a timeout.              *)
CheckReturns == <>(main \in {"Ok", "Illegal", "Unknown"})
=============================================================================
