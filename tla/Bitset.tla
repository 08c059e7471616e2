------------------------------- MODULE Bitset -------------------------------
(***************************************************************************)
(* The bitsets of porcupine/bitset.go, with words of W bits instead of 64. *)
(* A bitset is a slice, so that assigning it shares its words and set and  *)
(* clear are seen by all who hold it: a store is the sequence of all the   *)
(* arrays of words, and a bitset is a position in it.                      *)
(***************************************************************************)
EXTENDS Naturals, FiniteSets, Bitwise, Functions, Sequences

CONSTANT W   \* bits in a word

ASSUME WordAssumption == W \in Nat \ {0}

newBitset(bits) ==
    LET chunks == bits \div W + IF bits % W # 0 THEN 1 ELSE 0
    IN [i \in 0 .. chunks - 1 |-> 0]

clone(store, at) == [store |-> Append(store, store[at]), at |-> Len(store) + 1]

major(pos) == pos \div W
minor(pos) == pos % W

Bit(w, i) == (w \div 2^i) % 2

set(b, pos)   == [b EXCEPT ![major(pos)] = @ + (1 - Bit(@, minor(pos))) * 2^minor(pos)]
clear(b, pos) == [b EXCEPT ![major(pos)] = @ - Bit(@, minor(pos)) * 2^minor(pos)]
get(b, pos)   == Bit(b[major(pos)], minor(pos)) # 0

OnesCount(w) == Cardinality({i \in 0 .. W - 1 : Bit(w, i) = 1})
popcnt(b) == FoldFunction(LAMBDA w, total : total + OnesCount(w), 0, b)
hash(b)   == FoldFunction(LAMBDA w, h : h ^^ w, popcnt(b), b)

(* set and clear on the bitset at a position of a store.                   *)
setAt(store, at, pos)   == [store EXCEPT ![at] = set(@, pos)]
clearAt(store, at, pos) == [store EXCEPT ![at] = clear(@, pos)]

equals(b, b2) == DOMAIN b = DOMAIN b2 /\ \A i \in DOMAIN b : b[i] = b2[i]
=============================================================================
