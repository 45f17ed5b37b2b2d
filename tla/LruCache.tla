------------------------------ MODULE LruCache ------------------------------
(***************************************************************************)
(* What a bounded cache promises: it keeps what it is given until it is    *)
(* told to forget it or has to make room, and it makes room by dropping    *)
(* what was used least recently, no more than it has to.                   *)
(*                                                                         *)
(* A new entry is charged for its value, and refunded for its key when it  *)
(* leaves; an entry that is given again keeps its charge and its label.    *)
(***************************************************************************)
EXTENDS Integers, Sequences, FiniteSets, SequencesExt

CONSTANTS
    Key, Value, Label,
    Capacity,
    Charge,     \* per value
    Refund      \* per key

VARIABLES
    contents,   \* the cached values, a function on the keys that are cached
    label,      \* per cached key: the label it lapses with
    recency,    \* the cached keys, the one used least recently first
    load        \* charged and not refunded yet

lruVars == <<contents, label, recency, load>>

(* s without the keys in K, in the same order. *)
InOrderOf(s, x, y) == \E i, j \in DOMAIN s : i < j /\ s[i] = x /\ s[j] = y
Without(s, K) ==
    CHOOSE r \in SetToSeqs(ToSet(s) \ K) :
        \A i, j \in DOMAIN r : i < j => InOrderOf(s, r[i], r[j])

Used(k) == Append(Without(recency, {k}), k)
Oldest(r, n) == {r[i] : i \in 1..n}
Refunds(K) == FoldSet(LAMBDA k, n : n + Refund[k], 0, K)

Init == contents = << >> /\ label = << >> /\ recency = <<>> /\ load = 0

(* Of the keys with k as the one used last, the n oldest have to go.       *)
Put(k, v, e) ==
    LET new == k \notin DOMAIN contents
        r == Used(k)
        Left(n) == load + (IF new THEN Charge[v] ELSE 0) - Refunds(Oldest(r, n))
    IN  \E n \in 0..Len(r) :
        LET kept == (DOMAIN contents \union {k}) \ Oldest(r, n) IN
        /\ Left(n) <= Capacity /\ \A i \in 0..(n - 1) : Left(i) > Capacity
        /\ contents' = [x \in kept |-> IF x = k THEN v ELSE contents[x]]
        /\ label' = [x \in kept |-> IF x = k /\ new THEN e ELSE label[x]]
        /\ recency' = Without(r, Oldest(r, n))
        /\ load' = Left(n)

Touch(k) ==
    /\ k \in DOMAIN contents
    /\ recency' = Used(k)
    /\ UNCHANGED <<contents, label, load>>

Forget(K) ==
    /\ contents' = [x \in DOMAIN contents \ K |-> contents[x]]
    /\ label' = [x \in DOMAIN contents \ K |-> label[x]]
    /\ recency' = Without(recency, K)
    /\ load' = load - Refunds(K)

Expire(k) == k \in DOMAIN contents /\ Forget({k})

Lapse(e) == Forget({k \in DOMAIN contents : label[k] = e})

Clear == contents' = << >> /\ label' = << >> /\ recency' = <<>> /\ load' = 0

Next ==
    \/ \E k \in Key, v \in Value, e \in Label : Put(k, v, e)
    \/ \E k \in Key : Touch(k) \/ Expire(k)
    \/ \E e \in Label : Lapse(e)
    \/ Clear

Spec == Init /\ [][Next]_lruVars
=============================================================================
