------------------------------- MODULE L1Cache -------------------------------
(***************************************************************************)
(* The in-memory cache (bw/cache/l1.py) behind Cache (bw/cache/cache.py),  *)
(* and the Broker (bw/events.py) that tells it of every event.             *)
(*                                                                         *)
(* Values are told apart by their size only.  The entries form the doubly  *)
(* linked list of the code: prev and next are the fields of the Entry      *)
(* objects, which exist for the keys of memory.                            *)
(***************************************************************************)
EXTENDS Integers, Sequences, FiniteSets, FiniteSetsExt

CONSTANTS
    Key,
    Value,
    Size,           \* per value and per key: _getsize of it
    Limit,          \* max_cache_size_bytes
    EventClass,
    Nil

ASSUME SizeAssumption == Size \in [Value \union Key -> Nat \ {0}]
ASSUME KeyAssumption == IsFiniteSet(Key)
ASSUME LimitAssumption == Limit \in Nat
ASSUME NilAssumption == Nil \notin Key \union EventClass

VARIABLES
    cache,      \* the L1Cache object
    reply       \* of the last call: what it raised, and what it returned

vars == <<cache, reply>>

Empty == [memory |-> << >>, event |-> << >>, size |-> 0,
          prev |-> [k \in Key |-> Nil], next |-> [k \in Key |-> Nil],
          oldest |-> Nil, newest |-> Nil]

Nothing == [call |-> "none", raised |-> "no", popped |-> <<>>, what |-> Nil]

Init == cache = Empty /\ reply = Nothing

-----------------------------------------------------------------------------
(* The list *)

RemoveEntry(c, k) ==
    LET p == c.prev[k]
        n == c.next[k]
    IN  [c EXCEPT !.prev = [x \in Key |-> IF x = k THEN Nil ELSE IF x = n THEN p ELSE c.prev[x]],
                  !.next = [x \in Key |-> IF x = k THEN Nil ELSE IF x = p THEN n ELSE c.next[x]],
                  !.oldest = IF @ = k THEN n ELSE @,
                  !.newest = IF @ = k THEN p ELSE @]

(* k, which is in no list, becomes the newest of one that is not empty.    *)
MakeNewest(c, k) ==
    [c EXCEPT !.prev[k] = c.newest, !.next[c.newest] = k, !.newest = k]

(* Faulty variant: the entry stays in entry_map. *)
ExpiredKeepsEntry(c, k) ==
    IF k \notin DOMAIN c.memory THEN c
    ELSE [RemoveEntry(c, k) EXCEPT
            !.memory = [x \in DOMAIN c.memory \ {k} |-> c.memory[x]],
            !.size = @ - Size[k]]

(* The size given back is that of the key, not of the value.               *)
Expired(c, k) ==
    IF k \notin DOMAIN c.memory THEN c
    ELSE [RemoveEntry(c, k) EXCEPT
            !.memory = [x \in DOMAIN c.memory \ {k} |-> c.memory[x]],
            !.event = [x \in DOMAIN c.memory \ {k} |-> c.event[x]],
            !.size = @ - Size[k]]

-----------------------------------------------------------------------------
(* insert *)

Logged(c, k, v, e) ==
    IF k \in DOMAIN c.memory
    THEN [RemoveEntry(c, k) EXCEPT !.memory[k] = v]
    ELSE [c EXCEPT
            !.memory = [x \in DOMAIN c.memory \union {k} |-> IF x = k THEN v ELSE c.memory[x]],
            !.event = [x \in DOMAIN c.memory \union {k} |-> IF x = k THEN e ELSE c.event[x]],
            !.size = @ + Size[v]]

Appended(c, k) ==
    IF c.oldest = Nil \/ c.newest = Nil
    THEN [c EXCEPT !.oldest = k, !.newest = k]
    ELSE MakeNewest(c, k)

(* The cache after n rounds of the eviction, and the values they popped.   *)
Rounds(c) ==
    LET after[n \in 0..Cardinality(Key)] ==
            IF n = 0 THEN [c |-> c, popped |-> <<>>]
            ELSE LET b == after[n - 1] IN
                 IF b.c.size <= Limit \/ b.c.oldest = Nil THEN b
                 ELSE [c |-> Expired(b.c, b.c.oldest),
                       popped |-> Append(b.popped, b.c.memory[b.c.oldest])]
    IN  after[Cardinality(Key)]

(* Faulty variant: a key that is there keeps its place in the list.        *)
InsertInPlace(k, v, e) ==
    LET done == Rounds(IF k \in DOMAIN cache.memory THEN [cache EXCEPT !.memory[k] = v]
                       ELSE Appended(Logged(cache, k, v, e), k))
    IN  /\ cache' = done.c
        /\ reply' = [Nothing EXCEPT !.call = "insert", !.popped = done.popped]

(* Too large a value is handed back.  The eviction that runs out of        *)
(* entries fails at oldest_entry.key.                                      *)
Insert(k, v, e) ==
    IF Size[v] > Limit
    THEN /\ reply' = [Nothing EXCEPT !.call = "insert", !.popped = <<v>>]
         /\ UNCHANGED cache
    ELSE LET done == Rounds(Appended(Logged(cache, k, v, e), k)) IN
         /\ cache' = done.c
         /\ reply' = [call |-> "insert", what |-> Nil,
                      raised |-> IF done.c.size > Limit THEN "AttributeError" ELSE "no",
                      popped |-> IF done.c.size > Limit THEN <<>> ELSE done.popped]

-----------------------------------------------------------------------------
(* get, expire, event, clear *)

(* A hit moves the entry to the end of the list.  When nothing else is in  *)
(* the list the assertion on newest_entry fails, the entry being out of    *)
(* the list already and in the maps still.                                 *)
Get(k) ==
    /\ LET removed == RemoveEntry(cache, k) IN
       \/ /\ k \notin DOMAIN cache.memory
          /\ reply' = [Nothing EXCEPT !.call = "get", !.what = k, !.raised = "L1CacheMiss"]
          /\ UNCHANGED cache
       \/ /\ k \in DOMAIN cache.memory /\ removed.newest = Nil
          /\ reply' = [Nothing EXCEPT !.call = "get", !.what = k, !.raised = "AssertionError"]
          /\ cache' = removed
       \/ /\ k \in DOMAIN cache.memory /\ removed.newest # Nil
          /\ reply' = [Nothing EXCEPT !.call = "get", !.what = k]
          /\ cache' = MakeNewest(removed, k)

Expire(k) ==
    /\ cache' = Expired(cache, k)
    /\ reply' = [Nothing EXCEPT !.call = "expire", !.what = k]

(* The entries whose expire_event equals what the caller passed.           *)
AfterEvent(e) == FoldSet(LAMBDA k, c : Expired(c, k), cache,
                         {k \in DOMAIN cache.memory : cache.event[k] = e})

Event(e) ==
    /\ cache' = AfterEvent(e)
    /\ reply' = [Nothing EXCEPT !.call = "event", !.what = e]

(* Broker.publish hands the event itself, not its class, to the cache,     *)
(* which subscribed to all events.                                         *)
Instance(e) == [class |-> e]

Publish(e) ==
    /\ cache' = AfterEvent(Instance(e))
    /\ reply' = [Nothing EXCEPT !.call = "publish", !.what = e]

Clear ==
    /\ cache' = Empty
    /\ reply' = [Nothing EXCEPT !.call = "clear"]

Next ==
    \/ \E k \in Key, v \in Value, e \in EventClass \union {Nil} : Insert(k, v, e)
    \/ \E k \in Key : Get(k) \/ Expire(k)
    \/ \E e \in EventClass : Event(e) \/ Publish(e)
    \/ Clear

Spec == Init /\ [][Next]_vars

-----------------------------------------------------------------------------
(* Properties *)

(* The keys from the oldest entry on, following next. *)
Order(c) ==
    LET after[n \in 0..Cardinality(Key)] ==
            IF n = 0 THEN IF c.oldest = Nil THEN <<>> ELSE <<c.oldest>>
            ELSE LET s == after[n - 1] IN
                 IF s = <<>> \/ c.next[s[Len(s)]] = Nil THEN s
                 ELSE Append(s, c.next[s[Len(s)]])
    IN  after[Cardinality(Key)]

(* The cache has the fields of the code. *)
TypeOK ==
    /\ cache.memory \in UNION {[K -> Value] : K \in SUBSET Key}
    /\ cache.event \in [DOMAIN cache.memory -> EventClass \union {Nil}]
    /\ cache.size \in Int
    /\ cache.prev \in [Key -> Key \union {Nil}] /\ cache.next \in [Key -> Key \union {Nil}]
    /\ {cache.oldest, cache.newest} \subseteq Key \union {Nil}
    /\ reply.raised \in {"no", "L1CacheMiss", "AssertionError", "AttributeError"}

(* Every cached key is in the list. *)
AllRanked == Range(Order(cache)) = DOMAIN cache.memory

(* What get asserts (l1.py:122): an entry that is hit never leaves the     *)
(* list without a newest entry.                                            *)
NewestIsThere == reply.raised # "AssertionError"

(* Whatever keys and values measure, the linked list is a cache that drops *)
(* what was used least recently and no more than it has to, by the size it *)
(* counts, and that forgets what is expired, and with an event what names  *)
(* it, and nothing else: as long as every entry is in the list.  Only a    *)
(* failing assertion takes an entry out of it.                             *)
Lru == INSTANCE LruCache WITH
    contents <- cache.memory, label <- cache.event, recency <- Order(cache),
    load <- cache.size, Label <- EventClass \union {Nil},
    Capacity <- Limit, Charge <- Size, Refund <- Size
ImplementsLru ==
    /\ Lru!Init
    /\ [][AllRanked /\ NewestIsThere' =>
            /\ AllRanked'
            /\ reply'.raised = "AttributeError" \/ UNCHANGED Lru!lruVars \/ Lru!Next]_vars
=============================================================================
