------------------------------ MODULE EventBus ------------------------------
(***************************************************************************)
(* What the realtime bus promises the clients of /api/v1/realtime/sse:     *)
(* accepted events are broadcast in one total order, every client reads    *)
(* that order without gaps, repetitions or swaps from the moment it joins, *)
(* and only a restart of the server may put an event that was broadcast    *)
(* back among those still to be broadcast.                                 *)
(*                                                                         *)
(* The specification says nothing of tables, ticks or coroutines.          *)
(* RealtimeQueue implements it.                                            *)
(***************************************************************************)
EXTENDS Integers, Sequences, FiniteSets, Functions

CONSTANTS
    Event,      \* the events that may be published
    Client      \* the connections to the event stream

VARIABLES
    accepted,   \* every event the bus has taken responsibility for
    pending,    \* accepted events still to be broadcast
    log,        \* the broadcast order since the server started
    members,    \* the clients connected now
    start,      \* per client: how much of log was broadcast before it joined
    got         \* per client: what it has been sent

busVars == <<accepted, pending, log, members, start, got>>

(* The sequences that list every element of S exactly once. *)
Orders(S) == Bijection(1..Cardinality(S), S)

BusInit ==
    /\ accepted = {}
    /\ pending = {}
    /\ log = <<>>
    /\ members = {}
    /\ start = [c \in Client |-> 0]
    /\ got = [c \in Client |-> <<>>]

Accept(e) ==
    /\ e \notin accepted
    /\ accepted' = accepted \union {e}
    /\ pending' = pending \union {e}
    /\ UNCHANGED <<log, members, start, got>>

(* A batch of pending events joins the log, in any order. *)
Broadcast ==
    \E batch \in SUBSET pending : \E order \in Orders(batch) :
        /\ pending' = pending \ batch
        /\ log' = log \o order
        /\ UNCHANGED <<accepted, members, start, got>>

Join(c) ==
    /\ c \notin members
    /\ got[c] = <<>>
    /\ members' = members \union {c}
    /\ start' = [start EXCEPT ![c] = Len(log)]
    /\ UNCHANGED <<accepted, pending, log, got>>

(* The next event of the log, and no other, reaches the client. *)
Receive(c) ==
    /\ c \in members
    /\ start[c] + Len(got[c]) < Len(log)
    /\ got' = [got EXCEPT ![c] = Append(@, log[start[c] + Len(@) + 1])]
    /\ UNCHANGED <<accepted, pending, log, members, start>>

Leave(c) ==
    /\ c \in members
    /\ members' = members \ {c}
    /\ UNCHANGED <<accepted, pending, log, start, got>>

(* The server stops: its connections end, and events of this log may have  *)
(* to be broadcast again.                                                  *)
Restart ==
    /\ \E again \in SUBSET Range(log) : pending' = pending \union again
    /\ log' = <<>>
    /\ members' = {}
    /\ UNCHANGED <<accepted, start, got>>

BusNext ==
    \/ \E e \in Event : Accept(e)
    \/ Broadcast
    \/ \E c \in Client : Join(c) \/ Receive(c) \/ Leave(c)
    \/ Restart

BusSpec == BusInit /\ [][BusNext]_busVars
=============================================================================
