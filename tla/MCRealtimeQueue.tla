-------------------------- MODULE MCRealtimeQueue --------------------------
(* RealtimeQueue on small sets of events and connections. *)
EXTENDS RealtimeQueue, TLC

CONSTANTS e1, e2, c1, c2

TwoEvents == {e1, e2}
TwoClients == {c1, c2}
OneClient == {c1}

AnyFault == {"crash", "database", "upgrade"}
NoFault == {}
OnlyCrash == {"crash"}

(* Events and clients are interchangeable in the safety runs. *)
Symmetry == Permutations(TwoEvents) \union Permutations(TwoClients)
=============================================================================
