---------------------------- MODULE MCOperations ----------------------------
(* L1Cache, CronRunner and ModConfig, which share no state: every          *)
(* behaviour lets one of them move, so the states to explore add up.       *)
EXTENDS L1Cache, CronRunner, ModConfig, TLC

CONSTANTS
    Part,           \* the components that may move
    k1, k2, k3, v1, v2, upload,
    c1, c2, c3, c4,
    ma, mb, mc, dash, f0, f1, f2, p1, p2, l1, l2, s1, s2, title, j1, j2

VARIABLE part       \* the component that moves

(* Three keys, and values larger and smaller than theirs.  The count is    *)
(* followed until it is off by MaxDrift.                                   *)
Keys == {k1, k2, k3}
Values == {v1, v2}
Sizes == (k1 :> 1) @@ (k2 :> 1) @@ (k3 :> 2) @@ (v1 :> 1) @@ (v2 :> 2)
MaxDrift == 2

(* Three crons, some of whose minutes meet, and a file without a class.    *)
Crons == {c1, c2, c3, c4}
Classes == {c1, c2, c3}
Periods == (c1 :> 2) @@ (c2 :> 4) @@ (c3 :> 5) @@ (c4 :> 1)
Phases == (c1 :> 1) @@ (c2 :> 3) @@ (c3 :> 2) @@ (c4 :> 0)
NoFault == {}

(* ma and mb define one mod of the workshop, which moves to another place; *)
(* the key dash becomes the name of ma.  One file has an entry that is not *)
(* valid after one that is.                                                *)
ModNames == {ma, mb, mc}
ModKeys == ModNames \union {dash}
NamesOfKeys == [k \in ModKeys |-> IF k = dash THEN ma ELSE k]
Numbers == 1..2
Lines == {ma, mb, mc, title}
Titles == <<title, mc>>
Def(id, file, place) == [id |-> id, filename |-> file, place |-> place, manual |-> FALSE]
First == Def(1, f1, p1)
Second == Def(2, f2, p1)
Moved == Def(1, f1, p2)
Manual == [Second EXCEPT !.manual = TRUE]
Good(k, d) == [key |-> k, def |-> d, valid |-> TRUE]
Bad(k, d) == [key |-> k, def |-> d, valid |-> FALSE]
ModContents == {<<Good(ma, First)>>, <<Good(ma, First), Good(mc, Second)>>,
                <<Good(mb, First), Good(mc, Manual)>>, <<Good(ma, First), Good(mb, First)>>,
                <<Good(ma, Moved), Good(mc, Second)>>, <<Good(ma, First), Good(dash, Second)>>,
                <<Good(mc, Second), Bad(ma, First)>>}
Added == {Def(1, f0, p1)}
Directories == {l1 :> {ma}, (l1 :> {ma}) @@ (l2 :> {ma, mc}), (l1 :> {mb}) @@ (l2 :> {mc})}
ListsOfServers == (s1 :> l1) @@ (s2 :> l2)

OperationsInit ==
    /\ part \in Part
    /\ Init /\ CronInit /\ ConfigInit
    /\ part # "cron" => files = {}
    /\ part # "config" => modFile = <<Good(ma, First)>> /\ listFile = (l1 :> {ma})

OperationsNext ==
    /\ \/ part = "cache" /\ cache.size \in -MaxDrift..(Limit + MaxDrift) /\ Next /\ UNCHANGED <<cronVars, configVars>>
       \/ part = "cron" /\ CronNext /\ UNCHANGED <<vars, configVars>>
       \/ part = "config" /\ ConfigNext /\ UNCHANGED <<vars, cronVars>>
    /\ UNCHANGED part

OperationsSpec == OperationsInit /\ [][OperationsNext]_<<vars, cronVars, configVars, part>>
=============================================================================
