--------------------------- MODULE MCGameNights ---------------------------
(* GameNights with two versions of one mission's file, each of which may   *)
(* have been saved as another mission, on two servers, two uploads at a    *)
(* time and two testers.                                                   *)
EXTENDS GameNights, TLC

CONSTANTS av1, av2, a, b, altis, coop, s1, s2, j1, j2, t1, t2

Files == {av1, av2}
Names == {a, b}
Maps == {altis}
Tags == {coop}
OnAltis == [p \in Files |-> altis]
ReportedAsA == [p \in Files |-> <<a, altis>>]
Servers == {s1, s2}
Uploads == {j1, j2}
Testers == {t1, t2}

(* Reviews are explored without sessions and with one upload at a time.    *)
Explored ==
    library.results # {} =>
        /\ sessions = <<>>
        /\ Cardinality({j \in Upload : upload[j] # Nothing}) <= 1

Symmetry == Permutations(Servers) \union Permutations(Uploads)
               \union Permutations(Testers) \union Permutations(Files)
=============================================================================
