-------------------------- MODULE MCServerUpdate --------------------------
(* ServerUpdate with two servers that share a mod and two updates.         *)
EXTENDS ServerUpdate, TLC

CONSTANTS s1, s2, m1, m2, m3, j1, j2

TwoServers == {s1, s2}
TwoJobs == {j1, j2}
TwoMods == {m1, m2}
ThreeMods == {m1, m2, m3}

(* m1 is on both servers, the others on one. *)
SharedMod == (s1 :> {m1, m2}) @@ (s2 :> {m1})
OneLarge == (s1 :> {m1, m2, m3}) @@ (s2 :> {m1})

JobSymmetry == Permutations(TwoJobs)

NoneBroken == {}
SecondBroken == {s2}
NoFault == {}
AllFaults == {"steam", "spawn", "crash", "timeout", "exit"}
=============================================================================
