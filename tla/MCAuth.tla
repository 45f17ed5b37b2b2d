------------------------------- MODULE MCAuth -------------------------------
(* Accounts and AccessControl, which share no state: every behaviour lets  *)
(* one of them move, so the states to explore add up, and model values can *)
(* serve both.                                                             *)
EXTENDS Accounts, AccessControl, TLC

CONSTANTS u1, u2, p1, p2, g1, g2, c1

VARIABLE part       \* the component that moves

(* Two users, who are the two Discord accounts of Accounts, and two names  *)
(* of each kind; two logins wait at a time.                                *)
Users == {u1, u2}
Groups == {g1, g2}
TwoLogins == Groups
ShortHuman == ("human" :> 0) @@ ("api" :> 1)
AdminOrNot == {{}, {"can_create_role", "can_create_group"}}
UploadOrTest == {{"can_upload_mission"}, {"can_test_mission"}}

AuthInit == part \in {"accounts", "access"} /\ Init /\ AccessInit

AuthNext ==
    /\ \/ part = "accounts" /\ Next /\ UNCHANGED accessVars
       \/ part = "access" /\ AccessNext /\ UNCHANGED vars
    /\ UNCHANGED part

AuthSpec == AuthInit /\ [][AuthNext]_<<vars, accessVars, part>>

Symmetry == Permutations(Users) \union Permutations({p1, p2}) \union Permutations(Groups)
=============================================================================
