------------------------ MODULE ProcessManagerProofs ------------------------
(***************************************************************************)
(* Theorems about ProcessManager for every set of pids, any number of      *)
(* headless clients, any requests and any faults.                          *)
(***************************************************************************)
EXTENDS ProcessManager, FiniteSetTheorems, TLAPS

-----------------------------------------------------------------------------
(* The inductive invariant *)

Handled == Len(procs) - Len(todo)
Surplus == {procs[i] : i \in DOMAIN procs}

(* What the loops over rows rely on: todo is the rest of procs, the rows   *)
(* before it are handled, and what is not in procs is not more than is     *)
(* configured.                                                             *)
PruningInv ==
    stage \in {"pruning", "delete"} =>
        /\ procs \in Seq(Name) /\ todo \in Seq(Name)
        /\ Len(todo) <= Len(procs)
        /\ \A k \in DOMAIN todo : todo[k] = procs[Handled + k]
        /\ Cardinality(Family \ Surplus) <= count + 1

KilledInv ==
    stage = "pruning" =>
        /\ \A i \in DOMAIN procs : procs[i] \in DOMAIN rows
        /\ \A i \in 1..Handled : rows[procs[i]].pid = NoPid

DeletedInv ==
    stage = "delete" =>
        /\ \A i \in 1..Handled : procs[i] \notin DOMAIN rows
        /\ \A i \in DOMAIN procs : procs[i] \in DOMAIN rows => rows[procs[i]].pid = NoPid

(* The clients there are and those still to be made are the configured ones.*)
CountInv ==
    /\ stage = "fetch" /\ Main \in DOMAIN rows => Cardinality(Family) <= count + 1
    /\ stage = "create" => /\ procs \in Seq(Name) /\ todo \in Seq(Name)
                           /\ Len(procs) + Len(todo) = count + 1
    /\ LaunchMatchesConfig

ManagerInv ==
    /\ DOMAIN rows \subseteq Name
    /\ count \in 0..MaxClients
    /\ plan \in Seq({"start", "stop", "status"})
    /\ (request = "none") <=> (plan = <<>>)
    /\ request = "none" => stage = "prune"
    /\ stage = "launch" => Head(plan) = "start"
    /\ PruningInv /\ KilledInv /\ DeletedInv /\ CountInv

-----------------------------------------------------------------------------
(* Counting *)

LEMMA FamilyFinite ==
    ASSUME DOMAIN rows \subseteq Name
    PROVE  IsFiniteSet(Family) /\ Cardinality(Family) \in Nat
<1>1. IsFiniteSet(Name)
  BY FS_Interval, ClientsAssumption DEF Name
<1>2. Family \subseteq Name
  BY DEF Family
<1> QED
  BY <1>1, <1>2, FS_Subset, FS_CardinalityType

(* A listing of a finite set without repetitions misses no element. *)
LEMMA ListingIsComplete ==
    ASSUME NEW S, IsFiniteSet(S), NEW f \in SetToSeqs(S)
    PROVE  /\ Cardinality(S) \in Nat
           /\ f \in [1..Cardinality(S) -> S]
           /\ \A x \in S : \E i \in 1..Cardinality(S) : f[i] = x
<1> DEFINE n == Cardinality(S)
<1>1. /\ n \in Nat /\ f \in [1..n -> S]
      /\ \A i, j \in 1..n : i # j => f[i] # f[j]
  BY FS_CardinalityType DEF SetToSeqs
<1>2. ASSUME NEW x \in S, \A i \in 1..n : f[i] # x PROVE FALSE
  <2>1. /\ IsFiniteSet(S \ {x}) /\ Cardinality(S \ {x}) = n - 1
    BY FS_RemoveElement
  <2>2. IsFiniteSet(1..n) /\ Cardinality(1..n) = n
    BY <1>1, FS_Interval
  <2>3. f \in [1..n -> S \ {x}]
    BY <1>1, <1>2
  <2>4. \E i, j \in 1..n : i # j /\ f[i] = f[j]
    BY <1>1, <2>1, <2>2, <2>3, FS_PigeonHole
  <2> QED
    BY <1>1, <2>4
<1> QED
  BY <1>1, <1>2

(* The first k elements of a listing are at most k. *)
LEMMA FirstAreFew ==
    ASSUME NEW f, NEW k \in Nat, NEW T, \A x \in T : \E i \in 1..k : f[i] = x
    PROVE  IsFiniteSet(T) /\ Cardinality(T) <= k
<1> DEFINE G == {f[i] : i \in 1..k}
           g == [i \in 1..k |-> f[i]]
<1>1. g \in Surjection(1..k, G)
  BY DEF Surjection
<1>2. IsFiniteSet(1..k) /\ Cardinality(1..k) = k
  BY FS_Interval
<1>3. IsFiniteSet(G) /\ Cardinality(G) <= k
  BY <1>1, <1>2, FS_Surjection
<1> QED
  BY <1>3, FS_Subset, FS_CardinalityType

-----------------------------------------------------------------------------
(* Steps *)

(* A request that ended, whatever it left in the table. *)
LEMMA Ended ==
    ASSUME stage' = "prune", DOMAIN rows' \subseteq Name, count' \in 0..MaxClients,
           plan' \in Seq({"start", "stop", "status"}), (request' = "none") <=> (plan' = <<>>)
    PROVE  ManagerInv'
  BY DEF ManagerInv, PruningInv, KilledInv, DeletedInv, CountInv, LaunchMatchesConfig

(* What touches neither the rows nor where the request is. *)
LEMMA Untouched ==
    ASSUME ManagerInv, UNCHANGED <<rows, count, request, plan, stage, procs, todo>>
    PROVE  ManagerInv'
  BY DEF ManagerInv, PruningInv, KilledInv, DeletedInv, CountInv, LaunchMatchesConfig,
         Handled, Surplus, Family

LEMMA RestOfSequence ==
    ASSUME NEW S, NEW s \in Seq(S), NEW k \in Nat, k < Len(s)
    PROVE  /\ SubSeq(s, k + 1, Len(s)) \in Seq(S)
           /\ Len(SubSeq(s, k + 1, Len(s))) = Len(s) - k
           /\ \A i \in 1..(Len(s) - k) : SubSeq(s, k + 1, Len(s))[i] = s[k + i]
<1>1. Len(s) \in Nat
  OBVIOUS
<1> QED
  BY <1>1

LEMMA SelectStep ==
    ASSUME ManagerInv, PruneSelect
    PROVE  ManagerInv'
<1>1. CASE stage' = "fetch" /\ UNCHANGED <<rows, count, procs, todo>>
  <2>1. Main \in DOMAIN rows => Cardinality(Family) <= count + 1
    <3>1. SUFFICES ASSUME Main \in DOMAIN rows PROVE Cardinality(Family) <= count + 1
      OBVIOUS
    <3>2. PICK order \in Fetched : Len(Tail(order)) <= count
      BY <1>1, <3>1 DEF PruneSelect, Goto
    <3>3. order \in SetToSeqs(Family) /\ IsFiniteSet(Family) /\ Main \in Family
      BY <3>1, <3>2, FamilyFinite DEF Fetched, Family, ManagerInv
    <3>4. Cardinality(Family) \in Nat /\ order \in [1..Cardinality(Family) -> Family]
      BY <3>3, ListingIsComplete
    <3>5. order \in Seq(Family) /\ Len(order) = Cardinality(Family) /\ order # <<>>
      BY <3>3, <3>4, ListingIsComplete
    <3> QED
      BY <3>2, <3>5, ClientsAssumption DEF ManagerInv
  <2>2. Family' = Family
    BY <1>1 DEF Family
  <2> QED
    BY <1>1, <2>1, <2>2 DEF PruneSelect, Goto, ManagerInv, PruningInv, KilledInv, DeletedInv,
       CountInv, LaunchMatchesConfig
<1>2. CASE stage' # "fetch"
  <2>1. PICK order \in Fetched :
           /\ Len(Tail(order)) > count
           /\ procs' = SubSeq(Tail(order), count + 1, Len(Tail(order)))
           /\ todo' = procs' /\ stage' = "pruning"
           /\ UNCHANGED <<rows, count, request, plan>>
    BY <1>2, ClientsAssumption DEF PruneSelect, Goto, ManagerInv
  <2> DEFINE n == Cardinality(Family)
  <2>2. IsFiniteSet(Family) /\ order \in SetToSeqs(Family)
    BY <2>1, FamilyFinite DEF Fetched, ManagerInv
  <2>3. n \in Nat /\ order \in [1..n -> Family]
        /\ \A x \in Family : \E i \in 1..n : order[i] = x
    BY <2>2, ListingIsComplete
  <2> HIDE DEF n
  <2>4. order \in Seq(Family) /\ Len(order) = n /\ DOMAIN order = 1..n
    BY <2>3
  <2>5. Main \in Family
    BY <1>2, <2>1 DEF PruneSelect, Goto, Family
  <2>6. order # <<>> /\ n > 0
    BY <2>3, <2>4, <2>5
  <2>7. /\ Tail(order) \in Seq(Family) /\ Len(Tail(order)) = n - 1
        /\ \A i \in 1..(n - 1) : Tail(order)[i] = order[i + 1]
    BY <2>4, <2>6
  <2>8. count \in Nat /\ count < n - 1
    BY <2>1, <2>7, ClientsAssumption DEF ManagerInv
  <2>9. /\ procs' \in Seq(Family) /\ Len(procs') = n - 1 - count
        /\ \A i \in 1..(n - 1 - count) : procs'[i] = order[count + 1 + i]
    <3> DEFINE rest == Tail(order)
    <3>1. rest \in Seq(Family) /\ Len(rest) = n - 1 /\ count \in Nat /\ count < Len(rest)
      BY <2>7, <2>8
    <3> HIDE DEF rest
    <3>2. /\ SubSeq(rest, count + 1, Len(rest)) \in Seq(Family)
          /\ Len(SubSeq(rest, count + 1, Len(rest))) = Len(rest) - count
          /\ \A i \in 1..(Len(rest) - count) :
                SubSeq(rest, count + 1, Len(rest))[i] = rest[count + i]
      BY <3>1, RestOfSequence
    <3>3. procs' = SubSeq(rest, count + 1, Len(rest))
      BY <2>1 DEF rest
    <3>4. procs' \in Seq(Family) /\ Len(procs') = n - 1 - count
      BY <2>3, <3>1, <3>2, <3>3
    <3>5. ASSUME NEW i \in 1..(n - 1 - count) PROVE procs'[i] = order[count + 1 + i]
      <4>1. procs'[i] = rest[count + i]
        BY <2>3, <3>1, <3>2, <3>3
      <4>2. count + i \in 1..(n - 1)
        BY <2>3, <2>8
      <4>3. rest[count + i] = order[count + i + 1]
        BY <2>7, <4>2 DEF rest
      <4>4. count + i + 1 = count + 1 + i
        BY <2>8
      <4> QED
        BY <4>1, <4>3, <4>4
    <3> QED
      BY <3>4, <3>5
  <2>10. DOMAIN procs' = 1..(n - 1 - count)
    BY <2>3, <2>8, <2>9
  <2>11. \A x \in (Family \ Surplus)' : \E i \in 1..(count + 1) : order[i] = x
    <3>1. SUFFICES ASSUME NEW x \in Family, x \notin Surplus'
                   PROVE  \E i \in 1..(count + 1) : order[i] = x
      BY <2>1 DEF Family
    <3>2. PICK i \in 1..n : order[i] = x
      BY <2>3
    <3>3. ASSUME i > count + 1 PROVE FALSE
      <4>1. i - count - 1 \in 1..(n - 1 - count)
        BY <2>3, <2>8, <3>2, <3>3
      <4>2. procs'[i - count - 1] = x
        BY <2>8, <2>9, <3>2, <4>1
      <4> QED
        BY <2>10, <3>1, <4>1, <4>2 DEF Surplus
    <3> QED
      BY <2>3, <2>8, <3>2, <3>3
  <2>12. Cardinality((Family \ Surplus)') <= count + 1
    <3> DEFINE T == (Family \ Surplus)'
               k == count + 1
    <3>1. k \in Nat /\ k <= n /\ \A x \in T : \E i \in 1..k : order[i] = x
      BY <2>3, <2>8, <2>11
    <3> HIDE DEF T, k
    <3>2. Cardinality(T) <= k
      <4> HIDE DEF Family
      <4> QED
        BY <2>3, <3>1, FirstAreFew
    <3> QED
      BY <3>2 DEF T, k
  <2>13. Family \subseteq Name /\ Family \subseteq DOMAIN rows
    BY DEF Family, ManagerInv
  <2>14. procs' \in Seq(Name) /\ \A i \in DOMAIN procs' : procs'[i] \in DOMAIN rows
    BY <2>9, <2>10, <2>13
  <2>15. Handled' = 0 /\ todo' = procs' /\ Len(procs') \in Nat
    BY <2>1, <2>9 DEF Handled
  <2>16. PruningInv' /\ KilledInv'
    <3>1. \A i \in 1..Handled' : FALSE
      BY <2>15
    <3>2. \A k \in DOMAIN procs' : procs'[k] = procs'[Handled' + k]
      BY <2>3, <2>8, <2>10, <2>15
    <3> QED
      <4>1. stage' = "pruning" /\ count' = count /\ rows' = rows
        BY <2>1
      <4>2. \A k \in DOMAIN todo' : todo'[k] = procs'[Handled' + k]
        BY <2>15, <3>2
      <4>3. todo' \in Seq(Name) /\ Len(todo') <= Len(procs')
        BY <2>14, <2>15
      <4>4. PruningInv'
        BY <2>12, <2>14, <4>1, <4>2, <4>3 DEF PruningInv
      <4>5. KilledInv'
        BY <2>14, <3>1, <4>1 DEF KilledInv
      <4> QED
        BY <4>4, <4>5
  <2> QED
    BY <2>1, <2>16, <1>2 DEF PruneSelect, ManagerInv, DeletedInv, CountInv, LaunchMatchesConfig
<1> QED
  BY <1>1, <1>2 DEF PruneSelect, Goto

LEMMA Raised ==
    ASSUME ManagerInv, Raise, UNCHANGED count, DOMAIN rows' \subseteq Name
    PROVE  ManagerInv'
  BY Ended DEF Raise, ManagerInv

(* One row of the loop is handled: todo and procs keep fitting together.   *)
LEMMA NextOfLoop ==
    ASSUME procs \in Seq(Name), todo \in Seq(Name), todo # <<>>, Len(todo) <= Len(procs),
           \A k \in DOMAIN todo : todo[k] = procs[Handled + k],
           todo' = Tail(todo), procs' = procs
    PROVE  /\ todo' \in Seq(Name) /\ Len(todo') <= Len(procs')
           /\ \A k \in DOMAIN todo' : todo'[k] = procs'[Handled' + k]
           /\ Handled \in Nat /\ Handled' = Handled + 1 /\ Handled + 1 <= Len(procs)
           /\ Head(todo) = procs[Handled + 1] /\ DOMAIN procs = 1..Len(procs)
<1>1. /\ Len(todo) \in Nat /\ Len(procs) \in Nat /\ Len(todo) > 0
      /\ Handled \in Nat /\ Handled + 1 <= Len(procs)
  BY DEF Handled
<1>2. /\ todo' \in Seq(Name) /\ Len(todo') = Len(todo) - 1
      /\ \A k \in 1..(Len(todo) - 1) : todo'[k] = todo[k + 1]
  OBVIOUS
<1>3. Handled' = Handled + 1
  BY <1>1, <1>2 DEF Handled
<1>4. ASSUME NEW k \in DOMAIN todo' PROVE todo'[k] = procs'[Handled' + k]
  <2>1. k \in 1..(Len(todo) - 1) /\ k + 1 \in DOMAIN todo
    BY <1>1, <1>2
  <2>2. todo'[k] = procs[Handled + (k + 1)]
    BY <1>2, <2>1
  <2>3. Handled' + k = Handled + (k + 1)
    BY <1>1, <1>3, <2>1
  <2> QED
    BY <2>2, <2>3
<1>5. Head(todo) = procs[Handled + 1] /\ DOMAIN procs = 1..Len(procs)
  BY <1>1
<1> QED
  BY <1>1, <1>2, <1>3, <1>4, <1>5

LEMMA KillOneStep ==
    ASSUME ManagerInv, PruneKill
    PROVE  ManagerInv'
<1> DEFINE n == Head(todo)
           blank == [pid |-> NoPid, parent |-> NoParent, state |-> "deleted"]
<1>1. CASE /\ rows' = SetError(n) /\ Raise /\ UNCHANGED count
  <2>1. DOMAIN rows' \subseteq Name
    BY <1>1 DEF SetError, ManagerInv
  <2> QED
    BY <1>1, <2>1, Raised
<1>2. CASE /\ rows' = [rows EXCEPT ![n] = blank]
           /\ todo' = Tail(todo)
           /\ UNCHANGED <<count, request, plan, stage, procs>>
  <2>1. stage = "pruning" /\ todo # <<>>
    BY DEF PruneKill
  <2>2. /\ procs \in Seq(Name) /\ todo \in Seq(Name) /\ Len(todo) <= Len(procs)
        /\ \A k \in DOMAIN todo : todo[k] = procs[Handled + k]
        /\ Cardinality(Family \ Surplus) <= count + 1
        /\ \A i \in DOMAIN procs : procs[i] \in DOMAIN rows
        /\ \A i \in 1..Handled : rows[procs[i]].pid = NoPid
    BY <2>1 DEF ManagerInv, PruningInv, KilledInv
  <2>3. /\ todo' \in Seq(Name) /\ Len(todo') <= Len(procs')
        /\ \A k \in DOMAIN todo' : todo'[k] = procs'[Handled' + k]
        /\ Handled \in Nat /\ Handled' = Handled + 1 /\ Handled + 1 <= Len(procs)
        /\ n = procs[Handled + 1] /\ DOMAIN procs = 1..Len(procs)
    BY <1>2, <2>1, <2>2, NextOfLoop
  <2>4. Handled + 1 \in DOMAIN procs
    BY <2>2, <2>3
  <2>5. n \in DOMAIN rows /\ DOMAIN rows' = DOMAIN rows
    BY <1>2, <2>2, <2>3, <2>4
  <2>6. (Family \ Surplus)' = Family \ Surplus
    <3>1. n \in Surplus /\ Surplus' = Surplus
      BY <1>2, <2>3, <2>4 DEF Surplus
    <3>2. \A m \in DOMAIN rows : m # n => rows'[m] = rows[m]
      BY <1>2
    <3> QED
      BY <2>5, <3>1, <3>2 DEF Family
  <2>7. ASSUME NEW i \in 1..Handled' PROVE rows'[procs'[i]].pid = NoPid
    <3>1. CASE procs[i] = n
      BY <1>2, <2>5, <3>1
    <3>2. CASE procs[i] # n
      <4>1. i \in 1..Handled /\ i \in DOMAIN procs
        BY <2>2, <2>3, <3>2
      <4>2. procs[i] \in DOMAIN rows /\ rows'[procs[i]] = rows[procs[i]]
        BY <1>2, <2>2, <3>2, <4>1
      <4> QED
        BY <1>2, <2>2, <4>1, <4>2
    <3> QED
      BY <3>1, <3>2
  <2>8. PruningInv'
    BY <1>2, <2>2, <2>3, <2>6 DEF PruningInv
  <2>9. KilledInv'
    BY <1>2, <2>2, <2>5, <2>7 DEF KilledInv
  <2> QED
    BY <1>2, <2>1, <2>5, <2>8, <2>9
       DEF ManagerInv, DeletedInv, CountInv, LaunchMatchesConfig
<1> QED
  BY <1>1, <1>2 DEF PruneKill

LEMMA KilledStep ==
    ASSUME ManagerInv, PruneKilled
    PROVE  ManagerInv'
<1>1. /\ stage = "pruning" /\ todo = <<>> /\ stage' = "delete" /\ todo' = procs
      /\ UNCHANGED <<rows, count, procs, request, plan>>
  BY DEF PruneKilled, Goto
<1>2. /\ procs \in Seq(Name) /\ Len(procs) \in Nat
      /\ Cardinality(Family \ Surplus) <= count + 1
      /\ Handled = Len(procs) /\ DOMAIN procs = 1..Len(procs)
  BY <1>1 DEF ManagerInv, PruningInv, Handled
<1>3. Handled' = 0
  BY <1>1, <1>2 DEF Handled
<1>4. Family' = Family /\ Surplus' = Surplus
  BY <1>1 DEF Family, Surplus
<1>5. \A i \in DOMAIN procs : rows[procs[i]].pid = NoPid
  BY <1>1, <1>2 DEF ManagerInv, KilledInv
<1>6. PruningInv'
  BY <1>1, <1>2, <1>3, <1>4 DEF PruningInv
<1>7. \A i \in 1..Handled' : FALSE
  BY <1>3
<1>8. DeletedInv'
  BY <1>1, <1>5, <1>7 DEF DeletedInv
<1> QED
  BY <1>1, <1>6, <1>8 DEF ManagerInv, KilledInv, CountInv, LaunchMatchesConfig

LEMMA DeleteStep ==
    ASSUME ManagerInv, PruneDelete
    PROVE  ManagerInv'
<1> DEFINE n == Head(todo)
<1>1. CASE Raise /\ UNCHANGED <<rows, count>>
  BY <1>1, Raised DEF ManagerInv
<1>2. CASE /\ rows' = [m \in DOMAIN rows \ {n} |-> rows[m]]
           /\ todo' = Tail(todo)
           /\ UNCHANGED <<count, request, plan, stage, procs>>
  <2>1. stage = "delete" /\ todo # <<>>
    BY DEF PruneDelete
  <2>2. /\ procs \in Seq(Name) /\ todo \in Seq(Name) /\ Len(todo) <= Len(procs)
        /\ \A k \in DOMAIN todo : todo[k] = procs[Handled + k]
        /\ Cardinality(Family \ Surplus) <= count + 1
        /\ \A i \in 1..Handled : procs[i] \notin DOMAIN rows
        /\ \A i \in DOMAIN procs : procs[i] \in DOMAIN rows => rows[procs[i]].pid = NoPid
    BY <2>1 DEF ManagerInv, PruningInv, DeletedInv
  <2>3. /\ todo' \in Seq(Name) /\ Len(todo') <= Len(procs')
        /\ \A k \in DOMAIN todo' : todo'[k] = procs'[Handled' + k]
        /\ Handled \in Nat /\ Handled' = Handled + 1 /\ Handled + 1 <= Len(procs)
        /\ n = procs[Handled + 1] /\ DOMAIN procs = 1..Len(procs)
    BY <1>2, <2>1, <2>2, NextOfLoop
  <2>4. Handled + 1 \in DOMAIN procs
    BY <2>2, <2>3
  <2>5. DOMAIN rows' = DOMAIN rows \ {n} /\ \A m \in DOMAIN rows' : rows'[m] = rows[m]
    BY <1>2
  <2>6. (Family \ Surplus)' = Family \ Surplus
    <3>1. n \in Surplus /\ Surplus' = Surplus
      BY <1>2, <2>3, <2>4 DEF Surplus
    <3> QED
      BY <2>5, <3>1 DEF Family
  <2>7. ASSUME NEW i \in 1..Handled' PROVE procs'[i] \notin DOMAIN rows'
    <3>1. i \in 1..Handled \/ i = Handled + 1
      BY <2>3
    <3> QED
      BY <1>2, <2>2, <2>3, <2>5, <3>1
  <2>8. \A i \in DOMAIN procs' : procs'[i] \in DOMAIN rows' => rows'[procs'[i]].pid = NoPid
    BY <1>2, <2>2, <2>5
  <2>9. PruningInv'
    BY <1>2, <2>2, <2>3, <2>6 DEF PruningInv
  <2>10. DeletedInv'
    BY <2>7, <2>8 DEF DeletedInv
  <2> QED
    BY <1>2, <2>1, <2>5, <2>9, <2>10
       DEF ManagerInv, KilledInv, CountInv, LaunchMatchesConfig
<1> QED
  BY <1>1, <1>2 DEF PruneDelete

LEMMA DoneStep ==
    ASSUME ManagerInv, PruneDone
    PROVE  ManagerInv'
<1>1. /\ stage = "delete" /\ todo = <<>> /\ stage' = "fetch"
      /\ UNCHANGED <<rows, count, request, plan>>
  BY DEF PruneDone, Goto
<1>2. /\ procs \in Seq(Name) /\ Handled = Len(procs) /\ DOMAIN procs = 1..Handled
      /\ Cardinality(Family \ Surplus) <= count + 1
      /\ \A i \in 1..Handled : procs[i] \notin DOMAIN rows
  BY <1>1 DEF ManagerInv, PruningInv, DeletedInv, Handled
<1>3. Family \ Surplus = Family
  BY <1>2 DEF Family, Surplus
<1>4. Family' = Family
  BY <1>1 DEF Family
<1> QED
  BY <1>1, <1>2, <1>3, <1>4
     DEF ManagerInv, PruningInv, KilledInv, DeletedInv, CountInv, LaunchMatchesConfig

(* The names update_existing_process adds to a server whose surplus was    *)
(* pruned.                                                                 *)
LEMMA MissingNames ==
    ASSUME NEW order \in Seq(Name), Len(order) > 0, Len(order) <= count + 1,
           count \in 0..MaxClients
    PROVE  /\ Missing(order) \in Seq(Name)
           /\ Len(order) + Len(Missing(order)) = count + 1
<1> DEFINE k == IF Len(order) - 1 >= count THEN 0 ELSE count - (Len(order) - 1)
<1>1. /\ Len(order) \in Nat /\ count \in Nat /\ MaxClients \in Nat
      /\ k \in Nat /\ Len(order) + k = count + 1
  BY ClientsAssumption
<1>2. Missing(order) = [i \in 1..k |-> Len(order) - 1 + i]
  BY DEF Missing
<1>3. \A i \in 1..k : Len(order) - 1 + i \in Name
  BY <1>1 DEF Name
<1> QED
  BY <1>1, <1>2, <1>3

LEMMA FetchStep ==
    ASSUME ManagerInv, Fetch
    PROVE  ManagerInv'
<1>1. CASE Main \in DOMAIN rows
  <2>1. PICK order \in Fetched :
           /\ procs' = order
           /\ \/ Head(plan) = "start" /\ todo' = Missing(order) /\ stage' = "create"
              \/ stage' = "look"
           /\ UNCHANGED <<rows, count, request, plan>>
    BY <1>1 DEF Fetch, Goto
  <2>2. IsFiniteSet(Family) /\ order \in SetToSeqs(Family) /\ Main \in Family
        /\ Family \subseteq Name /\ Cardinality(Family) <= count + 1
    BY <1>1, <2>1, FamilyFinite DEF Fetched, Family, Fetch, ManagerInv, CountInv
  <2>3. /\ Cardinality(Family) \in Nat /\ order \in [1..Cardinality(Family) -> Family]
        /\ \A x \in Family : \E i \in 1..Cardinality(Family) : order[i] = x
    BY <2>2, ListingIsComplete
  <2>4. order \in Seq(Name) /\ Len(order) = Cardinality(Family) /\ Len(order) > 0
    BY <2>2, <2>3
  <2>5. CASE stage' = "create" /\ todo' = Missing(order)
    <3>1. todo' \in Seq(Name) /\ Len(procs') + Len(todo') = count + 1
      BY <2>1, <2>2, <2>4, <2>5, MissingNames DEF ManagerInv
    <3> QED
      BY <2>1, <2>4, <2>5, <3>1
         DEF Fetch, ManagerInv, PruningInv, KilledInv, DeletedInv, CountInv, LaunchMatchesConfig
  <2>6. CASE stage' = "look"
    BY <2>1, <2>6
       DEF Fetch, ManagerInv, PruningInv, KilledInv, DeletedInv, CountInv, LaunchMatchesConfig
  <2> QED
    BY <2>1, <2>5, <2>6
<1>2. CASE Raise /\ UNCHANGED <<rows, count>>
  BY <1>2, Raised DEF ManagerInv
<1>3. CASE /\ rows' = InsertRow(Main, NoParent)
           /\ procs' = <<Main>> /\ todo' = Missing(<<Main>>) /\ stage' = "create"
           /\ UNCHANGED <<count, request, plan>>
  <2>1. <<Main>> \in Seq(Name) /\ Len(<<Main>>) = 1 /\ Main \in Name
    BY ClientsAssumption DEF Main, Name
  <2>2. count \in 0..MaxClients /\ 1 <= count + 1
    BY ClientsAssumption DEF ManagerInv
  <2>3. Missing(<<Main>>) \in Seq(Name) /\ 1 + Len(Missing(<<Main>>)) = count + 1
    <3> DEFINE order == <<Main>>
    <3>1. order \in Seq(Name) /\ Len(order) = 1 /\ Len(order) > 0 /\ Len(order) <= count + 1
      BY <2>1, <2>2
    <3> HIDE DEF order
    <3>2. Missing(order) \in Seq(Name) /\ Len(order) + Len(Missing(order)) = count + 1
      BY <2>2, <3>1, MissingNames
    <3>3. Missing(order) \in Seq(Name) /\ 1 + Len(Missing(order)) = count + 1
      BY <3>1, <3>2
    <3> QED
      BY <3>3 DEF order
  <2>4. DOMAIN rows' \subseteq Name
    BY <1>3, <2>1 DEF InsertRow, ManagerInv
  <2> QED
    BY <1>3, <2>1, <2>3, <2>4
       DEF Fetch, ManagerInv, PruningInv, KilledInv, DeletedInv, CountInv, LaunchMatchesConfig
<1> QED
  BY <1>1, <1>2, <1>3 DEF Fetch, Goto

LEMMA CreateStep ==
    ASSUME ManagerInv, CreateClient
    PROVE  ManagerInv'
<1>1. /\ stage = "create" /\ todo # <<>> /\ procs \in Seq(Name) /\ todo \in Seq(Name)
      /\ Len(procs) + Len(todo) = count + 1
  BY DEF CreateClient, ManagerInv, CountInv
<1>2. CASE Raise /\ UNCHANGED <<rows, count>>
  BY <1>2, Raised DEF ManagerInv
<1>3. CASE /\ rows' = InsertRow(Head(todo), Head(procs))
           /\ procs' = Append(procs, Head(todo))
           /\ todo' = Tail(todo)
           /\ UNCHANGED <<count, request, plan, stage>>
  <2>1. /\ Head(todo) \in Name
        /\ procs' \in Seq(Name) /\ Len(procs') = Len(procs) + 1
        /\ todo' \in Seq(Name) /\ Len(todo') = Len(todo) - 1
    BY <1>1, <1>3
  <2>2. DOMAIN rows' \subseteq Name
    BY <1>3, <2>1 DEF InsertRow, ManagerInv
  <2>3. Len(procs') + Len(todo') = count + 1
    BY <1>1, <2>1
  <2> QED
    BY <1>1, <1>3, <2>1, <2>2, <2>3
       DEF ManagerInv, PruningInv, KilledInv, DeletedInv, CountInv, LaunchMatchesConfig
<1> QED
  BY <1>2, <1>3 DEF CreateClient

LEMMA CreatedStep ==
    ASSUME ManagerInv, Created
    PROVE  ManagerInv'
<1>1. Len(procs) = count + 1
  BY DEF Created, ManagerInv, CountInv
<1> QED
  BY <1>1 DEF Created, Goto, ManagerInv, PruningInv, KilledInv, DeletedInv, CountInv,
     LaunchMatchesConfig

(* An operation that ends goes on with the next of its plan. *)
LEMMA Returned ==
    ASSUME ManagerInv, stage # "prune", NEW answer, Return(answer),
           UNCHANGED count, DOMAIN rows' \subseteq Name
    PROVE  ManagerInv'
<1>1. plan \in Seq({"start", "stop", "status"}) /\ plan # <<>> /\ request # "none"
  BY DEF ManagerInv
<1>2. /\ Tail(plan) \in Seq({"start", "stop", "status"})
      /\ Len(Tail(plan)) = Len(plan) - 1 /\ Len(plan) \in Nat
  BY <1>1
<1>3. Tail(plan) = <<>> <=> Len(plan) = 1
  BY <1>2
<1>4. request' = IF Len(plan) = 1 THEN "none" ELSE request
  BY DEF Return
<1>5. (request' = "none") <=> (plan' = <<>>)
  BY <1>1, <1>3, <1>4 DEF Return
<1> QED
  BY <1>2, <1>5, Ended DEF Return, ManagerInv

(* Launching and killing: rows keep their names. *)
LEMMA LoopGoesOn ==
    ASSUME ManagerInv, stage \in {"launch", "kill"}, DOMAIN rows' = DOMAIN rows,
           UNCHANGED <<count, request, plan, stage, procs>>
    PROVE  ManagerInv'
  BY DEF ManagerInv, PruningInv, KilledInv, DeletedInv, CountInv, LaunchMatchesConfig

LEMMA LaunchStep ==
    ASSUME ManagerInv, Launch
    PROVE  ManagerInv'
<1>1. DOMAIN rows' = DOMAIN rows
  BY DEF Launch, SetPid, SetError
<1>2. stage = "launch" /\ UNCHANGED count /\ DOMAIN rows' \subseteq Name
  BY <1>1 DEF Launch, ManagerInv
<1>3. CASE Raise
  BY <1>2, <1>3, Raised
<1>4. CASE UNCHANGED <<request, plan, stage, procs>>
  BY <1>1, <1>2, <1>4, LoopGoesOn
<1>5. CASE \E answer : Return(answer)
  BY <1>2, <1>5, Returned
<1> QED
  BY <1>3, <1>4, <1>5 DEF Launch

LEMMA KillStep ==
    ASSUME ManagerInv, Kill
    PROVE  ManagerInv'
<1>1. DOMAIN rows' = DOMAIN rows
  BY DEF Kill, SetPid, SetError
<1>2. stage = "kill" /\ UNCHANGED count /\ DOMAIN rows' \subseteq Name
  BY <1>1 DEF Kill, ManagerInv
<1>3. CASE Raise
  BY <1>2, <1>3, Raised
<1>4. CASE UNCHANGED <<request, plan, stage, procs>>
  BY <1>1, <1>2, <1>4, LoopGoesOn
<1> QED
  BY <1>3, <1>4 DEF Kill

LEMMA LookStep ==
    ASSUME ManagerInv, Look
    PROVE  ManagerInv'
<1>1. stage = "look" /\ UNCHANGED <<rows, count>> /\ DOMAIN rows' \subseteq Name
  BY DEF Look, ManagerInv
<1>2. CASE \E answer : Return(answer)
  BY <1>1, <1>2, Returned
<1>3. CASE stage' = "kill" /\ UNCHANGED <<request, plan>>
  BY <1>1, <1>3 DEF ManagerInv, PruningInv, KilledInv, DeletedInv, CountInv, LaunchMatchesConfig
<1> QED
  BY <1>2, <1>3 DEF Look, Goto

LEMMA BeginStep ==
    ASSUME ManagerInv, NEW r \in Operations, Begin(r)
    PROVE  ManagerInv'
<1>1. stage' = "prune" /\ UNCHANGED rows /\ count' \in 0..MaxClients
  BY DEF Begin, ManagerInv
<1>2. r \in {"start", "stop", "restart", "status"}
  BY OperationsAssumption DEF Plans
<1>3. /\ Plans[r] \in Seq({"start", "stop", "status"}) /\ Plans[r] # <<>> /\ r # "none"
  <2>1. /\ Plans["start"] = <<"start">> /\ Plans["stop"] = <<"stop">>
        /\ Plans["status"] = <<"status">> /\ Plans["restart"] = <<"stop", "start">>
    BY DEF Plans
  <2>2. /\ <<"start">> \in Seq({"start", "stop", "status"})
        /\ <<"stop">> \in Seq({"start", "stop", "status"})
        /\ <<"status">> \in Seq({"start", "stop", "status"})
        /\ <<"stop", "start">> \in Seq({"start", "stop", "status"})
        /\ <<"start">> # <<>> /\ <<"stop">> # <<>> /\ <<"status">> # <<>>
        /\ <<"stop", "start">> # <<>>
    OBVIOUS
  <2>3. /\ "start" # "none" /\ "stop" # "none" /\ "status" # "none" /\ "restart" # "none"
    OBVIOUS
  <2>4. CASE r = "start"
    BY <2>1, <2>2, <2>3, <2>4
  <2>5. CASE r = "stop"
    BY <2>1, <2>2, <2>3, <2>5
  <2>6. CASE r = "restart"
    BY <2>1, <2>2, <2>3, <2>6
  <2>7. CASE r = "status"
    BY <2>1, <2>2, <2>3, <2>7
  <2> QED
    BY <1>2, <2>4, <2>5, <2>6, <2>7
<1> QED
  BY <1>1, <1>3, Ended DEF Begin, ManagerInv

LEMMA ManagerStep ==
    ASSUME ManagerInv, [Next]_vars
    PROVE  ManagerInv'
<1>1. ASSUME NEW r \in Operations, Begin(r) PROVE ManagerInv'
  BY <1>1, BeginStep
<1>2. CASE PruneSelect \/ PruneKill \/ PruneKilled \/ PruneDelete \/ PruneDone
  BY <1>2, SelectStep, KillOneStep, KilledStep, DeleteStep, DoneStep
<1>3. CASE Fetch \/ CreateClient \/ Created
  BY <1>3, FetchStep, CreateStep, CreatedStep
<1>4. CASE Launch \/ Kill \/ Look
  BY <1>4, LaunchStep, KillStep, LookStep
<1>5. CASE LaunchDone
  BY <1>5, Returned DEF LaunchDone, ManagerInv
<1>6. CASE StopDone
  BY <1>6, Returned DEF StopDone, ManagerInv
<1>7. CASE (\E p \in Pid : Exit(p) \/ Reuse(p)) \/ UNCHANGED vars
  BY <1>7, Untouched DEF Exit, Reuse, vars, work
<1>8. CASE Crash
  BY <1>8, Ended DEF Crash, Raise, ManagerInv
<1> QED
  BY <1>1, <1>2, <1>3, <1>4, <1>5, <1>6, <1>7, <1>8 DEF Next, Operate, Environment

LEMMA ManagerInit == Init => ManagerInv
<1> SUFFICES ASSUME Init PROVE ManagerInv
  OBVIOUS
<1>1. DOMAIN rows = {} /\ plan = <<>> /\ request = "none" /\ stage = "prune"
  BY DEF Init
<1>2. count \in 0..MaxClients
  BY DEF Init
<1> QED
  BY <1>1, <1>2 DEF ManagerInv, PruningInv, KilledInv, DeletedInv, CountInv, LaunchMatchesConfig

-----------------------------------------------------------------------------
(* Theorems *)

(* Whatever earlier starts, prunes and crashes left in the table, the loop *)
(* of prune_server_processes, the rows get_process_and_children fetches    *)
(* and the clients update_existing_process adds make exactly the server    *)
(* and its configured number of headless clients for start to launch.      *)
THEOREM LaunchMatchesConfigCorrect == Spec => []LaunchMatchesConfig
<1>1. Init => ManagerInv
  BY ManagerInit
<1>2. ManagerInv /\ [Next]_vars => ManagerInv'
  BY ManagerStep
<1>3. ManagerInv => LaunchMatchesConfig
  BY DEF ManagerInv, CountInv
<1> QED
  BY <1>1, <1>2, <1>3, PTL DEF Spec

PidsInv == DOMAIN os = Pid

LEMMA PidsStep ==
    ASSUME PidsInv, [Next]_vars
    PROVE  PidsInv'
<1> USE DEF PidsInv
<1>1. CASE UNCHANGED os
  BY <1>1
<1>2. CASE \E p, kind : os' = [os EXCEPT ![p] = kind]
  BY <1>2
<1> QED
  BY <1>1, <1>2 DEF Next, Operate, Environment, Begin, PruneSelect, PruneKill, PruneKilled,
     PruneDelete, PruneDone, Fetch, CreateClient, Created, Launch, LaunchDone, Look, Kill,
     StopDone, Exit, Reuse, Crash, vars

(* A row that leaves the table or loses its pid had no process that goes   *)
(* on living.                                                              *)
LEMMA StepForgetsNothing ==
    ASSUME ManagerInv, [Next]_vars, plan # <<>>, Head(plan) # "start", PidsInv,
           NEW p \in Alive, p \in Recorded, p \in Alive'
    PROVE  p \in Recorded'
<1> PICK m \in DOMAIN rows : rows[m].pid = p
  BY DEF Recorded
<1>1. os[p] \in {"server", "client"} /\ os'[p] \in {"server", "client"} /\ p \in Pid /\ p # NoPid
  BY NoPidAssumption DEF Alive
<1>2. SUFFICES m \in DOMAIN rows' /\ rows'[m].pid = p
  BY DEF Recorded
<1>3. CASE UNCHANGED rows
  BY <1>3
<1>4. CASE \E n \in DOMAIN rows : rows' = SetError(n)
  BY <1>4 DEF SetError
<1>5. CASE \E n : rows' = SetError(n)
  BY <1>5 DEF SetError
<1>6. CASE PruneKill
  <2> DEFINE n == Head(todo)
  <2>1. CASE m = n /\ ~Gone(rows[n].pid) /\ os' = [os EXCEPT ![rows[n].pid] = "other"]
    BY <1>1, <2>1 DEF PidsInv
  <2>2. CASE m # n /\ \E row : rows' = [rows EXCEPT ![n] = row]
    BY <2>2
  <2>3. CASE rows' = SetError(n)
    BY <1>5, <2>3
  <2>4. \/ rows' = SetError(n)
        \/ /\ ~Gone(rows[n].pid) /\ os' = [os EXCEPT ![rows[n].pid] = "other"]
           /\ \E row : rows' = [rows EXCEPT ![n] = row]
    BY <1>6 DEF PruneKill
  <2> QED
    BY <2>1, <2>2, <2>3, <2>4
<1>7. CASE PruneDelete
  <2>1. stage = "delete" /\ todo # <<>>
    BY <1>7 DEF PruneDelete
  <2>2. /\ procs \in Seq(Name) /\ todo \in Seq(Name) /\ Len(todo) <= Len(procs)
        /\ \A k \in DOMAIN todo : todo[k] = procs[Handled + k]
        /\ \A i \in DOMAIN procs : procs[i] \in DOMAIN rows => rows[procs[i]].pid = NoPid
    BY <2>1 DEF ManagerInv, PruningInv, DeletedInv
  <2>3. Len(todo) \in Nat /\ Len(procs) \in Nat /\ Len(todo) > 0 /\ 1 \in DOMAIN todo
    BY <2>1, <2>2
  <2>4. Head(todo) = procs[Handled + 1] /\ Handled + 1 \in DOMAIN procs
    BY <2>2, <2>3 DEF Handled
  <2>5. m # Head(todo)
    BY <1>1, <2>2, <2>4
  <2> QED
    BY <1>7, <2>5 DEF PruneDelete
<1>8. CASE Fetch \/ CreateClient
  <2>1. CASE \E n, parent : n \notin DOMAIN rows /\ rows' = InsertRow(n, parent)
    BY <2>1 DEF InsertRow
  <2> QED
    BY <1>3, <1>8, <2>1 DEF Fetch, CreateClient
<1>9. CASE Launch
  BY <1>9 DEF Launch, ManagerInv
<1>10. CASE Kill
  <2> DEFINE n == Head(todo)
  <2>1. CASE m = n /\ ~Gone(rows[n].pid) /\ os' = [os EXCEPT ![rows[n].pid] = "free"]
    BY <1>1, <2>1 DEF PidsInv
  <2>2. CASE m # n /\ rows' = SetPid(n, NoPid)
    BY <2>2 DEF SetPid
  <2> QED
    BY <1>5, <1>10, <2>1, <2>2 DEF Kill
<1> QED
  BY <1>3, <1>6, <1>7, <1>8, <1>9, <1>10
     DEF Next, Operate, Environment, Begin, PruneSelect, PruneKilled, PruneDone, Created,
         LaunchDone, Look, StopDone, Exit, Reuse, Crash, vars

(* Stopping, pruning and telling the status never lose track of a process  *)
(* that lives, wherever processes exit, waits time out, the table refuses  *)
(* or the backend crashes.                                                 *)
THEOREM StopNeverForgetsCorrect == Spec => StopNeverForgets
<1>1. Init => ManagerInv
  BY ManagerInit
<1>2. ManagerInv /\ [Next]_vars => ManagerInv'
  BY ManagerStep
<1>3. Init => PidsInv
  BY DEF Init, PidsInv
<1>4. PidsInv /\ [Next]_vars => PidsInv'
  BY PidsStep
<1>5. ManagerInv /\ PidsInv /\ [Next]_vars =>
         [plan # <<>> /\ Head(plan) # "start" =>
             \A p \in Alive : p \in Recorded /\ p \in Alive' => p \in Recorded']_vars
  BY StepForgetsNothing
<1> QED
  BY <1>1, <1>2, <1>3, <1>4, <1>5, PTL DEF Spec, StopNeverForgets

-----------------------------------------------------------------------------
(* Types.  The table is one part of the type invariant, what the request   *)
(* works on another.                                                       *)

RowsOK ==
    /\ DOMAIN rows \subseteq Name
    /\ \A n \in DOMAIN rows : rows[n] \in Row /\ rows[n].parent \in DOMAIN rows \union {NoParent}
    /\ \A m, n \in DOMAIN rows : rows[m].pid = rows[n].pid /\ m # n => rows[m].pid = NoPid

OsOK == os \in [Pid -> {"free", "server", "client", "zombie", "other"}]

WorkOK == procs \in Seq(Name) /\ todo \in Seq(Name) /\ held \in Seq(Pid)

ControlOK ==
    /\ count \in 0..MaxClients
    /\ request \in DOMAIN Plans \union {"none"}
    /\ plan \in Seq({"start", "stop", "status"}) /\ Len(plan) <= 2
    /\ stage \in {"prune", "pruning", "delete", "fetch", "create", "launch", "look", "kill"}
    /\ reply.running => reply.ok

LEMMA TypeParts == TypeOK <=> RowsOK /\ OsOK /\ WorkOK /\ ControlOK
  BY DEF TypeOK, RowsOK, OsOK, WorkOK, ControlOK

(* While rows are created and when they are looked through, procs lists    *)
(* the whole family of the server, and only rows that exist.               *)
CoverInv ==
    stage \in {"create", "look"} =>
        /\ procs \in Seq(Name) /\ procs # <<>>
        /\ \A i \in DOMAIN procs : procs[i] \in DOMAIN rows
        /\ \A n \in Family : \E i \in DOMAIN procs : procs[i] = n

TypeInv == ManagerInv /\ TypeOK /\ CoverInv

(* What may happen to the table. *)
LEMMA RowsError ==
    ASSUME RowsOK, NEW n, rows' = SetError(n)
    PROVE  RowsOK'
<1>1. /\ DOMAIN rows' = DOMAIN rows
      /\ \A m \in DOMAIN rows : /\ rows'[m].pid = rows[m].pid
                                /\ rows'[m].parent = rows[m].parent
                                /\ rows'[m] \in Row
  BY DEF SetError, RowsOK, Row
<1> QED
  BY <1>1 DEF RowsOK

LEMMA RowsPid ==
    ASSUME RowsOK, NEW n, NEW p \in Pid \union {NoPid}, rows' = SetPid(n, p),
           p # NoPid => \A m \in DOMAIN rows \ {n} : rows[m].pid # p
    PROVE  RowsOK'
<1>1. /\ DOMAIN rows' = DOMAIN rows
      /\ \A m \in DOMAIN rows : /\ rows'[m].pid = IF m = n THEN p ELSE rows[m].pid
                                /\ rows'[m].parent = rows[m].parent
                                /\ rows'[m] \in Row
  BY DEF SetPid, RowsOK, Row
<1> QED
  BY <1>1 DEF RowsOK

LEMMA RowsInsert ==
    ASSUME RowsOK, NEW n \in Name \ DOMAIN rows, NEW parent \in DOMAIN rows \union {NoParent},
           rows' = InsertRow(n, parent)
    PROVE  RowsOK'
<1>1. /\ DOMAIN rows' = DOMAIN rows \union {n}
      /\ \A m \in DOMAIN rows : rows'[m] = rows[m]
      /\ rows'[n] = [pid |-> NoPid, parent |-> parent, state |-> "idle"]
  BY DEF InsertRow
<1>2. rows'[n] \in Row /\ rows'[n].pid = NoPid /\ rows'[n].parent = parent
  BY <1>1 DEF Row, RowsOK
<1> QED
  BY <1>1, <1>2 DEF RowsOK

LEMMA RowsDelete ==
    ASSUME RowsOK, NEW n, \A m \in DOMAIN rows : rows[m].parent # n,
           rows' = [m \in DOMAIN rows \ {n} |-> rows[m]]
    PROVE  RowsOK'
  BY DEF RowsOK

(* What prune_server_processes makes of the row of a client it killed. *)
LEMMA RowsBlank ==
    ASSUME RowsOK, NEW n,
           rows' = [rows EXCEPT ![n] = [pid |-> NoPid, parent |-> NoParent, state |-> "deleted"]]
    PROVE  RowsOK'
<1> DEFINE blank == [pid |-> NoPid, parent |-> NoParent, state |-> "deleted"]
<1>1. /\ DOMAIN rows' = DOMAIN rows
      /\ \A m \in DOMAIN rows : rows'[m] = IF m = n THEN blank ELSE rows[m]
  OBVIOUS
<1>2. blank \in Row /\ blank.pid = NoPid /\ blank.parent = NoParent
  BY DEF Row
<1> HIDE DEF blank
<1> QED
  BY <1>1, <1>2 DEF RowsOK

(* How an operation or a request ends. *)
LEMMA ControlRaised ==
    ASSUME ControlOK, Raise, count' \in 0..MaxClients
    PROVE  ControlOK' /\ WorkOK' /\ stage' = "prune"
  BY DEF ControlOK, Raise, WorkOK, NoReply

LEMMA ControlReturned ==
    ASSUME ControlOK, plan # <<>>, NEW answer, Return(answer), UNCHANGED count,
           answer.running => answer.ok
    PROVE  ControlOK' /\ WorkOK' /\ stage' = "prune"
<1>1. Tail(plan) \in Seq({"start", "stop", "status"}) /\ Len(Tail(plan)) <= 2
  BY DEF ControlOK
<1>2. request' \in DOMAIN Plans \union {"none"}
  BY DEF ControlOK, Return
<1> QED
  BY <1>1, <1>2 DEF ControlOK, Return, WorkOK

LEMMA ControlGoes ==
    ASSUME ControlOK, UNCHANGED <<request, plan, reply>>, count' \in 0..MaxClients,
           stage' \in {"prune", "pruning", "delete", "fetch", "create", "launch", "look", "kill"}
    PROVE  ControlOK'
  BY DEF ControlOK

LEMMA AnswersAreConsistent ==
    ASSUME NEW running, NEW clients, NEW event
    PROVE  Answer(running, clients, event).ok
  BY DEF Answer

LEMMA TypeFromParts ==
    ASSUME RowsOK', OsOK', WorkOK', ControlOK', stage' \notin {"create", "look"}
    PROVE  TypeOK' /\ CoverInv'
  BY DEF TypeOK, RowsOK, OsOK, WorkOK, ControlOK, CoverInv

LEMMA TypeBegin ==
    ASSUME TypeInv, NEW r \in Operations, Begin(r)
    PROVE  TypeOK' /\ CoverInv'
<1>1. RowsOK' /\ OsOK' /\ WorkOK' /\ stage' = "prune"
  BY DEF TypeInv, ManagerInv, TypeOK, RowsOK, OsOK, WorkOK, Begin, work
<1>2. r \in DOMAIN Plans
  BY OperationsAssumption
<1>3. Plans[r] \in Seq({"start", "stop", "status"}) /\ Len(Plans[r]) <= 2
  <2>1. r \in {"start", "stop", "restart", "status"}
    BY <1>2 DEF Plans
  <2>2. /\ Plans["start"] = <<"start">> /\ Plans["stop"] = <<"stop">>
        /\ Plans["status"] = <<"status">> /\ Plans["restart"] = <<"stop", "start">>
    BY DEF Plans
  <2>3. /\ <<"start">> \in Seq({"start", "stop", "status"}) /\ Len(<<"start">>) <= 2
        /\ <<"stop">> \in Seq({"start", "stop", "status"}) /\ Len(<<"stop">>) <= 2
        /\ <<"status">> \in Seq({"start", "stop", "status"}) /\ Len(<<"status">>) <= 2
        /\ <<"stop", "start">> \in Seq({"start", "stop", "status"})
        /\ Len(<<"stop", "start">>) <= 2
    OBVIOUS
  <2>4. CASE r = "start"
    BY <2>2, <2>3, <2>4
  <2>5. CASE r = "stop"
    BY <2>2, <2>3, <2>5
  <2>6. CASE r = "restart"
    BY <2>2, <2>3, <2>6
  <2>7. CASE r = "status"
    BY <2>2, <2>3, <2>7
  <2> QED
    BY <2>1, <2>4, <2>5, <2>6, <2>7
<1>4. ControlOK'
  BY <1>1, <1>2, <1>3 DEF ControlOK, Begin, TypeInv, TypeOK, NoReply
<1> QED
  BY <1>1, <1>4, TypeFromParts

LEMMA TypePrune ==
    ASSUME TypeInv, ManagerInv', PruneSelect \/ PruneKill \/ PruneKilled \/ PruneDelete \/ PruneDone
    PROVE  TypeOK' /\ CoverInv'
<1>1. RowsOK /\ OsOK /\ WorkOK /\ ControlOK /\ count \in 0..MaxClients
  BY TypeParts DEF TypeInv, TypeOK
<1>2. CASE PruneSelect
  <2>1. RowsOK' /\ OsOK'
    BY <1>1, <1>2 DEF PruneSelect, RowsOK, OsOK
  <2>2. CASE stage' = "fetch" /\ UNCHANGED <<request, plan, reply, procs, todo>>
    BY <1>1, <1>2, <2>1, <2>2, ControlGoes, TypeFromParts DEF PruneSelect, WorkOK
  <2>3. CASE stage' = "pruning" /\ UNCHANGED <<request, plan, reply>>
    <3>1. WorkOK'
      BY <1>1, <1>2, <2>3 DEF PruneSelect, WorkOK, ManagerInv, PruningInv
    <3> QED
      BY <1>1, <1>2, <2>1, <2>3, <3>1, ControlGoes, TypeFromParts DEF PruneSelect
  <2> QED
    BY <1>2, <2>2, <2>3 DEF PruneSelect, Goto
<1>3. CASE PruneKill
  <2>1. OsOK' /\ count' = count
    BY <1>1, <1>3 DEF PruneKill, OsOK
  <2>2. CASE Raise /\ rows' = SetError(Head(todo))
    BY <1>1, <2>1, <2>2, RowsError, ControlRaised, TypeFromParts
  <2>3. CASE /\ rows' = [rows EXCEPT ![Head(todo)] =
                            [pid |-> NoPid, parent |-> NoParent, state |-> "deleted"]]
             /\ todo' = Tail(todo)
             /\ UNCHANGED <<count, request, plan, stage, procs, held, reply>>
    <3>1. RowsOK'
      BY <1>1, <2>3, RowsBlank
    <3>2. stage' = "pruning" /\ WorkOK' /\ ControlOK'
      BY <1>1, <1>3, <2>3 DEF PruneKill, WorkOK, ControlOK
    <3> QED
      BY <2>1, <3>1, <3>2, TypeFromParts
  <2> QED
    BY <1>3, <2>2, <2>3 DEF PruneKill
<1>4. CASE PruneKilled \/ PruneDone
  <2>1. RowsOK' /\ OsOK' /\ WorkOK' /\ stage' \in {"delete", "fetch"} /\ count' = count
    BY <1>1, <1>4 DEF PruneKilled, PruneDone, Goto, RowsOK, OsOK, WorkOK, work
  <2>2. ControlOK'
    BY <1>1, <1>4, <2>1, ControlGoes DEF PruneKilled, PruneDone, Goto
  <2> QED
    BY <2>1, <2>2, TypeFromParts
<1>5. CASE PruneDelete
  <2>1. OsOK' /\ count' = count
    BY <1>1, <1>5 DEF PruneDelete, OsOK
  <2>2. CASE Raise /\ UNCHANGED rows
    <3>1. RowsOK'
      BY <1>1, <2>2 DEF RowsOK
    <3> QED
      BY <1>1, <2>1, <2>2, <3>1, ControlRaised, TypeFromParts
  <2>3. CASE /\ \A m \in DOMAIN rows : rows[m].parent # Head(todo)
             /\ rows' = [m \in DOMAIN rows \ {Head(todo)} |-> rows[m]]
             /\ todo' = Tail(todo)
             /\ UNCHANGED <<request, plan, stage, procs, held, reply>>
    <3>1. RowsOK'
      BY <1>1, <2>3, RowsDelete
    <3>2. stage' = "delete" /\ WorkOK' /\ ControlOK'
      BY <1>1, <1>5, <2>1, <2>3 DEF PruneDelete, WorkOK, ControlOK
    <3> QED
      BY <2>1, <3>1, <3>2, TypeFromParts
  <2> QED
    BY <1>5, <2>2, <2>3 DEF PruneDelete
<1> QED
  BY <1>2, <1>3, <1>4, <1>5

LEMMA TypeFetch ==
    ASSUME TypeInv, ManagerInv', Fetch
    PROVE  TypeOK' /\ CoverInv'
<1>1. RowsOK /\ OsOK /\ WorkOK /\ ControlOK /\ count \in 0..MaxClients
  BY TypeParts DEF TypeInv, TypeOK
<1>2. CASE Main \in DOMAIN rows
  <2>1. PICK order \in Fetched :
           /\ procs' = order
           /\ \/ Head(plan) = "start" /\ todo' = Missing(order) /\ stage' = "create"
              \/ stage' = "look" /\ todo' = <<>>
           /\ UNCHANGED <<rows, count, os, held, request, plan, reply>>
    BY <1>2 DEF Fetch, Goto
  <2>2. IsFiniteSet(Family) /\ order \in SetToSeqs(Family) /\ Main \in Family
        /\ Family \subseteq Name /\ Family \subseteq DOMAIN rows
    BY <1>2, <2>1, FamilyFinite DEF Fetched, Family, TypeInv, ManagerInv
  <2>3. /\ Cardinality(Family) \in Nat /\ order \in [1..Cardinality(Family) -> Family]
        /\ \A x \in Family : \E i \in 1..Cardinality(Family) : order[i] = x
    BY <2>2, ListingIsComplete
  <2>4. order \in Seq(Name) /\ DOMAIN order = 1..Cardinality(Family) /\ order # <<>>
    BY <2>2, <2>3
  <2>5. todo' \in Seq(Name)
    <3>1. CASE stage' = "create"
      BY <3>1 DEF ManagerInv, CountInv
    <3>2. CASE todo' = <<>>
      BY <3>2
    <3> QED
      BY <2>1, <3>1, <3>2
  <2>6. RowsOK' /\ OsOK' /\ WorkOK' /\ ControlOK'
    <3>1. RowsOK' /\ OsOK' /\ WorkOK'
      BY <1>1, <2>1, <2>4, <2>5 DEF RowsOK, OsOK, WorkOK
    <3>2. ControlOK'
      BY <1>1, <2>1, ControlGoes
    <3> QED
      BY <3>1, <3>2
  <2>7. CoverInv'
    <3>1. Family' = Family /\ rows' = rows /\ procs' = order
      BY <2>1 DEF Family
    <3>2. \A i \in DOMAIN order : order[i] \in DOMAIN rows
      BY <2>2, <2>3, <2>4
    <3> HIDE DEF Family
    <3> QED
      BY <2>3, <2>4, <3>1, <3>2 DEF CoverInv
  <2> QED
    BY <2>6, <2>7 DEF TypeOK, RowsOK, OsOK, WorkOK, ControlOK
<1>3. CASE Raise /\ UNCHANGED <<rows, count, os>>
  <2>1. RowsOK' /\ OsOK'
    BY <1>1, <1>3 DEF RowsOK, OsOK
  <2> QED
    BY <1>1, <1>3, <2>1, ControlRaised, TypeFromParts
<1>4. CASE /\ Main \notin DOMAIN rows
           /\ rows' = InsertRow(Main, NoParent)
           /\ procs' = <<Main>> /\ todo' = Missing(<<Main>>) /\ stage' = "create"
           /\ UNCHANGED <<count, os, held, request, plan, reply>>
  <2>1. Main \in Name \ DOMAIN rows
    BY <1>4, ClientsAssumption DEF Main, Name
  <2>2. RowsOK'
    BY <1>1, <1>4, <2>1, RowsInsert
  <2>3. OsOK' /\ WorkOK' /\ ControlOK'
    <3>1. procs' \in Seq(Name) /\ todo' \in Seq(Name)
      BY <1>4, <2>1 DEF ManagerInv, CountInv
    <3>2. ControlOK'
      BY <1>1, <1>4, ControlGoes
    <3> QED
      BY <1>1, <1>4, <3>1, <3>2 DEF OsOK, WorkOK
  <2>4. CoverInv'
    <3>1. /\ DOMAIN rows' = DOMAIN rows \union {Main}
          /\ \A m \in DOMAIN rows : rows'[m] = rows[m]
      BY <1>4, <2>1 DEF InsertRow
    <3>2. \A n \in Family' : n = Main
      <4>1. SUFFICES ASSUME NEW n \in Family', n # Main PROVE FALSE
        OBVIOUS
      <4>2. n \in DOMAIN rows /\ rows[n].parent = Main
        BY <3>1, <4>1 DEF Family
      <4>3. Main \in DOMAIN rows \union {NoParent}
        BY <1>1, <4>2 DEF RowsOK
      <4> QED
        BY <1>4, <4>3 DEF Main, NoParent
    <3>3. procs' = <<Main>> /\ procs' \in Seq(Name) /\ procs' # <<>> /\ DOMAIN procs' = {1}
          /\ procs'[1] = Main
      BY <1>4, <2>1
    <3> HIDE DEF Family
    <3> QED
      BY <3>1, <3>2, <3>3 DEF CoverInv
  <2> QED
    BY <2>2, <2>3, <2>4 DEF TypeOK, RowsOK, OsOK, WorkOK, ControlOK
<1> QED
  BY <1>2, <1>3, <1>4 DEF Fetch, Goto

LEMMA TypeCreate ==
    ASSUME TypeInv, CreateClient
    PROVE  TypeOK' /\ CoverInv'
<1>1. RowsOK /\ OsOK /\ WorkOK /\ ControlOK /\ count \in 0..MaxClients
  BY TypeParts DEF TypeInv, TypeOK
<1>2. CASE Raise /\ UNCHANGED <<rows, count, os>>
  <2>1. RowsOK' /\ OsOK'
    BY <1>1, <1>2 DEF RowsOK, OsOK
  <2> QED
    BY <1>1, <1>2, <2>1, ControlRaised, TypeFromParts
<1>3. CASE /\ Head(todo) \notin DOMAIN rows
           /\ rows' = InsertRow(Head(todo), Head(procs))
           /\ procs' = Append(procs, Head(todo))
           /\ todo' = Tail(todo)
           /\ UNCHANGED <<count, os, request, plan, stage, held, reply>>
  <2> DEFINE n == Head(todo)
  <2>1. stage = "create" /\ todo # <<>> /\ todo \in Seq(Name) /\ held \in Seq(Pid)
    BY <1>1, <1>3 DEF CreateClient, WorkOK
  <2>2. /\ procs \in Seq(Name) /\ procs # <<>>
        /\ \A i \in DOMAIN procs : procs[i] \in DOMAIN rows
        /\ \A m \in Family : \E i \in DOMAIN procs : procs[i] = m
    BY <2>1 DEF TypeInv, CoverInv
  <2>3. n \in Name \ DOMAIN rows /\ Head(procs) \in DOMAIN rows
    <3>1. Head(procs) = procs[1] /\ 1 \in DOMAIN procs
      BY <2>2
    <3> QED
      BY <1>3, <2>1, <2>2, <3>1
  <2>4. RowsOK'
    <3> HIDE DEF n
    <3>1. rows' = InsertRow(n, Head(procs))
      BY <1>3 DEF n
    <3> QED
      BY <1>1, <2>3, <3>1, RowsInsert
  <2>5. OsOK' /\ ControlOK' /\ stage' = "create"
    BY <1>1, <1>3, <2>1 DEF OsOK, ControlOK
  <2>6. WorkOK' /\ procs' \in Seq(Name) /\ procs' # <<>>
        /\ DOMAIN procs' = DOMAIN procs \union {Len(procs) + 1}
        /\ (\A i \in DOMAIN procs : procs'[i] = procs[i]) /\ procs'[Len(procs) + 1] = n
    <3>1. procs' = Append(procs, n) /\ procs \in Seq(Name) /\ n \in Name
      BY <1>3, <2>2, <2>3
    <3>2. todo' \in Seq(Name) /\ held' \in Seq(Pid)
      BY <1>3, <2>1
    <3> HIDE DEF n
    <3>3. /\ procs' \in Seq(Name) /\ procs' # <<>> /\ Len(procs') = Len(procs) + 1
          /\ \A i \in 1..Len(procs) : procs'[i] = procs[i]
          /\ procs'[Len(procs) + 1] = n
      BY <3>1
    <3>4. DOMAIN procs' = 1..(Len(procs) + 1) /\ DOMAIN procs = 1..Len(procs) /\ Len(procs) \in Nat
      BY <3>1, <3>3
    <3> QED
      BY <3>2, <3>3, <3>4 DEF WorkOK
  <2>7. /\ DOMAIN rows' = DOMAIN rows \union {n}
        /\ \A m \in DOMAIN rows : rows'[m] = rows[m]
    BY <1>3, <2>3 DEF InsertRow
  <2>8. CoverInv'
    <3>1. \A i \in DOMAIN procs' : procs'[i] \in DOMAIN rows'
      BY <2>2, <2>6, <2>7
    <3>2. \A m \in Family' : m \in Family \/ m = n
      BY <2>7 DEF Family
    <3>3. \A m \in Family' : \E i \in DOMAIN procs' : procs'[i] = m
      <4> HIDE DEF Family, n
      <4> QED
        BY <2>2, <2>6, <3>2
    <3> QED
      BY <2>6, <3>1, <3>3 DEF CoverInv
  <2> QED
    BY <2>4, <2>5, <2>6, <2>8 DEF TypeOK, RowsOK, OsOK, WorkOK, ControlOK
<1> QED
  BY <1>2, <1>3 DEF CreateClient

LEMMA TypeCreated ==
    ASSUME TypeInv, Created
    PROVE  TypeOK' /\ CoverInv'
<1>1. RowsOK /\ OsOK /\ WorkOK /\ ControlOK /\ count \in 0..MaxClients
  BY TypeParts DEF TypeInv, TypeOK
<1>2. /\ UNCHANGED <<rows, count, os, procs, held, request, plan, reply>>
      /\ stage = "create" /\ stage' \in {"launch", "look"} /\ todo' \in {todo, procs}
  BY DEF Created, Goto
<1>3. ControlOK'
  BY <1>1, <1>2, ControlGoes
<1>4. CoverInv'
  <2>1. Family' = Family
    BY <1>2 DEF Family
  <2> QED
    BY <1>2, <2>1 DEF CoverInv, TypeInv
<1> QED
  BY <1>1, <1>2, <1>3, <1>4 DEF TypeOK, RowsOK, OsOK, WorkOK, ControlOK

LEMMA TypeLaunch ==
    ASSUME TypeInv, Launch
    PROVE  TypeOK' /\ CoverInv'
<1>1. RowsOK /\ OsOK /\ WorkOK /\ ControlOK /\ count' \in 0..MaxClients
  BY TypeParts DEF TypeInv, TypeOK, Launch
<1>2. stage = "launch" /\ todo # <<>> /\ plan # <<>>
  BY DEF Launch, TypeInv, ManagerInv
<1>3. OsOK'
  BY <1>1 DEF Launch, OsOK
<1>4. CASE \E p \in Pid : /\ \A m \in DOMAIN rows \ {Head(todo)} : rows[m].pid # p
                          /\ rows' = SetPid(Head(todo), p)
                          /\ todo' = Tail(todo) /\ held' = Append(held, p)
                          /\ UNCHANGED <<request, plan, stage, procs, reply>>
  <2>1. RowsOK'
    BY <1>1, <1>4, RowsPid
  <2>2. WorkOK'
    BY <1>1, <1>2, <1>4 DEF WorkOK
  <2>3. ControlOK' /\ stage' = "launch"
    BY <1>1, <1>2, <1>4 DEF ControlOK
  <2> QED
    BY <1>3, <2>1, <2>2, <2>3, TypeFromParts
<1>5. CASE Raise /\ (rows' = SetError(Head(todo)) \/ UNCHANGED rows)
  <2>1. RowsOK'
    BY <1>1, <1>5, RowsError DEF RowsOK
  <2> QED
    BY <1>1, <1>3, <1>5, <2>1, ControlRaised, TypeFromParts
<1>6. CASE /\ rows' = SetError(Head(todo))
           /\ Return(IF held = <<>> THEN Answer(FALSE, 0, TRUE) ELSE HeldAnswer)
  <2>1. RowsOK'
    BY <1>1, <1>6, RowsError
  <2> DEFINE answer == IF held = <<>> THEN Answer(FALSE, 0, TRUE) ELSE HeldAnswer
  <2>2. answer.ok
    BY DEF Answer, HeldAnswer
  <2> HIDE DEF answer
  <2>3. Return(answer) /\ UNCHANGED count
    BY <1>6 DEF answer, Launch
  <2>4. ControlOK' /\ WorkOK' /\ stage' = "prune"
    BY <1>1, <1>2, <2>2, <2>3, ControlReturned
  <2> QED
    BY <1>3, <2>1, <2>4, TypeFromParts
<1> QED
  BY <1>4, <1>5, <1>6 DEF Launch

LEMMA TypeDone ==
    ASSUME TypeInv, LaunchDone \/ StopDone
    PROVE  TypeOK' /\ CoverInv'
<1>1. RowsOK /\ OsOK /\ WorkOK /\ ControlOK /\ plan # <<>>
  BY TypeParts DEF TypeInv, LaunchDone, StopDone, ManagerInv
<1>2. RowsOK' /\ OsOK' /\ UNCHANGED count /\ Return(HeldAnswer)
  BY <1>1 DEF LaunchDone, StopDone, RowsOK, OsOK
<1>3. HeldAnswer.ok
  BY DEF HeldAnswer, Answer
<1>4. ControlOK' /\ WorkOK' /\ stage' = "prune"
  BY <1>1, <1>2, <1>3, ControlReturned
<1> QED
  BY <1>2, <1>4, TypeFromParts

(* Every row that is looked up is one with a process of the system. *)
LEMMA FoundHaveProcesses ==
    ASSUME procs \in Seq(Name), NEW found \in WithProcess
    PROVE  /\ found \in Seq(Name)
           /\ DOMAIN found = 1..Len(found)
           /\ \A i \in DOMAIN found : ~Gone(rows[found[i]].pid)
           /\ \A m \in Running : \E i \in DOMAIN found : found[i] = m
<1>1. Running \subseteq Name /\ IsFiniteSet(Running)
  <2>1. IsFiniteSet(Name)
    BY FS_Interval, ClientsAssumption DEF Name
  <2>2. Running \subseteq Name
    BY DEF Running, Range
  <2> QED
    BY <2>1, <2>2, FS_Subset
<1>2. found \in SetToSeqs(Running)
  BY DEF WithProcess
<1> DEFINE n == Cardinality(Running)
<1>3. /\ n \in Nat /\ found \in [1..n -> Running]
      /\ \A x \in Running : \E i \in 1..n : found[i] = x
  BY <1>1, <1>2, ListingIsComplete
<1> HIDE DEF n
<1>4. found \in Seq(Name) /\ Len(found) = n /\ DOMAIN found = 1..n
  BY <1>1, <1>3
<1>5. \A x \in Running : ~Gone(rows[x].pid)
  BY DEF Running
<1> QED
  BY <1>3, <1>4, <1>5

LEMMA TypeLook ==
    ASSUME TypeInv, Look
    PROVE  TypeOK' /\ CoverInv'
<1>1. RowsOK /\ OsOK /\ WorkOK /\ ControlOK /\ procs \in Seq(Name)
      /\ count' \in 0..MaxClients
  BY TypeParts DEF TypeInv, TypeOK, Look
<1>2. RowsOK' /\ OsOK' /\ stage = "look" /\ UNCHANGED count /\ plan # <<>>
  BY <1>1 DEF Look, RowsOK, OsOK, TypeInv, ManagerInv
<1>3. ASSUME NEW answer, Return(answer), answer.ok PROVE TypeOK' /\ CoverInv'
  BY <1>1, <1>2, <1>3, ControlReturned, TypeFromParts
<1>4. ASSUME NEW found \in WithProcess, todo' = found,
             held' = [i \in DOMAIN found |-> rows[found[i]].pid],
             Goto("kill"), UNCHANGED procs
      PROVE  TypeOK' /\ CoverInv'
  <2>1. found \in Seq(Name) /\ DOMAIN found = 1..Len(found)
        /\ \A i \in DOMAIN found : ~Gone(rows[found[i]].pid)
    BY <1>1, FoundHaveProcesses
  <2>2. \A i \in 1..Len(found) : rows[found[i]].pid \in Pid
    BY <2>1 DEF Gone
  <2>3. Len(found) \in Nat
    BY <2>1
  <2>4. held' \in Seq(Pid)
    BY <1>4, <2>1, <2>2, <2>3
  <2>5. WorkOK'
    BY <1>1, <1>4, <2>1, <2>4 DEF WorkOK
  <2>6. ControlOK' /\ stage' = "kill"
    BY <1>1, <1>4, ControlGoes DEF Goto
  <2> QED
    BY <1>2, <2>5, <2>6, TypeFromParts
<1>5. \A running, clients, event : Answer(running, clients, event).ok
  BY AnswersAreConsistent
<1> QED
  BY <1>3, <1>4, <1>5 DEF Look

LEMMA TypeKill ==
    ASSUME TypeInv, Kill
    PROVE  TypeOK' /\ CoverInv'
<1>1. RowsOK /\ OsOK /\ WorkOK /\ ControlOK /\ count' \in 0..MaxClients
  BY TypeParts DEF TypeInv, TypeOK, Kill
<1>2. stage = "kill" /\ todo # <<>> /\ UNCHANGED count
  BY DEF Kill
<1>3. OsOK'
  BY <1>1 DEF Kill, OsOK
<1>4. RowsOK'
  <2>1. CASE rows' = SetError(Head(todo))
    BY <1>1, <2>1, RowsError
  <2>2. CASE rows' = SetPid(Head(todo), NoPid)
    BY <1>1, <2>2, RowsPid
  <2> QED
    BY <2>1, <2>2 DEF Kill
<1>5. CASE Raise
  BY <1>1, <1>3, <1>4, <1>5, ControlRaised, TypeFromParts
<1>6. CASE todo' = Tail(todo) /\ UNCHANGED <<request, plan, stage, procs, held, reply>>
  <2>1. WorkOK' /\ ControlOK' /\ stage' = "kill"
    BY <1>1, <1>2, <1>6 DEF WorkOK, ControlOK
  <2> QED
    BY <1>3, <1>4, <2>1, TypeFromParts
<1> QED
  BY <1>5, <1>6 DEF Kill

LEMMA TypeEnvironment ==
    ASSUME TypeInv, Environment \/ UNCHANGED vars
    PROVE  TypeOK' /\ CoverInv'
<1>1. RowsOK /\ OsOK /\ WorkOK /\ ControlOK
  BY TypeParts DEF TypeInv
<1>2. CASE UNCHANGED <<rows, count, request, plan, stage, work, reply>> /\ OsOK'
  <2>1. Family' = Family
    BY <1>2 DEF Family
  <2>2. RowsOK' /\ WorkOK' /\ ControlOK'
    BY <1>1, <1>2 DEF RowsOK, WorkOK, ControlOK, work
  <2>3. CoverInv'
    BY <1>2, <2>1 DEF CoverInv, TypeInv, work
  <2> QED
    BY <1>2, <2>2, <2>3 DEF TypeOK, RowsOK, OsOK, WorkOK, ControlOK
<1>3. CASE Crash
  <2>1. RowsOK' /\ OsOK' /\ Raise /\ count' \in 0..MaxClients
    BY <1>1, <1>3 DEF Crash, RowsOK, OsOK
  <2> QED
    BY <1>1, <2>1, ControlRaised, TypeFromParts
<1>4. CASE (\E p \in Pid : Exit(p) \/ Reuse(p)) \/ UNCHANGED vars
  <2>1. UNCHANGED <<rows, count, request, plan, stage, work, reply>>
    BY <1>4 DEF Exit, Reuse, vars, work
  <2>2. OsOK'
    BY <1>1, <1>4 DEF Exit, Reuse, OsOK, vars
  <2> QED
    BY <1>2, <2>1, <2>2
<1> QED
  BY <1>3, <1>4 DEF Environment

LEMMA TypeStep ==
    ASSUME TypeInv, [Next]_vars
    PROVE  TypeInv'
<1>1. ManagerInv'
  BY ManagerStep DEF TypeInv
<1>2. TypeOK' /\ CoverInv'
  BY <1>1, TypeBegin, TypePrune, TypeFetch, TypeCreate, TypeCreated, TypeLaunch, TypeDone,
     TypeLook, TypeKill, TypeEnvironment
     DEF Next, Operate
<1> QED
  BY <1>1, <1>2 DEF TypeInv

LEMMA TypeInit == Init => TypeInv
<1> SUFFICES ASSUME Init PROVE TypeInv
  OBVIOUS
<1>1. RowsOK /\ OsOK /\ WorkOK
  BY DEF Init, RowsOK, OsOK, WorkOK
<1>2. ControlOK /\ CoverInv
  BY DEF Init, ControlOK, CoverInv, NoReply
<1> QED
  BY <1>1, <1>2, ManagerInit, TypeParts DEF TypeInv

(* The table keeps its constraints: a row's parent is a row and a pid is   *)
(* one row's, whatever starts, prunes, stops and crashes come together.    *)
THEOREM TypeCorrect == Spec => []TypeOK
<1>1. TypeInv => TypeOK
  BY DEF TypeInv
<1> QED
  BY <1>1, TypeInit, TypeStep, PTL DEF Spec

-----------------------------------------------------------------------------
(* What stop answers *)

(* While stop kills, it holds the pid of every process of the server that  *)
(* lives and that the table knows.                                         *)
HeldInv ==
    stage = "kill" =>
        \A n \in Family : rows[n].pid \in Alive => \E i \in DOMAIN held : held[i] = rows[n].pid

LEMMA AliveIsThere == \A p \in Alive : p \in Pid /\ ~Gone(p)
  BY DEF Alive, Gone

LEMMA HeldStep ==
    ASSUME TypeInv, HeldInv, [Next]_vars
    PROVE  HeldInv'
<1>1. CASE stage' # "kill"
  BY <1>1 DEF HeldInv
<1>2. CASE Look /\ stage' = "kill"
  <2>1. PICK found \in WithProcess : held' = [i \in DOMAIN found |-> rows[found[i]].pid]
    BY <1>2 DEF Look, Return
  <2>2. /\ stage = "look" /\ Family' = Family /\ Alive' = Alive /\ rows' = rows
        /\ \A n \in Family : \E i \in DOMAIN procs : procs[i] = n
        /\ procs \in Seq(Name)
    BY <1>2 DEF Look, Family, Alive, TypeInv, CoverInv
  <2>3. \A m \in Running : \E i \in DOMAIN found : found[i] = m
    BY <2>1, <2>2, FoundHaveProcesses
  <2>4. ASSUME NEW n \in Family, rows[n].pid \in Alive
        PROVE  \E i \in DOMAIN held' : held'[i] = rows[n].pid
    <3>1. n \in Running
      BY <2>2, <2>4, AliveIsThere DEF Running, Range
    <3> QED
      BY <2>1, <2>3, <3>1
  <2> QED
    BY <2>2, <2>4 DEF HeldInv
<1>3. ASSUME stage = "kill", held' = held, DOMAIN rows' = DOMAIN rows,
             \A n \in DOMAIN rows : /\ rows'[n].parent = rows[n].parent
                                    /\ rows'[n].pid \in {rows[n].pid, NoPid},
             Alive' \subseteq Alive
      PROVE  HeldInv'
  <2>1. Family' = Family
    BY <1>3 DEF Family
  <2>2. NoPid \notin Alive
    BY NoPidAssumption DEF Alive
  <2>3. \A n \in Family : rows'[n].pid \in Alive' => rows'[n].pid = rows[n].pid /\ rows[n].pid \in Alive
    BY <1>3, <2>2 DEF Family
  <2> QED
    BY <1>3, <2>1, <2>3 DEF HeldInv
<1>4. CASE Kill /\ stage' = "kill"
  <2> DEFINE n == Head(todo)
  <2>1. stage = "kill" /\ held' = held
    BY <1>4 DEF Kill, Raise
  <2>2. RowsOK /\ OsOK
    BY TypeParts DEF TypeInv
  <2>3. Alive' \subseteq Alive
    BY <1>4, <2>2 DEF Kill, Alive, OsOK
  <2>4. CASE rows' = SetError(n)
    BY <1>3, <2>1, <2>3, <2>4 DEF SetError
  <2>5. CASE rows' = SetPid(n, NoPid)
    <3>1. /\ DOMAIN rows' = DOMAIN rows
          /\ \A m \in DOMAIN rows : /\ rows'[m].pid = IF m = n THEN NoPid ELSE rows[m].pid
                                    /\ rows'[m].parent = rows[m].parent
      BY <2>2, <2>5 DEF SetPid, RowsOK, Row
    <3> QED
      BY <1>3, <2>1, <2>3, <3>1
  <2> QED
    BY <1>4, <2>4, <2>5 DEF Kill
<1>5. CASE stage = "kill" /\ UNCHANGED <<held, rows>> /\ Alive' \subseteq Alive
  BY <1>3, <1>5
<1>6. CASE (stage' = "kill" /\ \E p \in Pid : Exit(p) \/ Reuse(p)) \/ UNCHANGED vars
  <2>1. OsOK
    BY TypeParts DEF TypeInv
  <2>2. CASE UNCHANGED vars
    BY <2>2 DEF vars, HeldInv, Alive, Family
  <2>3. CASE stage' = "kill" /\ \E p \in Pid : Reuse(p)
    BY <2>3 DEF Reuse, TypeInv, ManagerInv
  <2>4. CASE stage' = "kill" /\ \E p \in Pid : Exit(p)
    <3>1. stage = "kill" /\ UNCHANGED <<held, rows>>
      BY <2>4 DEF Exit, work
    <3>2. Alive' \subseteq Alive
      BY <2>1, <2>4 DEF Exit, Alive, OsOK
    <3> QED
      BY <1>5, <3>1, <3>2
  <2> QED
    BY <1>6, <2>2, <2>3, <2>4
<1>7. CASE \E r \in Operations : Begin(r)
  BY <1>1, <1>7 DEF Begin, TypeInv, ManagerInv
<1>8. CASE Operate /\ ~Look /\ ~Kill
  BY <1>1, <1>8 DEF Operate, PruneSelect, PruneKill, PruneKilled, PruneDelete, PruneDone, Fetch,
     CreateClient, Created, Launch, LaunchDone, StopDone, Goto, Return, Raise
<1>9. CASE Crash
  BY <1>1, <1>9 DEF Crash, Raise
<1> QED
  BY <1>1, <1>2, <1>4, <1>6, <1>7, <1>8, <1>9 DEF Next, Operate, Environment

(* A set whose elements have places of their own among the numbers of T is *)
(* no larger than T.                                                       *)
LEMMA PlacesBound ==
    ASSUME NEW S, NEW T, IsFiniteSet(T), NEW f,
           \A x \in S : f[x] \in T,
           \A x, y \in S : f[x] = f[y] => x = y
    PROVE  IsFiniteSet(S) /\ Cardinality(S) <= Cardinality(T)
<1> DEFINE g == [x \in S |-> f[x]]
<1>1. g \in Injection(S, T)
  BY DEF Injection, IsInjective
<1> QED
  BY <1>1, FS_Injection

(* Survivors that the table knows are among the process objects the answer *)
(* looks at.                                                               *)
LEMMA AnswerCovers ==
    ASSUME TypeInv, HeldInv, stage = "kill"
    PROVE  Cardinality({n \in Family : rows[n].pid \in Alive})
             <= HeldAnswer.clients + (IF HeldAnswer.running THEN 1 ELSE 0)
<1> DEFINE S == {n \in Family : rows[n].pid \in Alive}
           T == {i \in DOMAIN held : ~Gone(held[i])}
           C == {i \in 2..Len(held) : ~Gone(held[i])}
<1>1. held \in Seq(Pid) /\ Len(held) \in Nat /\ DOMAIN held = 1..Len(held)
  BY DEF TypeInv, TypeOK
<1>2. IsFiniteSet(1..Len(held)) /\ IsFiniteSet(2..Len(held))
  BY <1>1, FS_Interval
<1>3. IsFiniteSet(T) /\ IsFiniteSet(C) /\ Cardinality(C) \in Nat
  BY <1>1, <1>2, FS_Subset, FS_CardinalityType
<1>4. Cardinality(S) <= Cardinality(T)
  <2> DEFINE f == [n \in S |-> CHOOSE i \in DOMAIN held : held[i] = rows[n].pid]
  <2>1. ASSUME NEW n \in S PROVE f[n] \in T /\ held[f[n]] = rows[n].pid
    <3>1. \E i \in DOMAIN held : held[i] = rows[n].pid
      BY <2>1 DEF HeldInv
    <3>2. f[n] \in DOMAIN held /\ held[f[n]] = rows[n].pid
      BY <3>1
    <3> QED
      BY <2>1, <3>2, AliveIsThere
  <2>2. ASSUME NEW m \in S, NEW n \in S, f[m] = f[n] PROVE m = n
    <3>1. rows[m].pid = rows[n].pid /\ rows[m].pid # NoPid
      BY <2>1, <2>2, NoPidAssumption DEF Alive
    <3>2. m \in DOMAIN rows /\ n \in DOMAIN rows
      BY DEF Family
    <3> QED
      BY <3>1, <3>2 DEF TypeInv, TypeOK
  <2> HIDE DEF f, S, T
  <2> QED
    BY <1>3, <2>1, <2>2, PlacesBound
<1>5. T \subseteq C \union (IF ~Gone(held[1]) THEN {1} ELSE {})
  BY <1>1
<1>6. Cardinality(T) <= Cardinality(C) + (IF ~Gone(held[1]) THEN 1 ELSE 0)
  <2> HIDE DEF S, T, C
  <2>1. CASE ~Gone(held[1])
    <3>1. IsFiniteSet(C \union {1}) /\ Cardinality(C \union {1}) <= Cardinality(C) + 1
          /\ Cardinality(C \union {1}) \in Nat
      BY <1>3, FS_AddElement, FS_CardinalityType
    <3>2. Cardinality(T) <= Cardinality(C \union {1}) /\ Cardinality(T) \in Nat
      BY <1>3, <1>5, <2>1, <3>1, FS_Subset, FS_CardinalityType
    <3> QED
      BY <1>3, <2>1, <3>1, <3>2
  <2>2. CASE Gone(held[1])
    <3>1. Cardinality(T) <= Cardinality(C)
      BY <1>3, <1>5, <2>2, FS_Subset
    <3> QED
      BY <1>3, <2>2, <3>1
  <2> QED
    BY <2>1, <2>2
<1>7. /\ HeldAnswer.clients = Cardinality(C)
      /\ (IF HeldAnswer.running THEN 1 ELSE 0) = (IF ~Gone(held[1]) THEN 1 ELSE 0)
  BY DEF HeldAnswer, Answer
<1>8. Cardinality(S) \in Nat /\ Cardinality(T) \in Nat
  <2>1. IsFiniteSet(S)
    BY FamilyFinite, FS_Subset DEF TypeInv, ManagerInv
  <2> QED
    BY <1>3, <2>1, FS_CardinalityType
<1> HIDE DEF S, T, C
<1>9. Cardinality(S) <= HeldAnswer.clients + (IF HeldAnswer.running THEN 1 ELSE 0)
  <2> DEFINE main == IF ~Gone(held[1]) THEN 1 ELSE 0
  <2>1. main \in Nat /\ Cardinality(T) <= Cardinality(C) + main
    BY <1>6
  <2> HIDE DEF main
  <2>2. Cardinality(S) <= Cardinality(C) + main
    BY <1>3, <1>4, <1>8, <2>1
  <2> QED
    BY <1>7, <2>2 DEF main
<1> QED
  BY <1>9 DEF S

LEMMA StopAnswerStep ==
    ASSUME TypeInv, HeldInv, [Next]_vars,
           plan # <<>>, Head(plan) = "stop", reply' # reply, reply'.ok
    PROVE  Cardinality({n \in Family : rows[n].pid \in Alive})
             <= reply'.clients + (IF reply'.running THEN 1 ELSE 0)
<1>1. ~Raise
  BY DEF Raise, NoReply
<1>2. CASE StopDone
  BY <1>2, AnswerCovers DEF StopDone, Return
<1>3. CASE Look
  <2>1. stage = "look" /\ procs \in Seq(Name)
        /\ \A n \in Family : \E i \in DOMAIN procs : procs[i] = n
    BY <1>3 DEF Look, TypeInv, CoverInv
  <2>2. <<>> \in WithProcess /\ reply' = Answer(FALSE, 0, FALSE)
    BY <1>3 DEF Look, Goto, Return
  <2>3. Running = {}
    BY <2>1, <2>2, FoundHaveProcesses
  <2>4. {n \in Family : rows[n].pid \in Alive} = {}
    BY <2>1, <2>3, AliveIsThere DEF Running, Range
  <2> QED
    BY <2>2, <2>4, FS_EmptySet DEF Answer
<1>4. CASE Launch \/ LaunchDone
  BY <1>4 DEF Launch, LaunchDone, TypeInv, ManagerInv
<1>5. CASE \E r \in Operations : Begin(r)
  BY <1>5 DEF Begin, TypeInv, ManagerInv
<1> QED
  BY <1>1, <1>2, <1>3, <1>4, <1>5 DEF Next, Operate, Environment, PruneSelect, PruneKill, PruneKilled,
     PruneDelete, PruneDone, Fetch, CreateClient, Created, Kill, Exit, Reuse, Crash, Goto, vars

(* When stop answers, every process of the server that lives and that the  *)
(* table knows is covered by what the answer reports running, whichever    *)
(* waits timed out and whichever processes exited on the way.              *)
THEOREM StopTellsTheTruthCorrect == Spec => StopTellsTheTruth
<1>1. Init => HeldInv
  BY DEF Init, HeldInv
<1>2. TypeInv /\ HeldInv /\ [Next]_vars => HeldInv'
  BY HeldStep
<1>3. TypeInv /\ HeldInv /\ [Next]_vars =>
         [plan # <<>> /\ Head(plan) = "stop" /\ reply' # reply /\ reply'.ok
             => Cardinality({n \in Family : rows[n].pid \in Alive})
                <= reply'.clients + (IF reply'.running THEN 1 ELSE 0)]_vars
  BY StopAnswerStep
<1> QED
  BY <1>1, <1>2, <1>3, TypeInit, TypeStep, PTL DEF Spec, StopTellsTheTruth
=============================================================================
