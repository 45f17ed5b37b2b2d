------------------------ MODULE ServerUpdateProofs ------------------------
(***************************************************************************)
(* Theorems about ServerUpdate for every set of servers, every finite set  *)
(* of mods, every modlist and size of batches, any number of concurrent    *)
(* updates and every choice of faults.                                     *)
(***************************************************************************)
EXTENDS ServerUpdate, FiniteSetTheorems, TLAPS

-----------------------------------------------------------------------------
(* Batches *)

LEMMA OrderListsAll ==
    ASSUME NEW S, IsFiniteSet(S), NEW order \in SetToSeqs(S)
    PROVE  /\ order \in Seq(S)
           /\ \A m \in S : \E k \in 1..Len(order) : order[k] = m
<1> DEFINE D == 1..Cardinality(S)
<1>1. Cardinality(S) \in Nat
  BY FS_CardinalityType
<1>2. order \in [D -> S] /\ \A i, k \in D : i # k => order[i] # order[k]
  BY DEF SetToSeqs
<1>3. order \in Injection(D, S)
  BY <1>2 DEF Injection, IsInjective
<1>4. Cardinality(D) = Cardinality(S)
  BY <1>1, FS_Interval
<1>5. order \in Surjection(D, S)
  BY <1>3, <1>4, FS_Injection
<1>6. order \in Seq(S) /\ Len(order) = Cardinality(S)
  BY <1>1, <1>2
<1> QED
  BY <1>5, <1>6 DEF Surjection

LEMMA DivisionFacts ==
    ASSUME NEW n \in Nat, NEW k \in 1..n, NEW d \in Nat \ {0}
    PROVE  /\ (k - 1) \div d \in Nat
           /\ (k - 1) \div d + 1 <= (n + d - 1) \div d
OBVIOUS

LEMMA BatchSizePositive ==
    ASSUME NEW n \in Nat \ {0}
    PROVE  BatchSize(n) \in Nat \ {0}
  BY BatchAssumption DEF BatchSize

(* No mod is lost when a modlist is cut into batches. *)
LEMMA BatchesCover ==
    ASSUME NEW S \in SUBSET Mod, NEW order \in SetToSeqs(S)
    PROVE  /\ Batches(order) \in Seq(SUBSET Mod)
           /\ \A m \in S : \E i \in DOMAIN Batches(order) : m \in Batches(order)[i]
<1>1. IsFiniteSet(S)
  BY ModAssumption, FS_Subset
<1>2. order \in Seq(S) /\ \A m \in S : \E k \in 1..Len(order) : order[k] = m
  BY <1>1, OrderListsAll
<1>3. CASE order = <<>>
  BY <1>2, <1>3 DEF Batches
<1>4. CASE order # <<>>
  <2> DEFINE n == Len(order)
             d == BatchSize(n)
             c == (n + d - 1) \div d
             batch(i) == {order[k] : k \in {l \in DOMAIN order : (l - 1) \div d = i - 1}}
  <2>1. n \in Nat \ {0} /\ DOMAIN order = 1..n
    BY <1>2, <1>4
  <2>2. d \in Nat \ {0}
    BY <2>1, BatchSizePositive
  <2>3. Batches(order) = [i \in 1..c |-> batch(i)]
    BY <1>4 DEF Batches
  <2> HIDE DEF d
  <2>4. c \in Nat
    BY <2>1, <2>2
  <2>5. \A i \in 1..c : batch(i) \in SUBSET Mod
    BY <1>2, <2>1
  <2>6. Batches(order) \in Seq(SUBSET Mod) /\ DOMAIN Batches(order) = 1..c
    BY <2>3, <2>4, <2>5
  <2>7. ASSUME NEW m \in S
        PROVE  \E i \in DOMAIN Batches(order) : m \in Batches(order)[i]
    <3>1. PICK k \in 1..n : order[k] = m
      BY <1>2
    <3> DEFINE i == (k - 1) \div d + 1
    <3>2. i \in 1..c /\ (k - 1) \div d = i - 1
      BY <2>1, <2>2, <2>4, DivisionFacts
    <3>3. m \in batch(i)
      BY <2>1, <3>1, <3>2
    <3> QED
      BY <2>3, <2>6, <3>2, <3>3
  <2> QED
    BY <2>6, <2>7
<1> QED
  BY <1>3, <1>4

-----------------------------------------------------------------------------
(* The process manager *)

Running(S) == \A s \in S : known[s] => instances[s] >= 1

(* What starting, stopping and undoing leave behind is well typed, and a   *)
(* recorded pid stays the pid of an instance.                              *)
ServersOK ==
    /\ instances \in [Server -> Nat]
    /\ known \in [Server -> BOOLEAN]
    /\ registered \subseteq Server
    /\ accounted \in [Server -> Int]
    /\ Running(Server)

(* The ways in which instances come to be accounted for. *)
LEMMA AccountTyped ==
    ASSUME ServersOK, instances' \in [Server -> Nat],
           UNCHANGED accounted \/ Accounted \/ \E late : AccountFor(late)
    PROVE  accounted' \in [Server -> Int]
  BY DEF ServersOK, Accounted, AccountFor

LEMMA StartKeepsServers ==
    ASSUME NEW S \in SUBSET Server, ServersOK, StartServers(S),
           UNCHANGED accounted \/ Accounted
    PROVE  ServersOK'
<1>1. PICK failing \in SUBSET S :
        /\ instances' = [s \in Server |-> IF s \in S \ failing THEN instances[s] + 1 ELSE instances[s]]
        /\ known' = [s \in Server |-> known[s] \/ s \in S \ failing]
        /\ registered' = registered \union S
  BY DEF StartServers
<1>2. instances' \in [Server -> Nat]
  BY <1>1 DEF ServersOK
<1>3. known' \in [Server -> BOOLEAN]
  BY <1>1
<1>4. ASSUME NEW s \in Server, known'[s] PROVE instances'[s] >= 1
  <2>1. CASE s \in S \ failing
    BY <1>1, <2>1 DEF ServersOK
  <2>2. CASE s \notin S \ failing
    <3>1. known[s]
      BY <1>1, <1>4, <2>2
    <3> QED
      BY <1>1, <2>2, <3>1 DEF ServersOK, Running
  <2> QED
    BY <2>1, <2>2
<1>5. accounted' \in [Server -> Int]
  BY <1>2, AccountTyped
<1> QED
  BY <1>1, <1>2, <1>3, <1>4, <1>5 DEF ServersOK, Running

LEMMA StopKeepsServers ==
    ASSUME NEW S \in SUBSET Server, NEW late, ServersOK, StopServers(S, late),
           Accounted \/ AccountFor(late)
    PROVE  ServersOK'
<1>1. instances' \in [Server -> Nat]
  BY DEF ServersOK, Running, StopServers
<1>2. known' \in [Server -> BOOLEAN]
  BY DEF StopServers
<1>3. registered' \subseteq Server
  BY DEF ServersOK, StopServers
<1>4. ASSUME NEW s \in Server, known'[s] PROVE instances'[s] >= 1
  <2>1. known[s] /\ s \notin S \ late
    BY <1>4 DEF StopServers
  <2> QED
    BY <2>1 DEF ServersOK, Running, StopServers
<1>5. accounted' \in [Server -> Int]
  BY <1>1, AccountTyped
<1> QED
  BY <1>1, <1>2, <1>3, <1>4, <1>5 DEF ServersOK, Running

LEMMA UpdateStopsKeepsServers ==
    ASSUME NEW S \in SUBSET Server, ServersOK, UpdateStops(S)
    PROVE  ServersOK'
  BY StopKeepsServers DEF UpdateStops

LEMMA UndoKeepsServers ==
    ASSUME NEW j \in Job, NEW S \in SUBSET Server, ServersOK, UndoStops(j, S)
    PROVE  ServersOK'
<1>1. PICK late \in Late(S), failing \in SUBSET {s \in S : known[s]} :
        /\ instances' = [s \in Server |->
                IF s \in failing \ late THEN instances[s] - 1
                ELSE IF s \in late \ failing THEN instances[s] + 1
                ELSE instances[s]]
        /\ known' = [s \in Server |-> known[s] /\ s \notin failing \ late]
        /\ AccountFor(late)
  BY DEF UndoStops
<1>2. instances' \in [Server -> Nat]
  BY <1>1 DEF ServersOK, Running
<1>3. known' \in [Server -> BOOLEAN]
  BY <1>1
<1>4. registered' \subseteq Server
  BY DEF ServersOK, UndoStops
<1>5. ASSUME NEW s \in Server, known'[s] PROVE instances'[s] >= 1
  <2>1. known[s] /\ s \notin failing \ late
    BY <1>1, <1>5
  <2> QED
    BY <1>1, <2>1 DEF ServersOK, Running
<1>6. accounted' \in [Server -> Int]
  BY <1>1, <1>2, AccountTyped
<1> QED
  BY <1>2, <1>3, <1>4, <1>5, <1>6 DEF ServersOK, Running

LEMMA ExitKeepsServers ==
    ASSUME NEW x \in Server, ServersOK, Exit(x)
    PROVE  ServersOK'
<1>1. instances' = [s \in Server |-> IF s = x THEN instances[s] - 1 ELSE instances[s]]
      /\ instances[x] > 0
  BY DEF Exit, ServersOK
<1>2. instances' \in [Server -> Nat]
  BY <1>1 DEF ServersOK
<1>3. known' = known \/ known' = [known EXCEPT ![x] = FALSE]
  BY DEF Exit
<1>4. known' \in [Server -> BOOLEAN]
  BY <1>3 DEF ServersOK
<1>5. ASSUME NEW s \in Server, known'[s] PROVE instances'[s] >= 1
  <2>1. CASE s = x
    BY <1>2, <1>5, <2>1 DEF Exit
  <2>2. CASE s # x
    <3>1. known[s]
      BY <1>3, <1>5, <2>2 DEF ServersOK
    <3> QED
      BY <1>1, <2>2, <3>1 DEF ServersOK, Running
  <2> QED
    BY <2>1, <2>2
<1>6. accounted' \in [Server -> Int]
  BY <1>2, AccountTyped DEF Exit
<1>7. registered' \subseteq Server
  BY DEF Exit, ServersOK
<1> QED
  BY <1>2, <1>4, <1>5, <1>6, <1>7 DEF ServersOK, Running

(* The rest of the invariant, about records and updates. *)
JobType == [at : Stage, affected : SUBSET Server, stopped : SUBSET Server,
            details : Details, todo : Seq(SUBSET Mod)]

ModsOK ==
    /\ workshop \in [Mod -> 0..MaxVersion]
    /\ installed \in [Mod -> 0..MaxVersion]
    /\ record \in [Mod -> -1..MaxVersion]
    /\ RecordNeverAhead

JobOK(j) ==
    /\ job[j] \in JobType
    /\ job[j].stopped \subseteq job[j].affected
    /\ DetailsInv(j)

JobsOK ==
    /\ job = [j \in Job |-> job[j]]
    /\ \A j \in Job : JobOK(j)

LEMMA InvParts == Inv <=> ServersOK /\ ModsOK /\ JobsOK
  BY DEF Inv, TypeOK, ServersOK, Running, ModsOK, JobsOK, JobOK, JobType

LEMMA PartsPreserved ==
    ASSUME ServersOK', ModsOK', JobsOK'
    PROVE  Inv'
  BY DEF Inv, TypeOK, ServersOK, Running, ModsOK, JobsOK, JobOK, JobType

-----------------------------------------------------------------------------
(* One update moves, the versions only grow *)

Growing ==
    \A m \in Mod : workshop[m] <= workshop'[m] /\ installed[m] <= installed'[m]

LEMMA DetailsTyped ==
    ASSUME NEW details \in Details
    PROVE  /\ DOMAIN details \subseteq Mod
           /\ \A m \in DOMAIN details : details[m] \in 0..MaxVersion
  BY DEF Details

LEMMA OthersKeep ==
    ASSUME NEW j \in Job, JobOK(j), ModsOK, ModsOK', Growing, job'[j] = job[j]
    PROVE  JobOK(j)'
<1>1. job'[j] \in JobType /\ job'[j].stopped \subseteq job'[j].affected
  BY DEF JobOK
<1>2. ASSUME NEW m \in DOMAIN job'[j].details
      PROVE  /\ job'[j].details[m] <= workshop'[m]
             /\ job'[j].at = "download" => ToCome(j, m)' \/ job'[j].details[m] <= installed'[m]
  <2>1. m \in Mod /\ job[j].details[m] \in Int
    BY <1>2, DetailsTyped, BoundsAssumption DEF JobOK, JobType
  <2>2. /\ workshop[m] \in Int /\ workshop'[m] \in Int
        /\ installed[m] \in Int /\ installed'[m] \in Int
    BY <2>1, BoundsAssumption DEF ModsOK
  <2>3. ToCome(j, m) => ToCome(j, m)'
    BY DEF ToCome
  <2> QED
    BY <1>2, <2>1, <2>2, <2>3 DEF JobOK, DetailsInv, Growing
<1> QED
  BY <1>1, <1>2 DEF JobOK, DetailsInv, JobType

LEMMA EmptyDetails == << >> \in Details
<1>1. << >> \in [{} -> 0..MaxVersion]
  OBVIOUS
<1> QED
  BY <1>1 DEF Details

LEMMA NoJobOK ==
    ASSUME NEW j \in Job, job'[j] = NoJob
    PROVE  JobOK(j)'
<1>1. NoJob \in JobType
  BY EmptyDetails DEF NoJob, JobType, Stage
<1> QED
  BY <1>1 DEF JobOK, NoJob, DetailsInv

LEMMA JobStep ==
    ASSUME NEW j \in Job, NEW new, JobsOK, ModsOK, ModsOK', Growing,
           job' = [job EXCEPT ![j] = new],
           job'[j] = new => JobOK(j)'
    PROVE  JobsOK'
<1>1. job' = [i \in Job |-> IF i = j THEN new ELSE job[i]]
  BY DEF JobsOK
<1>2. \A i \in Job : JobOK(i)'
  BY <1>1, OthersKeep DEF JobsOK
<1> QED
  BY <1>1, <1>2 DEF JobsOK

(* Mods are downloaded in the version the workshop has now. *)
LEMMA InstalledGrows ==
    ASSUME NEW S, ModsOK, workshop' = workshop, record' = record,
           installed' = [m \in Mod |-> IF m \in S THEN workshop[m] ELSE installed[m]]
    PROVE  ModsOK' /\ Growing
<1>1. ASSUME NEW m \in Mod
      PROVE  /\ installed'[m] \in 0..MaxVersion
             /\ record'[m] <= installed'[m] /\ installed'[m] <= workshop'[m]
             /\ workshop[m] <= workshop'[m] /\ installed[m] <= installed'[m]
  <2>1. /\ workshop[m] \in 0..MaxVersion /\ installed[m] \in 0..MaxVersion
        /\ record[m] \in -1..MaxVersion
        /\ record[m] <= installed[m] /\ installed[m] <= workshop[m]
    BY DEF ModsOK, RecordNeverAhead
  <2>2. installed'[m] = workshop[m] \/ installed'[m] = installed[m]
    OBVIOUS
  <2> QED
    BY <2>1, <2>2, BoundsAssumption
<1> QED
  BY <1>1 DEF ModsOK, RecordNeverAhead, Growing

LEMMA NothingGrows ==
    ASSUME ModsOK, UNCHANGED mods
    PROVE  ModsOK' /\ Growing
  BY BoundsAssumption DEF ModsOK, RecordNeverAhead, Growing, mods

-----------------------------------------------------------------------------
(* The steps *)

LEMMA UserStep ==
    ASSUME Inv, NEW s \in Server, UserStart(s) \/ UserStop(s) \/ Exit(s)
    PROVE  Inv'
<1>1. ServersOK'
  BY InvParts, StartKeepsServers, StopKeepsServers, ExitKeepsServers DEF UserStart, UserStop
<1>2. ModsOK' /\ Growing
  BY InvParts, NothingGrows DEF UserStart, UserStop, Exit
<1>3. JobsOK'
  BY <1>2, InvParts, OthersKeep DEF UserStart, UserStop, Exit, JobsOK
<1> QED
  BY <1>1, <1>2, <1>3, PartsPreserved

LEMMA BeginServerUpdateStep ==
    ASSUME Inv, NEW j \in Job, NEW s \in Server, BeginServerUpdate(j, s)
    PROVE  Inv'
<1> DEFINE new == [at |-> "app", affected |-> {s}, stopped |-> {x \in {s} : known[x]},
                   details |-> << >>, todo |-> <<>>]
<1>1. ServersOK'
  BY InvParts, UpdateStopsKeepsServers DEF BeginServerUpdate
<1>2. ModsOK' /\ Growing
  BY InvParts, NothingGrows DEF BeginServerUpdate
<1>3. new \in JobType
  BY EmptyDetails DEF JobType, Stage
<1>4. job'[j] = new => JobOK(j)'
  BY <1>3 DEF JobOK, DetailsInv
<1>5. JobsOK'
  BY <1>2, <1>4, InvParts, JobStep DEF BeginServerUpdate
<1> QED
  BY <1>1, <1>2, <1>5, PartsPreserved

LEMMA EndServerUpdateStep ==
    ASSUME Inv, NEW j \in Job, EndServerUpdate(j)
    PROVE  Inv'
<1>1. job[j].stopped \in SUBSET Server
  BY InvParts DEF JobsOK, JobOK, JobType
<1>2. ServersOK'
  BY <1>1, InvParts, StartKeepsServers DEF EndServerUpdate
<1>3. ModsOK' /\ Growing
  BY InvParts, NothingGrows DEF EndServerUpdate
<1>4. JobsOK'
  BY <1>3, InvParts, NoJobOK, JobStep DEF EndServerUpdate
<1> QED
  BY <1>2, <1>3, <1>4, PartsPreserved

(* What the workshop answers is not newer than the workshop. *)
LEMMA BeginModUpdateStep ==
    ASSUME Inv, NEW j \in Job, NEW s \in Server, BeginModUpdate(j, s)
    PROVE  Inv'
<1> DEFINE details == [m \in Modlist[s] |-> workshop[m]]
           new == [at |-> "fetch", affected |-> {s}, stopped |-> {},
                   details |-> details, todo |-> <<>>]
<1>1. ServersOK'
  BY InvParts DEF BeginModUpdate, servers, ServersOK, Running
<1>2. ModsOK' /\ Growing
  BY InvParts, NothingGrows DEF BeginModUpdate
<1>3. Modlist[s] \subseteq Mod /\ workshop \in [Mod -> 0..MaxVersion]
  BY InvParts, ModlistAssumption DEF ModsOK
<1>4. details \in [Modlist[s] -> 0..MaxVersion]
  BY <1>3
<1>5. details \in Details
  BY <1>3, <1>4 DEF Details
<1>6. new \in JobType
  BY <1>5 DEF JobType, Stage
<1>7. \A m \in Modlist[s] : details[m] <= workshop'[m]
  BY <1>3, BoundsAssumption DEF BeginModUpdate, mods
<1>8. new.details = details /\ new.at = "fetch" /\ new.stopped = {}
  OBVIOUS
<1> HIDE DEF new, details
<1>9. job'[j] = new => JobOK(j)'
  <2> SUFFICES ASSUME job'[j] = new PROVE JobOK(j)'
    OBVIOUS
  <2>1. DOMAIN details = Modlist[s]
    BY <1>4
  <2> QED
    BY <1>6, <1>7, <1>8, <2>1 DEF JobOK, DetailsInv
<1>10. JobsOK'
  BY <1>2, <1>9, InvParts, JobStep DEF BeginModUpdate, new, details
<1> QED
  BY <1>1, <1>2, <1>10, PartsPreserved

LEMMA ModDetailsStep ==
    ASSUME Inv, NEW j \in Job, ModDetails(j)
    PROVE  Inv'
<1> DEFINE found == OutOfDate(job[j].details)
           affected == Affected(found)
           failing == {s \in affected : ~Answers(s)}
           details == Restrict(job[j].details, found)
<1>1. /\ job[j].details \in Details
      /\ DetailsInv(j)
      /\ DOMAIN job[j].details \subseteq Mod
  BY InvParts, DetailsTyped DEF JobsOK, JobOK, JobType
<1>2. ModsOK' /\ Growing
  BY InvParts, NothingGrows DEF ModDetails
<1>3. found \subseteq DOMAIN job[j].details /\ affected \in SUBSET Server
  BY DEF OutOfDate, Affected
<1>4. CASE failing = {}
  <2>1. PICK order \in SetToSeqs(found) :
          /\ UpdateStops(affected)
          /\ job' = [job EXCEPT ![j] =
                [at |-> "download", affected |-> affected,
                 stopped |-> {s \in affected : known[s]},
                 details |-> details, todo |-> Batches(order)]]
    BY <1>4 DEF ModDetails
  <2> DEFINE new == [at |-> "download", affected |-> affected,
                     stopped |-> {s \in affected : known[s]},
                     details |-> details, todo |-> Batches(order)]
  <2>2. ServersOK'
    BY <1>3, <2>1, InvParts, UpdateStopsKeepsServers
  <2>3. /\ DOMAIN details = found
        /\ \A m \in found : details[m] = job[j].details[m] /\ details[m] \in 0..MaxVersion
    BY <1>1, <1>3, DetailsTyped DEF Restrict
  <2>4. details \in Details
    <3>1. details \in [found -> 0..MaxVersion]
      BY <2>3 DEF Restrict
    <3> QED
      BY <1>1, <1>3, <3>1 DEF Details
  <2>5. /\ Batches(order) \in Seq(SUBSET Mod)
        /\ \A m \in found : \E i \in DOMAIN Batches(order) : m \in Batches(order)[i]
    BY <1>1, <1>3, BatchesCover
  <2>6. \A m \in found : details[m] <= workshop'[m]
    BY <1>1, <1>3, <2>3 DEF DetailsInv, ModDetails, mods
  <2> HIDE DEF found, affected, details
  <2>7. new \in JobType
    BY <1>3, <2>4, <2>5 DEF JobType, Stage
  <2>8. job'[j] = new => JobOK(j)'
    BY <2>3, <2>5, <2>6, <2>7 DEF JobOK, DetailsInv, ToCome
  <2>9. JobsOK'
    BY <1>2, <2>1, <2>8, InvParts, JobStep
  <2> QED
    BY <1>2, <2>2, <2>9, PartsPreserved
<1>5. CASE failing # {}
  <2>1. PICK before \in SUBSET (affected \ failing) :
          \/ UpdateStops(before) /\ job' = [job EXCEPT ![j] = NoJob]
          \/ UndoStops(j, before)
    BY <1>5 DEF ModDetails
  <2>2. before \in SUBSET Server
    BY <1>3
  <2>3. ServersOK'
    BY <2>1, <2>2, InvParts, UpdateStopsKeepsServers, UndoKeepsServers
  <2>4. job' = [job EXCEPT ![j] = NoJob]
    BY <2>1 DEF UndoStops
  <2>5. JobsOK'
    BY <1>2, <2>4, InvParts, NoJobOK, JobStep
  <2> QED
    BY <1>2, <2>3, <2>5, PartsPreserved
<1> QED
  BY <1>4, <1>5

(* A finished batch is on disk as new as the workshop has it. *)
LEMMA DownloadStep ==
    ASSUME Inv, NEW j \in Job, Download(j)
    PROVE  Inv'
<1> DEFINE batch == Head(job[j].todo)
           new == [job[j] EXCEPT !.todo = Tail(@)]
<1>1. ServersOK'
  BY InvParts DEF Download, servers, ServersOK, Running
<1>2. ModsOK' /\ Growing
  <2>1. workshop' = workshop /\ record' = record /\ ModsOK
    BY InvParts DEF Download
  <2>2. installed' = [m \in Mod |-> IF m \in batch THEN workshop[m] ELSE installed[m]]
    BY DEF Download
  <2> QED
    BY <2>1, <2>2, InstalledGrows
<1>3. job[j] \in JobType /\ job[j].stopped \subseteq job[j].affected /\ DetailsInv(j)
  BY InvParts DEF JobsOK, JobOK
<1>4. new \in JobType /\ new.details = job[j].details /\ new.todo = Tail(job[j].todo)
      /\ new.stopped = job[j].stopped /\ new.affected = job[j].affected
      /\ new.at = "download"
  <2>1. Tail(job[j].todo) \in Seq(SUBSET Mod)
    BY <1>3 DEF JobType, Download
  <2>2. /\ job[j].at = "download" /\ job[j].at \in Stage
        /\ job[j].affected \in SUBSET Server /\ job[j].stopped \in SUBSET Server
        /\ job[j].details \in Details
    BY <1>3 DEF JobType, Download
  <2>3. ASSUME NEW r \in JobType, NEW rest \in Seq(SUBSET Mod)
        PROVE  /\ [r EXCEPT !.todo = rest] \in JobType
               /\ [r EXCEPT !.todo = rest].todo = rest
               /\ [r EXCEPT !.todo = rest].details = r.details
               /\ [r EXCEPT !.todo = rest].stopped = r.stopped
               /\ [r EXCEPT !.todo = rest].affected = r.affected
               /\ [r EXCEPT !.todo = rest].at = r.at
    BY DEF JobType
  <2> QED
    BY <1>3, <2>1, <2>2, <2>3
<1>5. ASSUME NEW m \in DOMAIN job[j].details
      PROVE  /\ job[j].details[m] <= workshop'[m]
             /\ \/ \E i \in DOMAIN Tail(job[j].todo) : m \in Tail(job[j].todo)[i]
                \/ job[j].details[m] <= installed'[m]
  <2>1. m \in Mod /\ job[j].details[m] \in Int
    BY <1>3, DetailsTyped, BoundsAssumption DEF JobType
  <2>2. /\ workshop[m] \in Int /\ workshop'[m] = workshop[m]
        /\ installed[m] \in Int /\ installed'[m] \in Int
        /\ installed[m] <= installed'[m]
    BY <1>2, <2>1, InvParts, BoundsAssumption DEF ModsOK, Growing, Download
  <2>3. job[j].details[m] <= workshop[m]
    BY <1>3, <1>5 DEF DetailsInv
  <2>4. CASE m \in batch
    BY <2>1, <2>2, <2>3, <2>4 DEF Download
  <2>5. CASE ToCome(j, m) /\ m \notin batch
    <3>1. PICK i \in DOMAIN job[j].todo : m \in job[j].todo[i]
      BY <2>5 DEF ToCome
    <3>2. job[j].todo \in Seq(SUBSET Mod) /\ job[j].todo # <<>> /\ i # 1
      BY <1>3, <2>5, <3>1 DEF JobType, Download
    <3>3. i - 1 \in DOMAIN Tail(job[j].todo) /\ Tail(job[j].todo)[i - 1] = job[j].todo[i]
      BY <3>1, <3>2
    <3> QED
      BY <2>2, <2>3, <3>1, <3>3
  <2>6. CASE job[j].details[m] <= installed[m]
    BY <2>1, <2>2, <2>3, <2>6
  <2> QED
    BY <1>3, <1>5, <2>4, <2>5, <2>6 DEF DetailsInv, Download
<1>6. job' = [job EXCEPT ![j] = new]
  BY DEF Download
<1> HIDE DEF new
<1>7. job'[j] = new => JobOK(j)'
  BY <1>3, <1>4, <1>5 DEF JobOK, DetailsInv, ToCome
<1>8. JobsOK'
  BY <1>2, <1>6, <1>7, InvParts, JobStep
<1> QED
  BY <1>1, <1>2, <1>8, PartsPreserved

(* The versions recorded are on disk: no batch is left to come. *)
LEMMA EndModUpdateStep ==
    ASSUME Inv, NEW j \in Job, EndModUpdate(j)
    PROVE  Inv'
<1>1. job[j] \in JobType /\ DetailsInv(j)
  BY InvParts DEF JobsOK, JobOK
<1>2. ServersOK'
  BY <1>1, InvParts, StartKeepsServers DEF EndModUpdate, JobType
<1>3. ASSUME NEW m \in Mod
      PROVE  record'[m] \in -1..MaxVersion /\ record'[m] <= installed[m]
  <2>1. record[m] \in -1..MaxVersion /\ record[m] <= installed[m]
    BY InvParts DEF ModsOK, RecordNeverAhead
  <2>2. CASE m \in DOMAIN job[j].details
    <3>1. job[j].details[m] \in 0..MaxVersion
      BY <1>1, <2>2, DetailsTyped DEF JobType
    <3>2. job[j].details[m] <= installed[m]
      BY <1>1, <2>2 DEF DetailsInv, ToCome, EndModUpdate
    <3>3. record'[m] = job[j].details[m]
      BY <2>2 DEF EndModUpdate
    <3> QED
      BY <3>1, <3>2, <3>3, BoundsAssumption
  <2>3. CASE m \notin DOMAIN job[j].details
    BY <2>1, <2>3 DEF EndModUpdate
  <2> QED
    BY <2>2, <2>3
<1>4. ModsOK' /\ Growing
  <2>1. /\ workshop' = workshop /\ installed' = installed
        /\ record' = [m \in Mod |-> record'[m]]
    BY DEF EndModUpdate
  <2>2. record' \in [Mod -> -1..MaxVersion]
    BY <1>3, <2>1
  <2> QED
    BY <1>3, <2>1, <2>2, InvParts, BoundsAssumption DEF ModsOK, RecordNeverAhead, Growing
<1>5. JobsOK'
  BY <1>4, InvParts, NoJobOK, JobStep DEF EndModUpdate
<1> QED
  BY <1>2, <1>4, <1>5, PartsPreserved

LEMMA SteamFailsStep ==
    ASSUME Inv, NEW j \in Job, SteamFails(j)
    PROVE  Inv'
<1>1. ServersOK'
  BY InvParts DEF SteamFails, servers, ServersOK, Running
<1>2. PICK arrived : installed' = [m \in Mod |-> IF m \in arrived THEN workshop[m] ELSE installed[m]]
  BY DEF SteamFails
<1>3. ModsOK' /\ Growing
  BY <1>2, InvParts, InstalledGrows DEF SteamFails
<1>4. JobsOK'
  BY <1>3, InvParts, NoJobOK, JobStep DEF SteamFails
<1> QED
  BY <1>1, <1>3, <1>4, PartsPreserved

LEMMA CrashStep ==
    ASSUME Inv, Crash
    PROVE  Inv'
<1>1. ServersOK'
  BY InvParts DEF Crash, servers, ServersOK, Running
<1>2. ModsOK'
  BY InvParts, NothingGrows DEF Crash
<1>3. JobsOK'
  BY NoJobOK DEF Crash, JobsOK
<1> QED
  BY <1>1, <1>2, <1>3, PartsPreserved

LEMMA ReleaseStep ==
    ASSUME Inv, NEW m \in Mod, Release(m)
    PROVE  Inv'
<1>1. ServersOK'
  BY InvParts DEF Release, servers, ServersOK, Running
<1>2. ModsOK' /\ Growing
  BY InvParts, BoundsAssumption DEF Release, ModsOK, RecordNeverAhead, Growing
<1>3. JobsOK'
  BY <1>2, InvParts, OthersKeep DEF Release, JobsOK
<1> QED
  BY <1>1, <1>2, <1>3, PartsPreserved

-----------------------------------------------------------------------------
(* Theorems *)

LEMMA InvInit == Init => Inv
<1> SUFFICES ASSUME Init PROVE Inv
  OBVIOUS
<1>1. ServersOK
  <2>1. instances \in [Server -> Nat] /\ known \in [Server -> BOOLEAN] /\ registered \subseteq Server
    BY DEF Init
  <2> QED
    BY <2>1 DEF Init, ServersOK, Running
<1>2. ModsOK
  BY BoundsAssumption DEF Init, ModsOK, RecordNeverAhead
<1>3. NoJob \in JobType /\ NoJob.details = << >> /\ NoJob.stopped = {}
  BY EmptyDetails DEF NoJob, JobType, Stage
<1>4. JobsOK
  BY <1>3 DEF Init, JobsOK, JobOK, DetailsInv
<1> QED
  BY <1>1, <1>2, <1>4, InvParts

LEMMA InvNext == Inv /\ [Next]_vars => Inv'
<1> SUFFICES ASSUME Inv, [Next]_vars PROVE Inv'
  OBVIOUS
<1>1. ASSUME NEW j \in Job, NEW s \in Server, BeginServerUpdate(j, s) \/ BeginModUpdate(j, s)
      PROVE  Inv'
  BY <1>1, BeginServerUpdateStep, BeginModUpdateStep
<1>2. ASSUME NEW j \in Job, Proceed(j) \/ SteamFails(j)
      PROVE  Inv'
  BY <1>2, EndServerUpdateStep, ModDetailsStep, DownloadStep, EndModUpdateStep, SteamFailsStep
     DEF Proceed
<1>3. ASSUME NEW s \in Server, UserStart(s) \/ UserStop(s) \/ Exit(s)
      PROVE  Inv'
  BY <1>3, UserStep
<1>4. ASSUME NEW m \in Mod, Release(m)
      PROVE  Inv'
  BY <1>4, ReleaseStep
<1>5. CASE Crash
  BY <1>5, CrashStep
<1>6. CASE UNCHANGED vars
  BY <1>6 DEF vars, mods, servers, Inv, TypeOK, RecordNeverAhead, DetailsInv, ToCome
<1> QED
  BY <1>1, <1>2, <1>3, <1>4, <1>5, <1>6 DEF Next

(* What an update knows of a mod is never newer than the workshop, and,    *)
(* once its batch is over, than the disk (update_mods).                    *)
THEOREM UpdateInvariant == Spec => []Inv
  BY InvInit, InvNext, PTL DEF Spec

(* Every variable of ServerUpdate keeps its type.                          *)
THEOREM TypeCorrect == Spec => []TypeOK
<1>1. Inv => TypeOK
  BY DEF Inv
<1> QED
  BY UpdateInvariant, <1>1, PTL

(* The record of a mod never claims a version that is not on disk, for any *)
(* number of concurrent updates, any size of batches and any faults.       *)
THEOREM RecordNeverAheadCorrect == Spec => []RecordNeverAhead
<1>1. Inv => RecordNeverAhead
  BY DEF Inv
<1> QED
  BY UpdateInvariant, <1>1, PTL

-----------------------------------------------------------------------------
(* Updates add no instance of a server that is not accounted for *)

(* The updates that will start s again. *)
Stoppers(s) == {j \in Job : s \in job[j].stopped}
Owed(s) == Cardinality(Stoppers(s))

(* What runs of a server, and what updates will start of it, is accounted  *)
(* for; an update that awaits the workshop, or is over, has stopped none.  *)
Owing ==
    /\ \A s \in Server : instances[s] + Owed(s) <= accounted[s]
    /\ \A j \in Job : job[j].at \in {"none", "fetch"} => job[j].stopped = {}

LEMMA JobTyped ==
    ASSUME Inv
    PROVE  /\ job = [j \in Job |-> job[j]]
           /\ \A j \in Job : job[j] \in JobType
           /\ \A s \in Server : /\ instances[s] \in Nat /\ accounted[s] \in Int
                                /\ known[s] => instances[s] >= 1
  BY InvParts DEF JobsOK, JobOK, ServersOK, Running

LEMMA NoJobHoldsNothing == NoJob.stopped = {} /\ NoJob.at = "none"
  BY DEF NoJob

(* One update goes on, and the others keep what they stopped. *)
LEMMA OneJobChanges ==
    ASSUME Inv, NEW j \in Job, NEW new, job' = [job EXCEPT ![j] = new]
    PROVE  /\ job'[j] = new
           /\ \A i \in Job : i # j => job'[i] = job[i]
  BY JobTyped

LEMMA OwedTyped == \A s \in Server : Owed(s) \in Nat /\ Owed(s)' \in Nat
<1>1. ASSUME NEW s \in Server
      PROVE  IsFiniteSet(Stoppers(s)) /\ IsFiniteSet(Stoppers(s)')
  BY JobAssumption, FS_Subset DEF Stoppers
<1> QED
  BY <1>1, FS_CardinalityType DEF Owed

(* When one update goes on, it alone may come to owe a start, or not to.   *)
LEMMA OneOwes ==
    ASSUME Inv, NEW j \in Job, NEW new, job' = [job EXCEPT ![j] = new], NEW s \in Server
    PROVE  Owed(s)' = Owed(s) + (IF s \in new.stopped THEN 1 ELSE 0)
                              - (IF s \in job[j].stopped THEN 1 ELSE 0)
<1> DEFINE rest == Stoppers(s) \ {j}
<1>1. job'[j] = new /\ \A i \in Job : i # j => job'[i] = job[i]
  BY OneJobChanges
<1>2. IsFiniteSet(Stoppers(s)) /\ IsFiniteSet(rest)
  BY JobAssumption, FS_Subset DEF Stoppers
<1>3. Cardinality(rest) = Owed(s) - (IF s \in job[j].stopped THEN 1 ELSE 0)
  <2>1. j \in Stoppers(s) <=> s \in job[j].stopped
    BY DEF Stoppers
  <2> QED
    BY <1>2, <2>1, FS_RemoveElement, OwedTyped DEF Owed
<1>4. Stoppers(s)' = IF s \in new.stopped THEN rest \union {j} ELSE rest
  BY <1>1 DEF Stoppers
<1>5. Cardinality(rest) \in Nat /\ Owed(s) \in Nat
  BY <1>2, FS_CardinalityType, OwedTyped
<1>6. CASE s \in new.stopped
  <2>1. Owed(s)' = Cardinality(rest) + 1
    BY <1>2, <1>4, <1>6, FS_AddElement DEF Owed
  <2> QED
    BY <1>3, <1>5, <1>6, <2>1
<1>7. CASE s \notin new.stopped
  <2>1. Owed(s)' = Cardinality(rest)
    BY <1>4, <1>7 DEF Owed
  <2> QED
    BY <1>3, <1>5, <1>7, <2>1
<1> QED
  BY <1>6, <1>7

(* An update that owed nothing stops servers: what it killed it owes, and  *)
(* what it could not kill it owes although it runs.                        *)
LEMMA StopOwes ==
    ASSUME Inv, Owing, NEW j \in Job, job[j].stopped = {},
           NEW S \in SUBSET Server, UpdateStops(S),
           NEW new, job' = [job EXCEPT ![j] = new],
           new.stopped \subseteq {s \in S : known[s]},
           new.at \in {"none", "fetch"} => new.stopped = {}
    PROVE  Owing'
<1>1. PICK late \in Late(S) : StopServers(S, late) /\ AccountFor(late)
  BY DEF UpdateStops
<1>2. ASSUME NEW s \in Server
      PROVE  instances'[s] + Owed(s)' <= accounted'[s]
  <2>1. /\ instances[s] \in Nat /\ accounted[s] \in Int /\ Owed(s) \in Nat
        /\ instances[s] + Owed(s) <= accounted[s]
    BY JobTyped, OwedTyped DEF Owing
  <2> DEFINE starts == IF s \in new.stopped THEN 1 ELSE 0
             started == IF s \in job[j].stopped THEN 1 ELSE 0
  <2>1a. Owed(s)' = Owed(s) + starts - started
    BY OneOwes
  <2>2. Owed(s)' = IF s \in new.stopped THEN Owed(s) + 1 ELSE Owed(s)
    BY <2>1, <2>1a
  <2>3. CASE s \in late
    <3>1. instances'[s] = instances[s] /\ accounted'[s] = accounted[s] + 1
      BY <1>1, <2>3 DEF StopServers, AccountFor
    <3> QED
      BY <2>1, <2>2, <3>1
  <2>4. CASE s \notin late
    <3>1. accounted'[s] = accounted[s]
      BY <1>1, <2>4 DEF AccountFor
    <3>2. instances'[s] = IF s \in S /\ known[s] THEN instances[s] - 1 ELSE instances[s]
      BY <1>1, <2>4 DEF StopServers
    <3> QED
      BY <2>1, <2>2, <3>1, <3>2
  <2> QED
    BY <2>3, <2>4
<1>3. \A i \in Job : job'[i].at \in {"none", "fetch"} => job'[i].stopped = {}
  BY OneJobChanges DEF Owing
<1> QED
  BY <1>2, <1>3 DEF Owing

(* An update starts what it owes and is over. *)
LEMMA StartOwes ==
    ASSUME Inv, Owing, NEW j \in Job, StartServers(job[j].stopped), UNCHANGED accounted,
           job' = [job EXCEPT ![j] = NoJob]
    PROVE  Owing'
<1>1. PICK failing \in SUBSET job[j].stopped :
        instances' = [s \in Server |-> IF s \in job[j].stopped \ failing
                                       THEN instances[s] + 1 ELSE instances[s]]
  BY DEF StartServers
<1>2. ASSUME NEW s \in Server
      PROVE  instances'[s] + Owed(s)' <= accounted'[s]
  <2>1. /\ instances[s] \in Nat /\ accounted[s] \in Int /\ Owed(s) \in Nat
        /\ instances[s] + Owed(s) <= accounted[s]
    BY JobTyped, OwedTyped DEF Owing
  <2> DEFINE starts == IF s \in NoJob.stopped THEN 1 ELSE 0
             started == IF s \in job[j].stopped THEN 1 ELSE 0
  <2>1a. Owed(s)' = Owed(s) + starts - started
    BY OneOwes
  <2>2. Owed(s)' = IF s \in job[j].stopped THEN Owed(s) - 1 ELSE Owed(s)
    BY <2>1, <2>1a, NoJobHoldsNothing
  <2>3. instances'[s] = IF s \in job[j].stopped \ failing THEN instances[s] + 1 ELSE instances[s]
    BY <1>1
  <2> QED
    BY <2>1, <2>2, <2>3
<1>3. \A i \in Job : job'[i].at \in {"none", "fetch"} => job'[i].stopped = {}
  BY OneJobChanges, NoJobHoldsNothing DEF Owing
<1> QED
  BY <1>2, <1>3 DEF Owing

(* A refused update starts again what it stopped. *)
LEMMA UndoOwes ==
    ASSUME Inv, Owing, NEW j \in Job, job[j].stopped = {},
           NEW S \in SUBSET Server, UndoStops(j, S)
    PROVE  Owing'
<1>1. PICK late \in Late(S), failing \in SUBSET {s \in S : known[s]} :
        /\ instances' = [s \in Server |->
                IF s \in failing \ late THEN instances[s] - 1
                ELSE IF s \in late \ failing THEN instances[s] + 1
                ELSE instances[s]]
        /\ AccountFor(late)
        /\ job' = [job EXCEPT ![j] = NoJob]
  BY DEF UndoStops
<1>2. ASSUME NEW s \in Server
      PROVE  instances'[s] + Owed(s)' <= accounted'[s]
  <2>1. /\ instances[s] \in Nat /\ accounted[s] \in Int /\ Owed(s) \in Nat
        /\ instances[s] + Owed(s) <= accounted[s]
    BY JobTyped, OwedTyped DEF Owing
  <2> DEFINE starts == IF s \in NoJob.stopped THEN 1 ELSE 0
             started == IF s \in job[j].stopped THEN 1 ELSE 0
  <2>1a. Owed(s)' = Owed(s) + starts - started
    BY <1>1, OneOwes
  <2>2. Owed(s)' = Owed(s)
    BY <2>1, <2>1a, NoJobHoldsNothing
  <2>3. accounted'[s] = IF s \in late THEN accounted[s] + 1 ELSE accounted[s]
    BY <1>1 DEF AccountFor
  <2>4. instances'[s] = IF s \in failing \ late THEN instances[s] - 1
                        ELSE IF s \in late \ failing THEN instances[s] + 1
                        ELSE instances[s]
    BY <1>1
  <2> QED
    BY <2>1, <2>2, <2>3, <2>4
<1>3. \A i \in Job : job'[i].at \in {"none", "fetch"} => job'[i].stopped = {}
  BY <1>1, OneJobChanges, NoJobHoldsNothing DEF Owing
<1> QED
  BY <1>2, <1>3 DEF Owing

(* Updates go on, end or are forgotten, and no server is touched. *)
LEMMA NobodyOwesMore ==
    ASSUME Inv, Owing, UNCHANGED <<instances, accounted>>,
           \A j \in Job : /\ job'[j].stopped \subseteq job[j].stopped
                          /\ job'[j].at \in {"none", "fetch"} => job'[j].stopped = {}
    PROVE  Owing'
<1>1. ASSUME NEW s \in Server
      PROVE  instances'[s] + Owed(s)' <= accounted'[s]
  <2>1. Stoppers(s)' \subseteq Stoppers(s) /\ IsFiniteSet(Stoppers(s))
    BY JobAssumption, FS_Subset DEF Stoppers
  <2>2. Owed(s)' <= Owed(s)
    BY <2>1, FS_Subset DEF Owed
  <2>3. /\ instances[s] \in Nat /\ accounted[s] \in Int /\ Owed(s) \in Nat /\ Owed(s)' \in Nat
        /\ instances[s] + Owed(s) <= accounted[s]
    BY JobTyped, OwedTyped DEF Owing
  <2> QED
    BY <2>2, <2>3
<1> QED
  BY <1>1 DEF Owing

(* Users start and stop servers, and processes end. *)
LEMMA UserOwes ==
    ASSUME Inv, Owing, Inv', Accounted, UNCHANGED job
    PROVE  Owing'
<1>1. ASSUME NEW s \in Server
      PROVE  instances'[s] + Owed(s)' <= accounted'[s]
  <2>1. Owed(s)' = Owed(s)
    BY DEF Owed, Stoppers
  <2>2. /\ instances[s] \in Nat /\ accounted[s] \in Int /\ Owed(s) \in Nat
        /\ instances[s] + Owed(s) <= accounted[s]
    BY JobTyped, OwedTyped DEF Owing
  <2>3. instances'[s] \in Nat
    BY DEF Inv, TypeOK
  <2>4. accounted'[s] = accounted[s] + instances'[s] - instances[s]
    BY DEF Accounted
  <2> QED
    BY <2>1, <2>2, <2>3, <2>4
<1> QED
  BY <1>1 DEF Owing

LEMMA BeginOwes ==
    ASSUME Inv, Owing, NEW j \in Job, NEW s \in Server,
           BeginServerUpdate(j, s) \/ BeginModUpdate(j, s)
    PROVE  Owing'
<1>1. job[j].stopped = {}
  BY DEF BeginServerUpdate, BeginModUpdate, Owing
<1>2. CASE BeginServerUpdate(j, s)
  <2> DEFINE new == [at |-> "app", affected |-> {s}, stopped |-> {x \in {s} : known[x]},
                     details |-> << >>, todo |-> <<>>]
  <2>1. UpdateStops({s}) /\ job' = [job EXCEPT ![j] = new]
    BY <1>2 DEF BeginServerUpdate
  <2>2. new.stopped = {x \in {s} : known[x]} /\ new.at = "app"
    OBVIOUS
  <2>3. {s} \in SUBSET Server
    OBVIOUS
  <2> HIDE DEF new
  <2> QED
    BY <1>1, <2>1, <2>2, <2>3, StopOwes
<1>3. CASE BeginModUpdate(j, s)
  <2> DEFINE new == [at |-> "fetch", affected |-> {s}, stopped |-> {},
                     details |-> [m \in Modlist[s] |-> workshop[m]], todo |-> <<>>]
  <2>1. job' = [job EXCEPT ![j] = new] /\ UNCHANGED <<instances, accounted>>
    BY <1>3 DEF BeginModUpdate, servers
  <2>2. new.stopped = {}
    OBVIOUS
  <2> HIDE DEF new
  <2>3. \A i \in Job : job'[i].stopped \subseteq job[i].stopped
                       /\ (job'[i].at \in {"none", "fetch"} => job'[i].stopped = {})
    BY <2>1, <2>2, OneJobChanges DEF Owing
  <2> QED
    BY <2>1, <2>3, NobodyOwesMore
<1> QED
  BY <1>2, <1>3

LEMMA ModDetailsOwes ==
    ASSUME Inv, Owing, NEW j \in Job, ModDetails(j)
    PROVE  Owing'
<1> DEFINE found == OutOfDate(job[j].details)
           affected == Affected(found)
           failing == {s \in affected : ~Answers(s)}
<1>1. job[j].stopped = {} /\ affected \in SUBSET Server
  BY DEF ModDetails, Owing, Affected
<1>2. CASE failing = {}
  <2>1. PICK order \in SetToSeqs(found) :
          job' = [job EXCEPT ![j] = [at |-> "download", affected |-> affected,
                                     stopped |-> {s \in affected : known[s]},
                                     details |-> Restrict(job[j].details, found),
                                     todo |-> Batches(order)]]
    BY <1>2 DEF ModDetails
  <2> DEFINE new == [at |-> "download", affected |-> affected,
                     stopped |-> {s \in affected : known[s]},
                     details |-> Restrict(job[j].details, found), todo |-> Batches(order)]
  <2>2. UpdateStops(affected)
    BY <1>2 DEF ModDetails
  <2>3. new.stopped = {s \in affected : known[s]} /\ new.at = "download"
    OBVIOUS
  <2> HIDE DEF new, affected
  <2>4. job' = [job EXCEPT ![j] = new]
    BY <2>1 DEF new
  <2> QED
    BY <1>1, <2>2, <2>3, <2>4, StopOwes
<1>3. CASE failing # {}
  <2>1. PICK before \in SUBSET (affected \ failing) :
          \/ UpdateStops(before) /\ job' = [job EXCEPT ![j] = NoJob]
          \/ UndoStops(j, before)
    BY <1>3 DEF ModDetails
  <2>2. before \in SUBSET Server
    BY <1>1
  <2> QED
    BY <1>1, <2>1, <2>2, NoJobHoldsNothing, StopOwes, UndoOwes
<1> QED
  BY <1>2, <1>3

(* What only downloads, fails or releases starts nothing.                  *)
LEMMA OthersOwe ==
    ASSUME Inv, Owing, UNCHANGED <<instances, accounted>>,
           \/ \E j \in Job : Download(j) \/ SteamFails(j)
           \/ \E m \in Mod : Release(m)
           \/ Crash
           \/ UNCHANGED job
    PROVE  Owing'
<1> SUFFICES ASSUME NEW i \in Job
             PROVE  /\ job'[i].stopped \subseteq job[i].stopped
                    /\ job'[i].at \in {"none", "fetch"} => job'[i].stopped = {}
  BY NobodyOwesMore
<1>1. CASE \E j \in Job : Download(j)
  <2>1. PICK j \in Job : Download(j)
    BY <1>1
  <2>2. job' = [job EXCEPT ![j] = [job[j] EXCEPT !.todo = Tail(@)]]
    BY <2>1 DEF Download
  <2>3. job[j] \in JobType
    BY JobTyped
  <2>4. job'[j].stopped = job[j].stopped /\ job'[j].at = job[j].at
    BY <2>2, <2>3, JobTyped DEF JobType
  <2> QED
    BY <2>2, <2>4, OneJobChanges DEF Owing
<1>2. CASE \E j \in Job : SteamFails(j)
  BY <1>2, OneJobChanges, NoJobHoldsNothing DEF SteamFails, Owing
<1>3. CASE Crash
  BY <1>3, NoJobHoldsNothing DEF Crash
<1>4. CASE UNCHANGED job
  BY <1>4 DEF Owing
<1> QED
  BY <1>1, <1>2, <1>3, <1>4 DEF Release

LEMMA OwingStep ==
    ASSUME Inv, Owing, [Next]_vars
    PROVE  Owing'
<1>1. CASE \E j \in Job, s \in Server : BeginServerUpdate(j, s) \/ BeginModUpdate(j, s)
  BY <1>1, BeginOwes
<1>2. CASE \E j \in Job : EndServerUpdate(j) \/ EndModUpdate(j)
  BY <1>2, StartOwes DEF EndServerUpdate, EndModUpdate
<1>3. CASE \E j \in Job : ModDetails(j)
  BY <1>3, ModDetailsOwes
<1>4. CASE \E j \in Job : Download(j) \/ SteamFails(j)
  BY <1>4, OthersOwe DEF Download, SteamFails, servers
<1>5. CASE Crash \/ \E m \in Mod : Release(m)
  BY <1>5, OthersOwe DEF Crash, Release, servers
<1>6. CASE \E s \in Server : UserStart(s) \/ UserStop(s) \/ Exit(s)
  BY <1>6, InvNext, UserOwes DEF UserStart, UserStop, Exit
<1>7. CASE UNCHANGED vars
  BY <1>7, OthersOwe DEF vars
<1> QED
  BY <1>1, <1>2, <1>3, <1>4, <1>5, <1>6, <1>7 DEF Next, Proceed

LEMMA OwingInit == Init => Owing
<1> SUFFICES ASSUME Init PROVE Owing
  OBVIOUS
<1>1. ASSUME NEW s \in Server PROVE Owed(s) = 0
  <2>1. Stoppers(s) = {}
    BY NoJobHoldsNothing DEF Init, Stoppers
  <2> QED
    BY <2>1, FS_EmptySet DEF Owed
<1>2. \A s \in Server : instances[s] \in Nat /\ accounted[s] = instances[s]
  BY DEF Init
<1> QED
  BY <1>1, <1>2, NoJobHoldsNothing DEF Init, Owing

(* Updates that run at the same time, fail, are undone or are cut off by a *)
(* crash add no instance to those users started, but one for each stop     *)
(* that timed out under an update: update_server and update_mods start     *)
(* only what they stopped.  Users start and stop servers meanwhile.        *)
THEOREM InstancesAccountedCorrect == Spec => []InstancesAccounted
<1>1. Init => Owing
  BY OwingInit
<1>2. Inv /\ Owing /\ [Next]_vars => Owing'
  BY OwingStep
<1>3. Inv /\ Owing => InstancesAccounted
  BY JobTyped, OwedTyped DEF Owing, InstancesAccounted
<1> QED
  BY <1>1, <1>2, <1>3, UpdateInvariant, PTL DEF Spec
=============================================================================
