---------------------------- MODULE ServerUpdate ----------------------------
(***************************************************************************)
(* Updating the game servers and their workshop mods: update_server,       *)
(* update_server_mods and update_mods of ArmaApi                           *)
(* (bw/server_ops/arma/api.py) with the mod records of ModStore.           *)
(*                                                                         *)
(* An update is a coroutine.  It stops servers, awaits SteamCMD (once for  *)
(* the server files, once per batch of mods) and starts the servers again; *)
(* at every await other updates and the start and stop requests of users   *)
(* run.  One step is the code between two awaits.                          *)
(*                                                                         *)
(* The process manager is kept to what an update can observe of it: how    *)
(* many instances of a server run, whether the recorded one does, and      *)
(* whether the server has rows at all (ProcessManager has the details).    *)
(***************************************************************************)
EXTENDS Integers, Sequences, FiniteSets, SequencesExt

CONSTANTS
    Server,         \* the configured servers
    Mod,            \* the workshop mods that have a record
    Modlist,        \* per server: the mods of its modlist
    Broken,         \* servers whose status request raises (failing prune)
    BatchN,         \* batch_n of update_mods
    Job,            \* the update requests that may run at the same time
    Faults,         \* subset of {"steam", "spawn", "crash", "timeout", "exit"}
    UserStarts,     \* whether users start servers meanwhile
    MaxVersion,     \* bound: the newest version of a mod on the workshop
    MaxInstances    \* bound: instances of one server that are accounted for

ASSUME ModAssumption == IsFiniteSet(Mod)
ASSUME JobAssumption == IsFiniteSet(Job)
ASSUME ModlistAssumption == Modlist \in [Server -> SUBSET Mod]
ASSUME BrokenAssumption == Broken \subseteq Server
ASSUME BatchAssumption == BatchN \in Nat \ {0}
ASSUME UpdateFaultsAssumption == Faults \subseteq {"steam", "spawn", "crash", "timeout", "exit"}
ASSUME BoundsAssumption == MaxVersion \in Nat /\ MaxInstances \in Nat /\ UserStarts \in BOOLEAN

VARIABLES
    workshop,       \* per mod: its version on the Steam workshop
    installed,      \* per mod: the version on disk
    record,         \* per mod: last_update_date in the mods table, -1 if NULL
    instances,      \* per server: live processes of it
    known,          \* per server: whether the recorded pid is one of them
    registered,     \* servers with rows in the processes table
    accounted,      \* history: per server, the instances there may be for what
                    \* users asked, processes did, and stops failed to do
    job             \* per update request: where it is and what it works on

vars == <<workshop, installed, record, instances, known, registered, accounted, job>>
servers == <<instances, known, registered, accounted>>
mods == <<workshop, installed, record>>

(* at: the await the coroutine is suspended in.  affected and stopped are  *)
(* the lists of update_mods (before the details arrive, affected is the    *)
(* server whose mods are updated); details maps mods to the version the    *)
(* workshop reported; todo are the batches still to come.                  *)
NoJob == [at |-> "none", affected |-> {}, stopped |-> {}, details |-> << >>, todo |-> <<>>]

Init ==
    /\ workshop = [m \in Mod |-> 0]
    /\ installed = [m \in Mod |-> 0]
    /\ record \in [Mod -> {-1, 0}]
    /\ registered \in SUBSET Server
    /\ known \in [Server -> BOOLEAN]
    /\ \A s \in Server : known[s] => s \in registered
    /\ instances = [s \in Server |-> IF known[s] THEN 1 ELSE 0]
    /\ accounted = instances
    /\ job = [j \in Job |-> NoJob]

-----------------------------------------------------------------------------
(* The process manager *)

(* Arma3Api.start_server for each server of S, whether it runs or not; a   *)
(* spawn that fails is no error to the caller.                             *)
StartServers(S) ==
    \E failing \in IF "spawn" \in Faults THEN SUBSET S ELSE {{}} :
        /\ instances' = [s \in Server |-> IF s \in S \ failing THEN instances[s] + 1 ELSE instances[s]]
        /\ known' = [s \in Server |-> known[s] \/ s \in S \ failing]
        /\ registered' = registered \union S

(* Faulty variant: what the recorded pid says is not looked at. *)
StopServersUnseen(S, late) ==
    /\ instances' = [s \in Server |-> IF s \in S \ late THEN instances[s] - 1 ELSE instances[s]]
    /\ known' = [s \in Server |-> known[s] /\ s \notin S \ late]
    /\ registered' = registered \union S

(* Arma3Api.stop_server kills the recorded process and waits; when that    *)
(* times out (late) the process is still there, its pid stays recorded,    *)
(* and the caller is told so but not stopped by an error.                  *)
StopServers(S, late) ==
    /\ instances' = [s \in Server |->
                        IF s \in S \ late /\ known[s] THEN instances[s] - 1 ELSE instances[s]]
    /\ known' = [s \in Server |-> known[s] /\ s \notin S \ late]
    /\ registered' = registered \union S

Late(S) ==
    IF "timeout" \in Faults THEN SUBSET {s \in S : known[s] /\ accounted[s] < MaxInstances}
    ELSE {{}}

(* An update does not look at the answer: it will start what it stopped,   *)
(* also when that still runs.                                              *)
AccountFor(late) ==
    accounted' = [s \in Server |-> IF s \in late THEN accounted[s] + 1 ELSE accounted[s]]

UpdateStops(S) == \E late \in Late(S) : StopServers(S, late) /\ AccountFor(late)

(* What happens to a server apart from updates is accounted for as it is. *)
Accounted == accounted' = [s \in Server |-> accounted[s] + instances'[s] - instances[s]]

UserStart(s) ==
    /\ UserStarts /\ s \notin Broken
    /\ accounted[s] < MaxInstances
    /\ StartServers({s}) /\ Accounted
    /\ UNCHANGED <<mods, job>>

UserStop(s) ==
    /\ UserStarts /\ s \notin Broken
    /\ \E late \in Late({s}) : StopServers({s}, late)
    /\ Accounted
    /\ UNCHANGED <<mods, job>>

(* A process ends on its own, or at last after a kill that timed out; it   *)
(* is the recorded one or another.                                         *)
Exit(s) ==
    /\ "exit" \in Faults
    /\ instances[s] > 0
    /\ instances' = [instances EXCEPT ![s] = @ - 1]
    /\ known' \in {known, [known EXCEPT ![s] = FALSE]}
    /\ known'[s] => instances'[s] > 0
    /\ Accounted
    /\ UNCHANGED <<registered, mods, job>>

-----------------------------------------------------------------------------
(* update_server *)

(* server_status raises for a server that has no rows or cannot be pruned. *)
Answers(s) == s \in registered \ Broken

BeginServerUpdate(j, s) ==
    /\ job[j].at = "none"
    /\ Answers(s)
    /\ UpdateStops({s})
    /\ job' = [job EXCEPT ![j] =
                  [at |-> "app", affected |-> {s}, stopped |-> {x \in {s} : known[x]},
                   details |-> << >>, todo |-> <<>>]]
    /\ UNCHANGED mods

(* Faulty variant: the server is started whether it ran before or not. *)
EndServerUpdateAlwaysStarts(j) ==
    /\ job[j].at = "app"
    /\ StartServers(job[j].affected)
    /\ job' = [job EXCEPT ![j] = NoJob]
    /\ UNCHANGED <<mods, accounted>>

EndServerUpdate(j) ==
    /\ job[j].at = "app"
    /\ StartServers(job[j].stopped)
    /\ job' = [job EXCEPT ![j] = NoJob]
    /\ UNCHANGED <<mods, accounted>>

-----------------------------------------------------------------------------
(* update_server_mods and update_mods *)

(* The workshop is asked for the details of the modlist; it answers with   *)
(* the versions it has now, and the answer may be long on its way.         *)
BeginModUpdate(j, s) ==
    /\ job[j].at = "none"
    /\ job' = [job EXCEPT ![j] =
                  [at |-> "fetch", affected |-> {s}, stopped |-> {},
                   details |-> [m \in Modlist[s] |-> workshop[m]], todo |-> <<>>]]
    /\ UNCHANGED <<mods, servers>>

(* get_out_of_date_mods *)
OutOfDate(details) == {m \in DOMAIN details : record[m] = -1 \/ record[m] < details[m]}

(* Modlist.has_mods_from over SERVER_MAP *)
Affected(found) == {s \in Server : Modlist[s] \intersect found # {}}

(* The mods of one server, in batches of ceil(n / batch_n). *)
BatchSize(n) == (n + BatchN - 1) \div BatchN

Batches(order) ==
    LET size == BatchSize(Len(order)) IN
    IF order = <<>> THEN <<>>
    ELSE [i \in 1..((Len(order) + size - 1) \div size) |->
             {order[k] : k \in {n \in DOMAIN order : (n - 1) \div size = i - 1}}]

(* Faulty variant: what was stopped before the failure is not started.     *)
UndoStopsNothing(j, before) ==
    /\ UpdateStops(before)
    /\ job' = [job EXCEPT ![j] = NoJob]

(* A server without rows raises a BwServerError after those before it were *)
(* stopped; they are started again and the update is over.                 *)
UndoStops(j, before) ==
    /\ \E late \in Late(before),
          failing \in IF "spawn" \in Faults THEN SUBSET {s \in before : known[s]} ELSE {{}} :
          /\ instances' = [s \in Server |->
                  IF s \in failing \ late THEN instances[s] - 1
                  ELSE IF s \in late \ failing THEN instances[s] + 1
                  ELSE instances[s]]
          /\ known' = [s \in Server |-> known[s] /\ s \notin failing \ late]
          /\ AccountFor(late)
    /\ registered' = registered
    /\ job' = [job EXCEPT ![j] = NoJob]

(* The details arrive.  The affected servers are taken in some order; a    *)
(* failing prune raises an error of psutil, which is not a BwServerError,  *)
(* so nothing is undone.                                                   *)
ModDetails(j) ==
    /\ job[j].at = "fetch"
    /\ UNCHANGED mods
    /\ LET found == OutOfDate(job[j].details)
           affected == Affected(found)
           failing == {s \in affected : ~Answers(s)}
       IN  IF failing = {}
           THEN /\ UpdateStops(affected)
                /\ \E order \in SetToSeqs(found) :
                      job' = [job EXCEPT ![j] =
                                [at |-> "download", affected |-> affected,
                                 stopped |-> {s \in affected : known[s]},
                                 details |-> Restrict(job[j].details, found),
                                 todo |-> Batches(order)]]
           ELSE \E s \in failing, before \in SUBSET (affected \ failing) :
                   IF s \in Broken /\ s \in registered
                   THEN UpdateStops(before) /\ job' = [job EXCEPT ![j] = NoJob]
                   ELSE UndoStops(j, before)

(* One SteamCMD run is over: its mods have the version of the workshop.    *)
Download(j) ==
    /\ job[j].at = "download" /\ job[j].todo # <<>>
    /\ installed' = [m \in Mod |-> IF m \in Head(job[j].todo) THEN workshop[m] ELSE installed[m]]
    /\ job' = [job EXCEPT ![j].todo = Tail(@)]
    /\ UNCHANGED <<workshop, record, servers>>

(* Faulty variant: the record gets the version of the workshop now. *)
EndModUpdateLatest(j) ==
    /\ job[j].at = "download" /\ job[j].todo = <<>>
    /\ StartServers(job[j].stopped)
    /\ record' = [m \in Mod |-> IF m \in DOMAIN job[j].details THEN workshop[m] ELSE record[m]]
    /\ job' = [job EXCEPT ![j] = NoJob]
    /\ UNCHANGED <<workshop, installed, accounted>>

(* bulk_update_mods, after the servers were started. *)
EndModUpdate(j) ==
    /\ job[j].at = "download" /\ job[j].todo = <<>>
    /\ StartServers(job[j].stopped)
    /\ record' = [m \in Mod |-> IF m \in DOMAIN job[j].details THEN job[j].details[m] ELSE record[m]]
    /\ job' = [job EXCEPT ![j] = NoJob]
    /\ UNCHANGED <<workshop, installed, accounted>>

-----------------------------------------------------------------------------
(* What fails *)

(* SteamCMD ends with an error (or the workshop does not answer): nothing  *)
(* catches SubprocessFailed, the request is over.  Mods of the failing     *)
(* batch may have arrived.  A deployment that fails does the same.         *)
SteamFails(j) ==
    /\ "steam" \in Faults
    /\ job[j].at # "none"
    /\ \E arrived \in SUBSET (IF job[j].todo = <<>> THEN {} ELSE Head(job[j].todo)) :
          installed' = [m \in Mod |-> IF m \in arrived THEN workshop[m] ELSE installed[m]]
    /\ job' = [job EXCEPT ![j] = NoJob]
    /\ UNCHANGED <<workshop, record, servers>>

Crash ==
    /\ "crash" \in Faults
    /\ \E j \in Job : job[j] # NoJob
    /\ job' = [j \in Job |-> NoJob]
    /\ UNCHANGED <<mods, servers>>

Release(m) ==
    /\ workshop[m] < MaxVersion
    /\ workshop' = [workshop EXCEPT ![m] = @ + 1]
    /\ UNCHANGED <<installed, record, servers, job>>

-----------------------------------------------------------------------------
Proceed(j) == EndServerUpdate(j) \/ ModDetails(j) \/ Download(j) \/ EndModUpdate(j)

Next ==
    \/ \E j \in Job, s \in Server : BeginServerUpdate(j, s) \/ BeginModUpdate(j, s)
    \/ \E j \in Job : Proceed(j) \/ SteamFails(j)
    \/ \E s \in Server : UserStart(s) \/ UserStop(s) \/ Exit(s)
    \/ \E m \in Mod : Release(m)
    \/ Crash

Spec == Init /\ [][Next]_vars

(* SteamCMD ends, and the event loop resumes the update that awaited it.   *)
FairSpec == Spec /\ \A j \in Job : WF_vars(Proceed(j) \/ SteamFails(j))

-----------------------------------------------------------------------------
(* Properties *)

Stage == {"none", "app", "fetch", "download"}
Details == UNION {[S -> 0..MaxVersion] : S \in SUBSET Mod}

(* Every variable has its type; the mods an update works on have a record, *)
(* and the servers it stopped are among those it affects.                  *)
TypeOK ==
    /\ workshop \in [Mod -> 0..MaxVersion]
    /\ installed \in [Mod -> 0..MaxVersion]
    /\ record \in [Mod -> -1..MaxVersion]
    /\ instances \in [Server -> Nat]
    /\ known \in [Server -> BOOLEAN]
    /\ registered \subseteq Server
    /\ accounted \in [Server -> Int]
    /\ job \in [Job -> [at : Stage, affected : SUBSET Server, stopped : SUBSET Server,
                        details : Details, todo : Seq(SUBSET Mod)]]
    /\ \A j \in Job : job[j].stopped \subseteq job[j].affected

(* "we compare mods against this record if they are out of date": the      *)
(* record never claims a version that is not on disk, although it is       *)
(* written long after the workshop was asked, other updates write it too,  *)
(* and any SteamCMD run may fail.                                          *)
RecordNeverAhead ==
    \A m \in Mod : record[m] <= installed[m] /\ installed[m] <= workshop[m]

(* The inductive invariant behind it: what an update knows of a mod is not *)
(* newer than the workshop, and once the mod is in no batch still to come, *)
(* not newer than the disk.  A recorded pid is the pid of an instance.     *)
ToCome(j, m) == \E i \in DOMAIN job[j].todo : m \in job[j].todo[i]

DetailsInv(j) ==
    \A m \in DOMAIN job[j].details :
        /\ job[j].details[m] <= workshop[m]
        /\ job[j].at = "download" => ToCome(j, m) \/ job[j].details[m] <= installed[m]

Inv ==
    /\ TypeOK
    /\ RecordNeverAhead
    /\ \A s \in Server : known[s] => instances[s] >= 1
    /\ \A j \in Job : DetailsInv(j)

(* Updates that run at the same time, fail and are undone add no instance  *)
(* of a server to those that users started and those whose stop timed out  *)
(* under an update, one for each such stop: each update starts only what   *)
(* it stopped, and what it stopped no other one starts.                    *)
InstancesAccounted == \A s \in Server : instances[s] <= accounted[s]

(* "Updates an Arma server by stopping it, ..., and starting the server    *)
(* again": a server that ran at first is never down for good, whatever     *)
(* updates run at the same time and whichever of them are refused.         *)
ServersComeBack == \A s \in Server : instances[s] > 0 => []<>(instances[s] > 0)
=============================================================================
