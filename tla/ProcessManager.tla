--------------------------- MODULE ProcessManager ---------------------------
(***************************************************************************)
(* Starting and stopping one Arma 3 server and its headless clients:       *)
(* Arma3Api (bw/server_ops/process/api/arma3.py) over ProcessStore         *)
(* (process.py) and the table of bw/models/process.py.                     *)
(*                                                                         *)
(* An operation is synchronous, so no other request runs inside it, but    *)
(* the processes it manages live on their own: they may exit at any point, *)
(* and the backend may die between any two of its transactions while the   *)
(* game processes, started in sessions of their own, go on.  One step is   *)
(* one transaction of the code with the system calls made inside it; a     *)
(* failing transaction of manage_process and the one that then stores      *)
(* ERROR are one step.                                                     *)
(*                                                                         *)
(* The rows of a server are read without ORDER BY and PostgreSQL moves a   *)
(* row that is updated: under the fault "unordered" any order may come     *)
(* back, otherwise the order of creation does.                             *)
(***************************************************************************)
EXTENDS Integers, Sequences, FiniteSets, SequencesExt

CONSTANTS
    Pid,            \* process ids of the operating system
    MaxClients,     \* bound: the most headless clients ever configured
    Operations,     \* the requests that arrive, a subset of DOMAIN Plans
    Faults,         \* what may go wrong, a subset of FaultKinds
    NoPid           \* pid of a row without process

FaultKinds == {"spawn", "timeout", "exit", "reuse", "unordered", "crash"}

(* restart_server is stop_server followed by start_server. *)
Plans == [start |-> <<"start">>, stop |-> <<"stop">>,
          restart |-> <<"stop", "start">>, status |-> <<"status">>]

ASSUME ClientsAssumption == MaxClients \in Nat
ASSUME OperationsAssumption == Operations \subseteq DOMAIN Plans
ASSUME FaultKindsAssumption == Faults \subseteq FaultKinds
ASSUME NoPidAssumption == NoPid \notin Pid

(* The row of the server itself is named Main, the row of `srv:hc_i` i+1.  *)
Name == 0..MaxClients
Main == 0
NoParent == -1

Row == [pid : Pid \union {NoPid}, parent : Name \union {NoParent},
        state : {"idle", "error", "deleted"}]

VARIABLES
    rows,       \* the processes table, a function on the names that exist
    count,      \* Server.headless_client_count()
    os,         \* per pid: "free", "server", "client", "zombie" or "other"
    request,    \* the request being served, or "none"
    plan,       \* what is left of the request, its head being executed
    stage,      \* where the head of plan is
    procs,      \* the rows the operation fetched, in their order
    todo,       \* the rows the current loop still has to handle
    held,       \* pids of the process objects the answer will look at
    reply       \* the last answer

vars == <<rows, count, os, request, plan, stage, procs, todo, held, reply>>
work == <<procs, todo, held>>

Alive == {p \in Pid : os[p] \in {"server", "client"}}
Recorded == {rows[n].pid : n \in DOMAIN rows}

(* psutil finds no process: the pid is free, or there is none. *)
Gone(p) == p \notin {q \in Pid : os[q] # "free"}

(* What the caller is told: clients counts those reported running, event   *)
(* tells whether a ServerStartEvent or ServerStopEvent was published.      *)
NoReply == [to |-> "none", ok |-> FALSE, running |-> FALSE, clients |-> 0, event |-> FALSE]
Answer(running, clients, event) ==
    [to |-> Head(plan), ok |-> TRUE, running |-> running, clients |-> clients, event |-> event]

Init ==
    /\ rows = << >>
    /\ count \in 0..MaxClients
    /\ os = [p \in Pid |-> "free"]
    /\ request = "none" /\ plan = <<>> /\ stage = "prune"
    /\ procs = <<>> /\ todo = <<>> /\ held = <<>>
    /\ reply = NoReply

-----------------------------------------------------------------------------
(* The table *)

InsertRow(n, parent) ==
    [m \in DOMAIN rows \union {n} |->
        IF m = n THEN [pid |-> NoPid, parent |-> parent, state |-> "idle"] ELSE rows[m]]

SetPid(n, p) == [rows EXCEPT ![n] = [@ EXCEPT !.pid = p, !.state = "idle"]]
SetError(n) == [rows EXCEPT ![n].state = "error"]

Family == {n \in DOMAIN rows : n = Main \/ rows[n].parent = Main}

(* get_process_and_children_by_namespace; Main is registered. *)
Fetched ==
    {order \in SetToSeqs(Family) :
        "unordered" \notin Faults =>
            \A i, j \in DOMAIN order : i < j => order[i] < order[j]}

-----------------------------------------------------------------------------
(* Control *)

Goto(s) == stage' = s /\ UNCHANGED <<request, plan, reply>>

(* The head of the plan is done; every operation begins by pruning. *)
Return(answer) ==
    /\ reply' = answer
    /\ plan' = Tail(plan)
    /\ request' = IF Len(plan) = 1 THEN "none" ELSE request
    /\ stage' = "prune"
    /\ procs' = <<>> /\ todo' = <<>> /\ held' = <<>>

(* An exception nobody catches ends the whole request. *)
Raise ==
    /\ reply' = [NoReply EXCEPT !.to = Head(plan)]
    /\ request' = "none" /\ plan' = <<>> /\ stage' = "prune"
    /\ procs' = <<>> /\ todo' = <<>> /\ held' = <<>>

(* start and restart reload the configuration of the server first. *)
Begin(r) ==
    /\ request = "none"
    /\ r \in Operations
    /\ request' = r /\ plan' = Plans[r]
    /\ count' \in IF r \in {"start", "restart"} THEN 0..MaxClients ELSE {count}
    /\ reply' = NoReply
    /\ UNCHANGED <<rows, os, stage, work>>

-----------------------------------------------------------------------------
(* prune_server_processes *)

(* Faulty variant: nothing is pruned before a start. *)
NeverPrunes ==
    /\ plan # <<>> /\ stage = "prune"
    /\ Goto("fetch")
    /\ UNCHANGED <<rows, count, os, work>>

PruneSelect ==
    /\ plan # <<>> /\ stage = "prune"
    /\ UNCHANGED <<rows, count, os, held>>
    /\ IF Main \notin DOMAIN rows
       THEN Goto("fetch") /\ UNCHANGED <<procs, todo>>
       ELSE \E order \in Fetched :
               LET clients == Tail(order) IN
               IF Len(clients) <= count
               THEN Goto("fetch") /\ UNCHANGED <<procs, todo>>
               ELSE /\ Goto("pruning")
                    /\ procs' = SubSeq(clients, count + 1, Len(clients))
                    /\ todo' = procs'

(* A client without a live process raises.  After kill and wait the pid is *)
(* gone, so subprocess.status() raises too and the transaction is undone;  *)
(* only if the pid was given away at once does the code get to DELETED.    *)
(* The timeout of psutil is not the TimeoutError the code catches.         *)
PruneKill ==
    /\ stage = "pruning" /\ todo # <<>>
    /\ LET n == Head(todo)
           p == rows[n].pid
       IN  \/ /\ Gone(p)
              /\ rows' = SetError(n)
              /\ Raise
              /\ UNCHANGED <<os, count>>
           \/ /\ ~Gone(p)
              /\ os' = [os EXCEPT ![p] = "free"]
              /\ rows' = SetError(n)
              /\ Raise
              /\ UNCHANGED count
           \/ /\ ~Gone(p)
              /\ "timeout" \in Faults
              /\ rows' = SetError(n)
              /\ Raise
              /\ UNCHANGED <<os, count>>
           \/ /\ ~Gone(p)
              /\ "reuse" \in Faults
              /\ os' = [os EXCEPT ![p] = "other"]
              /\ rows' = [rows EXCEPT ![n] =
                             [pid |-> NoPid, parent |-> NoParent, state |-> "deleted"]]
              /\ todo' = Tail(todo)
              /\ UNCHANGED <<count, request, plan, stage, procs, held, reply>>

PruneKilled ==
    /\ stage = "pruning" /\ todo = <<>>
    /\ Goto("delete")
    /\ todo' = procs
    /\ UNCHANGED <<rows, count, os, procs, held>>

(* A row that others name as their parent cannot be deleted. *)
PruneDelete ==
    /\ stage = "delete" /\ todo # <<>>
    /\ LET n == Head(todo) IN
       IF \E m \in DOMAIN rows : rows[m].parent = n
       THEN Raise /\ UNCHANGED <<rows, os, count>>
       ELSE /\ rows' = [m \in DOMAIN rows \ {n} |-> rows[m]]
            /\ todo' = Tail(todo)
            /\ UNCHANGED <<count, os, request, plan, stage, procs, held, reply>>

PruneDone ==
    /\ stage = "delete" /\ todo = <<>>
    /\ Goto("fetch")
    /\ UNCHANGED <<rows, count, os, work>>

-----------------------------------------------------------------------------
(* Fetching and creating the rows of the server *)

(* update_existing_process: the names hc_k .. that bring k clients to count.*)
Missing(order) ==
    [i \in 1..(IF Len(order) - 1 >= count THEN 0 ELSE count - (Len(order) - 1)) |->
        Len(order) - 1 + i]

(* A server that is not registered yet is created, except to tell its      *)
(* status.  Only start adds clients to a registered one.                   *)
Fetch ==
    /\ stage = "fetch"
    /\ IF Main \in DOMAIN rows
       THEN \E order \in Fetched :
               /\ procs' = order
               /\ IF Head(plan) = "start"
                  THEN todo' = Missing(order) /\ Goto("create")
                  ELSE todo' = <<>> /\ Goto("look")
               /\ UNCHANGED <<rows, count, os, held>>
       ELSE IF Head(plan) = "status"
       THEN Raise /\ UNCHANGED <<rows, count, os>>
       ELSE /\ rows' = InsertRow(Main, NoParent)
            /\ procs' = <<Main>> /\ todo' = Missing(<<Main>>)
            /\ Goto("create")
            /\ UNCHANGED <<count, os, held>>

(* The pair of namespace and name is unique. *)
CreateClient ==
    /\ stage = "create" /\ todo # <<>>
    /\ LET n == Head(todo) IN
       IF n \in DOMAIN rows
       THEN Raise /\ UNCHANGED <<rows, count, os>>
       ELSE /\ rows' = InsertRow(n, Head(procs))
            /\ procs' = Append(procs, n)
            /\ todo' = Tail(todo)
            /\ UNCHANGED <<count, os, request, plan, stage, held, reply>>

Created ==
    /\ stage = "create" /\ todo = <<>>
    /\ IF Head(plan) = "start"
       THEN Goto("launch") /\ todo' = procs
       ELSE Goto("look") /\ UNCHANGED todo
    /\ UNCHANGED <<rows, count, os, procs, held>>

-----------------------------------------------------------------------------
(* start *)

(* The answer about the processes in held: the first one is taken for the  *)
(* server, clients that are missing are reported not running.              *)
HeldAnswer == Answer(~Gone(held[1]), Cardinality({i \in 2..Len(held) : ~Gone(held[i])}), TRUE)

(* One Popen and its row.  An OSError aborts; pids are unique in the table,*)
(* so a stale one in another row makes the commit fail and the process     *)
(* that was just started is not recorded.  A crash before the commit has   *)
(* the same effect.                                                        *)
Launch ==
    /\ stage = "launch" /\ todo # <<>>
    /\ UNCHANGED count
    /\ LET n == Head(todo)
           kind == IF held = <<>> THEN "server" ELSE "client"
       IN  \/ \E p \in {q \in Pid : Gone(q)} :
                 /\ os' = [os EXCEPT ![p] = kind]
                 /\ \/ /\ \A m \in DOMAIN rows \ {n} : rows[m].pid # p
                       /\ rows' = SetPid(n, p)
                       /\ todo' = Tail(todo) /\ held' = Append(held, p)
                       /\ UNCHANGED <<request, plan, stage, procs, reply>>
                    \/ /\ \E m \in DOMAIN rows \ {n} : rows[m].pid = p
                       /\ rows' = SetError(n)
                       /\ Raise
                    \/ /\ "crash" \in Faults
                       /\ Raise
                       /\ UNCHANGED rows
           \/ /\ "spawn" \in Faults
              /\ rows' = SetError(n)
              /\ Return(IF held = <<>> THEN Answer(FALSE, 0, TRUE) ELSE HeldAnswer)
              /\ UNCHANGED os

LaunchDone ==
    /\ stage = "launch" /\ todo = <<>>
    /\ Return(HeldAnswer)
    /\ UNCHANGED <<rows, count, os>>

-----------------------------------------------------------------------------
(* stop and status *)

(* Faulty variant: rows without pid are not skipped. *)
WithProcessUnfiltered == {procs}

(* The rows whose process object can be built, psutil finding the pid, in  *)
(* the order of procs, which has no row twice: the one listing of them.    *)
Running == {n \in Range(procs) : ~Gone(rows[n].pid)}

WithProcess ==
    {found \in SetToSeqs(Running) :
        \A i, j \in DOMAIN found : i < j =>
            \E k, l \in DOMAIN procs : k < l /\ procs[k] = found[i] /\ procs[l] = found[j]}

Look ==
    /\ stage = "look"
    /\ UNCHANGED <<rows, count, os>>
    /\ \E found \in WithProcess :
          IF found = <<>>
          THEN Return(Answer(FALSE, 0, FALSE))
          ELSE IF Head(plan) = "status"
          THEN Return(Answer(TRUE, Len(found) - 1, FALSE))
          ELSE /\ todo' = found
               /\ held' = [i \in DOMAIN found |-> rows[found[i]].pid]
               /\ Goto("kill")
               /\ UNCHANGED procs

(* Faulty variant: the pid is cleared even when the wait timed out. *)
KillForgets ==
    /\ stage = "kill" /\ todo # <<>>
    /\ UNCHANGED count
    /\ LET n == Head(todo) IN
       /\ os' \in {os, [os EXCEPT ![rows[n].pid] = "free"]}
       /\ rows' = SetPid(n, NoPid)
       /\ todo' = Tail(todo)
       /\ UNCHANGED <<request, plan, stage, procs, held, reply>>

(* A process that exited since Look makes kill() raise.  A wait that times *)
(* out leaves ERROR and the pid; asking for the status of the process then *)
(* raises if it is gone by that time.                                      *)
Kill ==
    /\ stage = "kill" /\ todo # <<>>
    /\ UNCHANGED count
    /\ LET n == Head(todo)
           p == rows[n].pid
       IN  \/ /\ Gone(p)
              /\ rows' = SetError(n)
              /\ Raise
              /\ UNCHANGED os
           \/ /\ ~Gone(p)
              /\ os' = [os EXCEPT ![p] = "free"]
              /\ rows' = SetPid(n, NoPid)
              /\ todo' = Tail(todo)
              /\ UNCHANGED <<request, plan, stage, procs, held, reply>>
           \/ /\ ~Gone(p) /\ "timeout" \in Faults
              /\ rows' = SetError(n)
              /\ todo' = Tail(todo)
              /\ UNCHANGED <<os, request, plan, stage, procs, held, reply>>
           \/ /\ ~Gone(p) /\ "timeout" \in Faults
              /\ os' = [os EXCEPT ![p] = "free"]
              /\ rows' = SetError(n)
              /\ Raise

(* Faulty variant: the answer says stopped without looking. *)
StopDoneBlindly ==
    /\ stage = "kill" /\ todo = <<>>
    /\ Return(Answer(FALSE, 0, FALSE))
    /\ UNCHANGED <<rows, count, os>>

StopDone ==
    /\ stage = "kill" /\ todo = <<>>
    /\ Return(HeldAnswer)
    /\ UNCHANGED <<rows, count, os>>

-----------------------------------------------------------------------------
(* The environment *)

(* A game process ends by itself.  While the backend is its parent it      *)
(* stays a zombie until a later spawn reaps it; otherwise it is gone.      *)
Exit(p) ==
    /\ "exit" \in Faults
    /\ \/ os[p] \in {"server", "client"} /\ \E s \in {"zombie", "free"} : os' = [os EXCEPT ![p] = s]
       \/ os[p] \in {"zombie", "other"} /\ os' = [os EXCEPT ![p] = "free"]
    /\ UNCHANGED <<rows, count, request, plan, stage, work, reply>>

(* A pid that is free is given to a process of somebody else.  Bound: only *)
(* between requests.                                                       *)
Reuse(p) ==
    /\ "reuse" \in Faults
    /\ request = "none" /\ Gone(p)
    /\ os' = [os EXCEPT ![p] = "other"]
    /\ UNCHANGED <<rows, count, request, plan, stage, work, reply>>

(* The backend dies between two transactions and is started again, reading *)
(* its configuration anew.                                                 *)
Crash ==
    /\ "crash" \in Faults
    /\ request # "none"
    /\ Raise
    /\ count' \in 0..MaxClients
    /\ UNCHANGED <<rows, os>>

-----------------------------------------------------------------------------
Operate ==
    \/ PruneSelect \/ PruneKill \/ PruneKilled \/ PruneDelete \/ PruneDone
    \/ Fetch \/ CreateClient \/ Created
    \/ Launch \/ LaunchDone \/ Look \/ Kill \/ StopDone

Environment == (\E p \in Pid : Exit(p) \/ Reuse(p)) \/ Crash

Next ==
    \/ \E r \in Operations : Begin(r)
    \/ Operate
    \/ Environment

Spec == Init /\ [][Next]_vars

-----------------------------------------------------------------------------
(* Properties *)

(* Every variable has its type; a parent is a row that exists and a pid    *)
(* belongs to one row, as the table's constraints demand.                  *)
TypeOK ==
    /\ DOMAIN rows \subseteq Name
    /\ \A n \in DOMAIN rows : rows[n] \in Row /\ rows[n].parent \in DOMAIN rows \union {NoParent}
    /\ \A m, n \in DOMAIN rows : rows[m].pid = rows[n].pid /\ m # n => rows[m].pid = NoPid
    /\ count \in 0..MaxClients
    /\ os \in [Pid -> {"free", "server", "client", "zombie", "other"}]
    /\ request \in DOMAIN Plans \union {"none"}
    /\ plan \in Seq({"start", "stop", "status"}) /\ Len(plan) <= 2
    /\ stage \in {"prune", "pruning", "delete", "fetch", "create", "launch", "look", "kill"}
    /\ procs \in Seq(Name) /\ todo \in Seq(Name)
    /\ held \in Seq(Pid)
    /\ reply.running => reply.ok

(* Stopping, pruning and telling the status never lose track of a process  *)
(* that lives: its pid leaves the table only when the process is dead.     *)
StopNeverForgets ==
    [][plan # <<>> /\ Head(plan) # "start" =>
          \A p \in Alive : p \in Recorded /\ p \in Alive' => p \in Recorded']_vars

(* What stop answers covers the survivors: when it returns, as many of its *)
(* rows are reported running as there are processes of the server left     *)
(* that the table knows.                                                   *)
StopTellsTheTruth ==
    [][plan # <<>> /\ Head(plan) = "stop" /\ reply' # reply /\ reply'.ok
          => Cardinality({n \in Family : rows[n].pid \in Alive})
             <= reply'.clients + (IF reply'.running THEN 1 ELSE 0)]_vars

(* A start launches exactly the configured number of clients, whatever     *)
(* rows earlier starts, prunes and crashes left behind.                    *)
LaunchMatchesConfig ==
    stage = "launch" => Len(procs) = count + 1

(* "Terminates the primary Arma 3 server and all of its associated         *)
(* headless clients": after a stop that answered that nothing runs,        *)
(* nothing does.                                                           *)
StopTerminatesAll ==
    request = "none" /\ reply.to = "stop" /\ reply.ok /\ ~reply.running /\ reply.clients = 0
        => Alive = {}
=============================================================================
