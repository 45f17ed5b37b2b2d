----------------------------- MODULE CronRunner -----------------------------
(***************************************************************************)
(* The cron runner (bw/cron/runner.py): a process of its own that looks    *)
(* for cron_*.py files, keeps them in a heap ordered by the minute each is *)
(* due, and once a minute runs what is due.                                *)
(*                                                                         *)
(* Only the runner changes its state, so a step is one call that can fail; *)
(* files come and go between any two steps.  Time is counted in minutes:   *)
(* the runner reads the clock once per round, after gathering, and sleeps  *)
(* to the next minute, so a slow round only makes the next one later.      *)
(*                                                                         *)
(* A file is its path.  The runner never looks into a path it knows, so a  *)
(* file that changes is a step that changes nothing here.                  *)
(***************************************************************************)
EXTENDS Integers, Sequences, FiniteSets, SequencesExt

CONSTANTS
    CronFile,       \* paths of cron files
    WithClass,      \* those whose module defines a Cron
    Period, Phase,  \* cron_str(): due in the minutes m with m % Period = Phase
    LoginAttempts,  \* attempts to log in before the runner gives up
    CronFaults,     \* subset of CronFaultKinds
    MaxOverrun,     \* bound: minutes that one round may be late
    MaxMinute,      \* bound: minutes
    MaxChanges      \* bound: files that are added or removed

CronFaultKinds == {"login", "publish", "run", "async_run", "request"}

ASSUME CronFileAssumption == WithClass \subseteq CronFile /\ IsFiniteSet(CronFile)
ASSUME PeriodAssumption == /\ Period \in [CronFile -> Nat \ {0}]
                           /\ Phase \in [CronFile -> Nat]
                           /\ \A f \in CronFile : Phase[f] < Period[f]
ASSUME CronBoundsAssumption == /\ LoginAttempts \in Nat \ {0} /\ MaxOverrun \in Nat
                               /\ MaxMinute \in Nat /\ MaxChanges \in Nat
ASSUME CronFaultsAssumption == CronFaults \subseteq CronFaultKinds

VARIABLES
    minute,         \* the clock
    files,          \* cron files in the directory
    crons,          \* crons_: files the last gather found
    loaded,         \* keys of loaded_crons_: files with a class, never forgotten
    heap,           \* cron_queue_: the list heapq works on
    stage,          \* where the runner is
    batch,          \* crons of this round whose request is still to come
    attempts,       \* failed attempts to log in
    changes,        \* added and removed files so far
    first,          \* history: per file the minute it was first scheduled for, or -1
    ran             \* history: per file the minutes whose entry was run

cronVars == <<minute, files, crons, loaded, heap, stage, batch, attempts, changes, first, ran>>
history == <<first, ran>>

-----------------------------------------------------------------------------
(* The schedule and the heap *)

(* ScheduledCron.next: the first minute from t on in which the cron is due *)
NextDue(f, t) == CHOOSE m \in t..(t + Period[f] - 1) : m % Period[f] = Phase[f]

Entry == [file : CronFile, at : Nat]

(* What is reached in D from start by following next. *)
Reached(D, start, next) ==
    {k \in D : \A S \in SUBSET D :
        start \in S /\ (\A j \in S : next[j] \in D => next[j] \in S) => k \in S}

(* heappush: the entry goes up from the end past later ancestors.          *)
HeapPush(q, e) ==
    LET n == Len(q) + 1
        up == Reached(1..n, n, [i \in 1..n |-> i \div 2])
        to == CHOOSE i \in up : /\ i = n \/ q[i].at > e.at
                                /\ \A j \in up : j < i => q[j].at <= e.at
    IN  [i \in 1..n |-> CASE i = to -> e
                          [] i \in up /\ i > to -> q[i \div 2]
                          [] OTHER -> q[i]]

(* Which child _siftup moves up: the right one unless the left is earlier. *)
EarlierChild(q, i) ==
    IF 2 * i + 1 \in DOMAIN q /\ q[2 * i + 1].at <= q[2 * i].at THEN 2 * i + 1 ELSE 2 * i

(* heappop: the last entry takes the place of the first and sinks along    *)
(* the path of the earlier children to where it is in order.               *)
HeapPop(q) ==
    LET e == Last(q)
        s == Front(q)
        down == Reached(DOMAIN s, 1, [i \in DOMAIN s |-> EarlierChild(s, i)])
        to == CHOOSE i \in down : /\ i = 1 \/ s[i].at <= e.at
                                  /\ \A j \in down : j > i => s[j].at > e.at
    IN  [i \in DOMAIN s |-> CASE i = to -> e
                              [] i \in down /\ i < to -> s[EarlierChild(s, i)]
                              [] OTHER -> s[i]]

-----------------------------------------------------------------------------
(* gather_crons *)

(* Faulty variant: a new file that is due before the end of the list is    *)
(* left out like an old one.                                               *)
QueuesOnlyLater(q, new, e) == q = <<>> \/ e.at > Last(q).at

(* A cron is queued if its file is new, or if it is due after the entry    *)
(* that happens to be the last of the list.                                *)
Queues(q, new, e) == e.file \in new \/ e.at > Last(q).at

(* The entries made for the crons in the order they are taken.  init_time  *)
(* is this minute, and once its first second is over the next due minute   *)
(* is looked for from the next one on.                                     *)
Made(order, punctual) ==
    [i \in DOMAIN order |->
        [file |-> order[i],
         at |-> NextDue(order[i], IF i <= punctual THEN minute ELSE minute + 1)]]

(* Faulty variant: entries are added to the list, not to the heap.         *)
QueuedAtEnd(entries, new) ==
    heap \o SelectSeq(entries, LAMBDA e : heap = <<>> \/ Queues(heap, new, e))

(* The heap after all of them were looked at.                              *)
Queued(entries, new) ==
    LET q[i \in 0..Len(entries)] ==
          IF i = 0 THEN heap
          ELSE IF Queues(q[i - 1], new, entries[i]) THEN HeapPush(q[i - 1], entries[i])
          ELSE q[i - 1]
    IN  q[Len(entries)]

(* The list has no last element: IndexError for a cron that is not new.    *)
IndexError(order, new) == heap = <<>> /\ order # <<>> /\ order[1] \notin new

(* Files are taken in the order of a set.  The class of a file that was    *)
(* removed and comes back is the one loaded first.                         *)
GatherInto(next) ==
    LET new == files \ crons
        known == loaded \union (new \intersect WithClass)
    IN  /\ loaded' = known
        /\ crons' = files
        /\ \E order \in SetToSeqs(files \intersect known) :
              IF IndexError(order, new)
              THEN stage' = "drained" /\ UNCHANGED <<heap, first>>
              ELSE \E punctual \in 0..Len(order) :
                      LET made == Made(order, punctual) IN
                      /\ heap' = Queued(made, new)
                      /\ stage' = next
                      /\ first' = [f \in CronFile |->
                            IF f \in new \intersect known /\ first[f] = -1
                            THEN (CHOOSE e \in ToSet(made) : e.file = f).at ELSE first[f]]
        /\ UNCHANGED <<minute, files, batch, attempts, changes, ran>>

(* Runner.__init__ gathers before the first login. *)
CronInit ==
    /\ minute = 0
    /\ files \in SUBSET CronFile
    /\ crons = {} /\ loaded = {} /\ heap = <<>>
    /\ stage = "init"
    /\ batch = <<>>
    /\ attempts = 0 /\ changes = 0
    /\ first = [f \in CronFile |-> -1]
    /\ ran = [f \in CronFile |-> {}]

FirstGather == stage = "init" /\ GatherInto("login")

Gather == stage = "round" /\ GatherInto("due")

-----------------------------------------------------------------------------
(* run *)

Later(n) == minute' \in minute..(minute + n) /\ minute' <= MaxMinute

(* The first refresh of the session, tried until it works; five seconds    *)
(* and the backoff lie between two attempts.                               *)
Login ==
    /\ stage = "login"
    /\ stage' = "round"
    /\ UNCHANGED <<minute, files, crons, loaded, heap, batch, attempts, changes, history>>

LoginFails ==
    /\ stage = "login" /\ "login" \in CronFaults
    /\ attempts' = attempts + 1
    /\ stage' = IF attempts' = LoginAttempts THEN "exited" ELSE "login"
    /\ Later(1)
    /\ UNCHANGED <<files, crons, loaded, heap, batch, changes, history>>

IsDue == heap # <<>> /\ Head(heap).at <= minute

(* Faulty variant: one cron per round. *)
RunDueOnce ==
    /\ stage = "due" /\ IsDue /\ batch = <<>>
    /\ heap' = HeapPop(heap)
    /\ batch' = Append(batch, Head(heap).file)
    /\ ran' = [ran EXCEPT ![Head(heap).file] = @ \union {Head(heap).at}]
    /\ stage' = "async"
    /\ UNCHANGED <<minute, files, crons, loaded, attempts, changes, first>>

(* The first entry is popped, announced on the bus and run.  An answer of  *)
(* the backend that is an error is only logged.                            *)
RunDue ==
    /\ stage = "due" /\ IsDue
    /\ heap' = HeapPop(heap)
    /\ batch' = Append(batch, Head(heap).file)
    /\ ran' = [ran EXCEPT ![Head(heap).file] = @ \union {Head(heap).at}]
    /\ UNCHANGED <<minute, files, crons, loaded, stage, attempts, changes, first>>

(* A backend that cannot be reached while the run is announced, or a run   *)
(* that raises: nothing catches it and the process ends.                   *)
RunDueFails ==
    /\ stage = "due" /\ IsDue
    /\ CronFaults \intersect {"publish", "run"} # {}
    /\ heap' = HeapPop(heap)
    /\ stage' = "failed"
    /\ UNCHANGED <<minute, files, crons, loaded, batch, attempts, changes, history>>

NoneDue ==
    /\ stage = "due" /\ ~IsDue
    /\ stage' = "async"
    /\ UNCHANGED <<minute, files, crons, loaded, heap, batch, attempts, changes, history>>

(* async_run of every cron of the round; nothing catches what it raises.   *)
AsyncRuns ==
    /\ stage = "async"
    /\ \/ stage' = "requests"
       \/ "async_run" \in CronFaults /\ batch # <<>> /\ stage' = "failed"
    /\ UNCHANGED <<minute, files, crons, loaded, heap, batch, attempts, changes, history>>

(* The requests, one after the other.  All are in one try: the first that  *)
(* raises ends the round, and the others are not made.                     *)
Request ==
    /\ stage = "requests" /\ batch # <<>>
    /\ \/ batch' = Tail(batch)
       \/ "request" \in CronFaults /\ batch' = <<>>
    /\ UNCHANGED <<minute, files, crons, loaded, heap, stage, attempts, changes, history>>

(* time.sleep(time_to_next_minute()); the next round refreshes the session *)
(* and goes on whether that works or not.                                  *)
Sleep ==
    /\ stage = "requests" /\ batch = <<>>
    /\ Later(1 + MaxOverrun) /\ minute' > minute
    /\ stage' = "round"
    /\ UNCHANGED <<files, crons, loaded, heap, batch, attempts, changes, history>>

-----------------------------------------------------------------------------
(* What happens to the directory meanwhile *)

AddFile(f) ==
    /\ changes < MaxChanges /\ f \notin files
    /\ files' = files \union {f}
    /\ changes' = changes + 1
    /\ UNCHANGED <<minute, crons, loaded, heap, stage, batch, attempts, history>>

RemoveFile(f) ==
    /\ changes < MaxChanges /\ f \in files
    /\ files' = files \ {f}
    /\ changes' = changes + 1
    /\ UNCHANGED <<minute, crons, loaded, heap, stage, batch, attempts, history>>

CronNext ==
    \/ FirstGather \/ Login \/ LoginFails
    \/ Gather \/ RunDue \/ RunDueFails \/ NoneDue \/ AsyncRuns \/ Request \/ Sleep
    \/ \E f \in CronFile : AddFile(f) \/ RemoveFile(f)

CronSpec == CronInit /\ [][CronNext]_cronVars

-----------------------------------------------------------------------------
(* Properties *)

CronStage == {"init", "login", "round", "due", "async", "requests",
              "drained", "failed", "exited"}

(* Every variable has its type, the list has the shape heapq relies on,    *)
(* and what is queued is a file whose class was loaded, in a minute of its *)
(* schedule.                                                               *)
CronTypeOK ==
    /\ minute \in 0..MaxMinute
    /\ files \subseteq CronFile /\ crons \subseteq CronFile
    /\ loaded \subseteq WithClass
    /\ heap \in Seq(Entry)
    /\ \A i \in DOMAIN heap : /\ i > 1 => heap[i \div 2].at <= heap[i].at
                              /\ heap[i].file \in loaded
                              /\ heap[i].at % Period[heap[i].file] = Phase[heap[i].file]
    /\ stage \in CronStage
    /\ batch \in Seq(loaded)
    /\ attempts \in 0..LoginAttempts /\ changes \in 0..MaxChanges
    /\ first \in [CronFile -> Nat \union {-1}]
    /\ ran \in [CronFile -> SUBSET Nat]

(* When a round goes on to the asynchronous work, nothing that is due is   *)
(* left in the heap, whatever files came and went, entries were queued     *)
(* twice, or rounds were late.                                             *)
NothingOverdue ==
    stage \in {"async", "requests"} => \A i \in DOMAIN heap : heap[i].at > minute

(* A cron that was found is run for the first minute it is due in, even    *)
(* when its file is removed before that minute or the round comes late.    *)
FirstDueRuns ==
    stage \in {"async", "requests"} =>
        \A f \in loaded : first[f] <= minute => first[f] \in ran[f]

(* README.md:14, "runs them on a schedule": a cron whose file stays is run *)
(* in every minute of its schedule, from the first it was queued for.      *)
RunsOnSchedule ==
    stage \in {"requests", "drained"} =>
        \A f \in crons \intersect loaded, m \in 0..minute :
            first[f] <= m /\ m % Period[f] = Phase[f] => m \in ran[f]
=============================================================================
