--------------------------- MODULE RealtimeQueue ---------------------------
(***************************************************************************)
(* The realtime bus: bw/realtime (queue.py, event.py, api.py,              *)
(* endpoints.py) and the tables of bw/models/realtime.py.                  *)
(*                                                                         *)
(* A request handler that publishes an event stores an Event row and then, *)
(* in a second transaction, a QueuedEvent row.  A background task wakes    *)
(* every few seconds, appends all queued events to the message list of     *)
(* every live Worker, inserts their PublishedEvent rows and, in another    *)
(* transaction, deletes their QueuedEvent rows.  Each connection to the    *)
(* event stream is a coroutine that owns one Worker and pops its messages. *)
(*                                                                         *)
(* Everything runs on one event loop and every database call is            *)
(* synchronous, so a piece of code without an await is a step no other     *)
(* handler can interrupt; it is cut here only where a transaction commits, *)
(* because the process can die or the database can fail there.  The        *)
(* variable loop tells which such piece is half done.  A Worker's inbox is *)
(* polled, so EnterProcess and SendDone end where the polling begins, even *)
(* when a message is already there.                                        *)
(*                                                                         *)
(* The queued rows are read without ORDER BY: a tick may see any order.    *)
(***************************************************************************)
EXTENDS Integers, Sequences, FiniteSets, Functions

CONSTANTS
    Event,          \* the events that requests may publish
    Client,         \* the connections to the event stream, one Worker each
    Faults,         \* which of {"crash", "database", "upgrade"} may happen
    MaxRestarts     \* bound: how often the server is started again

ASSUME EventsAreFinite == IsFiniteSet(Event)
ASSUME FaultsAssumption == Faults \subseteq {"crash", "database", "upgrade"}
ASSUME RestartsAssumption == MaxRestarts \in Nat

VARIABLES
    \* tables, which survive the process
    events,         \* rows of Event
    queued,         \* rows of QueuedEvent
    published,      \* rows of PublishedEvent
    \* the server process
    loop,           \* the uninterruptible code that is half done, "idle", or "down"
    current,        \* the rows that code works on
    dead,           \* Queue.dead
    task,           \* process_event_queue: "sleeping", "finished" or "failed"
    registered,     \* events whose class is in global_registered_events
    restarts,
    \* the connections
    subs,           \* the Workers in Queue.queues
    alive,          \* Worker.alive
    inbox,          \* Worker.messages
    phase,          \* where the connection's coroutine is suspended
    \* history
    log,            \* events appended to the Workers since the process started
    start,          \* per client: Len(log) when it subscribed
    baseline,       \* per client: published when it subscribed
    received        \* per client: the events yielded to it

tables == <<events, queued, published>>
process == <<loop, current, dead, task, registered, restarts>>
connections == <<subs, alive, inbox, phase>>
history == <<log, start, baseline, received>>
vars == <<tables, process, connections, history>>

(* "starting": StartEvent is being sent.  "waiting": inside pop_event.     *)
(* "sending": a popped event is being sent.  "ending": EndEvent is being   *)
(* sent.  "left": the client disconnected while StartEvent was being sent, *)
(* before Worker.process() was entered.                                    *)
Open == {"starting", "waiting", "sending", "ending"}
Phase == Open \union {"new", "left", "closed"}

(* The sequences that list every element of S exactly once. *)
Orders(S) == Bijection(1..Cardinality(S), S)

-----------------------------------------------------------------------------
Init ==
    /\ events = {} /\ queued = {} /\ published = {}
    /\ loop = "idle" /\ current = {}
    /\ dead = FALSE
    /\ task = "sleeping"
    /\ registered = Event
    /\ restarts = 0
    /\ subs = {}
    /\ alive = [c \in Client |-> FALSE]
    /\ inbox = [c \in Client |-> <<>>]
    /\ phase = [c \in Client |-> "new"]
    /\ log = <<>>
    /\ start = [c \in Client |-> 0]
    /\ baseline = [c \in Client |-> {}]
    /\ received = [c \in Client |-> <<>>]

-----------------------------------------------------------------------------
(* Publishing: POST /realtime/, or Broker.publish in another handler, ends *)
(* in Queue.on_event -> RealtimeApi.push_event.                            *)

(* Faulty variant: the row is only built, never added to the session. *)
CreateEventUnsaved(e) ==
    /\ loop = "idle"
    /\ e \in registered \ events
    /\ loop' = "push"
    /\ current' = {e}
    /\ UNCHANGED <<tables, dead, task, registered, restarts, connections, history>>

CreateEvent(e) ==
    /\ loop = "idle"
    /\ e \in registered \ events
    /\ events' = events \union {e}
    /\ loop' = "push"
    /\ current' = {e}
    /\ UNCHANGED <<queued, published, dead, task, registered, restarts, connections, history>>

QueueEvent ==
    /\ loop = "push"
    /\ queued' = queued \union current
    /\ loop' = "idle"
    /\ current' = {}
    /\ UNCHANGED <<events, published, dead, task, registered, restarts, connections, history>>

(* The second transaction raises; the request fails and the loop goes on.  *)
QueueEventFails ==
    /\ "database" \in Faults
    /\ loop = "push"
    /\ loop' = "idle"
    /\ current' = {}
    /\ UNCHANGED <<tables, dead, task, registered, restarts, connections, history>>

-----------------------------------------------------------------------------
(* One pass of process_event_queue after its sleep. *)

Pruned == {c \in subs : alive[c]}

(* Faulty variant: messages.insert(0, ...) in place of append. *)
DeliverInFront(order) ==
    /\ subs' = Pruned
    /\ inbox' = [c \in Client |-> IF c \in Pruned THEN order \o inbox[c] ELSE inbox[c]]
    /\ log' = log \o order
    /\ UNCHANGED <<alive, phase, start, baseline, received>>

Deliver(order) ==
    /\ subs' = Pruned
    /\ inbox' = [c \in Client |-> IF c \in Pruned THEN inbox[c] \o order ELSE inbox[c]]
    /\ log' = log \o order
    /\ UNCHANGED <<alive, phase, start, baseline, received>>

TickDeliver ==
    /\ loop = "idle" /\ task = "sleeping"
    /\ queued \subseteq registered
    /\ \E order \in Orders(queued) : Deliver(order)
    /\ loop' = "publish"
    /\ current' = queued
    /\ UNCHANGED <<tables, dead, task, registered, restarts>>

(* web_event_from_model raises at the first row whose class is gone; the   *)
(* rows that came before it are in the inboxes already.                    *)
TickMeetsUnknownEvent ==
    /\ loop = "idle" /\ task = "sleeping"
    /\ ~ queued \subseteq registered
    /\ \E before \in SUBSET (queued \intersect registered) :
           \E order \in Orders(before) : Deliver(order)
    /\ task' = "failed"
    /\ UNCHANGED <<tables, loop, current, dead, registered, restarts>>

TickReadFails ==
    /\ "database" \in Faults
    /\ loop = "idle" /\ task = "sleeping"
    /\ Deliver(<<>>)
    /\ task' = "failed"
    /\ UNCHANGED <<tables, loop, current, dead, registered, restarts>>

(* Faulty variant: the test is inverted. *)
AfterTickInverted == IF dead THEN "sleeping" ELSE "finished"

(* Where the task goes on: the test of `while not self.dead`. *)
AfterTick == IF dead THEN "finished" ELSE "sleeping"

(* publish_queued_event_bulk: one transaction, the event is the key. *)
TickPublish ==
    /\ loop = "publish"
    /\ current \intersect published = {}
    /\ published' = published \union current
    /\ loop' = "pop"
    /\ UNCHANGED <<events, queued, current, dead, task, registered, restarts,
                   connections, history>>

(* Faulty variant: the rows of the batch are not deleted. *)
TickPopKeepsRows ==
    /\ loop = "pop"
    /\ loop' = "idle"
    /\ current' = {}
    /\ task' = AfterTick
    /\ UNCHANGED <<tables, dead, registered, restarts, connections, history>>

(* pop_queued_event_bulk *)
TickPop ==
    /\ loop = "pop"
    /\ queued' = queued \ current
    /\ loop' = "idle"
    /\ current' = {}
    /\ task' = AfterTick
    /\ UNCHANGED <<events, published, dead, registered, restarts, connections, history>>

(* Faulty variant: the rows are deleted in a finally clause. *)
TickRaisesAndPops ==
    /\ \/ loop = "publish" /\ current \intersect published # {}
       \/ loop \in {"publish", "pop"} /\ "database" \in Faults
    /\ queued' = queued \ current
    /\ loop' = "idle"
    /\ current' = {}
    /\ task' = "failed"
    /\ UNCHANGED <<events, published, dead, registered, restarts, connections, history>>

(* A transaction of the tick raises: a duplicate key, or the database.     *)
(* Nothing catches it, so the background task is over.                     *)
TickRaises ==
    /\ \/ loop = "publish" /\ current \intersect published # {}
       \/ loop \in {"publish", "pop"} /\ "database" \in Faults
    /\ loop' = "idle"
    /\ current' = {}
    /\ task' = "failed"
    /\ UNCHANGED <<tables, dead, registered, restarts, connections, history>>

-----------------------------------------------------------------------------
(* GET /realtime/sse *)

(* Faulty variant: a Worker is not alive until its stream is processed. *)
SubscribeNotAlive(c) ==
    /\ loop = "idle"
    /\ phase[c] = "new"
    /\ subs' = subs \union {c}
    /\ phase' = [phase EXCEPT ![c] = "starting"]
    /\ start' = [start EXCEPT ![c] = Len(log)]
    /\ baseline' = [baseline EXCEPT ![c] = published]
    /\ UNCHANGED <<tables, process, alive, inbox, log, received>>

(* Queue.subscribe; StartEvent goes out. *)
Subscribe(c) ==
    /\ loop = "idle"
    /\ phase[c] = "new"
    /\ subs' = subs \union {c}
    /\ alive' = [alive EXCEPT ![c] = ~dead]
    /\ phase' = [phase EXCEPT ![c] = "starting"]
    /\ start' = [start EXCEPT ![c] = Len(log)]
    /\ baseline' = [baseline EXCEPT ![c] = published]
    /\ UNCHANGED <<tables, process, inbox, log, received>>

(* Worker.process() sets alive, whatever stop() did in the meantime. *)
EnterProcess(c) ==
    /\ loop = "idle"
    /\ phase[c] = "starting"
    /\ alive' = [alive EXCEPT ![c] = TRUE]
    /\ phase' = [phase EXCEPT ![c] = "waiting"]
    /\ UNCHANGED <<tables, process, subs, inbox, history>>

(* Faulty variant: messages.pop() takes the newest message. *)
PopEventNewest(c) ==
    /\ loop = "idle"
    /\ phase[c] = "waiting"
    /\ inbox[c] # <<>>
    /\ inbox' = [inbox EXCEPT ![c] = SubSeq(@, 1, Len(@) - 1)]
    /\ received' = [received EXCEPT ![c] = Append(@, inbox[c][Len(inbox[c])])]
    /\ phase' = [phase EXCEPT ![c] = "sending"]
    /\ UNCHANGED <<tables, process, subs, alive, log, start, baseline>>

(* pop_event looks at messages only: stop() does not wake it up. *)
PopEvent(c) ==
    /\ loop = "idle"
    /\ phase[c] = "waiting"
    /\ inbox[c] # <<>>
    /\ inbox' = [inbox EXCEPT ![c] = Tail(@)]
    /\ received' = [received EXCEPT ![c] = Append(@, Head(inbox[c]))]
    /\ phase' = [phase EXCEPT ![c] = "sending"]
    /\ UNCHANGED <<tables, process, subs, alive, log, start, baseline>>

(* Faulty variant: `while True` in place of `while worker.alive`. *)
SendDoneForever(c) ==
    /\ loop = "idle"
    /\ phase[c] = "sending"
    /\ phase' = [phase EXCEPT ![c] = "waiting"]
    /\ UNCHANGED <<tables, process, subs, alive, inbox, history>>

(* The client took the event: test of `while worker.alive`. *)
SendDone(c) ==
    /\ loop = "idle"
    /\ phase[c] = "sending"
    /\ phase' = [phase EXCEPT ![c] = IF alive[c] THEN "waiting" ELSE "ending"]
    /\ UNCHANGED <<tables, process, subs, alive, inbox, history>>

EndDone(c) ==
    /\ loop = "idle"
    /\ phase[c] = "ending"
    /\ phase' = [phase EXCEPT ![c] = "closed"]
    /\ UNCHANGED <<tables, process, subs, alive, inbox, history>>

(* The client goes away.  Inside process() the finally clause runs; before *)
(* it, nothing marks the Worker dead.                                      *)
Disconnect(c) ==
    /\ loop = "idle"
    /\ phase[c] \in Open
    /\ IF phase[c] = "starting"
       THEN /\ phase' = [phase EXCEPT ![c] = "left"]
            /\ UNCHANGED alive
       ELSE /\ phase' = [phase EXCEPT ![c] = "closed"]
            /\ alive' = [alive EXCEPT ![c] = FALSE]
    /\ UNCHANGED <<tables, process, subs, inbox, history>>

-----------------------------------------------------------------------------
(* bw/server.py: shutdown, crash and restart *)

(* After the last request the server calls Queue.stop(); the framework may *)
(* have cancelled the background task in its sleep by then.                *)
Stop ==
    /\ loop = "idle" /\ ~dead
    /\ dead' = TRUE
    /\ alive' = [c \in Client |-> alive[c] /\ c \notin subs]
    /\ task' \in IF task = "sleeping" THEN {"sleeping", "finished"} ELSE {task}
    /\ UNCHANGED <<tables, loop, current, registered, restarts, subs, inbox, phase, history>>

(* The process ends, after Stop or at any point; its connections break and *)
(* what it kept in memory is gone.                                         *)
Exit ==
    /\ loop # "down"
    /\ \/ "crash" \in Faults
       \/ dead /\ loop = "idle"
    /\ loop' = "down"
    /\ current' = {}
    /\ dead' = FALSE
    /\ task' = "finished"
    /\ subs' = {}
    /\ alive' = [c \in Client |-> FALSE]
    /\ inbox' = [c \in Client |-> <<>>]
    /\ phase' = [c \in Client |-> IF phase[c] \in Open THEN "closed" ELSE phase[c]]
    /\ log' = <<>>
    /\ UNCHANGED <<tables, registered, restarts, start, baseline, received>>

(* A restart may come with a new version of the code, which may no longer  *)
(* define the class of some event.                                         *)
Restart ==
    /\ loop = "down"
    /\ restarts < MaxRestarts
    /\ restarts' = restarts + 1
    /\ loop' = "idle"
    /\ task' = "sleeping"
    /\ registered' \in IF "upgrade" \in Faults THEN SUBSET Event ELSE {Event}
    /\ UNCHANGED <<tables, current, dead, connections, history>>

-----------------------------------------------------------------------------
Push == (\E e \in Event : CreateEvent(e)) \/ QueueEvent \/ QueueEventFails

Tick ==
    \/ TickDeliver \/ TickPublish \/ TickPop
    \/ TickMeetsUnknownEvent \/ TickReadFails \/ TickRaises

Stream(c) ==
    \/ Subscribe(c) \/ EnterProcess(c) \/ PopEvent(c) \/ SendDone(c)
    \/ EndDone(c) \/ Disconnect(c)

Next ==
    \/ Push
    \/ Tick
    \/ \E c \in Client : Stream(c)
    \/ Stop \/ Exit \/ Restart

Spec == Init /\ [][Next]_vars

(* The event loop runs what is ready: code between two awaits completes,   *)
(* the sleep of the background task ends, a polling Worker sees its inbox, *)
(* and a started process stays or is started again by its supervisor.  A   *)
(* client takes what it is sent or disconnects.  A coroutine that is ready *)
(* runs again and again between the ticks, which is strong fairness: a     *)
(* tick disables it only while the tick itself runs.  Nothing makes        *)
(* clients connect, requests publish, or the server stop.                  *)
Fairness ==
    /\ WF_vars(QueueEvent \/ QueueEventFails)
    /\ WF_vars(Tick)
    /\ WF_vars(Restart)
    /\ \A c \in Client :
          SF_vars(EnterProcess(c) \/ PopEvent(c) \/ SendDone(c) \/ EndDone(c))

FairSpec == Spec /\ Fairness

-----------------------------------------------------------------------------
(* Properties *)

(* Every variable has its type, and the foreign keys of QueuedEvent and    *)
(* PublishedEvent hold.                                                    *)
TypeOK ==
    /\ events \subseteq Event
    /\ queued \subseteq events /\ published \subseteq events
    /\ loop \in {"idle", "push", "publish", "pop", "down"}
    /\ current \subseteq events
    /\ dead \in BOOLEAN
    /\ task \in {"sleeping", "finished", "failed"}
    /\ registered \subseteq Event
    /\ restarts \in Nat
    /\ subs \subseteq Client
    /\ alive \in [Client -> BOOLEAN]
    /\ inbox \in [Client -> Seq(Event)]
    /\ phase \in [Client -> Phase]
    /\ log \in Seq(Event)
    /\ start \in [Client -> Nat]
    /\ baseline \in [Client -> SUBSET Event]
    /\ received \in [Client -> Seq(Event)]

(* No stream yields an event twice, whatever crashes, failed transactions  *)
(* or unknown events interrupt the ticks: a tick that does not get to the  *)
(* deletion of its rows is the last one of its process.                    *)
NoDuplicateDelivery ==
    \A c \in Client : IsInjective(received[c])

(* Two streams of the same process yield the events they share in the same *)
(* order, although the ticks read the rows in no particular order and the  *)
(* streams may have joined and paused at different times.                  *)
OrderAgreement ==
    \A c, d \in {x \in Client : phase[x] \in Open} :
        \A i, j \in DOMAIN received[c] : \A k, l \in DOMAIN received[d] :
            /\ received[c][i] = received[d][k]
            /\ received[c][j] = received[d][l]
            /\ i < j
            => k < l

(* While the server is not stopping, an open stream has yielded or holds   *)
(* every event whose PublishedEvent row was written since it subscribed:   *)
(* an event is not marked as published behind a subscriber's back, not     *)
(* even one that is still being sent its StartEvent.                       *)
ServedInFull ==
    loop = "idle" /\ ~dead =>
        \A c \in Client : phase[c] \in Open \ {"ending"} =>
            published \ baseline[c] \subseteq Range(received[c]) \union Range(inbox[c])

(* A QueuedEvent row disappears only when its PublishedEvent row exists:   *)
(* a crash or a failure may repeat an event but never drops it silently.   *)
UnpublishedStaysQueued ==
    [][\A e \in queued \ queued' : e \in published']_vars

(* A stream that got past its StartEvent leaks nothing: once it is closed,  *)
(* no tick appends to its Worker again, however late it is pruned.         *)
ClosedIsNotFed ==
    [][\A c \in Client : phase[c] = "closed" => Len(inbox'[c]) <= Len(inbox[c])]_vars

(* The inductive invariant behind the safety properties.  The log repeats  *)
(* nothing and holds only events the tables know; between the ticks of a   *)
(* running task none of them is queued any more, because a tick deletes    *)
(* exactly the rows it appended; and every stream is a window on the log:  *)
(* first what it yielded, then its inbox.                                  *)
LogInv ==
    /\ IsInjective(log)
    /\ Range(log) \subseteq queued \union published
    /\ loop = "down" => log = <<>>

LoopInv ==
    /\ loop = "push" => \E e \in Event : current = {e} /\ e \notin queued \union published
    /\ loop \in {"idle", "push"} /\ task = "sleeping" => queued \intersect Range(log) = {}
    /\ loop \in {"publish", "pop"} =>
           /\ task = "sleeping"
           /\ current = queued \intersect Range(log)
    /\ loop = "pop" => current \subseteq published

Connected(c) == c \in subs \/ phase[c] \in Open

(* The sequences yielded and kept follow each other in l from position at. *)
IsWindow(at, yielded, kept, l) ==
    /\ at + Len(yielded) + Len(kept) <= Len(l)
    /\ \A i \in 1..Len(yielded) : yielded[i] = l[at + i]
    /\ \A i \in 1..Len(kept) : kept[i] = l[at + Len(yielded) + i]

ReachesEnd(at, yielded, kept, l) == Len(l) = at + Len(yielded) + Len(kept)

WindowInv(c) ==
    Connected(c) =>
        /\ IsWindow(start[c], received[c], inbox[c], log)
        /\ c \in subs => ReachesEnd(start[c], received[c], inbox[c], log)

PhaseInv(c) ==
    /\ phase[c] = "new" => c \notin subs /\ received[c] = <<>> /\ inbox[c] = <<>>
    /\ phase[c] \in {"ending", "closed"} => ~alive[c]
    /\ ~dead /\ phase[c] \in Open \ {"ending"} => c \in subs /\ alive[c]
    /\ loop = "down" => c \notin subs /\ phase[c] \notin Open

(* What the tables say, or are about to say, was sent to all subscribers.  *)
Marked == published \union (IF loop \in {"publish", "pop"} THEN current ELSE {})

ServedInv(c) ==
    ~dead /\ phase[c] \in Open \ {"ending"} =>
        Marked \ baseline[c] \subseteq Range(received[c]) \union Range(inbox[c])

Inv ==
    /\ TypeOK
    /\ LogInv
    /\ LoopInv
    /\ \A c \in Client :
           WindowInv(c) /\ PhaseInv(c) /\ ServedInv(c) /\ IsInjective(received[c])

(* The streams implement the abstract bus, under every fault. *)
Bus == INSTANCE EventBus WITH
    accepted <- queued \union published,
    pending <- queued \ Range(log),
    members <- {c \in Client : phase[c] \in Open},
    got <- received

ImplementsBus == Bus!BusSpec

(* "pushes each queued event to every active worker": a stream that is     *)
(* open when an event is queued gets it, unless the client or the server   *)
(* goes away first.                                                        *)
QueuedIsDelivered ==
    \A e \in Event, c \in Client :
        (e \in queued \ Range(log) /\ phase[c] = "waiting" /\ ~dead)
            ~> (e \in Range(received[c]) \/ phase[c] \notin Open \/ dead \/ loop = "down")

(* A published event does not wait for ever: what is queued while the      *)
(* server runs is eventually written to the published table, or the server *)
(* is stopped.                                                             *)
QueuedIsPublished ==
    \A e \in Event : (e \in queued) ~> (e \in published \/ dead \/ loop = "down")

(* stop() reaches every stream that is busy sending: it ends with EndEvent *)
(* (or the client leaves).                                                 *)
StopEndsBusyStreams ==
    \A c \in Client :
        (dead /\ phase[c] = "sending" /\ ~alive[c]) ~> phase[c] \in {"closed", "left"}
=============================================================================
