------------------------ MODULE RealtimeQueueProofs ------------------------
(***************************************************************************)
(* Theorems about RealtimeQueue for every set of clients, every finite set *)
(* of events, every choice of faults and any number of restarts.           *)
(***************************************************************************)
EXTENDS RealtimeQueue, FiniteSetTheorems, SequenceTheorems, TLAPS

-----------------------------------------------------------------------------
(* Sequences and orders *)

LEMMA OrdersAreSequences ==
    ASSUME NEW S, IsFiniteSet(S), NEW o \in Orders(S)
    PROVE  /\ o \in Seq(S)
           /\ IsInjective(o)
           /\ Range(o) = S
<1>1. Cardinality(S) \in Nat
  BY FS_CardinalityType
<1>2. o \in [1..Cardinality(S) -> S] /\ IsInjective(o)
      /\ \A x \in S : \E i \in 1..Cardinality(S) : o[i] = x
  BY DEF Orders, Bijection, Injection, Surjection
<1>3. o \in Seq(S)
  BY <1>1, <1>2
<1>4. Range(o) = S
  BY <1>2 DEF Range
<1> QED
  BY <1>2, <1>3, <1>4

LEMMA ConcatFacts ==
    ASSUME NEW E, NEW s \in Seq(E), NEW t \in Seq(E)
    PROVE  /\ s \o t \in Seq(E)
           /\ Len(s \o t) = Len(s) + Len(t)
           /\ \A i \in 1..Len(s) : (s \o t)[i] = s[i]
           /\ \A i \in 1..Len(t) : (s \o t)[Len(s) + i] = t[i]
OBVIOUS

LEMMA ConcatInjective ==
    ASSUME NEW E, NEW s \in Seq(E), NEW t \in Seq(E),
           IsInjective(s), IsInjective(t), Range(s) \intersect Range(t) = {}
    PROVE  IsInjective(s \o t)
<1> SUFFICES ASSUME NEW i \in 1..(Len(s) + Len(t)), NEW j \in 1..(Len(s) + Len(t)),
                    (s \o t)[i] = (s \o t)[j]
             PROVE  i = j
  BY DEF IsInjective
<1>1. CASE i <= Len(s) /\ j <= Len(s)
  BY <1>1, ConcatFacts DEF IsInjective
<1>2. CASE i > Len(s) /\ j > Len(s)
  BY <1>2, ConcatFacts DEF IsInjective
<1>3. CASE i <= Len(s) /\ j > Len(s)
  <2>1. (s \o t)[i] \in Range(s) /\ (s \o t)[j] \in Range(t)
    BY <1>3, ConcatFacts DEF Range
  <2> QED BY <2>1
<1>4. CASE i > Len(s) /\ j <= Len(s)
  <2>1. (s \o t)[i] \in Range(t) /\ (s \o t)[j] \in Range(s)
    BY <1>4, ConcatFacts DEF Range
  <2> QED BY <2>1
<1> QED
  BY <1>1, <1>2, <1>3, <1>4

(* A set of events can be listed, and its listings are sequences of events. *)
LEMMA EventOrders ==
    ASSUME NEW S, S \subseteq Event, NEW o \in Orders(S)
    PROVE  /\ o \in Seq(Event)
           /\ IsInjective(o)
           /\ Range(o) = S
<1>1. IsFiniteSet(S)
  BY EventsAreFinite, FS_Subset
<1>2. o \in Seq(S) /\ IsInjective(o) /\ Range(o) = S
  BY <1>1, OrdersAreSequences
<1>3. o \in Seq(Event)
  BY <1>2
<1> QED
  BY <1>2, <1>3

-----------------------------------------------------------------------------
(* Types *)

LEMMA DeliverType ==
    ASSUME TypeOK, NEW o \in Seq(Event), Deliver(o)
    PROVE  /\ subs' \subseteq Client
           /\ alive' \in [Client -> BOOLEAN]
           /\ inbox' \in [Client -> Seq(Event)]
           /\ phase' \in [Client -> Phase]
           /\ log' \in Seq(Event)
           /\ start' \in [Client -> Nat]
           /\ baseline' \in [Client -> SUBSET Event]
           /\ received' \in [Client -> Seq(Event)]
<1>1. \A c \in Client : inbox[c] \in Seq(Event) /\ inbox[c] \o o \in Seq(Event)
  BY ConcatFacts DEF TypeOK
<1>2. inbox' \in [Client -> Seq(Event)]
  BY <1>1 DEF Deliver
<1>3. log' \in Seq(Event)
  BY ConcatFacts DEF Deliver, TypeOK
<1> QED
  BY <1>2, <1>3 DEF Deliver, Pruned, TypeOK

LEMMA TypeInit == Init => TypeOK
<1> SUFFICES ASSUME Init PROVE TypeOK
  OBVIOUS
<1>1. inbox \in [Client -> Seq(Event)] /\ received \in [Client -> Seq(Event)]
  BY DEF Init
<1>2. phase \in [Client -> Phase]
  BY DEF Init, Phase
<1>3. alive \in [Client -> BOOLEAN] /\ start \in [Client -> Nat]
  BY DEF Init
<1>4. log \in Seq(Event)
  BY DEF Init
<1> QED
  BY <1>1, <1>2, <1>3, <1>4 DEF Init, TypeOK

LEMMA TypeStep == TypeOK /\ [Next]_vars => TypeOK'
<1> SUFFICES ASSUME TypeOK, [Next]_vars PROVE TypeOK'
  OBVIOUS
<1>1. ASSUME NEW e \in Event, CreateEvent(e) PROVE TypeOK'
  BY <1>1 DEF TypeOK, CreateEvent, connections, history
<1>2. CASE QueueEvent
  BY <1>2 DEF TypeOK, QueueEvent, connections, history
<1>3. CASE QueueEventFails
  BY <1>3 DEF TypeOK, QueueEventFails, tables, connections, history
<1>4. CASE TickDeliver
  <2>1. PICK o \in Orders(queued) : Deliver(o)
    BY <1>4 DEF TickDeliver
  <2>2. o \in Seq(Event)
    BY EventOrders DEF TypeOK
  <2> QED
    BY <1>4, <2>1, <2>2, DeliverType DEF TickDeliver, TypeOK, tables
<1>5. CASE TickMeetsUnknownEvent
  <2>1. PICK before \in SUBSET (queued \intersect registered) :
            \E o \in Orders(before) : Deliver(o)
    BY <1>5 DEF TickMeetsUnknownEvent
  <2>2. PICK o \in Orders(before) : Deliver(o)
    BY <2>1
  <2>3. o \in Seq(Event)
    BY EventOrders DEF TypeOK
  <2> QED
    BY <1>5, <2>2, <2>3, DeliverType DEF TickMeetsUnknownEvent, TypeOK, tables
<1>6. CASE TickReadFails
  <2>1. <<>> \in Seq(Event) /\ Deliver(<<>>)
    BY <1>6 DEF TickReadFails
  <2> QED
    BY <1>6, <2>1, DeliverType DEF TickReadFails, TypeOK, tables
<1>7. CASE TickPublish
  BY <1>7 DEF TypeOK, TickPublish, connections, history
<1>8. CASE TickPop
  BY <1>8 DEF TypeOK, TickPop, AfterTick, connections, history
<1>9. CASE TickRaises
  BY <1>9 DEF TypeOK, TickRaises, tables, connections, history
<1>10. ASSUME NEW c \in Client, Subscribe(c) PROVE TypeOK'
  BY <1>10 DEF TypeOK, Subscribe, tables, process, Phase, Open
<1>11. ASSUME NEW c \in Client, EnterProcess(c) PROVE TypeOK'
  BY <1>11 DEF TypeOK, EnterProcess, tables, process, history, Phase, Open
<1>12. ASSUME NEW c \in Client, PopEvent(c) PROVE TypeOK'
  <2>1. Tail(inbox[c]) \in Seq(Event) /\ Append(received[c], Head(inbox[c])) \in Seq(Event)
    BY <1>12 DEF TypeOK, PopEvent
  <2> QED
    BY <1>12, <2>1 DEF TypeOK, PopEvent, tables, process, Phase, Open
<1>13. ASSUME NEW c \in Client, SendDone(c) PROVE TypeOK'
  BY <1>13 DEF TypeOK, SendDone, tables, process, history, Phase, Open
<1>14. ASSUME NEW c \in Client, EndDone(c) PROVE TypeOK'
  BY <1>14 DEF TypeOK, EndDone, tables, process, history, Phase, Open
<1>15. ASSUME NEW c \in Client, Disconnect(c) PROVE TypeOK'
  BY <1>15 DEF TypeOK, Disconnect, tables, process, history, Phase, Open
<1>16. CASE Stop
  BY <1>16 DEF TypeOK, Stop, tables, history
<1>17. CASE Exit
  <2>1. inbox' \in [Client -> Seq(Event)]
    BY <1>17 DEF Exit
  <2>2. phase' \in [Client -> Phase]
    BY <1>17 DEF Exit, TypeOK, Phase, Open
  <2>3. log' \in Seq(Event)
    BY <1>17 DEF Exit
  <2> QED
    BY <1>17, <2>1, <2>2, <2>3 DEF TypeOK, Exit, tables
<1>18. CASE Restart
  BY <1>18 DEF TypeOK, Restart, tables, connections, history
<1>19. CASE UNCHANGED vars
  BY <1>19 DEF TypeOK, vars, tables, process, connections, history
<1> QED
  BY <1>1, <1>2, <1>3, <1>4, <1>5, <1>6, <1>7, <1>8, <1>9, <1>10, <1>11, <1>12,
     <1>13, <1>14, <1>15, <1>16, <1>17, <1>18, <1>19
  DEF Next, Push, Tick, Stream

(* Type correctness, with the foreign keys of the queued and published     *)
(* tables: the rows a tick or a request works on are rows of Event.        *)
THEOREM TypeCorrect == Spec => []TypeOK
<1> QED
  BY TypeInit, TypeStep, PTL DEF Spec

-----------------------------------------------------------------------------
(* Windows *)

(* Appending to the log keeps a window. *)
LEMMA WindowLogGrows ==
    ASSUME NEW E, NEW l \in Seq(E), NEW o \in Seq(E), NEW r \in Seq(E), NEW q \in Seq(E),
           NEW s \in Nat, IsWindow(s, r, q, l)
    PROVE  IsWindow(s, r, q, l \o o)
<1>1. Len(l) \in Nat /\ Len(o) \in Nat /\ Len(r) \in Nat /\ Len(q) \in Nat
  OBVIOUS
<1>2. Len(l \o o) = Len(l) + Len(o) /\ \A i \in 1..Len(l) : (l \o o)[i] = l[i]
  BY ConcatFacts
<1>3. s + Len(r) + Len(q) <= Len(l)
  BY DEF IsWindow
<1>4. ASSUME NEW i \in 1..Len(r) PROVE r[i] = (l \o o)[s + i]
  <2>1. s + i \in 1..Len(l)
    BY <1>1, <1>3
  <2> QED
    BY <1>2, <2>1 DEF IsWindow
<1>5. ASSUME NEW i \in 1..Len(q) PROVE q[i] = (l \o o)[s + Len(r) + i]
  <2>1. s + Len(r) + i \in 1..Len(l)
    BY <1>1, <1>3
  <2> QED
    BY <1>2, <2>1 DEF IsWindow
<1>6. s + Len(r) + Len(q) <= Len(l \o o)
  BY <1>1, <1>2, <1>3
<1> QED
  BY <1>4, <1>5, <1>6 DEF IsWindow

(* A window that reaches the end of the log still does when the log and    *)
(* the inbox grow by the same events.                                      *)
LEMMA WindowBothGrow ==
    ASSUME NEW E, NEW l \in Seq(E), NEW o \in Seq(E), NEW r \in Seq(E), NEW q \in Seq(E),
           NEW s \in Nat, IsWindow(s, r, q, l), ReachesEnd(s, r, q, l)
    PROVE  IsWindow(s, r, q \o o, l \o o) /\ ReachesEnd(s, r, q \o o, l \o o)
<1>1. Len(l) \in Nat /\ Len(o) \in Nat /\ Len(r) \in Nat /\ Len(q) \in Nat
  OBVIOUS
<1>2. /\ Len(l \o o) = Len(l) + Len(o)
      /\ \A i \in 1..Len(o) : (l \o o)[Len(l) + i] = o[i]
  BY ConcatFacts
<1>3. /\ Len(q \o o) = Len(q) + Len(o)
      /\ \A i \in 1..Len(q) : (q \o o)[i] = q[i]
      /\ \A i \in 1..Len(o) : (q \o o)[Len(q) + i] = o[i]
  BY ConcatFacts
<1>4. IsWindow(s, r, q, l \o o)
  BY WindowLogGrows
<1>5. ASSUME NEW i \in 1..Len(q \o o) PROVE (q \o o)[i] = (l \o o)[s + Len(r) + i]
  <2>1. CASE i \in 1..Len(q)
    <3>1. q[i] = (l \o o)[s + Len(r) + i]
      BY <1>4, <2>1 DEF IsWindow
    <3> QED
      BY <1>3, <2>1, <3>1
  <2>2. CASE i \notin 1..Len(q)
    <3>1. i - Len(q) \in 1..Len(o) /\ i = Len(q) + (i - Len(q))
      BY <1>1, <1>3, <2>2
    <3>2. s + Len(r) + i = Len(l) + (i - Len(q))
      BY <1>1, <3>1 DEF ReachesEnd
    <3>3. (q \o o)[i] = o[i - Len(q)]
      BY <1>3, <3>1
    <3>4. (l \o o)[s + Len(r) + i] = o[i - Len(q)]
      BY <1>2, <3>1, <3>2
    <3> QED
      BY <3>3, <3>4
  <2> QED
    BY <2>1, <2>2
<1>6. Len(l \o o) = Len(l) + Len(o) /\ Len(q \o o) = Len(q) + Len(o)
  BY <1>2, <1>3
<1>7. ReachesEnd(s, r, q \o o, l \o o)
  BY <1>1, <1>6 DEF ReachesEnd
<1>8. s + Len(r) + Len(q \o o) <= Len(l \o o)
  BY <1>1, <1>6 DEF ReachesEnd
<1> QED
  BY <1>4, <1>5, <1>7, <1>8 DEF IsWindow

(* Popping moves the boundary between what was yielded and the inbox. *)
LEMMA WindowPop ==
    ASSUME NEW E, NEW l \in Seq(E), NEW r \in Seq(E), NEW q \in Seq(E), q # <<>>,
           NEW s \in Nat, IsWindow(s, r, q, l)
    PROVE  /\ IsWindow(s, Append(r, Head(q)), Tail(q), l)
           /\ ReachesEnd(s, r, q, l) => ReachesEnd(s, Append(r, Head(q)), Tail(q), l)
<1>1. Len(l) \in Nat /\ Len(r) \in Nat /\ Len(q) \in Nat /\ Len(q) > 0
  OBVIOUS
<1>2. /\ Len(Tail(q)) = Len(q) - 1
      /\ \A i \in 1..(Len(q) - 1) : Tail(q)[i] = q[i + 1]
  OBVIOUS
<1>3. /\ Len(Append(r, Head(q))) = Len(r) + 1
      /\ \A i \in 1..Len(r) : Append(r, Head(q))[i] = r[i]
      /\ Append(r, Head(q))[Len(r) + 1] = q[1]
  OBVIOUS
<1>4. ASSUME NEW i \in 1..(Len(r) + 1) PROVE Append(r, Head(q))[i] = l[s + i]
  <2>1. CASE i \in 1..Len(r)
    BY <1>3, <2>1 DEF IsWindow
  <2>2. CASE i = Len(r) + 1
    <3>1. 1 \in 1..Len(q)
      BY <1>1
    <3>2. q[1] = l[s + Len(r) + 1]
      BY <3>1 DEF IsWindow
    <3>3. s + Len(r) + 1 = s + i
      BY <1>1, <2>2
    <3> QED
      BY <1>3, <2>2, <3>2, <3>3
  <2> QED
    BY <1>1, <2>1, <2>2
<1>5. ASSUME NEW i \in 1..(Len(q) - 1) PROVE Tail(q)[i] = l[s + (Len(r) + 1) + i]
  <2>1. i + 1 \in 1..Len(q) /\ s + Len(r) + (i + 1) = s + (Len(r) + 1) + i
    BY <1>1
  <2>2. q[i + 1] = l[s + Len(r) + (i + 1)]
    BY <2>1 DEF IsWindow
  <2> QED
    BY <1>2, <2>1, <2>2
<1>6. s + (Len(r) + 1) + (Len(q) - 1) = s + Len(r) + Len(q)
  BY <1>1
<1>7. s + Len(r) + Len(q) <= Len(l)
  BY DEF IsWindow
<1> QED
  BY <1>2, <1>3, <1>4, <1>5, <1>6, <1>7 DEF IsWindow, ReachesEnd

(* What is yielded from a log that repeats nothing repeats nothing. *)
LEMMA WindowInjective ==
    ASSUME NEW E, NEW l \in Seq(E), NEW r \in Seq(E), NEW q \in Seq(E),
           NEW s \in Nat, IsWindow(s, r, q, l), IsInjective(l)
    PROVE  IsInjective(r)
<1>1. Len(l) \in Nat /\ Len(r) \in Nat /\ Len(q) \in Nat
      /\ DOMAIN l = 1..Len(l) /\ DOMAIN r = 1..Len(r)
  OBVIOUS
<1>2. s + Len(r) + Len(q) <= Len(l)
  BY DEF IsWindow
<1>3. SUFFICES ASSUME NEW i \in 1..Len(r), NEW j \in 1..Len(r), r[i] = r[j]
               PROVE  i = j
  BY <1>1 DEF IsInjective
<1>4. s + i \in DOMAIN l /\ s + j \in DOMAIN l
  BY <1>1, <1>2
<1>5. l[s + i] = l[s + j]
  BY <1>3 DEF IsWindow
<1>6. s + i = s + j
  BY <1>4, <1>5 DEF IsInjective
<1> QED
  BY <1>6

-----------------------------------------------------------------------------
(* The inductive invariant *)

LEMMA InvInit == Init => Inv
<1> SUFFICES ASSUME Init PROVE Inv
  OBVIOUS
<1>1. TypeOK
  BY TypeInit
<1>2. LogInv /\ LoopInv
  BY DEF Init, LogInv, LoopInv, IsInjective, Range
<1>3. ASSUME NEW c \in Client
      PROVE  WindowInv(c) /\ PhaseInv(c) /\ ServedInv(c) /\ IsInjective(received[c])
  BY DEF Init, WindowInv, Connected, PhaseInv, ServedInv, IsInjective, Open
<1> QED
  BY <1>1, <1>2, <1>3 DEF Inv

(* A step that leaves the streams and their history alone keeps the windows. *)
LEMMA WindowFrame ==
    ASSUME NEW c \in Client, WindowInv(c), IsInjective(received[c]),
           UNCHANGED <<connections, history>>
    PROVE  WindowInv(c)' /\ IsInjective(received[c])'
BY DEF WindowInv, Connected, connections, history, IsInjective

(* A tick extends the log and the inbox of every live Worker by the same   *)
(* events; the Workers it prunes keep the window they had.                 *)
LEMMA DeliverWindow ==
    ASSUME TypeOK, NEW o \in Seq(Event), Deliver(o), NEW c \in Client, WindowInv(c)
    PROVE  WindowInv(c)'
<1> SUFFICES ASSUME Connected(c)'
             PROVE  /\ IsWindow(start[c], received[c], inbox'[c], log \o o)
                    /\ c \in subs' =>
                          ReachesEnd(start[c], received[c], inbox'[c], log \o o)
  BY DEF WindowInv, IsWindow, ReachesEnd, Deliver
<1>1. /\ received[c] \in Seq(Event) /\ inbox[c] \in Seq(Event) /\ log \in Seq(Event)
      /\ start[c] \in Nat
  BY DEF TypeOK
<1>2. /\ IsWindow(start[c], received[c], inbox[c], log)
      /\ c \in subs => ReachesEnd(start[c], received[c], inbox[c], log)
  BY DEF WindowInv, Connected, Deliver, Pruned
<1>3. CASE c \in Pruned
  <2>1. inbox'[c] = inbox[c] \o o /\ c \in subs
    BY <1>3 DEF Deliver, Pruned
  <2> QED
    BY <1>1, <1>2, <2>1, WindowBothGrow
<1>4. CASE c \notin Pruned
  <2>1. inbox'[c] = inbox[c] /\ c \notin subs'
    BY <1>4 DEF Deliver, TypeOK
  <2> QED
    BY <1>1, <1>2, <2>1, WindowLogGrows
<1> QED
  BY <1>3, <1>4

LEMMA PopWindow ==
    ASSUME TypeOK, NEW c \in Client, PopEvent(c), WindowInv(c), IsInjective(log)
    PROVE  WindowInv(c)' /\ IsInjective(received[c])'
<1>1. /\ received[c] \in Seq(Event) /\ inbox[c] \in Seq(Event) /\ log \in Seq(Event)
      /\ start[c] \in Nat
  BY DEF TypeOK
<1>2. /\ IsWindow(start[c], received[c], inbox[c], log)
      /\ c \in subs => ReachesEnd(start[c], received[c], inbox[c], log)
  BY DEF WindowInv, Connected, PopEvent, Open
<1>3. /\ inbox[c] # <<>>
      /\ inbox'[c] = Tail(inbox[c])
      /\ received'[c] = Append(received[c], Head(inbox[c]))
      /\ start' = start /\ log' = log /\ subs' = subs
  BY DEF PopEvent, TypeOK
<1>4. /\ IsWindow(start[c], received'[c], inbox'[c], log)
      /\ c \in subs => ReachesEnd(start[c], received'[c], inbox'[c], log)
  BY <1>1, <1>2, <1>3, WindowPop
<1>5. received'[c] \in Seq(Event) /\ inbox'[c] \in Seq(Event)
  BY <1>1, <1>3
<1>6. IsInjective(received'[c])
  BY <1>1, <1>4, <1>5, WindowInjective
<1> QED
  BY <1>3, <1>4, <1>6 DEF WindowInv, IsWindow, ReachesEnd, IsInjective

(* The log and the rows that half-done code works on. *)
LEMMA LogStep ==
    ASSUME TypeOK, LogInv, LoopInv, [Next]_vars
    PROVE  LogInv' /\ LoopInv'
<1>1. ASSUME NEW e \in Event, CreateEvent(e) PROVE LogInv' /\ LoopInv'
  BY <1>1 DEF TypeOK, LogInv, LoopInv, CreateEvent, connections, history
<1>2. CASE QueueEvent
  BY <1>2 DEF LogInv, LoopInv, QueueEvent, connections, history
<1>3. CASE QueueEventFails
  BY <1>3 DEF LogInv, LoopInv, QueueEventFails, tables, connections, history
<1>4. ASSUME NEW S, S \subseteq queued, NEW o \in Orders(S), Deliver(o),
             loop = "idle", task = "sleeping"
      PROVE  IsInjective(log') /\ Range(log') = Range(log) \union S
  <2>1. o \in Seq(Event) /\ IsInjective(o) /\ Range(o) = S
    BY <1>4, EventOrders DEF TypeOK
  <2>2. Range(log) \intersect Range(o) = {}
    BY <1>4, <2>1 DEF LoopInv
  <2>3. log' = log \o o /\ log \in Seq(Event)
    BY <1>4 DEF Deliver, TypeOK
  <2>4. IsInjective(log')
    BY <2>1, <2>2, <2>3, ConcatInjective DEF LogInv
  <2>5. Range(log \o o) = Range(log) \union Range(o)
    BY <2>1, <2>3, RangeConcatenation
  <2> QED
    BY <2>1, <2>3, <2>4, <2>5
<1>5. CASE TickDeliver
  <2>1. PICK o \in Orders(queued) : Deliver(o)
    BY <1>5 DEF TickDeliver
  <2>2. IsInjective(log') /\ Range(log') = Range(log) \union queued
    BY <1>4, <1>5, <2>1 DEF TickDeliver
  <2> QED
    BY <1>5, <2>2 DEF LogInv, LoopInv, TickDeliver, tables
<1>6. CASE TickMeetsUnknownEvent
  <2>1. PICK before \in SUBSET (queued \intersect registered) :
            \E o \in Orders(before) : Deliver(o)
    BY <1>6 DEF TickMeetsUnknownEvent
  <2>2. IsInjective(log') /\ Range(log') = Range(log) \union before
    BY <1>4, <1>6, <2>1 DEF TickMeetsUnknownEvent
  <2> QED
    BY <1>6, <2>1, <2>2 DEF LogInv, LoopInv, TickMeetsUnknownEvent, tables
<1>7. CASE TickReadFails
  <2>1. log' = log
    BY <1>7 DEF TickReadFails, Deliver, TypeOK
  <2> QED
    BY <1>7, <2>1 DEF LogInv, LoopInv, TickReadFails, tables
<1>8. CASE TickPublish
  BY <1>8 DEF LogInv, LoopInv, TickPublish, connections, history
<1>9. CASE TickPop
  BY <1>9 DEF LogInv, LoopInv, TickPop, connections, history
<1>10. CASE TickRaises
  BY <1>10 DEF LogInv, LoopInv, TickRaises, tables, connections, history
<1>11. ASSUME NEW c \in Client, Stream(c) PROVE LogInv' /\ LoopInv'
  <2>1. UNCHANGED <<tables, process, log>>
    BY <1>11 DEF Stream, Subscribe, EnterProcess, PopEvent, SendDone, EndDone,
                 Disconnect, history
  <2> QED
    BY <2>1 DEF LogInv, LoopInv, tables, process
<1>12. CASE Stop
  BY <1>12 DEF LogInv, LoopInv, Stop, tables, history
<1>13. CASE Exit
  <2>1. IsInjective(log') /\ Range(log') = {} /\ log' = <<>>
    BY <1>13 DEF Exit, IsInjective, Range
  <2> QED
    BY <1>13, <2>1 DEF LogInv, LoopInv, Exit, tables
<1>14. CASE Restart
  <2>1. log' = log /\ Range(log) = {}
    BY <1>14 DEF Restart, LogInv, history, Range
  <2> QED
    BY <1>14, <2>1 DEF LogInv, LoopInv, Restart, tables, history
<1>15. CASE UNCHANGED vars
  BY <1>15 DEF LogInv, LoopInv, vars, tables, process, connections, history
<1> QED
  BY <1>1, <1>2, <1>3, <1>5, <1>6, <1>7, <1>8, <1>9, <1>10, <1>11, <1>12, <1>13,
     <1>14, <1>15
  DEF Next, Push, Tick

(* Each stream stays a window on the log. *)
LEMMA WindowStep ==
    ASSUME Inv, [Next]_vars, NEW c \in Client
    PROVE  WindowInv(c)' /\ IsInjective(received[c])'
<1> DEFINE Goal == WindowInv(c)' /\ IsInjective(received[c])'
<1>1. TypeOK /\ LogInv /\ WindowInv(c) /\ PhaseInv(c) /\ IsInjective(received[c])
  BY DEF Inv
<1>2. ASSUME UNCHANGED <<connections, history>> PROVE Goal
  BY <1>1, <1>2, WindowFrame
<1>3. CASE Push
  BY <1>2, <1>3 DEF Push, CreateEvent, QueueEvent, QueueEventFails
<1>4. CASE TickPublish \/ TickPop \/ TickRaises
  BY <1>2, <1>4 DEF TickPublish, TickPop, TickRaises
<1>5. ASSUME NEW o \in Seq(Event), Deliver(o) PROVE Goal
  <2>1. WindowInv(c)'
    BY <1>1, <1>5, DeliverWindow
  <2>2. received' = received
    BY <1>5 DEF Deliver
  <2> QED
    BY <1>1, <2>1, <2>2 DEF IsInjective
<1>6. CASE TickDeliver
  BY <1>1, <1>5, <1>6, EventOrders DEF TickDeliver, TypeOK
<1>7. CASE TickMeetsUnknownEvent
  <2>1. PICK before \in SUBSET (queued \intersect registered) :
            \E o \in Orders(before) : Deliver(o)
    BY <1>7 DEF TickMeetsUnknownEvent
  <2> QED
    BY <1>1, <1>5, <2>1, EventOrders DEF TypeOK
<1>8. CASE TickReadFails
  <2>1. <<>> \in Seq(Event) /\ Deliver(<<>>)
    BY <1>8 DEF TickReadFails
  <2> QED
    BY <1>5, <1>8, <2>1 DEF TickReadFails
<1>9. ASSUME NEW d \in Client, Stream(d) PROVE Goal
  <2>1. CASE Subscribe(d) /\ d = c
    <3>1. /\ start'[c] = Len(log) /\ received'[c] = <<>> /\ inbox'[c] = <<>>
          /\ log' = log /\ Len(log) \in Nat
      BY <1>1, <2>1 DEF Subscribe, PhaseInv, TypeOK
    <3> QED
      BY <3>1 DEF WindowInv, IsWindow, ReachesEnd, IsInjective
  <2>2. CASE PopEvent(d) /\ d = c
    BY <1>1, <2>2, PopWindow DEF LogInv
  <2>3. CASE ~(d = c /\ (Subscribe(d) \/ PopEvent(d)))
    <3>1. /\ start'[c] = start[c] /\ received'[c] = received[c]
          /\ inbox'[c] = inbox[c] /\ log' = log
          /\ (c \in subs' <=> c \in subs)
      BY <1>1, <1>9, <2>3 DEF Stream, Subscribe, EnterProcess, PopEvent, SendDone,
         EndDone, Disconnect, TypeOK, history
    <3>2. phase'[c] \in Open => phase[c] \in Open
      BY <1>1, <1>9, <2>3 DEF Stream, Subscribe, EnterProcess, PopEvent, SendDone,
         EndDone, Disconnect, TypeOK, Open
    <3> QED
      BY <1>1, <3>1, <3>2 DEF WindowInv, Connected, IsWindow, ReachesEnd, IsInjective
  <2> QED
    BY <2>1, <2>2, <2>3
<1>10. CASE Stop
  BY <1>1, <1>10 DEF Stop, WindowInv, Connected, IsInjective, history
<1>11. CASE Exit
  <2>1. subs' = {} /\ phase'[c] \notin Open /\ received' = received
    BY <1>1, <1>11 DEF Exit, TypeOK, Open
  <2> QED
    BY <1>1, <2>1 DEF WindowInv, Connected, IsInjective
<1>12. CASE Restart
  BY <1>2, <1>12 DEF Restart
<1>13. CASE UNCHANGED vars
  BY <1>2, <1>13 DEF vars
<1> QED
  BY <1>3, <1>4, <1>6, <1>7, <1>8, <1>9, <1>10, <1>11, <1>12, <1>13 DEF Next, Tick

(* Workers that still have to be served are subscribed and alive. *)
LEMMA PhaseStep ==
    ASSUME Inv, [Next]_vars, NEW c \in Client
    PROVE  PhaseInv(c)'
<1>1. TypeOK /\ PhaseInv(c)
  BY DEF Inv
<1>2. ASSUME loop' # "down",
             UNCHANGED <<dead, subs, alive, inbox, phase, received>>
      PROVE  PhaseInv(c)'
  BY <1>1, <1>2 DEF PhaseInv
<1>3. CASE Push
  BY <1>2, <1>3 DEF Push, CreateEvent, QueueEvent, QueueEventFails, connections, history
<1>4. CASE TickPublish \/ TickPop \/ TickRaises
  BY <1>2, <1>4 DEF TickPublish, TickPop, TickRaises, connections, history
<1>5. ASSUME NEW o \in Seq(Event), Deliver(o), dead' = dead, loop' # "down"
      PROVE  PhaseInv(c)'
  <2>1. subs' = Pruned /\ UNCHANGED <<alive, phase, received>>
    BY <1>5 DEF Deliver
  <2>2. c \notin subs => inbox'[c] = inbox[c]
    BY <1>1, <1>5 DEF Deliver, Pruned, TypeOK
  <2> QED
    BY <1>1, <1>5, <2>1, <2>2 DEF PhaseInv, Pruned
<1>6. CASE TickDeliver
  BY <1>1, <1>5, <1>6, EventOrders DEF TickDeliver, TypeOK
<1>7. CASE TickMeetsUnknownEvent
  <2>1. PICK before \in SUBSET (queued \intersect registered) :
            \E o \in Orders(before) : Deliver(o)
    BY <1>7 DEF TickMeetsUnknownEvent
  <2>2. dead' = dead /\ loop' # "down"
    BY <1>7 DEF TickMeetsUnknownEvent
  <2> QED
    BY <1>1, <1>5, <2>1, <2>2, EventOrders DEF TypeOK
<1>8. CASE TickReadFails
  <2>1. <<>> \in Seq(Event) /\ Deliver(<<>>)
    BY <1>8 DEF TickReadFails
  <2> QED
    BY <1>5, <1>8, <2>1 DEF TickReadFails
<1>9. ASSUME NEW d \in Client, Stream(d) PROVE PhaseInv(c)'
  <2>1. loop' # "down" /\ dead' = dead
    BY <1>9 DEF Stream, Subscribe, EnterProcess, PopEvent, SendDone, EndDone,
                Disconnect, process
  <2>2. CASE d = c
    <3>1. CASE Subscribe(c)
      BY <1>1, <2>1, <3>1 DEF Subscribe, PhaseInv, TypeOK, Open
    <3>2. CASE EnterProcess(c)
      BY <1>1, <2>1, <3>2 DEF EnterProcess, PhaseInv, TypeOK, Open
    <3>3. CASE PopEvent(c)
      BY <1>1, <2>1, <3>3 DEF PopEvent, PhaseInv, TypeOK, Open
    <3>4. CASE SendDone(c)
      BY <1>1, <2>1, <3>4 DEF SendDone, PhaseInv, TypeOK, Open
    <3>5. CASE EndDone(c)
      BY <1>1, <2>1, <3>5 DEF EndDone, PhaseInv, TypeOK, Open
    <3>6. CASE Disconnect(c)
      BY <1>1, <2>1, <3>6 DEF Disconnect, PhaseInv, TypeOK, Open
    <3> QED
      BY <1>9, <2>2, <3>1, <3>2, <3>3, <3>4, <3>5, <3>6 DEF Stream
  <2>3. CASE d # c
    <3>1. /\ alive'[c] = alive[c] /\ phase'[c] = phase[c] /\ inbox'[c] = inbox[c]
          /\ received'[c] = received[c] /\ (c \in subs' <=> c \in subs)
      BY <1>1, <1>9, <2>3 DEF Stream, Subscribe, EnterProcess, PopEvent, SendDone,
         EndDone, Disconnect, TypeOK, history
    <3> QED
      BY <1>1, <2>1, <3>1 DEF PhaseInv
  <2> QED
    BY <2>2, <2>3
<1>10. CASE Stop
  <2>1. alive'[c] = (alive[c] /\ c \notin subs)
    BY <1>10 DEF Stop
  <2> QED
    BY <1>1, <1>10, <2>1 DEF Stop, PhaseInv, history
<1>11. CASE Exit
  <2>1. /\ alive'[c] = FALSE /\ inbox'[c] = <<>> /\ subs' = {} /\ received' = received
        /\ phase'[c] \notin Open
        /\ phase'[c] = "new" => phase[c] = "new"
    BY <1>1, <1>11 DEF Exit, TypeOK, Open
  <2> QED
    BY <1>1, <2>1 DEF PhaseInv, Open
<1>12. CASE Restart
  BY <1>2, <1>12 DEF Restart, connections, history
<1>13. CASE UNCHANGED vars
  BY <1>1, <1>13 DEF PhaseInv, vars, process, connections, history
<1> QED
  BY <1>3, <1>4, <1>6, <1>7, <1>8, <1>9, <1>10, <1>11, <1>12, <1>13 DEF Next, Tick

LEMMA PopRange ==
    ASSUME NEW E, NEW r \in Seq(E), NEW q \in Seq(E), q # <<>>
    PROVE  Range(r) \union Range(q) \subseteq Range(Append(r, Head(q))) \union Range(Tail(q))
<1>1. ASSUME NEW i \in 1..Len(r) PROVE r[i] \in Range(Append(r, Head(q)))
  <2>1. i \in DOMAIN Append(r, Head(q)) /\ Append(r, Head(q))[i] = r[i]
    OBVIOUS
  <2> QED
    BY <2>1 DEF Range
<1>2. q[1] \in Range(Append(r, Head(q)))
  <2>1. Len(r) + 1 \in DOMAIN Append(r, Head(q)) /\ Append(r, Head(q))[Len(r) + 1] = q[1]
    OBVIOUS
  <2> QED
    BY <2>1 DEF Range
<1>3. ASSUME NEW i \in 2..Len(q) PROVE q[i] \in Range(Tail(q))
  <2>1. i - 1 \in DOMAIN Tail(q) /\ Tail(q)[i - 1] = q[i]
    OBVIOUS
  <2> QED
    BY <2>1 DEF Range
<1>4. \A i \in 1..Len(q) : i = 1 \/ i \in 2..Len(q)
  OBVIOUS
<1>5. ASSUME NEW x \in Range(q) PROVE x \in Range(Append(r, Head(q))) \union Range(Tail(q))
  <2>1. PICK i \in 1..Len(q) : x = q[i]
    BY DEF Range
  <2> QED
    BY <1>2, <1>3, <1>4, <2>1
<1>6. ASSUME NEW x \in Range(r) PROVE x \in Range(Append(r, Head(q)))
  <2>1. PICK i \in 1..Len(r) : x = r[i]
    BY DEF Range
  <2> QED
    BY <1>1, <2>1
<1> QED
  BY <1>5, <1>6

(* Everything the tables mark as published since a stream joined is in it. *)
LEMMA ServedStep ==
    ASSUME Inv, [Next]_vars, NEW c \in Client
    PROVE  ServedInv(c)'
<1> DEFINE Holds == Range(received[c]) \union Range(inbox[c])
<1> SUFFICES ASSUME dead' = FALSE, phase'[c] \in Open \ {"ending"}
             PROVE  Marked' \ baseline'[c] \subseteq Holds'
  <2>1. dead' \in BOOLEAN
    BY TypeStep DEF Inv, TypeOK
  <2> QED
    BY <2>1 DEF ServedInv
<1>1. TypeOK /\ LoopInv /\ PhaseInv(c) /\ ServedInv(c)
  BY DEF Inv
<1>2. ASSUME dead = FALSE, phase[c] \in Open \ {"ending"}, Marked' \subseteq Marked,
             UNCHANGED <<baseline, inbox, received>>
      PROVE  Marked' \ baseline'[c] \subseteq Holds'
  BY <1>1, <1>2 DEF ServedInv
<1>3. CASE Push
  <2>1. loop' \in {"push", "idle"} /\ published' = published /\ dead' = dead
    BY <1>3 DEF Push, CreateEvent, QueueEvent, QueueEventFails, tables
  <2>2. UNCHANGED <<phase, baseline, inbox, received>>
    BY <1>3 DEF Push, CreateEvent, QueueEvent, QueueEventFails, connections, history
  <2> QED
    BY <1>2, <2>1, <2>2 DEF Marked
<1>4. CASE TickPublish \/ TickPop \/ TickRaises
  <2>1. dead' = dead /\ UNCHANGED <<phase, baseline, inbox, received>>
    BY <1>4 DEF TickPublish, TickPop, TickRaises, connections, history
  <2>2. Marked' \subseteq Marked
    BY <1>1, <1>4 DEF TickPublish, TickPop, TickRaises, LoopInv, Marked, tables
  <2> QED
    BY <1>2, <2>1, <2>2
<1>5. ASSUME NEW S \in SUBSET queued, NEW o \in Orders(S), Deliver(o), dead' = dead,
             Marked' \subseteq Marked \union S
      PROVE  Marked' \ baseline'[c] \subseteq Holds'
  <2>1. c \in Pruned
    BY <1>1, <1>5 DEF Deliver, PhaseInv, Pruned
  <2>2. inbox'[c] = inbox[c] \o o /\ received'[c] = received[c] /\ baseline' = baseline
    BY <1>5, <2>1 DEF Deliver
  <2>3. o \in Seq(Event) /\ Range(o) = S /\ inbox[c] \in Seq(Event)
    BY <1>1, <1>5, EventOrders DEF TypeOK
  <2>4. Range(inbox[c] \o o) = Range(inbox[c]) \union S
    BY <2>3, RangeConcatenation
  <2>5. Marked \ baseline[c] \subseteq Holds
    BY <1>1, <1>5 DEF ServedInv, Deliver
  <2> QED
    BY <1>5, <2>2, <2>4, <2>5
<1>6. CASE TickDeliver
  <2>1. PICK o \in Orders(queued) : Deliver(o)
    BY <1>6 DEF TickDeliver
  <2>2. dead' = dead /\ Marked' \subseteq Marked \union queued
    BY <1>6 DEF TickDeliver, Marked, tables
  <2> QED
    BY <1>5, <2>1, <2>2
<1>7. CASE TickMeetsUnknownEvent
  <2>1. PICK before \in SUBSET (queued \intersect registered) :
            \E o \in Orders(before) : Deliver(o)
    BY <1>7 DEF TickMeetsUnknownEvent
  <2>2. dead' = dead /\ Marked' = Marked
    BY <1>7 DEF TickMeetsUnknownEvent, Marked, tables
  <2> QED
    BY <1>5, <2>1, <2>2
<1>8. CASE TickReadFails
  <2>1. subs' = Pruned /\ dead' = dead /\ Marked' = Marked
    BY <1>8 DEF TickReadFails, Deliver, Marked, tables
  <2>2. inbox'[c] = inbox[c] /\ UNCHANGED <<phase, baseline, received>>
    BY <1>1, <1>8 DEF TickReadFails, Deliver, TypeOK
  <2> QED
    BY <1>1, <2>1, <2>2 DEF ServedInv
<1>9. ASSUME NEW d \in Client, Stream(d) PROVE Marked' \ baseline'[c] \subseteq Holds'
  <2>1. dead' = dead /\ Marked' = Marked /\ loop = "idle"
    BY <1>9 DEF Stream, Subscribe, EnterProcess, PopEvent, SendDone, EndDone,
                Disconnect, process, tables, Marked
  <2>2. CASE Subscribe(d) /\ d = c
    <3>1. baseline'[c] = published /\ Marked = published
      BY <1>1, <2>1, <2>2 DEF Subscribe, TypeOK, Marked
    <3> QED
      BY <2>1, <3>1
  <2>3. CASE ~(Subscribe(d) /\ d = c)
    <3>1. phase[c] \in Open \ {"ending"} /\ baseline'[c] = baseline[c]
      BY <1>1, <1>9, <2>3 DEF Stream, Subscribe, EnterProcess, PopEvent, SendDone,
         EndDone, Disconnect, TypeOK, Open, history
    <3>2. Holds \subseteq Holds'
      <4>1. CASE PopEvent(d) /\ d = c
        <5>1. /\ received[c] \in Seq(Event) /\ inbox[c] \in Seq(Event) /\ inbox[c] # <<>>
              /\ inbox'[c] = Tail(inbox[c])
              /\ received'[c] = Append(received[c], Head(inbox[c]))
          BY <1>1, <4>1 DEF PopEvent, TypeOK
        <5> QED
          BY <5>1, PopRange
      <4>2. CASE ~(PopEvent(d) /\ d = c)
        <5>1. inbox'[c] = inbox[c] /\ received'[c] = received[c]
          BY <1>1, <1>9, <4>2 DEF Stream, Subscribe, EnterProcess, PopEvent, SendDone,
             EndDone, Disconnect, TypeOK, history
        <5> QED
          BY <5>1
      <4> QED
        BY <4>1, <4>2
    <3> QED
      BY <1>1, <2>1, <3>1, <3>2 DEF ServedInv
  <2> QED
    BY <2>2, <2>3
<1>10. CASE Stop
  BY <1>10 DEF Stop
<1>11. CASE Exit
  BY <1>1, <1>11 DEF Exit, TypeOK, Open
<1>12. CASE Restart
  <2>1. UNCHANGED <<phase, baseline, inbox, received>> /\ dead' = dead
    BY <1>12 DEF Restart, connections, history
  <2>2. Marked' \subseteq Marked
    BY <1>12 DEF Restart, Marked, tables
  <2> QED
    BY <1>2, <2>1, <2>2
<1>13. CASE UNCHANGED vars
  <2>1. UNCHANGED <<phase, baseline, inbox, received, dead, published, loop, current>>
    BY <1>13 DEF vars, tables, process, connections, history
  <2> QED
    BY <1>2, <2>1 DEF Marked
<1> QED
  BY <1>3, <1>4, <1>6, <1>7, <1>8, <1>9, <1>10, <1>11, <1>12, <1>13 DEF Next, Tick

LEMMA InvStep == Inv /\ [Next]_vars => Inv'
<1> SUFFICES ASSUME Inv, [Next]_vars PROVE Inv'
  OBVIOUS
<1>1. TypeOK'
  BY TypeStep DEF Inv
<1>2. LogInv' /\ LoopInv'
  BY LogStep DEF Inv
<1>3. \A c \in Client : WindowInv(c)' /\ IsInjective(received[c])'
  BY WindowStep
<1>4. \A c \in Client : PhaseInv(c)' /\ ServedInv(c)'
  BY PhaseStep, ServedStep
<1> QED
  BY <1>1, <1>2, <1>3, <1>4 DEF Inv

(* In every reachable state the log, the tables, the half-done tick and    *)
(* the Workers fit together as Inv says.                                   *)
THEOREM InvCorrect == Spec => []Inv
<1> QED
  BY InvInit, InvStep, PTL DEF Spec

-----------------------------------------------------------------------------
(* What the streams promise *)

(* No stream yields an event twice, under crashes, failing transactions    *)
(* and upgrades: Worker.messages only ever receives what the log gained.   *)
THEOREM NoDuplicateDeliveryCorrect == Spec => []NoDuplicateDelivery
<1>1. Inv => NoDuplicateDelivery
  BY DEF Inv, NoDuplicateDelivery
<1> QED
  BY <1>1, InvCorrect, PTL

(* Two streams agree on the order of the events both have yielded: each is *)
(* a window on the one log of the process.                                 *)
THEOREM OrderAgreementCorrect == Spec => []OrderAgreement
<1>1. ASSUME Inv, NEW c \in Client, NEW d \in Client, phase[c] \in Open, phase[d] \in Open,
             NEW i \in DOMAIN received[c], NEW j \in DOMAIN received[c],
             NEW k \in DOMAIN received[d], NEW l \in DOMAIN received[d],
             received[c][i] = received[d][k], received[c][j] = received[d][l], i < j
      PROVE  k < l
  <2>1. /\ IsWindow(start[c], received[c], inbox[c], log)
        /\ IsWindow(start[d], received[d], inbox[d], log)
        /\ IsInjective(log) /\ TypeOK
    BY <1>1 DEF Inv, WindowInv, Connected, LogInv
  <2>2. /\ received[c] \in Seq(Event) /\ inbox[c] \in Seq(Event) /\ start[c] \in Nat
        /\ received[d] \in Seq(Event) /\ inbox[d] \in Seq(Event) /\ start[d] \in Nat
        /\ log \in Seq(Event)
    BY <2>1 DEF TypeOK
  <2>3. /\ i \in 1..Len(received[c]) /\ j \in 1..Len(received[c])
        /\ k \in 1..Len(received[d]) /\ l \in 1..Len(received[d])
    <3>1. DOMAIN received[c] = 1..Len(received[c]) /\ DOMAIN received[d] = 1..Len(received[d])
      BY ONLY <2>2
    <3> QED
      BY <1>1, <3>1
  <2>4. log[start[c] + i] = log[start[d] + k] /\ log[start[c] + j] = log[start[d] + l]
    BY <1>1, <2>1, <2>3 DEF IsWindow
  <2>5. /\ start[c] + i \in DOMAIN log /\ start[c] + j \in DOMAIN log
        /\ start[d] + k \in DOMAIN log /\ start[d] + l \in DOMAIN log
    <3>1. ASSUME NEW s \in Nat, NEW r \in Seq(Event), NEW q \in Seq(Event),
                 IsWindow(s, r, q, log), NEW n \in 1..Len(r)
          PROVE  s + n \in DOMAIN log
      <4>1. s + Len(r) + Len(q) <= Len(log) /\ Len(q) \in Nat /\ Len(r) \in Nat
        BY <3>1 DEF IsWindow
      <4> QED
        BY <2>2, <4>1
    <3> QED
      BY <2>1, <2>2, <2>3, <3>1
  <2>6. start[c] + i = start[d] + k /\ start[c] + j = start[d] + l
    BY <2>1, <2>4, <2>5 DEF IsInjective
  <2> QED
    BY <1>1, <2>2, <2>3, <2>6
<1>2. Inv => OrderAgreement
  BY <1>1 DEF OrderAgreement
<1> QED
  BY <1>2, InvCorrect, PTL

(* Between ticks, an open stream of a server that is not stopping has or   *)
(* holds every event marked as published since it subscribed.              *)
THEOREM ServedInFullCorrect == Spec => []ServedInFull
<1>1. Inv => ServedInFull
  BY DEF Inv, ServedInv, ServedInFull, Marked
<1> QED
  BY <1>1, InvCorrect, PTL

(* The queue forgets an event only after its PublishedEvent row is there.  *)
THEOREM UnpublishedStaysQueuedCorrect == Spec => UnpublishedStaysQueued
<1>1. ASSUME Inv, [Next]_vars, NEW e \in queued \ queued'
      PROVE  e \in published'
  <2>1. TickPop
    BY <1>1 DEF Next, Push, CreateEvent, QueueEvent, QueueEventFails, Tick, TickDeliver,
       TickMeetsUnknownEvent, TickReadFails, TickPublish, TickRaises, Stream, Subscribe,
       EnterProcess, PopEvent, SendDone, EndDone, Disconnect, Stop, Exit, Restart,
       vars, tables
  <2> QED
    BY <1>1, <2>1 DEF TickPop, Inv, LoopInv
<1>2. Inv /\ [Next]_vars => [\A e \in queued \ queued' : e \in published']_vars
  BY <1>1
<1> QED
  BY <1>2, InvCorrect, PTL DEF Spec, UnpublishedStaysQueued

(* A closed stream is never fed: its Worker is marked dead before the next *)
(* tick appends messages.                                                  *)
THEOREM ClosedIsNotFedCorrect == Spec => ClosedIsNotFed
<1>1. ASSUME Inv, [Next]_vars, NEW c \in Client, phase[c] = "closed"
      PROVE  Len(inbox'[c]) <= Len(inbox[c])
  <2>1. inbox \in [Client -> Seq(Event)] /\ Len(inbox[c]) \in Nat /\ ~alive[c]
    BY <1>1 DEF Inv, TypeOK, PhaseInv
  <2>2. ASSUME NEW o \in Seq(Event), Deliver(o) PROVE Len(inbox'[c]) <= Len(inbox[c])
    <3>1. inbox'[c] = inbox[c]
      BY <2>1, <2>2 DEF Deliver, Pruned
    <3> QED
      BY <2>1, <3>1
  <2>3. CASE Tick
    <3>1. CASE TickDeliver
      BY <1>1, <2>2, <3>1, EventOrders DEF TickDeliver, Inv, TypeOK
    <3>2. CASE TickMeetsUnknownEvent
      <4>1. PICK before \in SUBSET (queued \intersect registered) :
                \E o \in Orders(before) : Deliver(o)
        BY <3>2 DEF TickMeetsUnknownEvent
      <4> QED
        BY <1>1, <2>2, <4>1, EventOrders DEF Inv, TypeOK
    <3>3. CASE TickReadFails
      <4>1. <<>> \in Seq(Event) /\ Deliver(<<>>)
        BY <3>3 DEF TickReadFails
      <4> QED
        BY <2>2, <4>1
    <3>4. CASE TickPublish \/ TickPop \/ TickRaises
      BY <3>4 DEF TickPublish, TickPop, TickRaises, connections
    <3> QED
      BY <2>1, <2>3, <3>1, <3>2, <3>3, <3>4 DEF Tick
  <2>4. CASE Exit
    <3>1. inbox'[c] = <<>>
      BY <2>4 DEF Exit
    <3> QED
      BY <2>1, <3>1
  <2>5. CASE \E d \in Client : Stream(d)
    <3>1. PICK d \in Client : Stream(d)
      BY <2>5
    <3>2. inbox'[c] = inbox[c]
      BY <1>1, <2>1, <3>1 DEF Stream, Subscribe, EnterProcess, PopEvent, SendDone,
         EndDone, Disconnect
    <3> QED
      BY <2>1, <3>2
  <2>6. CASE UNCHANGED inbox
    BY <2>1, <2>6
  <2> QED
    BY <1>1, <2>3, <2>4, <2>5, <2>6 DEF Next, Push, CreateEvent, QueueEvent,
       QueueEventFails, Stop, Restart, vars, connections
<1>2. Inv /\ [Next]_vars
      => [\A c \in Client : phase[c] = "closed" => Len(inbox'[c]) <= Len(inbox[c])]_vars
  BY <1>1
<1> QED
  BY <1>2, InvCorrect, PTL DEF Spec, ClosedIsNotFed

-----------------------------------------------------------------------------
(* The tables, ticks and coroutines implement the abstract bus *)

LEMMA BusInitRefined == Init => Bus!BusInit
<1> SUFFICES ASSUME Init PROVE Bus!BusInit
  OBVIOUS
<1>1. queued \ Range(log) = {} /\ queued \union published = {}
  BY DEF Init
<1>2. {c \in Client : phase[c] \in Open} = {}
  BY DEF Init, Open
<1> QED
  BY <1>1, <1>2 DEF Init, Bus!BusInit

LEMMA BroadcastRefined ==
    ASSUME Inv, loop = "idle", task = "sleeping",
           NEW S \in SUBSET queued, NEW o \in Orders(S), Deliver(o),
           UNCHANGED tables
    PROVE  Bus!Broadcast
<1>1. o \in Seq(Event) /\ Range(o) = S /\ log \in Seq(Event)
  BY EventOrders DEF Inv, TypeOK
<1>2. log' = log \o o /\ Range(log') = Range(log) \union S
  BY <1>1, RangeConcatenation DEF Deliver
<1>3. queued \intersect Range(log) = {}
  BY DEF Inv, LoopInv
<1>4. /\ S \subseteq queued \ Range(log)
      /\ (queued \ Range(log))' = (queued \ Range(log)) \ S
      /\ UNCHANGED <<queued \union published, {c \in Client : phase[c] \in Open},
                     start, received>>
  BY <1>2, <1>3 DEF Deliver, tables
<1>5. Bus!Cardinality(S) = Cardinality(S)
  BY DEF Cardinality, Bus!Cardinality
<1>6. o \in Bus!Orders(S)
  BY <1>5 DEF Orders, Bijection, Injection, Surjection, IsInjective,
     Bus!Orders, Bus!Bijection, Bus!Injection, Bus!Surjection, Bus!IsInjective
<1> QED
  BY <1>2, <1>4, <1>6 DEF Bus!Broadcast

LEMMA BusStepRefined == Inv /\ [Next]_vars => [Bus!BusNext]_(Bus!busVars)
<1> DEFINE accepted == queued \union published
           pending == queued \ Range(log)
           members == {c \in Client : phase[c] \in Open}
<1> SUFFICES ASSUME Inv, [Next]_vars
             PROVE  Bus!BusNext \/ UNCHANGED <<accepted, pending, log, members, start, received>>
  BY DEF Bus!busVars
<1>1. TypeOK /\ LogInv /\ LoopInv
  BY DEF Inv
<1>2. ASSUME NEW e \in Event, CreateEvent(e)
      PROVE  UNCHANGED <<accepted, pending, log, members, start, received>>
  BY <1>2 DEF CreateEvent, connections, history
<1>3. CASE QueueEvent
  <2>1. PICK e \in Event : current = {e} /\ e \notin queued \union published
    BY <1>1, <1>3 DEF QueueEvent, LoopInv
  <2>2. e \notin Range(log)
    BY <1>1, <2>1 DEF LogInv
  <2>3. /\ accepted' = accepted \union {e} /\ pending' = pending \union {e}
        /\ UNCHANGED <<log, members, start, received>>
    BY <1>3, <2>1, <2>2 DEF QueueEvent, connections, history
  <2>4. Bus!Accept(e)
    BY <2>1, <2>3 DEF Bus!Accept
  <2> QED
    BY <2>4 DEF Bus!BusNext
<1>4. CASE QueueEventFails \/ TickRaises \/ Stop
  BY <1>4 DEF QueueEventFails, TickRaises, Stop, tables, connections, history
<1>5. CASE TickDeliver
  <2>1. PICK o \in Orders(queued) : Deliver(o)
    BY <1>5 DEF TickDeliver
  <2>2. Bus!Broadcast
    BY <1>5, <2>1, BroadcastRefined DEF TickDeliver
  <2> QED
    BY <2>2 DEF Bus!BusNext
<1>6. CASE TickMeetsUnknownEvent
  <2>1. PICK before \in SUBSET (queued \intersect registered) :
            \E o \in Orders(before) : Deliver(o)
    BY <1>6 DEF TickMeetsUnknownEvent
  <2>2. Bus!Broadcast
    BY <1>6, <2>1, BroadcastRefined DEF TickMeetsUnknownEvent
  <2> QED
    BY <2>2 DEF Bus!BusNext
<1>7. CASE TickReadFails
  <2>1. log' = log
    BY <1>1, <1>7 DEF TickReadFails, Deliver, TypeOK
  <2> QED
    BY <1>7, <2>1 DEF TickReadFails, Deliver, tables
<1>8. CASE TickPublish
  BY <1>1, <1>8 DEF TickPublish, LoopInv, connections, history
<1>9. CASE TickPop
  BY <1>1, <1>9 DEF TickPop, LoopInv, connections, history
<1>10. ASSUME NEW c \in Client, Stream(c)
       PROVE  Bus!BusNext \/ UNCHANGED <<accepted, pending, log, members, start, received>>
  <2>1. /\ received[c] \in Seq(Event) /\ inbox[c] \in Seq(Event) /\ start[c] \in Nat
        /\ log \in Seq(Event)
    BY <1>1 DEF TypeOK
  <2>2. CASE Subscribe(c)
    <3>1. c \notin members /\ received[c] = <<>> /\ members' = members \union {c}
      BY <1>1, <2>2 DEF Subscribe, TypeOK, Open, Inv, PhaseInv
    <3>2. Bus!Join(c)
      BY <2>2, <3>1 DEF Subscribe, Bus!Join, tables
    <3> QED
      BY <3>2 DEF Bus!BusNext
  <2>3. CASE PopEvent(c)
    <3>1. IsWindow(start[c], received[c], inbox[c], log) /\ inbox[c] # <<>>
      BY <2>3 DEF PopEvent, Inv, WindowInv, Connected, Open
    <3>2. 1 \in 1..Len(inbox[c]) /\ Head(inbox[c]) = inbox[c][1]
      BY <2>1, <3>1
    <3>3. Head(inbox[c]) = log[start[c] + Len(received[c]) + 1]
      BY <3>1, <3>2 DEF IsWindow
    <3>4. start[c] + Len(received[c]) < Len(log)
      BY <2>1, <3>1, <3>2 DEF IsWindow
    <3>5. c \in members /\ members' = members
      BY <1>1, <2>3 DEF PopEvent, TypeOK, Open
    <3>6. Bus!Receive(c)
      BY <2>3, <3>3, <3>4, <3>5 DEF PopEvent, Bus!Receive, tables
    <3> QED
      BY <3>6 DEF Bus!BusNext
  <2>4. CASE EnterProcess(c) \/ SendDone(c)
    <3>1. members' = members
      BY <1>1, <2>4 DEF EnterProcess, SendDone, TypeOK, Open
    <3> QED
      BY <2>4, <3>1 DEF EnterProcess, SendDone, tables, history
  <2>5. CASE EndDone(c) \/ Disconnect(c)
    <3>1. c \in members /\ members' = members \ {c}
      BY <1>1, <2>5 DEF EndDone, Disconnect, TypeOK, Open
    <3>2. Bus!Leave(c)
      BY <2>5, <3>1 DEF EndDone, Disconnect, Bus!Leave, tables, history
    <3> QED
      BY <3>2 DEF Bus!BusNext
  <2> QED
    BY <1>10, <2>2, <2>3, <2>4, <2>5 DEF Stream
<1>11. CASE Exit
  <2>1. log' = <<>> /\ Range(log') = {}
    BY <1>11 DEF Exit, Range
  <2>2. members' = {}
    BY <1>1, <1>11 DEF Exit, TypeOK, Open
  <2>3. pending' = pending \union (queued \intersect Range(log)) /\ accepted' = accepted
    BY <1>11, <2>1 DEF Exit, tables
  <2>4. Bus!Restart
    <3>1. queued \intersect Range(log) \in SUBSET Bus!Range(log)
      BY DEF Range, Bus!Range
    <3> QED
      BY <1>11, <2>1, <2>2, <2>3, <3>1 DEF Exit, Bus!Restart
  <2> QED
    BY <2>4 DEF Bus!BusNext
<1>12. CASE Restart
  BY <1>12 DEF Restart, tables, connections, history
<1>13. CASE UNCHANGED vars
  BY <1>13 DEF vars, tables, connections, history
<1> QED
  BY <1>2, <1>3, <1>4, <1>5, <1>6, <1>7, <1>8, <1>9, <1>10, <1>11, <1>12, <1>13
  DEF Next, Push, Tick

(* The realtime bus, tables and ticks and Workers and all, refines the     *)
(* abstract broadcast bus, whatever fails.                                 *)
THEOREM ImplementsBusCorrect == Spec => ImplementsBus
<1> QED
  BY BusInitRefined, BusStepRefined, InvCorrect, PTL DEF Spec, ImplementsBus, Bus!BusSpec
=============================================================================
