------------------------- MODULE HttpPipelineProofs -------------------------
(***************************************************************************)
(* Proofs about HttpPipeline for every value of its constants. The         *)
(* invariants of HttpPipeline are not inductive as they stand: IInv adds   *)
(* what the loop relies on without saying so, that init_channel runs once, *)
(* that nothing but it happens to a connection that is not registered yet  *)
(* (or whose registration failed), and that every id in flight belongs to  *)
(* a request that was dispatched.                                          *)
(***************************************************************************)
EXTENDS HttpPipeline, TCPConnectionProofs, FiniteSetTheorems

(* Registered at some time, and not by a registration that failed.         *)
Live == conn.fd # "new" /\ ~(conn.fd = "closed" /\ conn.enable)

(* The init_channel task, or the answer to one of n requests.              *)
Answers(t, n) == t.id # 0 => t.id <= n /\ t.size > 0

(* Every id in the pool, in a queue or parked is that of a request, and    *)
(* respond_chunks_ holds each id once.                                     *)
Requested ==
    /\ jobs \subseteq 1 .. Len(http.reqs)
    /\ \A i \in 1 .. Len(tasks) : Answers(tasks[i], Len(http.reqs))
    /\ \A i \in 1 .. Len(running) : Answers(running[i], Len(http.reqs))
    /\ \A t \in http.parked : t.id # 0 /\ Answers(t, Len(http.reqs))
    /\ \A t, u \in http.parked : t.id = u.id => t = u
    /\ Len(conn.out) <= Len(http.reqs)

InitTask == [id |-> 0, size |-> 0]

(* The init_channel task is queued once, first, and alone.                 *)
InitOnce ==
    IF conn.fd = "new"
    THEN /\ conn = NewConnection
         /\ \/ tasks = <<InitTask>> /\ running = <<>>
            \/ tasks = <<>> /\ running = <<InitTask>>
    ELSE /\ \A i \in 1 .. Len(tasks) : tasks[i].id # 0
         /\ \A i \in 1 .. Len(running) : running[i].id # 0

(* A connection that is not live has seen no event and no request.         *)
NoTraffic ==
    ~Live => /\ http.reqs = <<>> /\ jobs = {} /\ http.parked = {}
             /\ pc \in {"loop", "tasks"}
             /\ \A i \in 1 .. Len(batch) : batch[i].src # "conn"

(* Until it is closed the connection is held by conn_manager_.             *)
Held == conn.fd # "closed" => inMgr /\ ~conn.notified

(* The swapped-out queue exists only while do_pending_tasks runs.          *)
Draining ==
    /\ pc = "drain" => running # <<>>
    /\ pc \notin {"tasks", "drain"} => running = <<>>

IInv ==
    /\ TypeOK
    /\ Sane(conn) /\ Settled(conn)
    /\ InOrder /\ Requested /\ InitOnce /\ NoTraffic /\ Held /\ Draining

-----------------------------------------------------------------------------

LEMMA InitEstablishes == Init => IInv
<1> SUFFICES ASSUME Init PROVE IInv
  OBVIOUS
<1>1. conn \in ConnType
  BY DEF Init, NewConnection, ConnType, CloseReasons
<1>2. TypeOK
  BY <1>1 DEF Init, TypeOK, SockType, HttpType, Task, Parsed
<1>3. Sane(conn) /\ Settled(conn)
  BY <1>1 DEF Init, NewConnection, Sane, Settled, Tuned, Watched, Total, End
<1>4. InOrder /\ Requested
  BY DEF Init, NewConnection, InOrder, Requested, Answers
<1>5. InitOnce /\ NoTraffic /\ Held /\ Draining
  BY DEF Init, NewConnection, InitOnce, InitTask, NoTraffic, Live, Held, Draining
<1> QED
  BY <1>2, <1>3, <1>4, <1>5 DEF IInv

(* A step that only touches the connection and the socket.                 *)
LEMMA TouchStep ==
    ASSUME IInv, Touches(conn, conn'), conn.fd = "new" => conn' = conn,
           conn'.notified = conn.notified, sock' \in SockType,
           UNCHANGED <<http, jobs, tasks, running, inMgr>>,
           batch' \in Seq(Item), pc' = pc,
           \/ batch' = batch
           \/ ~Live => \A i \in 1 .. Len(batch') : batch'[i].src # "conn"
    PROVE  IInv'
<1>1. TypeOK'
  BY DEF IInv, TypeOK, Touches
<1>2. Sane(conn)' /\ Settled(conn)'
  BY TouchesSettles DEF IInv
<1>3. InOrder' /\ Requested'
  BY DEF IInv, InOrder, Requested, Touches
<1>4. InitOnce'
  BY DEF IInv, InitOnce, Touches
<1>5. NoTraffic'
  BY DEF IInv, NoTraffic, Live, Touches
<1>6. Held' /\ Draining'
  BY DEF IInv, Held, Draining, Touches
<1> QED
  BY <1>1, <1>2, <1>3, <1>4, <1>5, <1>6 DEF IInv

LEMMA WakesTouches ==
    ASSUME IInv, NEW e
    PROVE  /\ Touches(conn, Wakes(e))
           /\ Wakes(e).notified = conn.notified
           /\ conn.fd = "new" => Wakes(e) = conn
<1> DEFINE b == conn.edge \/ (conn.inEpoll /\ e \cap (conn.mask \union {"ERR"}) # {})
<1>1. conn \in ConnType
  BY DEF IInv, TypeOK
<1>2. b \in BOOLEAN /\ Wakes(e) = [conn EXCEPT !.edge = b]
  BY DEF Wakes
<1>3. ASSUME conn.fd = "new" PROVE Wakes(e) = conn
  <2>1. conn = NewConnection
    BY <1>3 DEF IInv, InitOnce
  <2>2. b = FALSE
    BY <2>1 DEF NewConnection
  <2>3. Wakes(e) = [conn EXCEPT !.edge = FALSE]
    BY <2>2, <1>2
  <2> HIDE DEF b
  <2> QED
    BY <2>1, <2>3, ZenonT(60) DEF NewConnection
<1> HIDE DEF b
<1> QED
  BY <1>1, <1>2, <1>3, FieldTouches, ZenonT(60) DEF Events

LEMMA EnvironmentPreserves == IInv /\ Environment => IInv'
<1> SUFFICES ASSUME IInv, Environment PROVE IInv'
  OBVIOUS
<1> USE DEF IInv, TypeOK
<1>1. ASSUME NEW k \in Kinds, PeerSend(k) PROVE IInv'
  <2>0. Append(sock.rx, k) \in Seq(Kinds) /\ sock.sent + 1 \in Nat
    BY DEF SockType
  <2>1. sock' \in SockType
    <3> DEFINE q == Append(sock.rx, k)
    <3>1. sock' = [sock EXCEPT !.rx = q, !.sent = sock.sent + 1]
      BY <1>1 DEF PeerSend
    <3>2. q \in Seq(Kinds)
      BY <2>0
    <3> HIDE DEF q
    <3> QED
      BY <2>0, <3>1, <3>2 DEF SockType
  <2> QED
    BY <1>1, <2>1, WakesTouches, TouchStep DEF PeerSend
<1>2. CASE PeerFin
  <2>1. sock' \in SockType
    BY <1>2 DEF PeerFin, SockType
  <2> QED
    BY <1>2, <2>1, WakesTouches, TouchStep DEF PeerFin
<1>3. CASE PeerRst
  <2>0. <<>> \in Seq(Kinds)
    OBVIOUS
  <2>1. sock' \in SockType
    <3> DEFINE q == <<>>
    <3>1. sock' = [sock EXCEPT !.rst = TRUE, !.rx = q]
      BY <1>3 DEF PeerRst
    <3>2. q \in Seq(Kinds)
      BY <2>0
    <3> HIDE DEF q
    <3> QED
      BY <3>1, <3>2 DEF SockType
  <2> QED
    BY <1>3, <2>1, WakesTouches, TouchStep DEF PeerRst
<1>4. CASE PeerDrain
  <2>1. sock' \in SockType
    BY <1>4, ConnFields DEF PeerDrain, SockType
  <2> QED
    BY <1>4, <2>1, WakesTouches, TouchStep DEF PeerDrain
<1>5. CASE TimerDue
  <2>1. conn' = [conn EXCEPT !.timer = "due"]
    BY <1>5 DEF TimerDue
  <2>2. Touches(conn, conn') /\ conn'.notified = conn.notified
    BY <2>1, FieldTouches
  <2>3. conn.fd # "new"
    BY <1>5 DEF TimerDue, InitOnce, NewConnection
  <2> QED
    BY <1>5, <2>2, <2>3, TouchStep DEF TimerDue
<1>6. CASE StaleUnregister
  <2> DEFINE none == {}
  <2>1. /\ conn' = [conn EXCEPT !.inEpoll = FALSE, !.mask = none, !.edge = FALSE, !.lost = TRUE]
        /\ conn.fd = "open"
        /\ UNCHANGED <<sock, http, jobs, tasks, running, batch, pc, inMgr>>
    BY <1>6 DEF StaleUnregister, Open
  <2>a. none \in SUBSET Events
    OBVIOUS
  <2> HIDE DEF none
  <2>2. /\ conn' \in ConnType
        /\ ~conn'.inEpoll /\ conn'.mask = none /\ conn'.lost
        /\ conn'.fd = conn.fd /\ conn'.enable = conn.enable /\ conn'.event = conn.event
        /\ conn'.fresh = conn.fresh /\ conn'.blocking = conn.blocking
        /\ conn'.closeWait = conn.closeWait /\ conn'.pending = conn.pending
        /\ conn'.out = conn.out /\ conn'.head = conn.head /\ conn'.notified = conn.notified
    BY <2>1, <2>a DEF ConnType
  <2>3. Sane(conn)'
    BY <2>2 DEF Sane, End, Total
  <2>4. Settled(conn)'
    BY <2>1, <2>2 DEF Settled, Tuned, Watched, Synced, Unsent, none
  <2>5. TypeOK' /\ InOrder' /\ Requested' /\ InitOnce' /\ NoTraffic' /\ Held' /\ Draining'
    BY <2>1, <2>2 DEF InOrder, Requested, InitOnce, NoTraffic, Live, Held, Draining
  <2> QED
    BY <2>3, <2>4, <2>5
<1> QED
  BY <1>1, <1>2, <1>3, <1>4, <1>5, <1>6 DEF Environment

-----------------------------------------------------------------------------

(* A method of a connection that has been opened keeps it so.              *)
LEMMA StaysLive ==
    ASSUME Live, Follows(conn, conn')
    PROVE  Live' /\ conn.fd # "new"
BY DEF Live, Follows

(* A step in which a method of an opened connection runs, requests may be  *)
(* dispatched, and at most the first running task ends.                    *)
LEMMA LiveStep ==
    ASSUME IInv, conn.fd # "new", Live',
           Sane(conn'), Settled(conn'), Follows(conn, conn'),
           sock' \in SockType, http' \in HttpType,
           http'.next = http.next, http'.parked = http.parked,
           Len(http.reqs) <= Len(http'.reqs),
           jobs' \subseteq 1 .. Len(http'.reqs),
           batch' \in Seq(Item), tasks' = tasks, inMgr' = inMgr,
           \/ running' = running
           \/ running # <<>> /\ running' = Tail(running),
           pc' \in {"loop", "write", "read", "hup", "tasks", "drain"},
           Draining'
    PROVE  IInv'
<1>0. running \in Seq(Task) /\ Len(running) \in Nat
  BY LenProperties DEF IInv, TypeOK
<1>1. running' \in Seq(Task)
  BY <1>0, HeadTailProperties
<1>2. \A i \in 1 .. Len(running') : \E j \in 1 .. Len(running) : running'[i] = running[j]
  <2>1. CASE running' = running
    BY <2>1
  <2>2. CASE running # <<>> /\ running' = Tail(running)
    <3>1. Len(running') = Len(running) - 1
          /\ \A i \in 1 .. Len(running') : running'[i] = running[i + 1]
      BY <1>0, <2>2, HeadTailProperties
    <3> SUFFICES ASSUME NEW i \in 1 .. Len(running')
                 PROVE  \E j \in 1 .. Len(running) : running'[i] = running[j]
      OBVIOUS
    <3>2. i + 1 \in 1 .. Len(running)
      BY <1>0, <3>1
    <3> QED
      BY <3>1, <3>2
  <2> QED
    BY <2>1, <2>2
<1>3. Len(http.reqs) \in Nat /\ Len(http'.reqs) \in Nat
  BY DEF IInv, TypeOK, HttpType
<1>4. conn'.out = conn.out /\ conn'.fd # "new"
  BY DEF Follows
<1>5. TypeOK'
  BY <1>1, <1>3 DEF IInv, TypeOK, Sane
<1>6. InOrder'
  BY <1>4 DEF IInv, InOrder
<1>7. Requested'
  <2>1. \A t \in Task : Answers(t, Len(http.reqs)) => Answers(t, Len(http'.reqs))
    BY <1>3 DEF Answers, Task
  <2>2. \A i \in 1 .. Len(tasks) : Answers(tasks[i], Len(http'.reqs))
    BY <2>1, ElementOfSeq DEF IInv, TypeOK, Requested
  <2>3. \A i \in 1 .. Len(running) : Answers(running[i], Len(http'.reqs))
    BY <2>1, ElementOfSeq DEF IInv, TypeOK, Requested
  <2>4. \A t \in http.parked : t.id # 0 /\ Answers(t, Len(http'.reqs))
    BY <2>1 DEF IInv, TypeOK, HttpType, Requested
  <2>5. Len(conn.out) <= Len(http'.reqs)
    BY <1>3, ConnFields, SMTT(30) DEF IInv, TypeOK, Requested
  <2> QED
    BY <1>2, <1>4, <2>2, <2>3, <2>4, <2>5 DEF IInv, Requested
<1>8. InitOnce'
  BY <1>2, <1>4 DEF IInv, InitOnce
<1>9. NoTraffic'
  BY DEF NoTraffic
<1>10. Held'
  BY DEF IInv, Held, Follows
<1> QED
  BY <1>5, <1>6, <1>7, <1>8, <1>9, <1>10 DEF IInv

(* Handling the batch: the connection's record only changes by a method.   *)
LEMMA MethodTypes ==
    ASSUME IInv, NEW ev \in SUBSET Events, NEW r \in CloseReasons, NEW t \in {"none", "armed", "due"}
    PROVE  LET c == [conn EXCEPT !.received = ev]
               d == ForceClose(c, r)
           IN  /\ Sane(c) /\ Settled(c) /\ Follows(conn, c)
               /\ Sane(d) /\ Settled(d) /\ Follows(conn, d)
               /\ d.fd = "closed" /\ ~d.enable
<1> DEFINE c == [conn EXCEPT !.received = ev]
           d == ForceClose(c, r)
<1>1. Touches(conn, c) /\ c.notified = conn.notified
  BY FieldTouches DEF IInv, TypeOK
<1>2. Sane(c) /\ Settled(c)
  BY <1>1, TouchesSettles DEF IInv
<1>3. Follows(conn, c)
  BY <1>1, ConnFields DEF Touches, Follows, IInv, TypeOK
<1> HIDE DEF c
<1>4. Sane(d) /\ Settled(d) /\ Follows(c, d) /\ d.fd = "closed" /\ ~d.enable
  BY <1>2, ForceCloseSettles
<1> HIDE DEF d
<1>5. Follows(conn, d)
  BY <1>2, <1>3, <1>4, FollowsTrans DEF IInv
<1> QED
  BY <1>2, <1>3, <1>4, <1>5 DEF c, d

(* Setting the timer field after a method.                                 *)
LEMMA TimerTypes ==
    ASSUME NEW c, Sane(c), Settled(c), NEW t \in {"none", "armed", "due"}
    PROVE  LET d == [c EXCEPT !.timer = t]
           IN  /\ Sane(d) /\ Settled(d) /\ Follows(c, d)
               /\ d.fd = c.fd /\ d.enable = c.enable
<1> DEFINE d == [c EXCEPT !.timer = t]
<1>1. Touches(c, d) /\ d.notified = c.notified
  BY FieldTouches DEF Sane
<1> HIDE DEF d
<1>2. Sane(d) /\ Settled(d)
  BY <1>1, TouchesSettles
<1>3. Follows(c, d)
  BY <1>1, ConnFields DEF Touches, Follows, Sane
<1> QED
  BY <1>1, <1>2, <1>3 DEF d, Touches

LEMMA BatchHead ==
    ASSUME IInv, batch # <<>>
    PROVE  /\ Head(batch) = batch[1] /\ Head(batch) \in Item /\ Tail(batch) \in Seq(Item)
           /\ Len(batch) \in Nat /\ 1 \in 1 .. Len(batch)
           /\ \A i \in 1 .. Len(Tail(batch)) : \E j \in 1 .. Len(batch) : Tail(batch)[i] = batch[j]
<1>1. batch \in Seq(Item) /\ Len(batch) \in Nat /\ Len(batch) # 0
  BY LenProperties, EmptySeq DEF IInv, TypeOK
<1>2. Head(batch) = batch[1] /\ Head(batch) \in Item /\ Tail(batch) \in Seq(Item)
      /\ Len(Tail(batch)) = Len(batch) - 1
      /\ \A i \in 1 .. Len(Tail(batch)) : Tail(batch)[i] = batch[i + 1]
  BY <1>1, HeadTailProperties
<1>3. \A i \in 1 .. Len(Tail(batch)) : i + 1 \in 1 .. Len(batch)
  BY <1>1, <1>2
<1> QED
  BY <1>1, <1>2, <1>3

LEMMA HandleTriggerPreserves == IInv /\ HandleTrigger => IInv'
<1> SUFFICES ASSUME IInv, HandleTrigger PROVE IInv'
  OBVIOUS
<1>1. /\ pc = "loop" /\ batch # <<>> /\ batch' = Tail(batch)
      /\ running' = tasks /\ tasks' = <<>> /\ pc' = "tasks"
      /\ UNCHANGED <<conn, sock, http, jobs, inMgr>>
  BY DEF HandleTrigger, NextIs
<1>2. TypeOK'
  BY <1>1, BatchHead DEF IInv, TypeOK
<1>3. Requested' /\ InOrder' /\ Held' /\ Draining'
  BY <1>1 DEF IInv, Requested, InOrder, Held, Draining
<1>4. InitOnce'
  BY <1>1 DEF IInv, InitOnce, Draining
<1>5. NoTraffic'
  BY <1>1, BatchHead DEF IInv, NoTraffic, Live
<1> QED
  BY <1>1, <1>2, <1>3, <1>4, <1>5 DEF IInv

LEMMA HandleTimerPreserves == IInv /\ HandleTimer => IInv'
<1> SUFFICES ASSUME IInv, HandleTimer PROVE IInv'
  OBVIOUS
<1>1. /\ pc = "loop" /\ batch # <<>> /\ batch' = Tail(batch)
      /\ UNCHANGED <<sock, http, jobs, tasks, running, pc, inMgr>>
  BY DEF HandleTimer, NextIs
<1>2. /\ batch' \in Seq(Item)
      /\ ~Live => \A i \in 1 .. Len(batch') : batch'[i].src # "conn"
  BY <1>1, BatchHead DEF IInv, NoTraffic
<1>3. CASE conn.timer # "due"
  <2>1. conn' = conn
    BY <1>3 DEF HandleTimer
  <2>2. Touches(conn, conn')
    BY <2>1 DEF Touches, IInv, TypeOK
  <2> QED
    BY <1>1, <1>2, <2>1, <2>2, TouchStep DEF IInv, TypeOK
<1>4. CASE conn.timer = "due" /\ ~Alive
  <2>1. conn' = [conn EXCEPT !.timer = "none"]
    BY <1>4 DEF HandleTimer
  <2>2. Touches(conn, conn') /\ conn'.notified = conn.notified
    BY <2>1, FieldTouches DEF IInv, TypeOK
  <2>3. conn.fd # "new"
    BY <1>4 DEF IInv, InitOnce, NewConnection
  <2> QED
    BY <1>1, <1>2, <2>2, <2>3, TouchStep DEF IInv, TypeOK
<1>5. CASE conn.timer = "due" /\ Alive
  <2> DEFINE d == ForceClose(conn, "idle")
  <2>1. conn' = [d EXCEPT !.timer = "none"]
    BY <1>5 DEF HandleTimer
  <2>2. Sane(d) /\ Settled(d) /\ Follows(conn, d) /\ d.fd = "closed" /\ ~d.enable
    BY ForceCloseSettles DEF IInv, CloseReasons
  <2> HIDE DEF d
  <2>3. Sane(conn') /\ Settled(conn') /\ Follows(d, conn') /\ conn'.fd = "closed" /\ ~conn'.enable
    BY <2>1, <2>2, TimerTypes
  <2>4. Follows(conn, conn')
    BY <2>2, <2>3, FollowsTrans DEF IInv
  <2>5. conn.fd # "new"
    BY <1>5 DEF IInv, InitOnce, NewConnection
  <2>6. Live'
    BY <2>3 DEF Live
  <2>7. jobs' \subseteq 1 .. Len(http'.reqs) /\ Len(http.reqs) <= Len(http'.reqs)
    BY <1>1 DEF IInv, TypeOK, HttpType, Requested
  <2> QED
    BY <1>1, <1>2, <2>3, <2>4, <2>5, <2>6, <2>7, LiveStep DEF IInv, TypeOK, Draining
<1> QED
  BY <1>3, <1>4, <1>5

(* An event of the connection is in the batch only if the connection was   *)
(* opened.                                                                 *)
LEMMA DeliverEventPreserves == IInv /\ DeliverEvent => IInv'
<1> SUFFICES ASSUME IInv, DeliverEvent PROVE IInv'
  OBVIOUS
<1> DEFINE got == Head(batch).ev
           c   == [conn EXCEPT !.received = got]
<1>1. /\ pc = "loop" /\ batch # <<>> /\ Head(batch).src = "conn" /\ batch' = Tail(batch)
      /\ UNCHANGED <<sock, http, jobs, tasks, running, inMgr>>
  BY DEF DeliverEvent, NextIs
<1>2. batch' \in Seq(Item) /\ got \in SUBSET Events /\ running = <<>>
  BY <1>1, BatchHead DEF Item, IInv, Draining
<1>3. Live
  BY <1>1, BatchHead DEF IInv, NoTraffic
<1>4. /\ conn' = ForceClose(c, "unexpected") \/ conn' = ForceClose(c, "error") \/ conn' = c
      /\ pc' \in {"loop", "write"}
  BY DEF DeliverEvent
<1> HIDE DEF got
<1>5. Sane(conn') /\ Settled(conn') /\ Follows(conn, conn')
  BY <1>2, <1>4, MethodTypes DEF CloseReasons
<1>6. Live' /\ conn.fd # "new"
  BY <1>3, <1>5, StaysLive
<1>7. jobs' \subseteq 1 .. Len(http'.reqs) /\ Len(http.reqs) <= Len(http'.reqs) /\ Draining'
  BY <1>1, <1>2, <1>4 DEF IInv, TypeOK, HttpType, Requested, Draining
<1> QED
  BY <1>1, <1>2, <1>4, <1>5, <1>6, <1>7, LiveStep DEF IInv, TypeOK

(* Steps that leave the connection's record alone.                         *)
LEMMA QuietPreserves == IInv /\ (DeliverToDestroyed \/ ReadNothing \/ TasksDone) => IInv'
<1>1. ASSUME IInv, DeliverToDestroyed PROVE IInv'
  <2>1. /\ pc = "loop" /\ batch # <<>> /\ batch' = Tail(batch)
        /\ UNCHANGED <<conn, sock, http, jobs, tasks, running, pc, inMgr>>
    BY <1>1 DEF DeliverToDestroyed, NextIs
  <2>2. /\ batch' \in Seq(Item)
        /\ ~Live => \A i \in 1 .. Len(batch') : batch'[i].src # "conn"
    BY <1>1, <2>1, BatchHead DEF IInv, NoTraffic
  <2>3. Touches(conn, conn')
    BY <1>1, <2>1 DEF Touches, IInv, TypeOK
  <2> QED
    BY <1>1, <2>1, <2>2, <2>3, TouchStep DEF IInv, TypeOK
<1>2. ASSUME IInv, ReadNothing PROVE IInv'
  <2>1. /\ pc = "read" /\ pc' = "hup"
        /\ UNCHANGED <<conn, sock, http, jobs, tasks, running, batch, inMgr>>
    BY <1>2 DEF ReadNothing
  <2>2. Live
    BY <1>2, <2>1 DEF IInv, NoTraffic
  <2>3. Requested' /\ InOrder' /\ Held' /\ Draining' /\ NoTraffic' /\ InitOnce'
    BY <1>2, <2>1, <2>2
       DEF IInv, Requested, InOrder, Held, Draining, NoTraffic, Live, InitOnce
  <2> QED
    BY <1>2, <2>1, <2>3 DEF IInv, TypeOK
<1>3. ASSUME IInv, TasksDone PROVE IInv'
  <2>1. /\ pc = "tasks" /\ running = <<>> /\ pc' = "loop"
        /\ UNCHANGED <<conn, sock, http, jobs, tasks, running, batch, inMgr>>
    BY <1>3 DEF TasksDone
  <2>2. Requested' /\ InOrder' /\ Held' /\ Draining' /\ NoTraffic' /\ InitOnce'
    BY <1>3, <2>1
       DEF IInv, Requested, InOrder, Held, Draining, NoTraffic, Live, InitOnce
  <2> QED
    BY <1>3, <2>1, <2>2 DEF IInv, TypeOK
<1> QED
  BY <1>1, <1>2, <1>3

(* The callbacks that write and that notice a closed peer.                 *)
LEMMA CallbackPreserves == IInv /\ (OnWrite \/ OnHup) => IInv'
<1> SUFFICES ASSUME IInv, OnWrite \/ OnHup PROVE IInv'
  OBVIOUS
<1>1. /\ pc \in {"write", "hup"} /\ pc' \in {"read", "loop"}
      /\ UNCHANGED <<sock, http, jobs, tasks, running, batch, inMgr>>
  BY DEF OnWrite, OnHup
<1>2. Live /\ running = <<>>
  BY <1>1 DEF IInv, NoTraffic, Draining
<1>3. conn' = conn \/ conn' = Shutdown(conn, sock) \/ Sends(conn, sock, conn')
  BY DEF OnWrite, OnHup
<1>4. Sane(conn') /\ Settled(conn') /\ Follows(conn, conn')
  <2>1. CASE conn' = conn
    BY <2>1, ConnFields DEF IInv, TypeOK, Follows
  <2>2. CASE conn' = Shutdown(conn, sock)
    BY <2>2, ShutdownSettles DEF IInv
  <2>3. CASE Sends(conn, sock, conn')
    <3>1. conn.enable => conn.fd = "open"
      BY <1>2 DEF IInv, TypeOK, ConnType, Live
    <3> QED
      BY <2>3, <3>1, SendsSettles DEF IInv, Settled, Tuned, TypeOK
  <2> QED
    BY <1>3, <2>1, <2>2, <2>3
<1>5. Live' /\ conn.fd # "new"
  BY <1>2, <1>4, StaysLive
<1>6. jobs' \subseteq 1 .. Len(http'.reqs) /\ Len(http.reqs) <= Len(http'.reqs) /\ Draining'
  BY <1>1, <1>2 DEF IInv, TypeOK, HttpType, Requested, Draining
<1> QED
  BY <1>1, <1>4, <1>5, <1>6, LiveStep DEF IInv, TypeOK

-----------------------------------------------------------------------------

(* What was read without a "big" request can be parsed.                    *)
LEMMA SmallOnly ==
    ASSUME NEW q \in Seq(Kinds), NEW n \in 0 .. Len(q), \A i \in 1 .. n : q[i] # "big"
    PROVE  SubSeq(q, 1, n) \in Seq(Parsed)
<1>1. \A i \in 1 .. n : q[i] \in Parsed
  <2> SUFFICES ASSUME NEW i \in 1 .. n PROVE q[i] \in Parsed
    OBVIOUS
  <2>1. i \in 1 .. Len(q)
    BY LenProperties
  <2>2. q[i] \in Kinds
    BY <2>1, ElementOfSeq
  <2> QED
    BY <2>2, KindsAssumption DEF Parsed
<1> QED
  BY <1>1, SubSeqProperties

LEMMA DispatchTypes ==
    ASSUME IInv, NEW new \in Seq(Parsed), Dispatch(new)
    PROVE  /\ http' \in HttpType
           /\ http'.next = http.next /\ http'.parked = http.parked
           /\ Len(http.reqs) <= Len(http'.reqs)
           /\ jobs' \subseteq 1 .. Len(http'.reqs)
<1> DEFINE r == http.reqs \o new
           b == <<>>
           k == http.stuck \/ "bad" \in ToSet(new)
<1>1. http \in HttpType /\ http.reqs \in Seq(Parsed) /\ Len(http.reqs) \in Nat /\ Len(new) \in Nat
  BY LenProperties DEF IInv, TypeOK, HttpType
<1>2. r \in Seq(Parsed) /\ Len(r) = Len(http.reqs) + Len(new)
  BY <1>1, ConcatProperties
<1>3. b \in Seq(Parsed) /\ k \in BOOLEAN
  BY EmptySeq
<1>4. http' = [http EXCEPT !.reqs = r, !.buf = b, !.stuck = k]
  BY DEF Dispatch
<1>5. jobs' = jobs \union {Len(http.reqs) + i : i \in 1 .. Len(new)}
  BY DEF Dispatch
<1> HIDE DEF r, b, k
<1>6. http' \in HttpType /\ http'.next = http.next /\ http'.parked = http.parked /\ http'.reqs = r
  BY <1>1, <1>2, <1>3, <1>4 DEF HttpType
<1>7. jobs \subseteq 1 .. Len(http.reqs)
  BY DEF IInv, Requested
<1>8. \A i \in 1 .. Len(new) : Len(http.reqs) + i \in 1 .. Len(r)
  BY <1>1, <1>2
<1>9. 1 .. Len(http.reqs) \subseteq 1 .. Len(r)
  BY <1>1, <1>2
<1>10. jobs' \subseteq 1 .. Len(r)
  BY <1>5, <1>7, <1>8, <1>9
<1> QED
  BY <1>1, <1>2, <1>6, <1>10

(* What a read without a "big" request dispatches.                         *)
LEMMA ReadAllDispatches ==
    ASSUME IInv, ReadAll
    PROVE  \E new \in Seq(Parsed) : Dispatch(new)
<1>1. "big" \notin ToSet(sock.rx) /\ ParseInput(http.buf \o sock.rx)
  BY DEF ReadAll
<1>3. sock.rx \in Seq(Kinds) /\ Len(sock.rx) \in Nat /\ http.buf \in Seq(Parsed)
  BY LenProperties DEF IInv, TypeOK, SockType, HttpType
<1>5. http.buf \o sock.rx \in Seq(Parsed)
  <2>1. \A i \in 1 .. Len(sock.rx) : sock.rx[i] # "big"
    BY <1>1, <1>3, LenProperties DEF ToSet
  <2>2. SubSeq(sock.rx, 1, Len(sock.rx)) \in Seq(Parsed)
    <3>1. Len(sock.rx) \in 0 .. Len(sock.rx)
      BY <1>3
    <3> QED
      BY <1>3, <2>1, <3>1, SmallOnly
  <2>3. sock.rx \in Seq(Parsed)
    BY <1>3, <2>2, SubSeqFull
  <2> QED
    BY <1>3, <2>3, ConcatProperties
<1> QED
  <2> DEFINE b == http.buf \o sock.rx
  <2>1. <<>> \in Seq(Parsed) /\ <<"bad">> \in Seq(Parsed)
    BY DEF Parsed
  <2>2. \A n \in 0 .. Len(b) : SubSeq(b, 1, n) \in Seq(Parsed)
    <3>1. b \in Seq(Parsed) /\ Len(b) \in Nat
      BY <1>5, LenProperties
    <3> HIDE DEF b
    <3> SUFFICES ASSUME NEW n \in 0 .. Len(b) PROVE SubSeq(b, 1, n) \in Seq(Parsed)
      OBVIOUS
    <3>2. \A i \in 1 .. n : i \in 1 .. Len(b)
      BY <3>1
    <3>3. \A i \in 1 .. n : b[i] \in Parsed
      BY <3>1, <3>2, ElementOfSeq
    <3> QED
      BY <3>3, SubSeqProperties
  <2>3. CASE http.stuck
    <3>1. \/ Dispatch(<<"bad">>)
          \/ Dispatch(<<>>)
      BY <1>1, <2>3 DEF ParseInput
    <3> QED
      BY <2>1, <3>1
  <2>4. CASE ~http.stuck
    <3>1. PICK n \in 0 .. Len(b) : Dispatch(SubSeq(b, 1, n))
      BY <1>1, <2>4 DEF ParseInput
    <3> QED
      BY <2>2, <3>1
  <2> QED
    BY <2>3, <2>4

LEMMA ReadAllPreserves == IInv /\ ReadAll => IInv'
<1> SUFFICES ASSUME IInv, ReadAll PROVE IInv'
  OBVIOUS
<1>1. /\ pc = "read" /\ pc' = "hup" /\ "big" \notin ToSet(sock.rx)
      /\ sock' = [sock EXCEPT !.rx = <<>>]
      /\ ParseInput(http.buf \o sock.rx)
      /\ UNCHANGED <<tasks, running, batch, inMgr>>
  BY DEF ReadAll
<1>2. Live /\ running = <<>>
  BY <1>1 DEF IInv, NoTraffic, Draining
<1>3. sock.rx \in Seq(Kinds) /\ Len(sock.rx) \in Nat /\ http.buf \in Seq(Parsed)
  BY LenProperties DEF IInv, TypeOK, SockType, HttpType
<1>4. sock' \in SockType
  <2> DEFINE q == <<>>
  <2>1. q \in Seq(Kinds)
    BY EmptySeq
  <2>2. sock' = [sock EXCEPT !.rx = q]
    BY <1>1
  <2> HIDE DEF q
  <2> QED
    BY <2>1, <2>2 DEF IInv, TypeOK, SockType
<1>6. PICK new \in Seq(Parsed) : Dispatch(new)
  BY ReadAllDispatches
<1>7. /\ http' \in HttpType
      /\ http'.next = http.next /\ http'.parked = http.parked
      /\ Len(http.reqs) <= Len(http'.reqs)
      /\ jobs' \subseteq 1 .. Len(http'.reqs)
  BY <1>6, DispatchTypes
<1>8. Sane(conn') /\ Settled(conn') /\ Follows(conn, conn')
  <2> DEFINE c == IF sock.fin THEN Shutdown(conn, sock') ELSE conn
  <2>1. conn' = [c EXCEPT !.timer = "armed"]
    BY DEF ReadAll
  <2>2. Sane(c) /\ Settled(c) /\ Follows(conn, c)
    <3>1. Follows(conn, conn)
      BY ConnFields DEF IInv, TypeOK, Follows
    <3> QED
      BY <3>1, ShutdownSettles DEF IInv
  <2> HIDE DEF c
  <2>3. Sane(conn') /\ Settled(conn') /\ Follows(c, conn')
    BY <2>1, <2>2, TimerTypes
  <2> QED
    BY <2>2, <2>3, FollowsTrans DEF IInv
<1>9. Live' /\ conn.fd # "new" /\ Draining'
  BY <1>1, <1>2, <1>8, StaysLive DEF Draining
<1> QED
  BY <1>1, <1>4, <1>7, <1>8, <1>9, LiveStep DEF IInv, TypeOK

LEMMA ReadTooLargePreserves == IInv /\ ReadTooLarge => IInv'
<1> SUFFICES ASSUME IInv, ReadTooLarge PROVE IInv'
  OBVIOUS
<1>1. /\ pc = "read" /\ pc' = "hup"
      /\ conn' = Shutdown(conn, sock')
      /\ UNCHANGED <<jobs, tasks, running, batch, inMgr>>
  BY DEF ReadTooLarge
<1>2. Live /\ running = <<>>
  BY <1>1 DEF IInv, NoTraffic, Draining
<1>3. sock.rx \in Seq(Kinds) /\ Len(sock.rx) \in Nat /\ http.buf \in Seq(Parsed)
  BY LenProperties DEF IInv, TypeOK, SockType, HttpType
<1>a. PICK k \in 1 .. Len(sock.rx) :
        /\ \A l \in 1 .. k - 1 : sock.rx[l] # "big"
        /\ \E i \in 0 .. k - 1, j \in k .. Len(sock.rx) :
             /\ http' = [http EXCEPT !.buf = @ \o SubSeq(sock.rx, 1, i)]
             /\ sock' = [sock EXCEPT !.rx = SubSeq(@, j + 1, Len(@))]
  BY DEF ReadTooLarge
<1>4. PICK i \in 0 .. k - 1, j \in k .. Len(sock.rx) :
        /\ \A l \in 1 .. k - 1 : sock.rx[l] # "big"
        /\ http' = [http EXCEPT !.buf = @ \o SubSeq(sock.rx, 1, i)]
        /\ sock' = [sock EXCEPT !.rx = SubSeq(@, j + 1, Len(@))]
  BY <1>a
<1>5. SubSeq(sock.rx, 1, i) \in Seq(Parsed)
  <2>1. i \in 0 .. Len(sock.rx) /\ \A l \in 1 .. i : l \in 1 .. k - 1
    BY <1>3
  <2> QED
    BY <1>3, <1>4, <2>1, SmallOnly
<1>6. SubSeq(sock.rx, j + 1, Len(sock.rx)) \in Seq(Kinds)
  <2>1. \A l \in j + 1 .. Len(sock.rx) : l \in 1 .. Len(sock.rx)
    BY <1>3
  <2>2. \A l \in j + 1 .. Len(sock.rx) : sock.rx[l] \in Kinds
    BY <1>3, <2>1, ElementOfSeq
  <2> QED
    BY <1>3, <2>2, SubSeqProperties
<1>7. sock' \in SockType
  <2> DEFINE q == SubSeq(sock.rx, j + 1, Len(sock.rx))
  <2>1. sock' = [sock EXCEPT !.rx = q] /\ q \in Seq(Kinds)
    BY <1>4, <1>6
  <2> HIDE DEF q
  <2> QED
    BY <2>1 DEF IInv, TypeOK, SockType
<1>8. /\ http' \in HttpType
      /\ http'.next = http.next /\ http'.parked = http.parked /\ http'.reqs = http.reqs
  <2> DEFINE q == http.buf \o SubSeq(sock.rx, 1, i)
  <2>1. http' = [http EXCEPT !.buf = q] /\ q \in Seq(Parsed)
    BY <1>3, <1>4, <1>5, ConcatProperties
  <2> HIDE DEF q
  <2> QED
    BY <2>1 DEF IInv, TypeOK, HttpType
<1>9. Sane(conn') /\ Settled(conn') /\ Follows(conn, conn')
  BY <1>1, ShutdownSettles DEF IInv
<1>10. Live' /\ conn.fd # "new" /\ Draining'
  BY <1>1, <1>2, <1>9, StaysLive DEF Draining
<1>11. jobs' \subseteq 1 .. Len(http'.reqs) /\ Len(http.reqs) <= Len(http'.reqs)
  BY <1>1, <1>8 DEF IInv, TypeOK, HttpType, Requested
<1> QED
  BY <1>1, <1>7, <1>8, <1>9, <1>10, <1>11, LiveStep DEF IInv, TypeOK

-----------------------------------------------------------------------------

LEMMA ReadyItemsTypes ==
    ASSUME IInv
    PROVE  /\ ReadyItems \subseteq Item
           /\ Cardinality(ReadyItems) \in Nat
           /\ ~Live => \A m \in ReadyItems : m.src # "conn"
<1> DEFINE T == IF tasks # <<>> THEN {[src |-> "trigger", ev |-> {"IN"}]} ELSE {}
           D == IF conn.timer = "due" THEN {[src |-> "timer", ev |-> {"IN"}]} ELSE {}
           C == IF conn.edge /\ Reported(conn, sock) # {}
                THEN {[src |-> "conn", ev |-> Reported(conn, sock)]} ELSE {}
<1>1. ReadyItems = T \union D \union C
  BY DEF ReadyItems
<1>2. Reported(conn, sock) \subseteq Events
  BY DEF Reported, Level
<1>3. T \subseteq Item /\ D \subseteq Item /\ C \subseteq Item
  BY <1>2 DEF Item, Events
<1>4. IsFiniteSet(T) /\ IsFiniteSet(D) /\ IsFiniteSet(C)
  BY FS_EmptySet, FS_Singleton
<1>5. \A m \in T \union D : m.src # "conn"
  OBVIOUS
<1>6. ~Live => C = {}
  BY DEF IInv, Settled, Tuned, Watched, Live, Reported
<1> HIDE DEF T, D, C
<1>7. IsFiniteSet(T \union D \union C)
  BY <1>4, FS_Union
<1> QED
  BY <1>1, <1>3, <1>5, <1>6, <1>7, FS_CardinalityType

LEMMA EpollWaitPreserves == IInv /\ EpollWait => IInv'
<1> SUFFICES ASSUME IInv, EpollWait PROVE IInv'
  OBVIOUS
<1>1. /\ batch' \in SetToSeqs(ReadyItems)
      /\ conn' = [conn EXCEPT !.edge = FALSE]
      /\ UNCHANGED <<sock, http, jobs, tasks, running, pc, inMgr>>
  BY DEF EpollWait
<1> DEFINE n == Cardinality(ReadyItems)
<1>2. n \in Nat
  BY ReadyItemsTypes
<1>3. batch' \in [1 .. n -> ReadyItems]
  BY <1>1 DEF SetToSeqs
<1> HIDE DEF n
<1>4. batch' \in Seq(ReadyItems)
  BY <1>2, <1>3
<1>5. batch' \in Seq(Item)
  BY <1>4, ReadyItemsTypes, SeqMonotonic
<1>6. ~Live => \A i \in 1 .. Len(batch') : batch'[i].src # "conn"
  BY <1>4, ReadyItemsTypes, ElementOfSeq
<1>7. Touches(conn, conn') /\ conn'.notified = conn.notified
  BY <1>1, FieldTouches DEF IInv, TypeOK
<1>8. conn.fd = "new" => conn' = conn
  BY <1>1 DEF IInv, InitOnce, NewConnection
<1> QED
  BY <1>1, <1>5, <1>6, <1>7, <1>8, TouchStep DEF IInv, TypeOK

LEMMA RunningHead ==
    ASSUME IInv, running # <<>>
    PROVE  /\ Head(running) = running[1] /\ Head(running) \in Task /\ Tail(running) \in Seq(Task)
           /\ Len(running) \in Nat /\ 1 \in 1 .. Len(running)
<1>1. running \in Seq(Task) /\ Len(running) \in Nat /\ Len(running) # 0
  BY LenProperties, EmptySeq DEF IInv, TypeOK
<1> QED
  BY <1>1, HeadTailProperties

LEMMA InitChannelPreserves == IInv /\ InitChannel => IInv'
<1> SUFFICES ASSUME IInv, InitChannel PROVE IInv'
  OBVIOUS
<1>1. /\ pc = "tasks" /\ running # <<>> /\ Head(running).id = 0
      /\ conn' \in {Opened(conn, sock), OpenFailed(conn)}
      /\ running' = Tail(running)
      /\ UNCHANGED <<sock, http, jobs, tasks, batch, pc, inMgr>>
  BY RunningHead DEF InitChannel, TaskIs
<1>2. /\ conn = NewConnection /\ conn.fd = "new"
      /\ tasks = <<>> /\ running' = <<>>
  <2>1. conn.fd = "new"
    BY <1>1, RunningHead DEF IInv, InitOnce
  <2> QED
    BY <1>1, <2>1 DEF IInv, InitOnce
<1>3. http.reqs = <<>> /\ jobs = {} /\ http.parked = {}
      /\ \A i \in 1 .. Len(batch) : batch[i].src # "conn"
  BY <1>2 DEF IInv, NoTraffic, Live
<1>4. /\ Sane(conn') /\ Settled(conn') /\ conn'.out = <<>> /\ conn'.fd # "new"
      /\ conn'.fd # "closed" => ~conn'.notified
  <2>1. CASE conn' = Opened(conn, sock)
    <3> DEFINE asks == [NewConnection EXCEPT !.event = {"RDHUP", "IN"}, !.fresh = TRUE]
               e    == FALSE \/ Level(asks, sock) \cap ({"RDHUP", "IN"} \union {"ERR"}) # {}
    <3>0. Enable(Enable(conn, "RDHUP"), "IN") = asks
      <4> DEFINE one == [NewConnection EXCEPT !.event = {"RDHUP"}, !.fresh = TRUE]
      <4>1. {} \union {"RDHUP"} = {"RDHUP"} /\ {"RDHUP"} \union {"IN"} = {"RDHUP", "IN"}
        OBVIOUS
      <4>2. NewConnection.event = {} /\ one.event = {"RDHUP"}
        BY DEF NewConnection
      <4>3. Enable(conn, "RDHUP") = one
        BY <1>2, <4>1, <4>2 DEF Enable
      <4>4. Enable(one, "IN") = [one EXCEPT !.event = {"RDHUP", "IN"}, !.fresh = TRUE]
        BY <4>1, <4>2 DEF Enable
      <4> QED
        BY <4>3, <4>4, ZenonT(60) DEF NewConnection
    <3>1. conn' = [asks EXCEPT !.inEpoll = TRUE, !.mask = {"RDHUP", "IN"}, !.fresh = FALSE,
                               !.edge = e, !.fd = "open", !.enable = TRUE, !.timer = "armed"]
      BY <2>1, <3>0, ZenonT(60) DEF Opened, RegisterChannel, Armed, NewConnection
    <3>a. e \in BOOLEAN
      OBVIOUS
    <3> HIDE DEF e
    <3>2. /\ conn'.out = <<>> /\ conn'.fd = "open" /\ conn'.enable /\ conn'.inEpoll
          /\ conn'.event = {"RDHUP", "IN"} /\ conn'.mask = {"RDHUP", "IN"}
          /\ conn'.fresh = FALSE /\ conn'.blocking = FALSE /\ conn'.closeWait = FALSE
          /\ conn'.pending = 0 /\ conn'.head = 0 /\ conn'.notified = FALSE
          /\ conn'.lost = FALSE
      BY <3>1 DEF NewConnection
    <3>3. conn' \in ConnType
      <4> DEFINE ev == {"RDHUP", "IN"}
                 q  == <<>>
      <4>1. ev \in SUBSET Events /\ q \in Seq([id : Nat, to : Nat]) /\ {} \in SUBSET Events
        BY EmptySeq DEF Events
      <4>2. conn' = [fd |-> "open", enable |-> TRUE,
                     event |-> ev, received |-> {}, fresh |-> FALSE,
                     inEpoll |-> TRUE, mask |-> ev, lost |-> FALSE, edge |-> e,
                     blocking |-> FALSE, closeWait |-> FALSE, pending |-> 0,
                     out |-> q, head |-> 0, written |-> 0,
                     timer |-> "armed", notified |-> FALSE, why |-> "none"]
        BY <3>1 DEF NewConnection
      <4> HIDE DEF ev, q
      <4> QED
        BY <3>a, <4>1, <4>2 DEF ConnType, CloseReasons
    <3>4. Sane(conn') /\ Settled(conn')
      BY <3>2, <3>3, LinesOrdered, BlockLineAssumption
         DEF Sane, Settled, Tuned, Watched, Synced, Total, End, Unsent
    <3> QED
      BY <3>2, <3>4
  <2>2. CASE conn' = OpenFailed(conn)
    <3> DEFINE q  == <<>>
               c0 == [conn EXCEPT !.closeWait = TRUE]
               c1 == ForceClose(c0, "error")
               c2 == ForceClose(c1, "error")
    <3>1. q \in Seq([id : Nat, to : Nat]) /\ {} \in SUBSET Events
      BY EmptySeq
    <3>2. c0 = [NewConnection EXCEPT !.closeWait = TRUE]
      BY <1>2
    <3>3. Sane(c0)
      <4>1. Sane(conn)
        BY DEF IInv
      <4>2. /\ c0 \in ConnType /\ c0.out = conn.out /\ c0.head = conn.head
            /\ c0.pending = conn.pending
        BY <4>1 DEF Sane, ConnType
      <4> HIDE DEF c0
      <4> QED
        BY <4>1, <4>2 DEF Sane, End, Total
    <3>4. c0.out = <<>> /\ c0.head = 0
      BY <3>2 DEF NewConnection
    <3> HIDE DEF c0
    <3>5. Sane(c1) /\ Follows(c0, c1)
      BY <3>3, ForceCloseSettles DEF CloseReasons
    <3> HIDE DEF c1
    <3>6. Sane(c2) /\ Settled(c2) /\ Follows(c1, c2) /\ c2.fd = "closed"
      BY <3>5, ForceCloseSettles DEF CloseReasons
    <3>7. c2.out = <<>>
      BY <3>4, <3>5, <3>6 DEF Follows
    <3>8. conn' = [c2 EXCEPT !.enable = TRUE, !.timer = "armed"]
      BY <2>2 DEF OpenFailed, c2, c1, c0
    <3> HIDE DEF c2
    <3>9. conn' \in ConnType
      BY <3>6, <3>8 DEF Sane, ConnType
    <3>10. /\ conn'.fd = "closed" /\ conn'.out = c2.out /\ conn'.head = c2.head
           /\ conn'.pending = c2.pending /\ conn'.inEpoll = c2.inEpoll /\ conn'.event = c2.event
      BY <3>6, <3>8 DEF Sane, ConnType
    <3> QED
      BY <3>6, <3>7, <3>9, <3>10 DEF Sane, Settled, Tuned, Watched, Total, End
  <2> QED
    BY <1>1, <2>1, <2>2
<1>5. TypeOK'
  BY <1>1, <1>4, RunningHead DEF IInv, TypeOK, Sane
<1>6. InOrder'
  BY <1>1, <1>2, <1>4 DEF IInv, InOrder, NewConnection
<1>7. Requested'
  BY <1>1, <1>2, <1>4, EmptySeq DEF IInv, Requested, NewConnection
<1>8. InitOnce'
  <2>1. Len(<<>>) = 0 /\ 1 .. 0 = {}
    OBVIOUS
  <2> QED
    BY <1>1, <1>2, <1>4, <2>1 DEF InitOnce
<1>9. NoTraffic' /\ Draining'
  BY <1>1, <1>3 DEF NoTraffic, Draining
<1>10. Held'
  BY <1>1, <1>2, <1>4 DEF IInv, Held
<1> QED
  BY <1>4, <1>5, <1>6, <1>7, <1>8, <1>9, <1>10 DEF IInv

LEMMA TaskBeginPreserves == IInv /\ TaskBegin => IInv'
<1> SUFFICES ASSUME IInv, TaskBegin PROVE IInv'
  OBVIOUS
<1> DEFINE t == Head(running)
<1>1. /\ pc = "tasks" /\ running # <<>> /\ t.id # 0
      /\ UNCHANGED <<conn, sock, jobs, tasks, batch, inMgr>>
  BY DEF TaskBegin, TaskIs
<1>2. t = running[1] /\ t \in Task /\ 1 \in 1 .. Len(running) /\ Len(running) \in Nat
  BY <1>1, RunningHead
<1>3. Answers(t, Len(http.reqs)) /\ Len(http.reqs) \in Nat
  BY <1>2 DEF IInv, Requested, TypeOK, HttpType
<1> HIDE DEF t
<1>4. Len(http.reqs) # 0
  BY <1>1, <1>2, <1>3 DEF Answers, Task
<1>5. Live
  BY <1>3, <1>4, EmptySeq DEF IInv, NoTraffic
<1>6. conn.fd # "new"
  BY <1>5 DEF Live
<1>7. CASE http.next > t.id
  <2>1. running' = Tail(running) /\ http' = http /\ pc' = pc
    BY <1>7 DEF TaskBegin, t
  <2>2. Follows(conn, conn') /\ Live'
    BY <1>1, <1>5, ConnFields DEF IInv, TypeOK, Follows, Live
  <2>3. jobs' \subseteq 1 .. Len(http'.reqs) /\ Len(http.reqs) <= Len(http'.reqs) /\ Draining'
    BY <1>1, <1>3, <2>1 DEF IInv, Requested, Draining
  <2> QED
    BY <1>1, <1>6, <2>1, <2>2, <2>3, LiveStep DEF IInv, TypeOK
<1>8. CASE ~(http.next > t.id)
  <2>1. /\ \/ http' = http
           \/ /\ \A u \in http.parked : u.id # t.id
              /\ http' = [http EXCEPT !.parked = @ \union {t}]
        /\ running' = running /\ pc' = "drain"
    BY <1>8 DEF TaskBegin, t
  <2>2. http \in HttpType /\ http.parked \subseteq Task
    BY DEF IInv, TypeOK, HttpType
  <2>3. /\ http' \in HttpType /\ http'.next = http.next /\ http'.reqs = http.reqs
        /\ \/ http'.parked = http.parked
           \/ /\ \A u \in http.parked : u.id # t.id
              /\ http'.parked = http.parked \union {t}
    BY <1>2, <2>1, <2>2 DEF HttpType
  <2>4. TypeOK' /\ InitOnce' /\ Held' /\ Draining' /\ NoTraffic'
    BY <1>1, <1>5, <1>6, <2>1, <2>3
       DEF IInv, TypeOK, InitOnce, Held, Draining, NoTraffic, Live
  <2>5. InOrder'
    <3>1. t.id >= http.next
      BY <1>2, <1>8, <2>2 DEF Task, HttpType
    <3> QED
      BY <1>1, <2>3, <3>1 DEF IInv, InOrder
  <2>6. Requested'
    BY <1>1, <1>3, <2>1, <2>3 DEF IInv, Requested
  <2>7. Sane(conn)' /\ Settled(conn)'
    BY <1>1 DEF IInv
  <2> QED
    BY <2>4, <2>5, <2>6, <2>7 DEF IInv
<1> QED
  BY <1>7, <1>8

(* send() is called with the chunk that is next in order.                  *)
LEMMA DrainOnePreserves == IInv /\ DrainOne => IInv'
<1> SUFFICES ASSUME IInv, DrainOne PROVE IInv'
  OBVIOUS
<1>1. /\ pc = "drain"
      /\ UNCHANGED <<sock, jobs, tasks, running, batch, pc, inMgr>>
  BY DEF DrainOne
<1>2. PICK t \in http.parked :
        /\ t.id = http.next
        /\ Sends(Queued(conn, t.id, t.size), sock, conn')
        /\ http' = [http EXCEPT !.parked = @ \ {t}, !.next = @ + 1]
  BY DEF DrainOne
<1>3. http \in HttpType /\ http.parked \subseteq Task /\ http.next \in Nat
      /\ t \in Task /\ Len(http.reqs) \in Nat
  BY <1>2 DEF IInv, TypeOK, HttpType
<1>4. t.id \in Nat /\ t.size \in Nat \ {0} /\ t.id <= Len(http.reqs)
  BY <1>3 DEF IInv, Requested, Answers, Task
<1>5. Live
  BY <1>1 DEF IInv, NoTraffic
<1> DEFINE q == Queued(conn, t.id, t.size)
<1>6. /\ Sane(q) /\ Watched(q)
      /\ Len(q.out) = Len(conn.out) + 1
      /\ \A i \in 1 .. Len(conn.out) : q.out[i] = conn.out[i]
      /\ q.out[Len(conn.out) + 1].id = t.id
      /\ q.fd = conn.fd /\ q.enable = conn.enable /\ q.notified = conn.notified
  BY <1>4, QueuedSane DEF IInv, Settled, Tuned
<1>7. Sends(q, sock, conn')
  BY <1>2
<1> HIDE DEF q
<1>8. q.enable => q.fd = "open"
  <2>1. conn.fd \in {"new", "open", "closed"}
    BY DEF IInv, TypeOK, ConnType
  <2> QED
    BY <1>5, <1>6, <2>1 DEF Live
<1>9. Sane(conn') /\ Settled(conn') /\ Follows(q, conn')
  BY <1>6, <1>7, <1>8, SendsSettles DEF IInv, TypeOK
<1>10. Len(conn.out) \in Nat /\ conn'.out = q.out
  BY <1>9, ConnFields DEF IInv, TypeOK, Follows
<1>11. /\ http' \in HttpType /\ http'.next = http.next + 1
       /\ http'.parked = http.parked \ {t} /\ http'.reqs = http.reqs
  <2> DEFINE left == http.parked \ {t}
             n    == http.next + 1
  <2>1. left \in SUBSET Task /\ n \in Nat
    BY <1>3
  <2>2. http' = [http EXCEPT !.parked = left, !.next = n]
    BY <1>2
  <2> HIDE DEF left, n
  <2>3. http' \in HttpType /\ http'.next = n /\ http'.parked = left /\ http'.reqs = http.reqs
    BY <1>3, <2>1, <2>2 DEF HttpType
  <2> QED
    BY <2>3 DEF left, n
<1>12. InOrder'
  <2>1. http'.next = Len(conn'.out) + 1
    BY <1>6, <1>10, <1>11 DEF IInv, InOrder
  <2>2. \A i \in 1 .. Len(conn'.out) : conn'.out[i].id = i
    <3> SUFFICES ASSUME NEW i \in 1 .. Len(conn'.out) PROVE conn'.out[i].id = i
      OBVIOUS
    <3>1. i \in 1 .. Len(conn.out) \/ i = Len(conn.out) + 1
      BY <1>6, <1>10
    <3> QED
      BY <1>2, <1>6, <1>10, <3>1 DEF IInv, InOrder
  <2>3. \A u \in http'.parked : u.id >= http'.next
    <3> SUFFICES ASSUME NEW u \in http.parked, u # t PROVE u.id >= http.next + 1
      BY <1>11
    <3>1. u.id >= http.next /\ u.id # t.id /\ u.id \in Nat
      BY <1>3 DEF IInv, InOrder, Requested, Task
    <3> QED
      BY <1>2, <1>3, <3>1
  <2> QED
    BY <2>1, <2>2, <2>3 DEF InOrder
<1>13. Requested'
  <2>1. Len(conn'.out) <= Len(http'.reqs)
    BY <1>2, <1>3, <1>4, <1>6, <1>10, <1>11 DEF IInv, InOrder
  <2> QED
    BY <1>1, <1>11, <2>1 DEF IInv, Requested
<1>14. Live' /\ conn.fd # "new" /\ conn'.fd # "new"
  BY <1>5, <1>6, <1>9 DEF Live, Follows
<1>15. TypeOK' /\ InitOnce' /\ NoTraffic' /\ Draining'
  BY <1>1, <1>9, <1>11, <1>14
     DEF IInv, TypeOK, Sane, InitOnce, NoTraffic, Draining
<1>16. Held'
  BY <1>1, <1>6, <1>9 DEF IInv, Held, Follows
<1> QED
  BY <1>9, <1>12, <1>13, <1>15, <1>16 DEF IInv

LEMMA TaskEndPreserves == IInv /\ TaskEnd => IInv'
<1> SUFFICES ASSUME IInv, TaskEnd PROVE IInv'
  OBVIOUS
<1>1. /\ pc = "drain" /\ pc' = "tasks" /\ running' = Tail(running)
      /\ conn' = conn \/ conn' = Shutdown(conn, sock)
      /\ UNCHANGED <<sock, http, jobs, tasks, batch, inMgr>>
  BY DEF TaskEnd
<1>2. running # <<>> /\ Live
  BY <1>1 DEF IInv, Draining, NoTraffic
<1>3. Follows(conn, conn)
  BY ConnFields DEF IInv, TypeOK, Follows
<1>4. Sane(conn') /\ Settled(conn') /\ Follows(conn, conn')
  BY <1>1, <1>3, ShutdownSettles DEF IInv
<1>5. Live' /\ conn.fd # "new"
  BY <1>2, <1>4, StaysLive
<1>6. jobs' \subseteq 1 .. Len(http'.reqs) /\ Len(http.reqs) <= Len(http'.reqs) /\ Draining'
  BY <1>1 DEF IInv, TypeOK, HttpType, Requested, Draining
<1> QED
  BY <1>1, <1>2, <1>4, <1>5, <1>6, LiveStep DEF IInv, TypeOK

LEMMA PoolFinishPreserves ==
    ASSUME IInv, NEW id \in 1 .. Len(http.reqs), PoolFinish(id)
    PROVE  IInv'
<1>1. /\ id \in jobs /\ jobs' = jobs \ {id}
      /\ UNCHANGED <<conn, sock, http, running, batch, pc, inMgr>>
  BY DEF PoolFinish
<1>2. PICK size \in Sizes :
        tasks' = IF Alive THEN Append(tasks, [id |-> id, size |-> size]) ELSE tasks
  BY DEF PoolFinish
<1> DEFINE t == [id |-> id, size |-> size]
<1>3. tasks \in Seq(Task) /\ Len(tasks) \in Nat /\ Len(http.reqs) \in Nat
  BY LenProperties DEF IInv, TypeOK, HttpType
<1>4. t \in Task /\ t.id # 0 /\ Answers(t, Len(http.reqs))
  BY <1>3, SizesAssumption DEF Task, Answers
<1>5. tasks' = tasks \/ tasks' = Append(tasks, t)
  BY <1>2
<1> HIDE DEF t
<1>6. /\ tasks' \in Seq(Task)
      /\ \A i \in 1 .. Len(tasks') : tasks'[i] = t \/ \E j \in 1 .. Len(tasks) : tasks'[i] = tasks[j]
  <2>1. CASE tasks' = tasks
    BY <1>3, <2>1
  <2>2. CASE tasks' = Append(tasks, t)
    <3>1. /\ tasks' \in Seq(Task) /\ Len(tasks') = Len(tasks) + 1
          /\ \A i \in 1 .. Len(tasks) : tasks'[i] = tasks[i]
          /\ tasks'[Len(tasks) + 1] = t
      BY <1>3, <1>4, <2>2, AppendProperties
    <3>2. \A i \in 1 .. Len(tasks') : i \in 1 .. Len(tasks) \/ i = Len(tasks) + 1
      BY <1>3, <3>1
    <3> QED
      BY <3>1, <3>2
  <2> QED
    BY <1>5, <2>1, <2>2
<1>7. Live /\ conn.fd # "new"
  BY <1>1 DEF IInv, NoTraffic, Live
<1>8. Live'
  BY <1>1, <1>7 DEF Live
<1>9. TypeOK' /\ InOrder' /\ Held' /\ Draining' /\ NoTraffic'
  BY <1>1, <1>6, <1>8 DEF IInv, TypeOK, InOrder, Held, Draining, NoTraffic
<1>10. Requested' /\ InitOnce'
  BY <1>1, <1>4, <1>6, <1>7 DEF IInv, Requested, InitOnce
<1>11. Sane(conn)' /\ Settled(conn)'
  BY <1>1 DEF IInv
<1> QED
  BY <1>9, <1>10, <1>11 DEF IInv

LEMMA MainErasePreserves == IInv /\ MainErase => IInv'
<1> SUFFICES ASSUME IInv, MainErase PROVE IInv'
  OBVIOUS
<1>1. /\ conn.notified /\ conn' = [conn EXCEPT !.notified = FALSE] /\ inMgr' = FALSE
      /\ UNCHANGED <<sock, http, jobs, tasks, running, batch, pc>>
  BY DEF MainErase
<1>2. conn.fd = "closed"
  BY <1>1 DEF IInv, Held
<1>3. Touches(conn, conn')
  BY <1>1, FieldTouches DEF IInv, TypeOK
<1>4. Sane(conn)' /\ Settled(conn)'
  BY <1>3, TouchesSettles DEF IInv
<1>5. conn'.fd = "closed" /\ conn'.enable = conn.enable /\ conn'.out = conn.out /\ conn' \in ConnType
  BY <1>2, <1>3 DEF Touches
<1>6. TypeOK' /\ InOrder' /\ Requested' /\ InitOnce' /\ NoTraffic' /\ Held' /\ Draining'
  BY <1>1, <1>2, <1>5
     DEF IInv, TypeOK, InOrder, Requested, InitOnce, NoTraffic, Live, Held, Draining
<1> QED
  BY <1>4, <1>6 DEF IInv

LEMMA NextPreserves == IInv /\ [Next]_vars => IInv'
<1> SUFFICES ASSUME IInv, [Next]_vars PROVE IInv'
  OBVIOUS
<1>1. CASE LoopStep
  BY <1>1, EpollWaitPreserves, HandleTriggerPreserves, HandleTimerPreserves,
     DeliverEventPreserves, QuietPreserves, CallbackPreserves, ReadAllPreserves,
     ReadTooLargePreserves, InitChannelPreserves, TaskBeginPreserves,
     DrainOnePreserves, TaskEndPreserves
     DEF LoopStep
<1>2. CASE Environment
  BY <1>2, EnvironmentPreserves
<1>3. ASSUME NEW id \in 1 .. Len(http.reqs), PoolFinish(id) PROVE IInv'
  BY <1>3, PoolFinishPreserves
<1>4. CASE MainErase
  BY <1>4, MainErasePreserves
<1>5. CASE UNCHANGED vars
  BY <1>5 DEF vars, IInv, TypeOK, InOrder, Requested, InitOnce, NoTraffic, Live, Held, Draining
<1> QED
  BY <1>1, <1>2, <1>3, <1>4, <1>5 DEF Next

(* The inductive invariant holds of every behaviour.                       *)
THEOREM Inductive == Spec => []IInv
BY InitEstablishes, NextPreserves, PTL DEF Spec

-----------------------------------------------------------------------------

(* The state of a connection and of its HttpContext is always well formed. *)
THEOREM TypeCorrect == Spec => []TypeOK
<1>1. IInv => TypeOK
  BY DEF IInv
<1> QED
  BY <1>1, Inductive, PTL

(* Responses are queued in the order of the requests, each once, whatever  *)
(* order the pool finishes them in (save_respond_chunk).                   *)
THEOREM ResponsesInOrder == Spec => []InOrder
<1>1. IInv => InOrder
  BY DEF IInv
<1> QED
  BY <1>1, Inductive, PTL

(* pending_output_bytes_ is exactly what output_chunks_ still holds, so    *)
(* shutdown() and send() decide the delayed close on the right condition.  *)
THEOREM PendingIsAccounted == Spec => []PendingAccounts
<1>1. ASSUME IInv PROVE PendingAccounts
  <2>1. Sane(conn)
    BY <1>1 DEF IInv
  <2>2. conn.pending = Total(conn) - End(conn, conn.head)
    BY <2>1 DEF Sane
  <2>3. conn.pending = 0 <=> ~Unsent(conn)
    BY <2>1, PendingZero
  <2> QED
    BY <2>2, <2>3 DEF PendingAccounts
<1> QED
  BY <1>1, Inductive, PTL

(* epoll watches what the channel wants as long as no other connection     *)
(* deletes the entry, and EPOLLOUT is wanted exactly while output is left. *)
THEOREM InterestIsSynchronised == Spec => []InterestSync
<1>1. IInv => InterestSync
  BY DEF IInv, Settled, Tuned, Watched, Synced, InterestSync, Open
<1> QED
  BY <1>1, Inductive, PTL

(* Backpressure keeps its hysteresis whatever the order of responses,      *)
(* writes and half-closes.                                                 *)
THEOREM BackpressureIsSound == Spec => []BackpressureSound
<1>1. IInv => BackpressureSound
  BY DEF IInv, Settled, Tuned, Watched, BackpressureSound, Open
<1> QED
  BY <1>1, Inductive, PTL

(* epoll never holds the raw pointer of a destroyed connection.            *)
THEOREM RegisteredStaysAlive == Spec => []RegisteredIsAlive
<1>1. ASSUME IInv PROVE RegisteredIsAlive
  <2>1. conn.inEpoll => conn.fd = "open"
    BY <1>1 DEF IInv, Settled, Tuned, Watched
  <2> QED
    BY <1>1, <2>1 DEF IInv, Held, RegisteredIsAlive, Alive
<1> QED
  BY <1>1, Inductive, PTL

-----------------------------------------------------------------------------
(* What HttpPipeline promises its client: no wake-up of the edge-triggered *)
(* epoll is lost, the delayed close loses no queued answer, and the        *)
(* connection implements OrderedResponder. The argument stands on IInv and *)
(* on what each method does to the ready list (TCPConnectionProofs).       *)

(* The kernel drops what was received when the peer resets.                *)
ResetIsDry == sock.rst => sock.rx = <<>>

(* An event of the connection with e is in the sequence of items b.        *)
Batched(b, e) == \E i \in 1 .. Len(b) : b[i].src = "conn" /\ e \in b[i].ev

(* NoLostRead and NoLostWrite are inductive on top of IInv, but for the    *)
(* read callback, which gives up on a connection that was reset.           *)
WInv == ResetIsDry /\ NoLostRead /\ NoLostWrite

(* Of an open connection.                                                  *)
LEMMA OpenFacts ==
    ASSUME IInv, Open
    PROVE  /\ conn.enable /\ Alive
           /\ conn.inEpoll => conn.mask = conn.event /\ ("OUT" \in conn.mask <=> Unsent(conn))
           /\ conn.mask # {} => conn.inEpoll
BY DEF IInv, Settled, Tuned, Watched, Synced, Held, Open, Alive

(* A step that closes the connection, or leaves it closed, loses nothing.  *)
LEMMA NotOpenStep ==
    ASSUME conn'.fd # "open", ResetIsDry'
    PROVE  WInv'
BY DEF WInv, NoLostRead, NoLostWrite, Open

-----------------------------------------------------------------------------
(* The peer and the clock.                                                 *)

LEMMA WakesEffects ==
    ASSUME IInv, NEW e
    PROVE  LET d == Wakes(e)
           IN  /\ d.fd = conn.fd /\ d.received = conn.received /\ d.mask = conn.mask
               /\ d.out = conn.out /\ d.head = conn.head /\ d.written = conn.written
               /\ d.why = conn.why /\ d.inEpoll = conn.inEpoll
               /\ conn.edge => d.edge
               /\ conn.inEpoll /\ e \cap conn.mask # {} => d.edge
<1> DEFINE b == conn.edge \/ (conn.inEpoll /\ e \cap (conn.mask \union {"ERR"}) # {})
<1>1. Wakes(e) = [conn EXCEPT !.edge = b]
  BY DEF Wakes
<1>2. conn.edge => b
  OBVIOUS
<1>3. conn.inEpoll /\ e \cap conn.mask # {} => b
  OBVIOUS
<1>4. b \in BOOLEAN /\ conn \in ConnType
  BY DEF IInv, TypeOK, ConnType
<1> HIDE DEF b
<1> QED
  BY <1>1, <1>2, <1>3, <1>4 DEF ConnType

(* A step that leaves the output, the batch and the callbacks alone and    *)
(* keeps the ready list.                                                   *)
LEMMA OutsideStep ==
    ASSUME IInv, WInv, ResetIsDry',
           UNCHANGED <<batch, pc>>,
           conn'.fd = conn.fd, conn'.received = conn.received, conn'.mask = conn.mask,
           conn'.out = conn.out, conn'.head = conn.head, conn'.written = conn.written,
           conn'.inEpoll = conn.inEpoll, conn.edge => conn'.edge,
           Open /\ sock'.rx # <<>> /\ "IN" \in conn.mask => sock.rx # <<>> \/ conn'.edge,
           Open /\ conn.inEpoll /\ "OUT" \in conn.mask =>
               sock'.drained = sock.drained \/ conn'.edge
    PROVE  WInv'
<1>1. NoLostRead'
  BY DEF WInv, NoLostRead, Open
<1>2. NoLostWrite'
  BY OpenFacts DEF WInv, NoLostWrite, Open, Unsent, Space
<1> QED
  BY <1>1, <1>2 DEF WInv

LEMMA EnvironmentWakes == IInv /\ WInv /\ Environment => WInv'
<1> SUFFICES ASSUME IInv, WInv, Environment PROVE WInv'
  OBVIOUS
<1>0. sock \in SockType /\ conn \in ConnType
  BY DEF IInv, TypeOK
<1>1. ASSUME NEW k \in Kinds, PeerSend(k) PROVE WInv'
  <2> DEFINE q == Append(sock.rx, k)
             n == sock.sent + 1
  <2>1. sock' = [sock EXCEPT !.rx = q, !.sent = n]
    BY <1>1 DEF PeerSend
  <2>2. ~sock.rst /\ conn' = Wakes({"IN"}) /\ UNCHANGED <<batch, pc>>
    BY <1>1 DEF PeerSend
  <2> HIDE DEF q, n
  <2>3. sock'.rst = sock.rst /\ sock'.drained = sock.drained
    BY <1>0, <2>1 DEF SockType
  <2>4. Open /\ "IN" \in conn.mask => conn'.edge
    BY <2>2, WakesEffects, OpenFacts
  <2> QED
    BY <2>2, <2>3, <2>4, WakesEffects, OutsideStep DEF ResetIsDry
<1>2. CASE PeerFin
  <2>1. sock' = [sock EXCEPT !.fin = TRUE] /\ conn' = Wakes({"IN", "RDHUP"}) /\ UNCHANGED <<batch, pc>>
    BY <1>2 DEF PeerFin
  <2>2. sock'.rst = sock.rst /\ sock'.drained = sock.drained /\ sock'.rx = sock.rx
    BY <1>0, <2>1 DEF SockType
  <2> QED
    BY <2>1, <2>2, WakesEffects, OutsideStep DEF ResetIsDry, WInv
<1>3. CASE PeerRst
  <2> DEFINE q == <<>>
  <2>1. sock' = [sock EXCEPT !.rst = TRUE, !.rx = q] /\ conn' = Wakes(Events) /\ UNCHANGED <<batch, pc>>
    BY <1>3 DEF PeerRst
  <2> HIDE DEF q
  <2>2. sock'.drained = sock.drained /\ sock'.rx = q
    BY <1>0, <2>1 DEF SockType
  <2>3. sock'.rx = <<>>
    BY <2>2 DEF q
  <2> QED
    BY <2>1, <2>2, <2>3, WakesEffects, OutsideStep DEF ResetIsDry
<1>4. CASE PeerDrain
  <2> DEFINE w == conn.written
  <2>1. sock' = [sock EXCEPT !.drained = w] /\ conn' = Wakes({"OUT"}) /\ UNCHANGED <<batch, pc>>
    BY <1>4 DEF PeerDrain
  <2> HIDE DEF w
  <2>2. sock'.rst = sock.rst /\ sock'.rx = sock.rx
    BY <1>0, <2>1 DEF SockType
  <2>3. Open /\ "OUT" \in conn.mask => conn'.edge
    BY <2>1, WakesEffects, OpenFacts
  <2> QED
    BY <2>1, <2>2, <2>3, WakesEffects, OutsideStep DEF ResetIsDry, WInv
<1>5. CASE TimerDue
  <2>1. conn' = [conn EXCEPT !.timer = "due"] /\ UNCHANGED <<sock, batch, pc>>
    BY <1>5 DEF TimerDue
  <2>2. /\ conn'.fd = conn.fd /\ conn'.received = conn.received /\ conn'.mask = conn.mask
        /\ conn'.out = conn.out /\ conn'.head = conn.head /\ conn'.written = conn.written
        /\ conn'.edge = conn.edge /\ conn'.inEpoll = conn.inEpoll
    BY <1>0, <2>1 DEF ConnType
  <2> QED
    BY <2>1, <2>2, OutsideStep DEF ResetIsDry, WInv
<1>6. CASE StaleUnregister
  <2> DEFINE none == {}
  <2>1. /\ conn' = [conn EXCEPT !.inEpoll = FALSE, !.mask = none, !.edge = FALSE, !.lost = TRUE]
        /\ UNCHANGED sock
    BY <1>6 DEF StaleUnregister
  <2> HIDE DEF none
  <2>2. conn'.mask = none /\ ~conn'.inEpoll
    BY <1>0, <2>1 DEF ConnType
  <2>3. "IN" \notin conn'.mask
    BY <2>2 DEF none
  <2> QED
    BY <2>1, <2>2, <2>3 DEF WInv, ResetIsDry, NoLostRead, NoLostWrite
<1> QED
  BY <1>1, <1>2, <1>3, <1>4, <1>5, <1>6 DEF Environment

-----------------------------------------------------------------------------
(* The batch.                                                              *)

(* Removing the first item leaves the others.                              *)
LEMMA BatchTail ==
    ASSUME IInv, batch # <<>>, NEW e, Batched(batch, e)
    PROVE  \/ Batched(Tail(batch), e)
           \/ Head(batch).src = "conn" /\ e \in Head(batch).ev
<1>1. batch \in Seq(Item) /\ Len(batch) \in Nat
  BY LenProperties DEF IInv, TypeOK
<1>2. /\ Head(batch) = batch[1] /\ Len(Tail(batch)) = Len(batch) - 1
      /\ \A i \in 1 .. Len(Tail(batch)) : Tail(batch)[i] = batch[i + 1]
  BY <1>1, HeadTailProperties
<1>3. PICK i \in 1 .. Len(batch) : batch[i].src = "conn" /\ e \in batch[i].ev
  BY DEF Batched
<1>4. CASE i = 1
  BY <1>2, <1>3, <1>4
<1>5. CASE i # 1
  <2>1. i - 1 \in 1 .. Len(Tail(batch)) /\ (i - 1) + 1 = i
    BY <1>1, <1>2, <1>5
  <2>2. Tail(batch)[i - 1] = batch[i]
    BY <1>2, <2>1
  <2> QED
    BY <1>3, <2>1, <2>2 DEF Batched
<1> QED
  BY <1>4, <1>5

(* epoll_wait forgets nothing that is ready.                               *)
LEMMA ReadyIsBatched ==
    ASSUME IInv, EpollWait, NEW m \in ReadyItems, m.src = "conn", NEW e \in m.ev
    PROVE  Batched(batch', e)
<1> DEFINE T == IF tasks # <<>> THEN {[src |-> "trigger", ev |-> {"IN"}]} ELSE {}
           D == IF conn.timer = "due" THEN {[src |-> "timer", ev |-> {"IN"}]} ELSE {}
           C == IF conn.edge /\ Reported(conn, sock) # {}
                THEN {[src |-> "conn", ev |-> Reported(conn, sock)]} ELSE {}
           S == ReadyItems
           n == Cardinality(S)
<1>1. IsFiniteSet(S)
  <2>1. S = T \union D \union C
    BY DEF ReadyItems
  <2>2. IsFiniteSet(T) /\ IsFiniteSet(D) /\ IsFiniteSet(C)
    BY FS_EmptySet, FS_Singleton
  <2> HIDE DEF T, D, C, S
  <2> QED
    BY <2>1, <2>2, FS_Union
<1>2. batch' \in SetToSeqs(S)
  BY DEF EpollWait
<1> HIDE DEF S
<1>3. n \in Nat
  BY <1>1, FS_CardinalityType
<1>4. batch' \in [1 .. n -> S] /\ \A i, j \in 1 .. n : i # j => batch'[i] # batch'[j]
  BY <1>2 DEF SetToSeqs
<1>5. IsFiniteSet(1 .. n) /\ Cardinality(1 .. n) = n
  BY <1>3, FS_Interval
<1> HIDE DEF n
<1>6. batch' \in Injection(1 .. n, S)
  BY <1>4 DEF Injection, IsInjective
<1>7. batch' \in Surjection(1 .. n, S)
  <2>1. Cardinality(1 .. n) = Cardinality(S)
    BY <1>5 DEF n
  <2> QED
    BY <1>1, <1>6, <2>1, FS_Injection
<1>8. m \in S
  BY DEF S
<1>9. PICK i \in 1 .. n : batch'[i] = m
  BY <1>7, <1>8 DEF Surjection
<1>10. Len(batch') = n
  BY <1>3, <1>4
<1> QED
  BY <1>9, <1>10 DEF Batched

LEMMA EpollWaitWakes == IInv /\ WInv /\ EpollWait => WInv'
<1> SUFFICES ASSUME IInv, WInv, EpollWait PROVE WInv'
  OBVIOUS
<1>1. /\ pc = "loop" /\ batch = <<>> /\ pc' = pc /\ sock' = sock
      /\ conn' = [conn EXCEPT !.edge = FALSE]
  BY DEF EpollWait
<1>2. /\ conn'.fd = conn.fd /\ conn'.received = conn.received /\ conn'.mask = conn.mask
      /\ conn'.out = conn.out /\ conn'.head = conn.head /\ conn'.written = conn.written
  BY <1>1 DEF IInv, TypeOK, ConnType
<1>3. \A e : ~Batched(batch, e)
  <2>1. Len(batch) = 0
    BY <1>1
  <2> QED
    BY <2>1 DEF Batched
<1>4. ASSUME NEW e \in Reported(conn, sock), conn.edge PROVE Batched(batch', e)
  <2>1. [src |-> "conn", ev |-> Reported(conn, sock)] \in ReadyItems
    BY <1>4 DEF ReadyItems
  <2> QED
    BY <1>4, <2>1, ReadyIsBatched
<1>5. ResetIsDry'
  BY <1>1 DEF WInv, ResetIsDry
<1>6. NoLostRead'
  <2> SUFFICES ASSUME Open, sock.rx # <<>>, "IN" \in conn.mask PROVE Batched(batch', "IN")
    BY <1>1, <1>2 DEF NoLostRead, Open, Batched
  <2>1. conn.edge
    BY <1>1, <1>3 DEF WInv, NoLostRead, Batched
  <2>2. "IN" \in Reported(conn, sock)
    BY OpenFacts DEF Reported, Level, Events
  <2> QED
    BY <1>4, <2>1, <2>2
<1>7. NoLostWrite'
  <2> SUFFICES ASSUME Open, conn.inEpoll, Unsent(conn), Space(conn, sock) > 0
               PROVE  Batched(batch', "OUT")
    BY <1>1, <1>2 DEF NoLostWrite, Open, Batched, Unsent, Space
  <2>1. conn.edge
    BY <1>1, <1>3 DEF WInv, NoLostWrite, Batched
  <2>2. "OUT" \in Reported(conn, sock)
    BY OpenFacts DEF Reported, Level, Events
  <2> QED
    BY <1>4, <2>1, <2>2
<1> QED
  BY <1>5, <1>6, <1>7 DEF WInv

(* Handling an item: the eventfd's and the timer's say nothing of the      *)
(* connection, and its own is passed on to the callbacks.                  *)
LEMMA BatchWakes ==
    ASSUME IInv, WInv, HandleTrigger \/ HandleTimer \/ DeliverEvent \/ DeliverToDestroyed
    PROVE  WInv'
<1>1. pc = "loop" /\ batch # <<>> /\ batch' = Tail(batch) /\ sock' = sock
  BY DEF HandleTrigger, HandleTimer, DeliverEvent, DeliverToDestroyed, NextIs
<1>2. ResetIsDry'
  BY <1>1 DEF WInv, ResetIsDry
<1>3. ASSUME Head(batch).src # "conn", NEW e, Batched(batch, e) PROVE Batched(batch', e)
  BY <1>1, <1>3, BatchTail
<1>4. ASSUME conn'.fd = conn.fd, conn'.received = conn.received, conn'.mask = conn.mask,
             conn'.out = conn.out, conn'.head = conn.head, conn'.written = conn.written,
             conn'.edge = conn.edge, conn'.inEpoll = conn.inEpoll, Head(batch).src # "conn"
      PROVE  WInv'
  <2>1. NoLostRead'
    <3> SUFFICES ASSUME Open, sock.rx # <<>>, "IN" \in conn.mask
                 PROVE  conn'.edge \/ Batched(batch', "IN")
      BY <1>1, <1>4 DEF NoLostRead, Open, Batched
    <3>1. conn.edge \/ Batched(batch, "IN")
      BY <1>1 DEF WInv, NoLostRead, Batched
    <3> QED
      BY <1>3, <1>4, <3>1
  <2>2. NoLostWrite'
    <3> SUFFICES ASSUME Open, conn.inEpoll, Unsent(conn), Space(conn, sock) > 0
                 PROVE  conn'.edge \/ Batched(batch', "OUT")
      BY <1>1, <1>4 DEF NoLostWrite, Open, Batched, Unsent, Space
    <3>1. conn.edge \/ Batched(batch, "OUT")
      BY <1>1 DEF WInv, NoLostWrite, Batched
    <3> QED
      BY <1>3, <1>4, <3>1
  <2> QED
    BY <1>2, <2>1, <2>2 DEF WInv
<1>5. CASE HandleTrigger
  BY <1>4, <1>5 DEF HandleTrigger, NextIs
<1>6. CASE HandleTimer
  <2>1. conn \in ConnType /\ Head(batch).src # "conn"
    BY <1>6 DEF IInv, TypeOK, HandleTimer, NextIs
  <2>2. CASE conn' = conn \/ conn' = [conn EXCEPT !.timer = "none"]
    <3>1. /\ conn'.fd = conn.fd /\ conn'.received = conn.received /\ conn'.mask = conn.mask
          /\ conn'.out = conn.out /\ conn'.head = conn.head /\ conn'.written = conn.written
          /\ conn'.edge = conn.edge /\ conn'.inEpoll = conn.inEpoll
      BY <2>1, <2>2 DEF ConnType
    <3> QED
      BY <1>4, <2>1, <3>1
  <2>3. CASE conn' = [ForceClose(conn, "idle") EXCEPT !.timer = "none"]
    <3> DEFINE d == ForceClose(conn, "idle")
    <3>1. d \in ConnType /\ d.fd = "closed"
      BY ForceCloseSettles DEF IInv, Sane, CloseReasons
    <3>2. conn' = [d EXCEPT !.timer = "none"]
      BY <2>3
    <3> HIDE DEF d
    <3>3. conn'.fd = "closed"
      BY <3>1, <3>2 DEF ConnType
    <3> QED
      BY <1>2, <3>3, NotOpenStep
  <2> QED
    BY <1>6, <2>2, <2>3 DEF HandleTimer
<1>7. CASE DeliverEvent
  <2> DEFINE got == Head(batch).ev
             c   == [conn EXCEPT !.received = got]
  <2>1. got \in SUBSET Events
    BY <1>1, BatchHead DEF Item
  <2>2. \/ conn' = ForceClose(c, "unexpected") \/ conn' = ForceClose(c, "error")
        \/ conn' = c /\ pc' = "write"
    BY <1>7 DEF DeliverEvent
  <2> HIDE DEF got
  <2>3. CASE conn' = ForceClose(c, "unexpected") \/ conn' = ForceClose(c, "error")
    <3>1. conn'.fd = "closed"
      BY <2>1, <2>3, MethodTypes DEF CloseReasons
    <3> QED
      BY <1>2, <3>1, NotOpenStep
  <2>4. CASE conn' = c /\ pc' = "write"
    <3>1. /\ conn'.fd = conn.fd /\ conn'.received = got /\ conn'.mask = conn.mask
          /\ conn'.out = conn.out /\ conn'.head = conn.head /\ conn'.written = conn.written
          /\ conn'.edge = conn.edge /\ conn'.inEpoll = conn.inEpoll
      BY <2>1, <2>4 DEF IInv, TypeOK, ConnType
    <3>2. ASSUME NEW e, Batched(batch, e) PROVE Batched(batch', e) \/ e \in conn'.received
      BY <1>1, <3>1, <3>2, BatchTail DEF got
    <3>3. NoLostRead'
      <4> SUFFICES ASSUME Open, sock.rx # <<>>, "IN" \in conn.mask
                   PROVE  conn'.edge \/ Batched(batch', "IN") \/ "IN" \in conn'.received
        BY <1>1, <2>4, <3>1 DEF NoLostRead, Open, Batched
      <4>1. conn.edge \/ Batched(batch, "IN")
        BY <1>1 DEF WInv, NoLostRead, Batched
      <4> QED
        BY <3>1, <3>2, <4>1
    <3>4. NoLostWrite'
      <4> SUFFICES ASSUME Open, conn.inEpoll, Unsent(conn), Space(conn, sock) > 0
                   PROVE  conn'.edge \/ Batched(batch', "OUT") \/ "OUT" \in conn'.received
        BY <1>1, <2>4, <3>1 DEF NoLostWrite, Open, Batched, Unsent, Space
      <4>1. conn.edge \/ Batched(batch, "OUT")
        BY <1>1 DEF WInv, NoLostWrite, Batched
      <4> QED
        BY <3>1, <3>2, <4>1
    <3> QED
      BY <1>2, <3>3, <3>4 DEF WInv
  <2> QED
    BY <2>2, <2>3, <2>4
<1>8. CASE DeliverToDestroyed
  <2>1. conn' = conn /\ ~Open
    BY <1>8, OpenFacts DEF DeliverToDestroyed
  <2> QED
    BY <1>2, <2>1, NotOpenStep DEF Open
<1> QED
  BY <1>5, <1>6, <1>7, <1>8

-----------------------------------------------------------------------------
(* The callbacks and the tasks.                                            *)

(* A method of the connection: what it may leave unread is no longer asked *)
(* for or still has its callback to come, what it leaves unwritten does    *)
(* not fit or was not touched.                                             *)
LEMMA MethodStep ==
    ASSUME IInv, WInv, ResetIsDry', batch' = batch,
           KeepsWakeups(conn, conn', sock'), Open' => Open,
           \/ ~Open' \/ "IN" \notin conn'.mask \/ sock'.rx = <<>>
           \/ /\ sock'.rx = sock.rx
              /\ pc \in {"write", "read"} /\ "IN" \in conn.received => pc' \in {"write", "read"},
           \/ ~Open' \/ ~Unsent(conn)' \/ Space(conn', sock') = 0
           \/ /\ conn'.out = conn.out /\ conn'.head = conn.head /\ conn'.written = conn.written
              /\ sock'.drained = sock.drained
              /\ ~(pc = "write" /\ "OUT" \in conn.received)
    PROVE  WInv'
<1>1. NoLostRead'
  <2> SUFFICES ASSUME Open', sock'.rx # <<>>, "IN" \in conn'.mask
               PROVE  \/ conn'.edge \/ Batched(batch', "IN")
                      \/ pc' \in {"write", "read"} /\ "IN" \in conn'.received
    BY DEF NoLostRead, Batched
  <2>1. sock'.rx = sock.rx /\ Open
    OBVIOUS
  <2>2. conn'.received = conn.received /\ (conn.edge => conn'.edge) /\ (conn'.edge \/ "IN" \in conn.mask)
    BY DEF KeepsWakeups, Open
  <2>3. CASE "IN" \in conn.mask
    BY <2>1, <2>2, <2>3 DEF WInv, NoLostRead, Batched
  <2> QED
    BY <2>2, <2>3
<1>2. NoLostWrite'
  <2> SUFFICES ASSUME Open', conn'.inEpoll, Unsent(conn)', Space(conn', sock') > 0
               PROVE  conn'.edge \/ Batched(batch', "OUT")
    BY DEF NoLostWrite, Batched
  <2>1. /\ conn'.out = conn.out /\ conn'.head = conn.head /\ conn'.written = conn.written
        /\ sock'.drained = sock.drained
        /\ ~(pc = "write" /\ "OUT" \in conn.received)
    OBVIOUS
  <2>2. Open /\ Unsent(conn) /\ Space(conn, sock) > 0
    BY <2>1 DEF Unsent, Space
  <2>3. conn.inEpoll /\ (conn.edge => conn'.edge)
    BY DEF KeepsWakeups, Open
  <2> QED
    BY <2>1, <2>2, <2>3 DEF WInv, NoLostWrite, Batched
<1> QED
  BY <1>1, <1>2 DEF WInv

LEMMA SameWakes == ASSUME NEW c, NEW s PROVE KeepsWakeups(c, c, s)
BY DEF KeepsWakeups

LEMMA CallbackWakes ==
    ASSUME IInv, WInv, OnWrite \/ OnHup \/ ReadNothing \/ TaskBegin \/ TaskEnd \/ TasksDone
    PROVE  WInv'
<1>1. sock' = sock /\ batch' = batch /\ sock \in SockType
  BY DEF OnWrite, OnHup, ReadNothing, TaskBegin, TaskEnd, TasksDone, IInv, TypeOK
<1>2. ResetIsDry'
  BY <1>1 DEF WInv, ResetIsDry
<1>3. CASE OnWrite
  <2>1. pc = "write" /\ pc' = "read"
    BY <1>3 DEF OnWrite
  <2>2. CASE "OUT" \in conn.received
    <3>1. Sends(conn, sock, conn')
      BY <1>3, <2>2 DEF OnWrite
    <3>2. conn.enable => conn.fd = "open"
      BY <2>1 DEF IInv, TypeOK, ConnType, NoTraffic, Live
    <3>3. /\ KeepsWakeups(conn, conn', sock)
          /\ ClosesWell(conn, conn')
          /\ Open' => ~Unsent(conn)' \/ Space(conn', sock) = 0
      BY <1>1, <3>1, <3>2, SendsEffects DEF IInv, Settled, Tuned, Open, Unsent, Space
    <3>4. Open' => Open
      <4>1. Follows(conn, conn')
        BY <1>1, <3>1, <3>2, SendsSettles DEF IInv, Settled, Tuned
      <4> QED
        BY <4>1 DEF Follows, Open
    <3> QED
      BY <1>1, <1>2, <2>1, <3>3, <3>4, MethodStep
  <2>3. CASE "OUT" \notin conn.received
    <3>1. conn' = conn
      BY <1>3, <2>3 DEF OnWrite
    <3> QED
      BY <1>1, <1>2, <2>1, <2>3, <3>1, SameWakes, MethodStep DEF Open
  <2> QED
    BY <2>2, <2>3
<1>4. CASE OnHup \/ TaskEnd
  <2>1. pc \in {"hup", "drain"} /\ (conn' = conn \/ conn' = Shutdown(conn, sock))
    BY <1>4 DEF OnHup, TaskEnd
  <2>2. CASE conn' = conn
    BY <1>1, <1>2, <2>1, <2>2, SameWakes, MethodStep DEF Open
  <2>3. CASE conn' = Shutdown(conn, sock)
    <3>1. /\ KeepsWakeups(conn, conn', sock)
          /\ conn'.head = conn.head /\ conn'.out = conn.out
          /\ conn'.fd = "open" => "IN" \notin conn'.mask /\ conn'.written = conn.written
      BY <1>1, <2>3, ShutdownEffects DEF IInv
    <3>2. Open' => Open
      <4>1. Follows(conn, conn')
        BY <2>3, ShutdownSettles DEF IInv
      <4> QED
        BY <4>1 DEF Follows, Open
    <3> QED
      BY <1>1, <1>2, <2>1, <3>1, <3>2, MethodStep DEF Open
  <2> QED
    BY <2>1, <2>2, <2>3
<1>5. CASE ReadNothing
  <2>1. pc = "read" /\ conn' = conn /\ ("IN" \notin conn.received \/ ~conn.enable \/ sock.rst)
    BY <1>5 DEF ReadNothing
  <2>2. Open => "IN" \notin conn.received \/ sock.rx = <<>>
    BY <2>1, OpenFacts DEF WInv, ResetIsDry
  <2> QED
    BY <1>1, <1>2, <2>1, <2>2, SameWakes, MethodStep DEF Open
<1>6. CASE TaskBegin \/ TasksDone
  <2>1. pc = "tasks" /\ conn' = conn
    BY <1>6 DEF TaskBegin, TaskIs, TasksDone
  <2> QED
    BY <1>1, <1>2, <2>1, SameWakes, MethodStep DEF Open
<1> QED
  BY <1>3, <1>4, <1>5, <1>6

(* The read callback empties the socket, or stops listening to it.         *)
LEMMA ReadWakes ==
    ASSUME IInv, WInv, ReadAll \/ ReadTooLarge
    PROVE  WInv'
<1>1. pc = "read" /\ ~sock.rst /\ batch' = batch
  BY DEF ReadAll, ReadTooLarge
<1>2. sock' \in SockType /\ sock \in SockType
  <2>1. IInv'
    BY ReadAllPreserves, ReadTooLargePreserves
  <2> QED
    BY <2>1 DEF IInv, TypeOK
<1>3. \E q : sock' = [sock EXCEPT !.rx = q] /\ (ReadAll => q = <<>>)
  <2>1. CASE ReadAll
    BY <2>1 DEF ReadAll
  <2>2. CASE ReadTooLarge /\ ~ReadAll
    BY <2>2 DEF ReadTooLarge
  <2> QED
    BY <2>1, <2>2
<1>4. /\ sock'.rst = sock.rst /\ sock'.drained = sock.drained /\ sock'.fin = sock.fin
      /\ ReadAll => sock'.rx = <<>>
  <2>1. PICK q : sock' = [sock EXCEPT !.rx = q] /\ (ReadAll => q = <<>>)
    BY <1>3
  <2> QED
    BY <1>2, <2>1 DEF SockType
<1>5. ResetIsDry'
  BY <1>1, <1>4 DEF ResetIsDry
<1>6. CASE ReadAll
  <2> DEFINE c == IF sock.fin THEN Shutdown(conn, sock') ELSE conn
  <2>1. conn' = [c EXCEPT !.timer = "armed"]
    BY <1>6 DEF ReadAll
  <2>2. /\ KeepsWakeups(conn, c, sock') /\ c \in ConnType
        /\ c.head = conn.head /\ c.out = conn.out
        /\ c.fd = "open" => c.written = conn.written /\ conn.fd = "open"
    <3>1. CASE sock.fin
      <4>1. c = Shutdown(conn, sock')
        BY <3>1
      <4>2. Follows(conn, c) /\ c \in ConnType
        BY <4>1, ShutdownSettles DEF IInv, Sane
      <4> HIDE DEF c
      <4> QED
        BY <1>2, <4>1, <4>2, ShutdownEffects DEF IInv, Follows
    <3>2. CASE ~sock.fin
      BY <3>2, SameWakes DEF IInv, TypeOK
    <3> QED
      BY <3>1, <3>2
  <2> HIDE DEF c
  <2>3. /\ conn'.fd = c.fd /\ conn'.received = c.received /\ conn'.mask = c.mask
        /\ conn'.out = c.out /\ conn'.head = c.head /\ conn'.written = c.written
        /\ conn'.edge = c.edge /\ conn'.inEpoll = c.inEpoll
    BY <2>1, <2>2 DEF ConnType
  <2>4. KeepsWakeups(conn, conn', sock')
    BY <2>2, <2>3 DEF KeepsWakeups
  <2> QED
    BY <1>1, <1>4, <1>5, <1>6, <2>2, <2>3, <2>4, MethodStep DEF Open
<1>7. CASE ReadTooLarge
  <2>1. conn' = Shutdown(conn, sock')
    BY <1>7 DEF ReadTooLarge
  <2>2. /\ KeepsWakeups(conn, conn', sock')
        /\ conn'.head = conn.head /\ conn'.out = conn.out
        /\ conn'.fd = "open" => "IN" \notin conn'.mask /\ conn'.written = conn.written
    BY <1>2, <2>1, ShutdownEffects DEF IInv
  <2>3. Open' => Open
    <3>1. Follows(conn, conn')
      BY <2>1, ShutdownSettles DEF IInv
    <3> QED
      BY <3>1 DEF Follows, Open
  <2> QED
    BY <1>1, <1>4, <1>5, <2>2, <2>3, MethodStep DEF Open
<1> QED
  BY <1>6, <1>7

LEMMA DrainOneWakes ==
    ASSUME IInv, WInv, DrainOne
    PROVE  /\ WInv'
           /\ ClosesWell(conn, conn')
           /\ conn'.head >= conn.head
<1>1. pc = "drain" /\ sock' = sock /\ batch' = batch /\ pc' = pc
  BY DEF DrainOne
<1>2. PICK t \in http.parked : Sends(Queued(conn, t.id, t.size), sock, conn')
  BY DEF DrainOne
<1>3. t.id \in Nat /\ t.size \in Nat \ {0}
  BY <1>2 DEF IInv, TypeOK, HttpType, Requested, Answers, Task
<1> DEFINE q == Queued(conn, t.id, t.size)
<1>4. /\ Sane(q) /\ Watched(q)
      /\ q.fd = conn.fd /\ q.enable = conn.enable
      /\ q.received = conn.received /\ q.edge = conn.edge /\ q.mask = conn.mask
      /\ q.head = conn.head /\ q.why = conn.why /\ q.inEpoll = conn.inEpoll
  <2>1. Sane(conn) /\ Watched(conn)
    BY DEF IInv, Settled, Tuned
  <2>2. Sane(q) /\ Watched(q)
    BY <1>3, <2>1, QueuedSane
  <2>3. /\ q.fd = conn.fd /\ q.enable = conn.enable
        /\ q.received = conn.received /\ q.edge = conn.edge /\ q.mask = conn.mask
        /\ q.head = conn.head /\ q.why = conn.why /\ q.inEpoll = conn.inEpoll
    BY <1>3, <2>1, QueuedEffects
  <2> QED
    BY <2>2, <2>3
<1>5. Sends(q, sock, conn') /\ sock \in SockType
  BY <1>2 DEF IInv, TypeOK
<1> HIDE DEF q
<1>6. q.enable => q.fd = "open"
  BY <1>1, <1>4 DEF IInv, TypeOK, ConnType, NoTraffic, Live
<1>7. /\ KeepsWakeups(q, conn', sock)
      /\ ClosesWell(q, conn')
      /\ conn'.fd = "open" => ~Unsent(conn') \/ Space(conn', sock) = 0
  BY <1>4, <1>5, <1>6, SendsEffects
<1>8. Follows(q, conn')
  BY <1>4, <1>5, <1>6, SendsSettles
<1>9. KeepsWakeups(conn, conn', sock) /\ ClosesWell(conn, conn')
  BY <1>4, <1>7 DEF KeepsWakeups, ClosesWell
<1>10. ResetIsDry'
  BY <1>1 DEF WInv, ResetIsDry
<1>11. Open' => Open
  BY <1>4, <1>8 DEF Follows, Open
<1>12. WInv'
  BY <1>1, <1>7, <1>9, <1>10, <1>11, MethodStep DEF Open, Unsent
<1> QED
  BY <1>4, <1>8, <1>9, <1>12 DEF Follows

(* init_channel's ADD puts a readable socket on the ready list.            *)
LEMMA InitChannelWakes ==
    ASSUME IInv, WInv, InitChannel
    PROVE  /\ WInv'
           /\ conn.fd = "new" /\ conn'.head = conn.head
           /\ conn'.why # "graceful"
<1>1. /\ conn' \in {Opened(conn, sock), OpenFailed(conn)}
      /\ sock' = sock /\ running # <<>> /\ Head(running).id = 0
  BY RunningHead DEF InitChannel, TaskIs
<1>2. conn.fd = "new" /\ conn = NewConnection
  BY <1>1, RunningHead DEF IInv, InitOnce
<1>3. ResetIsDry'
  BY <1>1 DEF WInv, ResetIsDry
<1>4. CASE conn' = Opened(conn, sock)
  <2> DEFINE asks == Enable(Enable(conn, "RDHUP"), "IN")
             m    == asks.event
             e    == asks.edge \/ Level(asks, sock) \cap (m \union {"ERR"}) # {}
  <2>1. asks \in ConnType /\ Tunes(conn, asks) /\ asks.event \in SUBSET Events /\ "IN" \in asks.event
    <3> DEFINE one == Enable(conn, "RDHUP")
    <3>1. Tunes(conn, one)
      BY TuneSteps DEF Events, IInv, TypeOK
    <3> HIDE DEF one
    <3>2. Tunes(one, Enable(one, "IN")) /\ Enable(one, "IN").event = one.event \union {"IN"}
      BY <3>1, TuneSteps, EnableRetunes DEF Events, Tunes
    <3>3. Tunes(conn, asks) /\ "IN" \in asks.event
      BY <3>1, <3>2 DEF Tunes, one
    <3> QED
      BY <3>3 DEF Tunes, ConnType
  <2>2. sock.rx # <<>> => e
    BY <2>1 DEF Level, Events
  <2>3. conn' = [asks EXCEPT !.inEpoll = TRUE, !.mask = m, !.fresh = FALSE, !.edge = e,
                             !.fd = "open", !.enable = TRUE, !.timer = "armed"]
    BY <1>4, <2>1 DEF Opened, RegisterChannel, Armed, ConnType
  <2>4. e \in BOOLEAN
    BY <2>1 DEF ConnType
  <2> HIDE DEF asks, m, e
  <2>5. /\ conn'.edge = e /\ conn'.out = asks.out /\ conn'.head = asks.head
        /\ conn'.why = asks.why
    BY <2>1, <2>3, <2>4 DEF ConnType
  <2>6. asks.out = <<>> /\ asks.head = 0 /\ asks.why = "none" /\ conn.head = 0
    BY <1>2, <2>1 DEF Tunes, NewConnection
  <2>7. ~Unsent(conn')
    <3>1. Len(<<>>) = 0
      OBVIOUS
    <3> QED
      BY <2>5, <2>6, <3>1 DEF Unsent
  <2> QED
    BY <1>1, <1>2, <1>3, <2>2, <2>5, <2>6, <2>7 DEF WInv, NoLostRead, NoLostWrite, Unsent
<1>5. CASE conn' = OpenFailed(conn)
  <2> DEFINE c0 == [conn EXCEPT !.closeWait = TRUE]
             c1 == ForceClose(c0, "error")
             c2 == ForceClose(c1, "error")
  <2>1. Tunes(conn, c0)
    BY TuneSteps DEF Events, IInv, TypeOK
  <2> HIDE DEF c0
  <2>2. c1 \in ConnType /\ c1.head = c0.head /\ (c1.why = c0.why \/ c1.why = "error")
    <3>1. c1 \in ConnType
      BY <2>1, ForceCloseType DEF Tunes, CloseReasons
    <3> QED
      BY <2>1, <3>1, ForceCloseEffects DEF Tunes, CloseReasons
  <2> HIDE DEF c1
  <2>3. /\ c2 \in ConnType /\ c2.fd = "closed" /\ c2.head = c1.head
        /\ c2.why = c1.why \/ c2.why = "error"
    <3>1. c2 \in ConnType
      BY <2>2, ForceCloseType DEF CloseReasons
    <3> QED
      BY <2>2, <3>1, ForceCloseEffects DEF CloseReasons
  <2>4. conn' = [c2 EXCEPT !.enable = TRUE, !.timer = "armed"]
    BY <1>5 DEF OpenFailed, c2, c1, c0
  <2> HIDE DEF c2
  <2>5. conn'.fd = "closed" /\ conn'.head = c2.head /\ conn'.why = c2.why
    BY <2>3, <2>4 DEF ConnType
  <2>6. conn'.head = conn.head /\ conn'.why # "graceful"
    <3>1. conn.why = "none"
      BY <1>2 DEF NewConnection
    <3> QED
      BY <2>1, <2>2, <2>3, <2>5, <3>1 DEF Tunes
  <2> QED
    BY <1>2, <1>3, <2>5, <2>6, NotOpenStep
<1> QED
  BY <1>1, <1>4, <1>5

(* The other threads do not touch an open connection.                      *)
LEMMA ThreadsWake ==
    ASSUME IInv, WInv, MainErase \/ \E id \in 1 .. Len(http.reqs) : PoolFinish(id)
    PROVE  WInv'
<1>1. sock' = sock /\ batch' = batch /\ pc' = pc
  BY DEF MainErase, PoolFinish
<1>2. ResetIsDry'
  BY <1>1 DEF WInv, ResetIsDry
<1>3. CASE MainErase
  <2>1. conn.fd = "closed" /\ conn' = [conn EXCEPT !.notified = FALSE]
    BY <1>3 DEF MainErase, IInv, Held
  <2>2. conn'.fd = "closed"
    BY <2>1 DEF IInv, TypeOK, ConnType
  <2> QED
    BY <1>2, <2>2, NotOpenStep
<1>4. CASE \E id \in 1 .. Len(http.reqs) : PoolFinish(id)
  <2>1. conn' = conn
    BY <1>4 DEF PoolFinish
  <2> QED
    BY <1>1, <2>1 DEF WInv, ResetIsDry, NoLostRead, NoLostWrite, Open
<1> QED
  BY <1>3, <1>4

LEMMA NextWakes == IInv /\ WInv /\ [Next]_vars => WInv'
<1> SUFFICES ASSUME IInv, WInv, [Next]_vars PROVE WInv'
  OBVIOUS
<1>1. CASE LoopStep
  BY <1>1, EpollWaitWakes, BatchWakes, CallbackWakes, ReadWakes, DrainOneWakes, InitChannelWakes
     DEF LoopStep
<1>2. CASE Environment
  BY <1>2, EnvironmentWakes
<1>3. CASE MainErase \/ \E id \in 1 .. Len(http.reqs) : PoolFinish(id)
  BY <1>3, ThreadsWake
<1>4. CASE UNCHANGED vars
  BY <1>4 DEF vars, WInv, ResetIsDry, NoLostRead, NoLostWrite, Open
<1> QED
  BY <1>1, <1>2, <1>3, <1>4 DEF Next

LEMMA WakesHold == Spec => [](IInv /\ WInv)
<1>1. Init => WInv
  BY DEF Init, NewConnection, WInv, ResetIsDry, NoLostRead, NoLostWrite, Open
<1>2. IInv /\ WInv /\ [Next]_vars => (IInv /\ WInv)'
  BY NextPreserves, NextWakes
<1> QED
  BY <1>1, <1>2, InitEstablishes, PTL DEF Spec

(* Bytes that wait in the socket of a reading connection always have a     *)
(* wake-up to come, whatever backpressure, batches and callbacks do.       *)
THEOREM NoReadIsLost == Spec => []NoLostRead
<1>1. WInv => NoLostRead
  BY DEF WInv
<1> QED
  BY <1>1, WakesHold, PTL

(* Output left over and room in the socket always have a write callback to *)
(* come.                                                                   *)
THEOREM NoWriteIsLost == Spec => []NoLostWrite
<1>1. WInv => NoLostWrite
  BY DEF WInv
<1> QED
  BY <1>1, WakesHold, PTL

-----------------------------------------------------------------------------
(* Closing, and the abstract promise.                                      *)

(* A step closes well and takes nothing back from the wire, and accepts    *)
(* requests only on an open connection, without writing.                   *)
Proceeds ==
    /\ ClosesWell(conn, conn')
    /\ conn'.head >= conn.head
    /\ \/ http'.reqs = http.reqs
       \/ ~Closed /\ conn'.head = conn.head /\ Len(http.reqs) <= Len(http'.reqs)

LEMMA SameProceeds ==
    ASSUME IInv, conn'.fd = conn.fd, conn'.head = conn.head, conn'.why = conn.why,
           http' = http
    PROVE  Proceeds
BY ConnFields DEF IInv, TypeOK, Proceeds, ClosesWell

LEMMA OutsideProceeds ==
    ASSUME IInv, Environment \/ EpollWait \/ HandleTrigger \/ DeliverToDestroyed
                 \/ ReadNothing \/ TasksDone \/ MainErase
                 \/ \E id \in 1 .. Len(http.reqs) : PoolFinish(id)
    PROVE  Proceeds
<1>0. conn \in ConnType
  BY DEF IInv, TypeOK
<1>1. CASE Environment
  <2>1. http' = http
    BY <1>1 DEF Environment, PeerSend, PeerFin, PeerRst, PeerDrain, TimerDue, StaleUnregister
  <2>2. \/ \E e : conn' = Wakes(e)
        \/ conn' = [conn EXCEPT !.timer = "due"]
        \/ conn' = [conn EXCEPT !.inEpoll = FALSE, !.mask = {}, !.edge = FALSE, !.lost = TRUE]
    BY <1>1 DEF Environment, PeerSend, PeerFin, PeerRst, PeerDrain, TimerDue, StaleUnregister
  <2>3. CASE \E e : conn' = Wakes(e)
    BY <2>1, <2>3, WakesEffects, SameProceeds
  <2>4. CASE conn' = [conn EXCEPT !.timer = "due"]
    <3>1. conn'.fd = conn.fd /\ conn'.head = conn.head /\ conn'.why = conn.why
      BY <1>0, <2>4 DEF ConnType
    <3> QED
      BY <2>1, <3>1, SameProceeds
  <2>5. CASE conn' = [conn EXCEPT !.inEpoll = FALSE, !.mask = {}, !.edge = FALSE, !.lost = TRUE]
    <3>1. conn'.fd = conn.fd /\ conn'.head = conn.head /\ conn'.why = conn.why
      BY <1>0, <2>5 DEF ConnType
    <3> QED
      BY <2>1, <3>1, SameProceeds
  <2> QED
    BY <2>2, <2>3, <2>4, <2>5
<1>2. CASE EpollWait
  <2>1. conn' = [conn EXCEPT !.edge = FALSE] /\ http' = http
    BY <1>2 DEF EpollWait
  <2>2. conn'.fd = conn.fd /\ conn'.head = conn.head /\ conn'.why = conn.why
    BY <1>0, <2>1 DEF ConnType
  <2> QED
    BY <2>1, <2>2, SameProceeds
<1>3. CASE MainErase
  <2>1. conn' = [conn EXCEPT !.notified = FALSE] /\ http' = http
    BY <1>3 DEF MainErase
  <2>2. conn'.fd = conn.fd /\ conn'.head = conn.head /\ conn'.why = conn.why
    BY <1>0, <2>1 DEF ConnType
  <2> QED
    BY <2>1, <2>2, SameProceeds
<1>4. CASE \/ HandleTrigger \/ DeliverToDestroyed \/ ReadNothing \/ TasksDone
           \/ \E id \in 1 .. Len(http.reqs) : PoolFinish(id)
  <2>1. conn' = conn /\ http' = http
    BY <1>4 DEF HandleTrigger, DeliverToDestroyed, ReadNothing, TasksDone, PoolFinish
  <2> QED
    BY <2>1, SameProceeds
<1> QED
  BY <1>1, <1>2, <1>3, <1>4

LEMMA BatchProceeds ==
    ASSUME IInv, HandleTimer \/ DeliverEvent
    PROVE  Proceeds
<1>0. conn \in ConnType /\ http' = http /\ conn.head \in Nat
  BY ConnFields DEF IInv, TypeOK, HandleTimer, DeliverEvent
<1>1. CASE HandleTimer
  <2> DEFINE d == ForceClose(conn, "idle")
  <2>1. d \in ConnType /\ d.fd = "closed" /\ d.head = conn.head /\ (d.why = conn.why \/ d.why = "idle")
    BY <1>0, ForceCloseSettles, ForceCloseEffects DEF IInv, Sane, CloseReasons
  <2>2. conn' = conn \/ conn' = [conn EXCEPT !.timer = "none"] \/ conn' = [d EXCEPT !.timer = "none"]
    BY <1>1 DEF HandleTimer
  <2> HIDE DEF d
  <2>3. CASE conn' = [d EXCEPT !.timer = "none"]
    <3>1. conn'.fd = d.fd /\ conn'.head = d.head /\ conn'.why = d.why
      BY <2>1, <2>3 DEF ConnType
    <3> QED
      BY <1>0, <2>1, <3>1 DEF Proceeds, ClosesWell
  <2>4. CASE conn' = conn \/ conn' = [conn EXCEPT !.timer = "none"]
    <3>1. conn'.fd = conn.fd /\ conn'.head = conn.head /\ conn'.why = conn.why
      BY <1>0, <2>4 DEF ConnType
    <3> QED
      BY <1>0, <3>1, SameProceeds
  <2> QED
    BY <2>2, <2>3, <2>4
<1>2. CASE DeliverEvent
  <2> DEFINE got == Head(batch).ev
             c   == [conn EXCEPT !.received = got]
  <2>1. got \in SUBSET Events
    BY <1>2, BatchHead DEF DeliverEvent, NextIs, Item
  <2>2. conn' = ForceClose(c, "unexpected") \/ conn' = ForceClose(c, "error") \/ conn' = c
    BY <1>2 DEF DeliverEvent
  <2> HIDE DEF got
  <2>3. c \in ConnType /\ c.fd = conn.fd /\ c.head = conn.head /\ c.why = conn.why
    BY <1>0, <2>1 DEF ConnType
  <2> HIDE DEF c
  <2>4. CASE conn' = c
    BY <1>0, <2>3, <2>4, SameProceeds
  <2>5. CASE conn' = ForceClose(c, "unexpected") \/ conn' = ForceClose(c, "error")
    <3>1. conn'.fd = "closed" /\ conn'.head = c.head /\ (conn'.why = c.why \/ conn'.why \in {"unexpected", "error"})
      BY <2>3, <2>5, ForceCloseEffects DEF CloseReasons
    <3> QED
      BY <1>0, <2>3, <3>1 DEF Proceeds, ClosesWell
  <2> QED
    BY <2>2, <2>4, <2>5
<1> QED
  BY <1>1, <1>2

LEMMA CallbackProceeds ==
    ASSUME IInv, OnWrite \/ OnHup \/ TaskEnd \/ TaskBegin
    PROVE  Proceeds
<1>0. /\ conn \in ConnType /\ sock \in SockType /\ conn.head \in Nat
      /\ http'.reqs = http.reqs
  BY ConnFields DEF IInv, TypeOK, HttpType, OnWrite, OnHup, TaskEnd, TaskBegin
<1>1. ASSUME conn' = conn PROVE Proceeds
  BY <1>0, <1>1 DEF Proceeds, ClosesWell
<1>2. ASSUME conn' = Shutdown(conn, sock) PROVE Proceeds
  <2>1. ClosesWell(conn, conn') /\ conn'.head = conn.head
    BY <1>0, <1>2, ShutdownEffects DEF IInv
  <2> QED
    BY <1>0, <2>1 DEF Proceeds
<1>3. ASSUME pc = "write", Sends(conn, sock, conn') PROVE Proceeds
  <2>1. conn.enable => conn.fd = "open"
    BY <1>3 DEF IInv, TypeOK, ConnType, NoTraffic, Live
  <2>2. ClosesWell(conn, conn') /\ Follows(conn, conn')
    BY <1>0, <1>3, <2>1, SendsEffects, SendsSettles DEF IInv, Settled, Tuned
  <2> QED
    BY <1>0, <2>2 DEF Proceeds, Follows
<1> QED
  BY <1>1, <1>2, <1>3 DEF OnWrite, OnHup, TaskEnd, TaskBegin

LEMMA ReadProceeds ==
    ASSUME IInv, ReadAll \/ ReadTooLarge
    PROVE  Proceeds
<1>0. /\ conn \in ConnType /\ conn.head \in Nat /\ http \in HttpType
      /\ pc = "read" /\ conn.enable
  BY ConnFields DEF IInv, TypeOK, ReadAll, ReadTooLarge
<1>1. ~Closed
  BY <1>0 DEF IInv, NoTraffic, Live, Closed
<1>2. sock' \in SockType /\ Len(http.reqs) <= Len(http'.reqs)
  <2>1. IInv'
    BY ReadAllPreserves, ReadTooLargePreserves
  <2>2. http.reqs = http'.reqs \/ \E new \in Seq(Parsed) : Dispatch(new)
    <3>1. CASE ReadTooLarge
      <4>1. \E q : http' = [http EXCEPT !.buf = q]
        BY <3>1 DEF ReadTooLarge
      <4> QED
        BY <1>0, <4>1 DEF HttpType
    <3>2. CASE ReadAll
      BY <3>2, ReadAllDispatches
    <3> QED
      BY <3>1, <3>2
  <2>3. Len(http.reqs) \in Nat
    BY <1>0 DEF HttpType
  <2> QED
    BY <2>1, <2>2, <2>3, DispatchTypes DEF IInv, TypeOK
<1>3. ClosesWell(conn, conn') /\ conn'.head = conn.head
  <2> DEFINE d == Shutdown(conn, sock')
  <2>1. ClosesWell(conn, d) /\ d.head = conn.head /\ d.out = conn.out /\ d \in ConnType
    BY <1>2, ShutdownEffects, ShutdownSettles DEF IInv, Sane
  <2> HIDE DEF d
  <2>2. ClosesWell(conn, conn) /\ conn.head = conn.head
    BY DEF ClosesWell
  <2>3. \E c \in {conn, d} : conn' = c \/ conn' = [c EXCEPT !.timer = "armed"]
    BY DEF ReadAll, ReadTooLarge, d
  <2>4. PICK c \in {conn, d} : conn' = c \/ conn' = [c EXCEPT !.timer = "armed"]
    BY <2>3
  <2>5. c \in ConnType /\ ClosesWell(conn, c) /\ c.head = conn.head
    BY <1>0, <2>1, <2>2
  <2>6. /\ conn'.fd = c.fd /\ conn'.head = c.head /\ conn'.why = c.why /\ conn'.out = c.out
    BY <2>4, <2>5 DEF ConnType
  <2> QED
    BY <2>5, <2>6 DEF ClosesWell, Unsent
<1> QED
  BY <1>0, <1>1, <1>2, <1>3 DEF Proceeds

LEMMA TaskProceeds ==
    ASSUME IInv, WInv, InitChannel \/ DrainOne
    PROVE  Proceeds
<1>0. conn.head \in Nat /\ http'.reqs = http.reqs
  <2>1. http \in HttpType /\ conn.head \in Nat
    BY ConnFields DEF IInv, TypeOK
  <2>2. CASE InitChannel
    BY <2>1, <2>2 DEF InitChannel
  <2>3. CASE DrainOne
    <3>1. \E p, n : http' = [http EXCEPT !.parked = p, !.next = n]
      BY <2>3 DEF DrainOne
    <3> QED
      BY <2>1, <3>1 DEF HttpType
  <2> QED
    BY <2>1, <2>2, <2>3
<1>1. CASE InitChannel
  BY <1>0, <1>1, InitChannelWakes DEF Proceeds, ClosesWell
<1>2. CASE DrainOne
  BY <1>0, <1>2, DrainOneWakes DEF Proceeds
<1> QED
  BY <1>1, <1>2

LEMMA NextProceeds == IInv /\ WInv /\ Next => Proceeds
BY OutsideProceeds, BatchProceeds, CallbackProceeds, ReadProceeds, TaskProceeds
   DEF Next, LoopStep

(* The delayed close of shutdown() and send() never drops a response that  *)
(* was queued, whichever of half-close, "Connection: close" and oversized  *)
(* read asked for it, and however the writes were cut.                     *)
THEOREM GracefulCloseLosesNothing == Spec => GracefulCloseFlushed
<1>1. IInv /\ WInv /\ [Next]_vars
      => [conn.why # "graceful" /\ conn.why' = "graceful" => ~Unsent(conn)']_vars
  <2> SUFFICES ASSUME IInv, WInv, Next, conn.why # "graceful", conn'.why = "graceful"
               PROVE  ~Unsent(conn')
    BY DEF Unsent
  <2> QED
    BY NextProceeds DEF Proceeds, ClosesWell
<1> QED
  BY <1>1, WakesHold, PTL DEF Spec, GracefulCloseFlushed

(* What the socket has taken is the first answers, in order.               *)
Prefixed ==
    /\ Wire = [i \in 1 .. conn.head |-> i]
    /\ Len(Wire) = conn.head
    /\ conn.head \in Nat /\ conn.head <= Len(http.reqs) /\ Len(http.reqs) \in Nat

LEMMA WireIsPrefix == IInv => Prefixed
<1> SUFFICES ASSUME IInv PROVE Prefixed
  OBVIOUS
<1>1. /\ conn.head \in Nat /\ Len(conn.out) \in Nat /\ conn.head <= Len(conn.out)
      /\ Len(http.reqs) \in Nat /\ Len(conn.out) <= Len(http.reqs)
  BY ConnFields DEF IInv, TypeOK, HttpType, Sane, Requested
<1>2. \A i \in 1 .. conn.head : i \in 1 .. Len(conn.out)
  BY <1>1
<1>3. Wire = [i \in 1 .. conn.head |-> i]
  BY <1>2 DEF IInv, InOrder, Wire
<1>4. Len(Wire) = conn.head
  <2>1. Wire \in Seq(Nat) /\ DOMAIN Wire = 1 .. conn.head
    BY <1>1, <1>3
  <2> QED
    BY <1>1, <2>1, LenProperties
<1> QED
  BY <1>1, <1>3, <1>4 DEF Prefixed

(* A step of the connection is a step of the promise, or none.             *)
LEMMA PromiseStep ==
    ASSUME IInv, WInv, Prefixed', Next
    PROVE  [Promise!Next]_<<Len(http.reqs), Wire, ~Closed>>
<1>1. Proceeds
  BY NextProceeds
<1>2. /\ Wire = [i \in 1 .. conn.head |-> i] /\ Len(Wire) = conn.head
      /\ conn.head \in Nat /\ Len(http.reqs) \in Nat
  BY WireIsPrefix DEF Prefixed
<1>3. /\ Wire' = [i \in 1 .. conn'.head |-> i]
      /\ conn'.head \in Nat /\ conn'.head <= Len(http'.reqs) /\ Len(http'.reqs) \in Nat
  BY DEF Prefixed
<1>4. CASE Closed
  <2>1. Closed' /\ conn'.head = conn.head /\ http'.reqs = http.reqs
    BY <1>1, <1>4 DEF Proceeds, ClosesWell, Closed
  <2> QED
    BY <1>2, <1>3, <1>4, <2>1
<1>5. CASE ~Closed /\ http'.reqs = http.reqs
  <2>1. conn'.head \in Len(Wire) .. Len(http.reqs)
    BY <1>1, <1>2, <1>3, <1>5 DEF Proceeds
  <2>2. Promise!Answer
    BY <1>3, <1>5, <2>1 DEF Promise!Answer
  <2> QED
    BY <2>2 DEF Promise!Next
<1>6. CASE ~Closed /\ conn'.head = conn.head /\ Len(http.reqs) <= Len(http'.reqs)
  <2>1. Promise!Ask
    BY <1>2, <1>3, <1>6 DEF Promise!Ask
  <2> QED
    BY <2>1 DEF Promise!Next
<1> QED
  BY <1>1, <1>4, <1>5, <1>6 DEF Proceeds

(* Whatever the pool, the reorder buffer, partial writes and backpressure  *)
(* do, the client of a connection sees OrderedResponder.                   *)
THEOREM ConnectionKeepsPromise == Spec => KeepsPromise
<1>1. Init => Promise!Init
  <2>1. 1 .. 0 = {} /\ Len(<<>>) = 0
    OBVIOUS
  <2> SUFFICES ASSUME Init PROVE Promise!Init
    OBVIOUS
  <2>2. IInv
    BY InitEstablishes
  <2>3. conn.head = 0 /\ conn.fd = "new" /\ http.reqs = <<>>
    BY DEF Init, NewConnection
  <2>4. Len(Wire) = 0 /\ Wire \in Seq(Nat)
    BY <2>2, <2>3, WireIsPrefix DEF Prefixed
  <2>5. Wire = <<>>
    BY <2>4, EmptySeq
  <2> QED
    BY <2>1, <2>3, <2>5 DEF Promise!Init, Closed
<1>2. IInv /\ WInv /\ Prefixed' /\ [Next]_vars
      => [Promise!Next]_<<Len(http.reqs), Wire, ~Closed>>
  <2>1. ASSUME UNCHANGED vars PROVE UNCHANGED <<Len(http.reqs), Wire, ~Closed>>
    BY <2>1 DEF vars, Wire, Closed
  <2> QED
    BY <2>1, PromiseStep
<1> QED
  BY <1>1, <1>2, WireIsPrefix, WakesHold, PTL DEF Spec, KeepsPromise, Promise!Spec

=============================================================================
