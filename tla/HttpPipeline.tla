---------------------------- MODULE HttpPipeline ----------------------------
(***************************************************************************)
(* The life of one HTTP connection: its loop thread (EventLoop,            *)
(* EventTrigger, Channel, Timer, TCPConnection), the thread pool that      *)
(* answers its requests, the HttpContext that puts the answers back in     *)
(* order, the main loop that forgets the connection, and the peer.         *)
(*                                                                         *)
(*   conn     the TCPConnection and its Channel (module TCPConnection)     *)
(*   sock     the kernel's receive queue, and what the peer did            *)
(*   http     HttpContext: reqs (kinds of the requests dispatched, a       *)
(*            request's id is its place), next (next_written_chunk_id_),   *)
(*            parked (respond_chunks_), buf (read, not yet parsed), stuck  *)
(*            (the parser met a malformed request)                         *)
(*   jobs     ids of the requests in the thread pool                       *)
(*   tasks    EventTrigger::task_queue_; id 0 is the init_channel task     *)
(*   running  the swapped-out queue do_pending_tasks is going through      *)
(*   batch    what epoll_wait returned and the loop has not handled yet    *)
(*   pc       where the loop thread is                                     *)
(*   inMgr    conn_manager_ still holds the connection                     *)
(*                                                                         *)
(* A request is of one of the Kinds: "keep", "close" (keep_alive false),   *)
(* "bad" (does not parse) or "big" (a readv that takes it in returns more  *)
(* than TCP_READ_SIZE_UPPER_LIMIT bytes).                                  *)
(***************************************************************************)
EXTENDS TCPConnection, SequencesExt

CONSTANTS
    Sizes,      \* the sizes a response may have
    MaxSend,    \* bound: requests the peer sends
    MaxReqs     \* bound: requests dispatched (a stuck parser has no other)

ASSUME KindsAssumption == Kinds \subseteq {"keep", "close", "bad", "big"}
ASSUME SizesAssumption == Sizes \subseteq Nat \ {0}
ASSUME BoundsAssumption == MaxSend \in Nat /\ MaxReqs \in Nat

VARIABLES conn, sock, http, jobs, tasks, running, batch, pc, inMgr

vars == <<conn, sock, http, jobs, tasks, running, batch, pc, inMgr>>

Parsed == {"keep", "close", "bad"}

Item == [src : {"trigger", "timer", "conn"}, ev : SUBSET Events]

Task == [id : Nat, size : Nat]

Open == conn.fd = "open"
Closed == conn.fd = "closed"

(* The connection's shared_ptr is held by conn_manager_, by every queued   *)
(* or swapped-out task and by the tie of the event being handled.          *)
Alive == inMgr \/ tasks # <<>> \/ pc # "loop"

Init ==
    /\ conn = NewConnection
    /\ sock = [rx |-> <<>>, sent |-> 0, fin |-> FALSE, rst |-> FALSE, drained |-> 0]
    /\ http = [reqs |-> <<>>, next |-> 1, parked |-> {}, buf |-> <<>>, stuck |-> FALSE]
    /\ jobs = {}
    /\ tasks = <<[id |-> 0, size |-> 0]>>
    /\ running = <<>>
    /\ batch = <<>>
    /\ pc = "loop"
    /\ inMgr = TRUE

-----------------------------------------------------------------------------
(* The peer and the kernel. A wake-up puts the entry on the ready list if  *)
(* the mask asks for one of the events it brings.                          *)

Wakes(e) == [conn EXCEPT !.edge = @ \/ (conn.inEpoll /\ e \cap (conn.mask \union {"ERR"}) # {})]

PeerSend(k) ==
    /\ ~sock.fin /\ ~sock.rst /\ ~Closed
    /\ sock.sent < MaxSend
    /\ sock' = [sock EXCEPT !.rx = Append(@, k), !.sent = @ + 1]
    /\ conn' = Wakes({"IN"})
    /\ UNCHANGED <<http, jobs, tasks, running, batch, pc, inMgr>>

PeerFin ==
    /\ ~sock.fin /\ ~sock.rst /\ ~Closed
    /\ sock' = [sock EXCEPT !.fin = TRUE]
    /\ conn' = Wakes({"IN", "RDHUP"})
    /\ UNCHANGED <<http, jobs, tasks, running, batch, pc, inMgr>>

PeerRst ==
    /\ ~sock.rst /\ ~Closed
    /\ sock' = [sock EXCEPT !.rst = TRUE, !.rx = <<>>]
    /\ conn' = Wakes(Events)
    /\ UNCHANGED <<http, jobs, tasks, running, batch, pc, inMgr>>

(* The peer's acknowledgements free the whole send buffer. *)
PeerDrain ==
    /\ ~sock.rst
    /\ sock.drained < conn.written
    /\ sock' = [sock EXCEPT !.drained = conn.written]
    /\ conn' = Wakes({"OUT"})
    /\ UNCHANGED <<http, jobs, tasks, running, batch, pc, inMgr>>

(* SERVER_INTERVAL passes without a read. *)
TimerDue ==
    /\ conn.timer = "armed"
    /\ conn' = [conn EXCEPT !.timer = "due"]
    /\ UNCHANGED <<sock, http, jobs, tasks, running, batch, pc, inMgr>>

(* Another connection of this loop, closed but alive, is force_closed once *)
(* more, and the descriptor number its Channel still holds is the one this *)
(* connection was given when it was accepted: the EPOLL_CTL_DEL deletes    *)
(* this connection's entry. It happens on the loop thread, between two     *)
(* events or two tasks of this connection.                                 *)
StaleUnregister ==
    /\ Open /\ conn.inEpoll
    /\ pc \in {"loop", "tasks"}
    /\ conn' = [conn EXCEPT !.inEpoll = FALSE, !.mask = {}, !.edge = FALSE, !.lost = TRUE]
    /\ UNCHANGED <<sock, http, jobs, tasks, running, batch, pc, inMgr>>

-----------------------------------------------------------------------------
(* The loop thread: EventLoop::loop. *)

ReadyItems ==
    (IF tasks # <<>> THEN {[src |-> "trigger", ev |-> {"IN"}]} ELSE {})
    \union (IF conn.timer = "due" THEN {[src |-> "timer", ev |-> {"IN"}]} ELSE {})
    \union (IF conn.edge /\ Reported(conn, sock) # {}
            THEN {[src |-> "conn", ev |-> Reported(conn, sock)]} ELSE {})

(* epoll_wait takes the whole ready list, in the order of the wake-ups. *)
EpollWait ==
    /\ pc = "loop" /\ batch = <<>>
    /\ ReadyItems # {}
    /\ batch' \in SetToSeqs(ReadyItems)
    /\ conn' = [conn EXCEPT !.edge = FALSE]
    /\ UNCHANGED <<sock, http, jobs, tasks, running, pc, inMgr>>

NextIs(src) == pc = "loop" /\ batch # <<>> /\ Head(batch).src = src

(* EventTrigger::do_pending_tasks up to the swap. *)
HandleTrigger ==
    /\ NextIs("trigger")
    /\ batch' = Tail(batch)
    /\ running' = tasks
    /\ tasks' = <<>>
    /\ pc' = "tasks"
    /\ UNCHANGED <<conn, sock, http, jobs, inMgr>>

(* Timer::handle_timer: only the packet of the current version_ closes,    *)
(* and only while weak_self can be locked.                                 *)
HandleTimer ==
    /\ NextIs("timer")
    /\ batch' = Tail(batch)
    /\ conn' = IF conn.timer # "due" THEN conn
               ELSE IF ~Alive THEN [conn EXCEPT !.timer = "none"]
               ELSE [ForceClose(conn, "idle") EXCEPT !.timer = "none"]
    /\ UNCHANGED <<sock, http, jobs, tasks, running, pc, inMgr>>

(* Channel::handle_event on a live connection. An event that is no longer  *)
(* wanted is an error, and so are EPOLLERR and EPOLLHUP.                   *)
DeliverEvent ==
    /\ NextIs("conn") /\ Alive
    /\ batch' = Tail(batch)
    /\ LET got == Head(batch).ev
           c == [conn EXCEPT !.received = got]
       IN  \/ /\ got \cap conn.event = {}
              /\ conn' = ForceClose(c, "unexpected")
              /\ pc' = "loop"
           \/ /\ got \cap conn.event # {} /\ "ERR" \in got
              /\ conn' = ForceClose(c, "error")
              /\ pc' = "loop"
           \/ /\ got \cap conn.event # {} /\ "ERR" \notin got
              /\ conn' = c
              /\ pc' = "write"
    /\ UNCHANGED <<sock, http, jobs, tasks, running, inMgr>>

(* The same loop iteration for a connection that was destroyed earlier in  *)
(* the batch. The code reads freed memory here; the model takes the        *)
(* outcome in which the dangling tie does not lock.                        *)
DeliverToDestroyed ==
    /\ NextIs("conn") /\ ~Alive
    /\ batch' = Tail(batch)
    /\ UNCHANGED <<conn, sock, http, jobs, tasks, running, pc, inMgr>>

(* The write callback. *)
OnWrite ==
    /\ pc = "write"
    /\ IF "OUT" \in conn.received THEN Sends(conn, sock, conn') ELSE conn' = conn
    /\ pc' = "read"
    /\ UNCHANGED <<sock, http, jobs, tasks, running, batch, inMgr>>

(* HttpContext::ParseInput on the requests b: all of them up to the first  *)
(* malformed one are dispatched; the parser never gets past that one and   *)
(* dispatches another 400 each time it is run.                             *)
Consumes(b, n) ==
    /\ \A i \in 1 .. n - 1 : b[i] # "bad"
    /\ n = Len(b) \/ (n > 0 /\ b[n] = "bad")

(* Mutation of Dispatch: request_id_ starts at 0. *)
DispatchFromZero(new) ==
    /\ http' = [http EXCEPT !.reqs = @ \o new, !.buf = <<>>]
    /\ jobs' = jobs \union {Len(http.reqs) + i - 1 : i \in 1 .. Len(new)}

Dispatch(new) ==
    /\ http' = [http EXCEPT !.reqs = @ \o new, !.buf = <<>>,
                            !.stuck = @ \/ "bad" \in ToSet(new)]
    /\ jobs' = jobs \union {Len(http.reqs) + i : i \in 1 .. Len(new)}

ParseInput(b) ==
    IF http.stuck THEN Dispatch(IF Len(http.reqs) < MaxReqs THEN <<"bad">> ELSE <<>>)
    ELSE \E n \in 0 .. Len(b) : Consumes(b, n) /\ Dispatch(SubSeq(b, 1, n))

(* Mutation of ReadAll: one request is read per event. *)
ReadOne ==
    /\ pc = "read" /\ "IN" \in conn.received /\ conn.enable /\ sock.rx # <<>>
    /\ ~sock.rst /\ "big" \notin ToSet(sock.rx)
    /\ sock' = [sock EXCEPT !.rx = Tail(@)]
    /\ conn' = [conn EXCEPT !.timer = "armed"]
    /\ ParseInput(http.buf \o <<Head(sock.rx)>>)
    /\ pc' = "hup"
    /\ UNCHANGED <<tasks, running, batch, inMgr>>

(* The read callback drains the socket, notices a FIN, parses, and renews  *)
(* the timer.                                                              *)
ReadAll ==
    /\ pc = "read" /\ "IN" \in conn.received /\ conn.enable
    /\ ~sock.rst /\ "big" \notin ToSet(sock.rx)
    /\ sock' = [sock EXCEPT !.rx = <<>>]
    /\ conn' = [(IF sock.fin THEN Shutdown(conn, sock') ELSE conn) EXCEPT !.timer = "armed"]
    /\ ParseInput(http.buf \o sock.rx)
    /\ pc' = "hup"
    /\ UNCHANGED <<tasks, running, batch, inMgr>>

(* A readv that returns too much: what earlier calls read (i requests) is  *)
(* kept unparsed, what this call took in (up to j) is lost.                *)
ReadTooLarge ==
    /\ pc = "read" /\ "IN" \in conn.received /\ conn.enable
    /\ ~sock.rst /\ "big" \in ToSet(sock.rx)
    /\ \E k \in 1 .. Len(sock.rx) :
         /\ sock.rx[k] = "big" /\ \A i \in 1 .. k - 1 : sock.rx[i] # "big"
         /\ \E i \in 0 .. k - 1, j \in k .. Len(sock.rx) :
              /\ http' = [http EXCEPT !.buf = @ \o SubSeq(sock.rx, 1, i)]
              /\ sock' = [sock EXCEPT !.rx = SubSeq(@, j + 1, Len(@))]
    /\ conn' = Shutdown(conn, sock')
    /\ pc' = "hup"
    /\ UNCHANGED <<jobs, tasks, running, batch, inMgr>>

(* No read event, a disabled connection, or a readv that fails. *)
ReadNothing ==
    /\ pc = "read"
    /\ "IN" \notin conn.received \/ ~conn.enable \/ sock.rst
    /\ pc' = "hup"
    /\ UNCHANGED <<conn, sock, http, jobs, tasks, running, batch, inMgr>>

(* The close callback. *)
OnHup ==
    /\ pc = "hup"
    /\ conn' = IF "RDHUP" \in conn.received THEN Shutdown(conn, sock) ELSE conn
    /\ pc' = "loop"
    /\ UNCHANGED <<sock, http, jobs, tasks, running, batch, inMgr>>

-----------------------------------------------------------------------------
(* The loop thread: the tasks of do_pending_tasks. *)

TaskIs(init) == pc = "tasks" /\ running # <<>> /\ (Head(running).id = 0) = init

(* channel_dispatch's task: init_channel. *)
InitChannel ==
    /\ TaskIs(TRUE)
    /\ conn' \in {Opened(conn, sock), OpenFailed(conn)}
    /\ running' = Tail(running)
    /\ UNCHANGED <<sock, http, jobs, tasks, batch, pc, inMgr>>

(* Mutation of TaskBegin: a response that is not next is dropped. *)
TaskBeginDrops ==
    /\ TaskIs(FALSE)
    /\ IF http.next # Head(running).id
       THEN running' = Tail(running) /\ UNCHANGED <<http, pc>>
       ELSE /\ http' = [http EXCEPT !.parked = @ \union {Head(running)}]
            /\ pc' = "drain"
            /\ UNCHANGED running
    /\ UNCHANGED <<conn, sock, jobs, tasks, batch, inMgr>>

(* save_respond_chunk's task parks the response under its id (emplace, so  *)
(* an id that is parked already stays as it is), ...                       *)
TaskBegin ==
    /\ TaskIs(FALSE)
    /\ IF http.next > Head(running).id
       THEN running' = Tail(running) /\ UNCHANGED <<http, pc>>
       ELSE /\ http' = IF \E t \in http.parked : t.id = Head(running).id
                       THEN http
                       ELSE [http EXCEPT !.parked = @ \union {Head(running)}]
            /\ pc' = "drain"
            /\ UNCHANGED running
    /\ UNCHANGED <<conn, sock, jobs, tasks, batch, inMgr>>

(* Mutation of DrainOne: parked responses are sent in any order. *)
DrainAny ==
    /\ pc = "drain"
    /\ \E t \in http.parked :
         /\ Sends(Queued(conn, t.id, t.size), sock, conn')
         /\ http' = [http EXCEPT !.parked = @ \ {t}, !.next = @ + 1]
    /\ UNCHANGED <<sock, jobs, tasks, running, batch, pc, inMgr>>

(* ... sends every response that is next in order, ... *)
DrainOne ==
    /\ pc = "drain"
    /\ \E t \in http.parked :
         /\ t.id = http.next
         /\ Sends(Queued(conn, t.id, t.size), sock, conn')
         /\ http' = [http EXCEPT !.parked = @ \ {t}, !.next = @ + 1]
    /\ UNCHANGED <<sock, jobs, tasks, running, batch, pc, inMgr>>

(* ... and shuts the connection down if its own request said so. *)
TaskEnd ==
    /\ pc = "drain"
    /\ \A t \in http.parked : t.id # http.next
    /\ conn' = IF http.reqs[Head(running).id] = "keep" THEN conn ELSE Shutdown(conn, sock)
    /\ running' = Tail(running)
    /\ pc' = "tasks"
    /\ UNCHANGED <<sock, http, jobs, tasks, batch, inMgr>>

TasksDone ==
    /\ pc = "tasks" /\ running = <<>>
    /\ pc' = "loop"
    /\ UNCHANGED <<conn, sock, http, jobs, tasks, running, batch, inMgr>>

-----------------------------------------------------------------------------
(* The other threads. *)

(* A pool thread runs save_respond_chunk: it builds the response and posts *)
(* it to the loop, unless the connection is gone.                          *)
PoolFinish(id) ==
    /\ id \in jobs
    /\ jobs' = jobs \ {id}
    /\ \E size \in Sizes :
         tasks' = IF Alive THEN Append(tasks, [id |-> id, size |-> size]) ELSE tasks
    /\ UNCHANGED <<conn, sock, http, running, batch, pc, inMgr>>

(* The main loop runs the channel_remove task. *)
MainErase ==
    /\ conn.notified
    /\ conn' = [conn EXCEPT !.notified = FALSE]
    /\ inMgr' = FALSE
    /\ UNCHANGED <<sock, http, jobs, tasks, running, batch, pc>>

LoopStep ==
    \/ EpollWait \/ HandleTrigger \/ HandleTimer \/ DeliverEvent \/ DeliverToDestroyed
    \/ OnWrite \/ ReadAll \/ ReadTooLarge \/ ReadNothing \/ OnHup
    \/ InitChannel \/ TaskBegin \/ DrainOne \/ TaskEnd \/ TasksDone

Environment ==
    \/ \E k \in Kinds : PeerSend(k)
    \/ PeerFin \/ PeerRst \/ PeerDrain \/ TimerDue \/ StaleUnregister

Next ==
    \/ LoopStep
    \/ Environment
    \/ \E id \in 1 .. Len(http.reqs) : PoolFinish(id)
    \/ MainErase

Spec == Init /\ [][Next]_vars

(* The loop thread, the pool and the main loop are threads that are never  *)
(* blocked by one another; the peer and time are under no obligation.      *)
FairSpec ==
    /\ Spec
    /\ WF_vars(LoopStep)
    /\ WF_vars(MainErase)
    /\ \A id \in 1 .. MaxReqs : WF_vars(PoolFinish(id))

-----------------------------------------------------------------------------
(* Invariants. *)

HttpType ==
    [reqs : Seq(Parsed), next : Nat, parked : SUBSET Task, buf : Seq(Parsed), stuck : BOOLEAN]

TypeOK ==
    /\ conn \in ConnType
    /\ sock \in SockType
    /\ http \in HttpType
    /\ jobs \subseteq Nat \ {0}
    /\ tasks \in Seq(Task)
    /\ running \in Seq(Task)
    /\ batch \in Seq(Item)
    /\ pc \in {"loop", "write", "read", "hup", "tasks", "drain"}
    /\ inMgr \in BOOLEAN

(* The responses go onto the connection in the order of the requests, each *)
(* once and none left out, in whatever order the pool finishes them        *)
(* (HttpContext::save_respond_chunk).                                      *)
InOrder ==
    /\ http.next = Len(conn.out) + 1
    /\ \A i \in 1 .. Len(conn.out) : conn.out[i].id = i
    /\ \A t \in http.parked : t.id >= http.next

(* pending_output_bytes_ is the size of the chunks still queued, so that   *)
(* "pending == 0" in shutdown() and send() means that nothing is queued.   *)
PendingAccounts ==
    /\ conn.pending = Total(conn) - End(conn, conn.head)
    /\ conn.pending = 0 <=> ~Unsent(conn)

(* While a connection is open, epoll watches exactly the events the        *)
(* channel wants (every change of event_ reaches epoll_ctl before the loop *)
(* thread moves on), unless another connection's second force_close took   *)
(* the entry away, which is the only way to lose it; and EPOLLOUT is       *)
(* wanted exactly while output is left.                                    *)
InterestSync ==
    Open => /\ ~conn.fresh
            /\ conn.inEpoll <=> ~conn.lost
            /\ conn.inEpoll => conn.mask = conn.event
            /\ "OUT" \in conn.event <=> Unsent(conn)

(* Backpressure (apply_backpressure): reading stops at the high line, and  *)
(* resumes only below the low one; a connection that is neither throttled  *)
(* nor closing is always reading and below the high line.                  *)
BackpressureSound ==
    Open => /\ conn.blocking =>
                  conn.pending >= UnblockLine /\ "IN" \notin conn.event
            /\ ~conn.blocking =>
                  conn.pending < BlockLine /\ (conn.closeWait \/ "IN" \in conn.event)

(* What epoll holds a raw Channel pointer to has not been destroyed: the   *)
(* main loop drops a connection only after force_close took it out of      *)
(* epoll, whatever the tasks and the pool still hold.                      *)
RegisteredIsAlive == conn.inEpoll => Alive

(* Edge-triggered reading loses no wake-up: bytes that wait in the socket  *)
(* under a mask with EPOLLIN are on the ready list, in the batch, or about *)
(* to be read. Backpressure takes EPOLLIN away and gives it back.          *)
NoLostRead ==
    Open /\ sock.rx # <<>> /\ "IN" \in conn.mask =>
        \/ conn.edge
        \/ \E i \in 1 .. Len(batch) : batch[i].src = "conn" /\ "IN" \in batch[i].ev
        \/ pc \in {"write", "read"} /\ "IN" \in conn.received

(* The same for writing: output left over and room in the socket mean that *)
(* a write callback is coming, while the connection is registered.         *)
NoLostWrite ==
    Open /\ conn.inEpoll /\ Unsent(conn) /\ Space(conn, sock) > 0 =>
        \/ conn.edge
        \/ \E i \in 1 .. Len(batch) : batch[i].src = "conn" /\ "OUT" \in batch[i].ev
        \/ pc = "write" /\ "OUT" \in conn.received

(* Action properties. *)

(* The delayed close of shutdown() and send() closes the descriptor only   *)
(* when every response that was queued has been taken by the kernel.       *)
GracefulCloseFlushed ==
    [][conn.why # "graceful" /\ conn.why' = "graceful" => ~Unsent(conn)']_vars

(* The connection implements the promise of OrderedResponder: wire is what *)
(* the socket has taken of output_chunks_.                                 *)
Wire == [i \in 1 .. conn.head |-> conn.out[i].id]

Promise == INSTANCE OrderedResponder
               WITH asked <- Len(http.reqs), wire <- Wire, open <- ~Closed

KeepsPromise == Promise!Spec

(* Liveness. *)

(* Every request handed to the pool is answered onto the connection, or    *)
(* the connection is closed.                                               *)
EveryRequestAnswered ==
    \A id \in 1 .. MaxReqs : id <= Len(http.reqs) ~> (Len(conn.out) >= id \/ Closed)

(* A closed connection is forgotten: conn_manager_, the task queues and    *)
(* the event tie all let go of it.                                         *)
ClosedIsReclaimed == Closed ~> ~Alive

(* Output that could be written does not sit there: the connection writes  *)
(* until the socket is full or nothing is left, or its epoll entry is lost *)
(* to another connection.                                                  *)
OutputFlows ==
    Open /\ Unsent(conn) ~>
        (Closed \/ ~Unsent(conn) \/ Space(conn, sock) = 0 \/ conn.lost)

(* Statements of the repository's comments and tests that the code does    *)
(* not keep (see README).                                                  *)

(* The loop force_closes a connection for an unexpected event only when    *)
(* the peer reset it.                                                      *)
NoSpuriousClose == conn.why = "unexpected" => sock.rst

(* The server closes a connection on its own, the peer not having closed   *)
(* its side, only after the answer to a request that asked for it.         *)
CloseAfterResponse ==
    conn.why = "graceful" /\ ~sock.fin =>
        \E i \in 1 .. conn.head : http.reqs[conn.out[i].id] # "keep"

(* An event the loop is about to handle belongs to a connection that has   *)
(* not been destroyed.                                                     *)
BatchedIsAlive == NextIs("conn") => Alive

=============================================================================
