------------------------------- MODULE Server -------------------------------
(***************************************************************************)
(* The whole server from accept to destruction: server/src/net/            *)
(* TCPServer.cpp and Acceptor.cpp on the loops of EventLoop and the pool   *)
(* of ThreadPool. Connections are accepted on the main loop, handed round  *)
(* robin to the sub loops, read there, served by the pool, answered and    *)
(* closed on their loop again and forgotten on the main one; then the      *)
(* thread that owns the server destroys it. What a connection does between *)
(* opening and closing is HttpPipeline's matter.                           *)
(***************************************************************************)
EXTENDS EventLoop, ThreadPool

CONSTANTS
    User,       \* the thread that runs main()
    MaxConns,   \* bound: peers that connect
    MaxReqs     \* bound: requests read

ASSUME ServerAssumption ==
    /\ MaxConns \in Nat /\ MaxReqs \in Nat
    /\ User \notin Loops /\ User \notin Workers /\ Workers \cap Loops = {}

VARIABLES
    arrived,    \* how many peers have connected
    backlog,    \* how many of them wait in the listen queue
    edge,       \* the listening socket has an event epoll_wait has not returned
    stranded,   \* accept failed and nobody has connected since
    listening,  \* the Acceptor's fd_ is open and registered
    stopped,    \* the promise of Acceptor::stop is set
    robin,      \* robin_idx_
    mgr,        \* the keys of conn_manager_
    conn,       \* the state of the connection with each key
    reqs,       \* how many requests have been read
    upc,        \* where User is
    victim      \* the loop it is destroying

acceptVars == <<arrived, backlog, edge, stranded>>
serverVars == <<listening, stopped, robin, mgr, conn, reqs, upc, victim>>
vars == <<loopVars, poolVars, acceptVars, serverVars>>

Conns == 0 .. MaxConns - 1
LoopOf(c) == c % NSub

ConnStates == {"none", "dispatched", "open", "closed"}
UserPcs == {"serve", "stopping", "loops", "members", "pool", "done"}

Init ==
    /\ LoopInit /\ PoolInit
    /\ arrived = 0 /\ backlog = 0 /\ edge = FALSE /\ stranded = FALSE
    /\ listening = TRUE /\ stopped = FALSE
    /\ robin = 0 /\ mgr = {} /\ conn = [c \in Conns |-> "none"] /\ reqs = 0
    /\ upc = "serve" /\ victim = 0

-----------------------------------------------------------------------------
(* The peers and the kernel. *)

PeerConnect ==
    /\ listening /\ arrived < MaxConns
    /\ arrived' = arrived + 1 /\ backlog' = backlog + 1
    /\ edge' = TRUE /\ stranded' = FALSE
    /\ UNCHANGED <<loopVars, poolVars, serverVars>>

Accepting == Item("accept", 0)
Event(c) == Item("conn", c)

Heard == edge /\ backlog > 0 /\ listening

MainWaits ==
    /\ EpollWait(Main, IF Heard THEN {Accepting} ELSE {})
    /\ edge' = FALSE
    /\ UNCHANGED <<poolVars, arrived, backlog, stranded, serverVars>>

(* Any open connection may have an event.                                  *)
SubWaits(l) ==
    /\ \E some \in SUBSET {c \in Conns : conn[c] = "open" /\ LoopOf(c) = l} :
         EpollWait(l, {Event(c) : c \in some})
    /\ UNCHANGED <<poolVars, acceptVars, serverVars>>

-----------------------------------------------------------------------------
(* The main loop: Acceptor::accept_connection and channel_dispatch.        *)

(* After shutdown the channel wants no event and handle_event drops it.    *)
HandleAccept ==
    /\ Accepting \in batch[Main]
    /\ Goes(Main, "work", IF listening THEN "accept" ELSE "work")
    /\ batch' = [batch EXCEPT ![Main] = @ \ {Accepting}]
    /\ UNCHANGED <<queue, readable, quit, running, owes, late>>
    /\ UNCHANGED <<poolVars, acceptVars, serverVars>>

InAccept == lpc[Main] = "accept" /\ Free(Main)

(* Mutation of AcceptOne: one connection for each event. *)
AcceptOneOnly ==
    /\ InAccept /\ backlog > 0
    /\ backlog' = backlog - 1
    /\ mgr' = mgr \union {robin}
    /\ conn' = [conn EXCEPT ![robin] = "dispatched"]
    /\ Post(Main, LoopOf(robin), Item("init", robin))
    /\ robin' = robin + 1
    /\ lpc' = [lpc EXCEPT ![Main] = "work"]
    /\ UNCHANGED <<readable, quit, batch, running, poolVars>>
    /\ UNCHANGED <<arrived, edge, stranded, listening, stopped, reqs, upc, victim>>

(* robin_idx_ only grows, so try_emplace finds no connection in its place. *)
AcceptOne ==
    /\ InAccept /\ backlog > 0
    /\ backlog' = backlog - 1
    /\ mgr' = mgr \union {robin}
    /\ conn' = [conn EXCEPT ![robin] = "dispatched"]
    /\ Post(Main, LoopOf(robin), Item("init", robin))
    /\ robin' = robin + 1
    /\ UNCHANGED <<readable, quit, lpc, batch, running, poolVars>>
    /\ UNCHANGED <<arrived, edge, stranded, listening, stopped, reqs, upc, victim>>

AcceptNone ==
    /\ backlog = 0
    /\ Goes(Main, "accept", "work")
    /\ UNCHANGED <<queue, readable, quit, batch, running, owes, late>>
    /\ UNCHANGED <<poolVars, acceptVars, serverVars>>

(* accept fails with connections waiting (EMFILE, ECONNABORTED).           *)
AcceptError ==
    /\ backlog > 0
    /\ Goes(Main, "accept", "work")
    /\ stranded' = TRUE
    /\ UNCHANGED <<queue, readable, quit, batch, running, owes, late>>
    /\ UNCHANGED <<poolVars, arrived, backlog, edge, serverVars>>

(* The task of channel_remove. *)
RemoveTask ==
    /\ TaskIs(Main, "remove") /\ PopTask(Main)
    /\ mgr' = mgr \ {Head(running[Main]).conn}
    /\ UNCHANGED <<queue, readable, quit, lpc, batch, owes, late, poolVars, acceptVars>>
    /\ UNCHANGED <<listening, stopped, robin, conn, reqs, upc, victim>>

(* The task of Acceptor::stop: shutdown, then the promise.                 *)
StopTask ==
    /\ TaskIs(Main, "stop") /\ PopTask(Main)
    /\ listening' = FALSE /\ stopped' = TRUE
    /\ UNCHANGED <<queue, readable, quit, lpc, batch, owes, late, poolVars, acceptVars>>
    /\ UNCHANGED <<robin, mgr, conn, reqs, upc, victim>>

MainStep ==
    \/ MainWaits \/ HandleAccept \/ AcceptOne \/ AcceptNone \/ AcceptError
    \/ RemoveTask \/ StopTask

-----------------------------------------------------------------------------
(* A sub loop. *)

(* The task of channel_dispatch. *)
InitTask(l) ==
    /\ TaskIs(l, "init") /\ PopTask(l)
    /\ conn' = [conn EXCEPT ![Head(running[l]).conn] = "open"]
    /\ UNCHANGED <<queue, readable, quit, lpc, batch, owes, late, poolVars, acceptVars>>
    /\ UNCHANGED <<listening, stopped, robin, mgr, reqs, upc, victim>>

(* The task of save_respond_chunk: the response is sent, ...               *)
ReplyTask(l) ==
    /\ TaskIs(l, "reply") /\ PopTask(l)
    /\ UNCHANGED <<queue, readable, quit, lpc, batch, owes, late>>
    /\ UNCHANGED <<poolVars, acceptVars, serverVars>>

(* ... and the connection may be closed, for the second time if something  *)
(* closed it before; force_close notifies the server each time.            *)
ReplyCloses(l) ==
    /\ TaskIs(l, "reply") /\ PopTask(l)
    /\ LET c == Head(running[l]).conn
       IN  /\ conn' = [conn EXCEPT ![c] = "closed"]
           /\ Post(l, Main, Item("remove", c))
    /\ UNCHANGED <<readable, quit, lpc, batch, poolVars, acceptVars>>
    /\ UNCHANGED <<listening, stopped, robin, mgr, reqs, upc, victim>>

Handles(l, c) ==
    /\ lpc[l] = "work" /\ running[l] = <<>> /\ Free(l) /\ l \notin unposted
    /\ Event(c) \in batch[l]
    /\ batch' = [batch EXCEPT ![l] = @ \ {Event(c)}]
    /\ UNCHANGED <<readable, quit, lpc, running>>

(* A request is read: add_task. *)
ReadRequest(l, c) ==
    /\ Handles(l, c)
    /\ conn[c] = "open" /\ reqs < MaxReqs
    /\ PushJob(l, c)
    /\ reqs' = reqs + 1
    /\ UNCHANGED <<queue, owes, late, acceptVars>>
    /\ UNCHANGED <<listening, stopped, robin, mgr, conn, upc, victim>>

(* No whole request, or a connection that nobody holds any more.           *)
ReadNothing(l, c) ==
    /\ Handles(l, c)
    /\ conn[c] = "open" \/ c \notin mgr
    /\ UNCHANGED <<queue, owes, late, poolVars, acceptVars, serverVars>>

(* The peer or the timer closes it, or it was closed earlier in the batch  *)
(* and the event it no longer wants closes it again.                       *)
CloseConn(l, c) ==
    /\ Handles(l, c)
    /\ conn[c] = "open" \/ c \in mgr
    /\ conn' = [conn EXCEPT ![c] = "closed"]
    /\ Post(l, Main, Item("remove", c))
    /\ UNCHANGED <<poolVars, acceptVars>>
    /\ UNCHANGED <<listening, stopped, robin, mgr, reqs, upc, victim>>

SubStep(l) ==
    \/ SubWaits(l) \/ InitTask(l) \/ ReplyTask(l) \/ ReplyCloses(l)
    \/ \E c \in Conns : ReadRequest(l, c) \/ ReadNothing(l, c) \/ CloseConn(l, c)

-----------------------------------------------------------------------------
(* A worker: save_respond_chunk. *)

(* Somebody holds a shared_ptr to the connection.                          *)
Held(c) ==
    \/ c \in mgr
    \/ \E w \in Workers : wpc[w] = "post" /\ task[w] = c
    \/ \E l \in Loops :
         \E i \in DOMAIN queue[l] : queue[l][i] \in {Item("init", c), Item("reply", c)}
    \/ \E l \in Loops :
         \E i \in DOMAIN running[l] : running[l][i] \in {Item("init", c), Item("reply", c)}

(* The job locks its weak_ptrs, or gives up. *)
LockConn(w) ==
    /\ Moves(w, "job", IF Held(task[w]) THEN "post" ELSE "check")
    /\ UNCHANGED <<jobs, sem, up, posts, unposted, task>>
    /\ UNCHANGED <<loopVars, acceptVars, serverVars>>

(* The response goes to the connection's loop. *)
PostReply(w) ==
    /\ Moves(w, "post", "check")
    /\ Post(w, LoopOf(task[w]), Item("reply", task[w]))
    /\ UNCHANGED <<readable, quit, lpc, batch, running>>
    /\ UNCHANGED <<jobs, sem, up, posts, unposted, task, acceptVars, serverVars>>

WorkerThread(w) ==
    /\ Free(w)
    /\ \/ WorkerStep(w) /\ UNCHANGED <<loopVars, acceptVars, serverVars>>
       \/ LockConn(w) \/ PostReply(w)

-----------------------------------------------------------------------------
(* The owner: ~TCPServer, then ~HttpServer with its pool. *)

UserGoes(from, to) == upc = from /\ Free(User) /\ upc' = to

(* acceptor_->stop(): the task is posted, ... *)
StopAcceptor ==
    /\ UserGoes("serve", "stopping")
    /\ Post(User, Main, Item("stop", 0))
    /\ UNCHANGED <<readable, quit, lpc, batch, running, poolVars, acceptVars>>
    /\ UNCHANGED <<listening, stopped, robin, mgr, conn, reqs, victim>>

(* Mutation of AcceptorStopped: stop() does not wait for its task. *)
AcceptorStoppedAtOnce ==
    /\ UserGoes("stopping", "loops")
    /\ UNCHANGED <<loopVars, poolVars, acceptVars>>
    /\ UNCHANGED <<listening, stopped, robin, mgr, conn, reqs, victim>>

(* ... and its future waited for. *)
AcceptorStopped ==
    /\ UserGoes("stopping", "loops") /\ stopped
    /\ UNCHANGED <<loopVars, poolVars, acceptVars>>
    /\ UNCHANGED <<listening, stopped, robin, mgr, conn, reqs, victim>>

(* Mutation of Nth: main_loop_.reset() before robin_loop_.clear(). *)
NthMainFirst(n) == IF n = 0 THEN Main ELSE n - 1

(* robin_loop_.clear(), main_loop_.reset(): the nth loop to be destroyed.  *)
Nth(n) == n

QuitLoop ==
    /\ upc = "loops" /\ Free(User) /\ ~quit[Nth(victim)]
    /\ SetQuit(User, Nth(victim))
    /\ UNCHANGED <<poolVars, acceptVars, serverVars>>

DestroyLoop ==
    /\ upc = "loops" /\ JoinLoop(User, Nth(victim))
    /\ victim' = victim + 1
    /\ upc' = IF victim = Main THEN "members" ELSE upc
    /\ UNCHANGED <<poolVars, acceptVars, listening, stopped, robin, mgr, conn, reqs>>

(* ... then acceptor_, robin_loop_timer_ and conn_manager_, ...            *)
ClearMembers ==
    /\ UserGoes("members", "pool")
    /\ mgr' = {}
    /\ UNCHANGED <<loopVars, poolVars, acceptVars>>
    /\ UNCHANGED <<listening, stopped, robin, conn, reqs, victim>>

(* ... and the pool of the HttpServer, which was built before.             *)
StopWorkers ==
    /\ upc = "pool" /\ up /\ StopPool
    /\ UNCHANGED <<loopVars, acceptVars, serverVars>>

WakeWorkers ==
    /\ upc = "pool" /\ PostStop
    /\ UNCHANGED <<loopVars, acceptVars, serverVars>>

JoinWorkers ==
    /\ UserGoes("pool", "done") /\ PoolJoined
    /\ UNCHANGED <<loopVars, poolVars, acceptVars>>
    /\ UNCHANGED <<listening, stopped, robin, mgr, conn, reqs, victim>>

Destroys ==
    \/ AcceptorStopped \/ QuitLoop \/ DestroyLoop \/ ClearMembers
    \/ StopWorkers \/ WakeWorkers \/ JoinWorkers

-----------------------------------------------------------------------------
(* The second half of a post, by whichever thread has made the first. *)

Threads == Loops \union Workers \union {User}

FinishPost(t) ==
    \/ \E p \in owes : p[1] = t /\ WakeUp(t, p[2]) /\ UNCHANGED <<poolVars, acceptVars, serverVars>>
    \/ PostJob(t) /\ UNCHANGED <<loopVars, acceptVars, serverVars>>

(* A loop thread in the middle of add_task does nothing else.              *)
LoopThread(l) ==
    /\ l \notin unposted
    /\ LoopStep(l) /\ UNCHANGED <<poolVars, acceptVars, serverVars>>

Next ==
    \/ PeerConnect
    \/ \E t \in Threads : FinishPost(t)
    \/ \E l \in Loops : LoopThread(l)
    \/ MainStep
    \/ \E l \in Subs : SubStep(l)
    \/ \E w \in Workers : WorkerThread(w)
    \/ StopAcceptor \/ Destroys

(* Every thread that can go on does. epoll_wait returns when the eventfd   *)
(* or the listening socket has something; the peers need do nothing, and   *)
(* main() need never end.                                                  *)
LoopRuns(l) ==
    \/ FinishPost(l) \/ LoopThread(l)
    \/ l = Main /\ MainStep
    \/ l \in Subs /\ (lpc[l] = "wait" => readable[l]) /\ SubStep(l)

Fairness ==
    /\ \A l \in Loops : WF_vars(LoopRuns(l))
    /\ \A w \in Workers : WF_vars(FinishPost(w) \/ WorkerThread(w))
    /\ WF_vars(FinishPost(User) \/ Destroys)

Spec == Init /\ [][Next]_vars

FairSpec == Spec /\ Fairness

-----------------------------------------------------------------------------
(* The variables are what they are meant to be; there are never more       *)
(* connections than peers, and the loops are destroyed in order.           *)
Items == [kind : {"init", "reply", "remove", "stop"}, conn : Nat]

TypeOK ==
    /\ queue \in [Loops -> Seq(Items)] /\ running \in [Loops -> Seq(Items)]
    /\ readable \in [Loops -> BOOLEAN] /\ quit \in [Loops -> BOOLEAN]
    /\ lpc \in [Loops -> LoopPcs]
    /\ batch \in [Loops -> SUBSET ({Trigger, Accepting} \union {Event(c) : c \in Conns})]
    /\ owes \subseteq Threads \X Loops /\ late \subseteq Threads
    /\ jobs \in Seq(Conns) /\ sem \in Nat /\ up \in BOOLEAN
    /\ posts \in 0 .. Cardinality(Workers) /\ unposted \subseteq Subs
    /\ wpc \in [Workers -> WorkerPcs] /\ task \in [Workers -> Nat]
    /\ arrived \in 0 .. MaxConns /\ backlog \in Nat
    /\ edge \in BOOLEAN /\ stranded \in BOOLEAN
    /\ listening \in BOOLEAN /\ stopped \in BOOLEAN
    /\ robin \in Nat /\ robin + backlog = arrived
    /\ mgr \subseteq 0 .. robin - 1
    /\ conn \in [Conns -> ConnStates] /\ reqs \in 0 .. MaxReqs
    /\ upc \in UserPcs /\ victim \in 0 .. NSub + 1
    /\ \A l \in Loops : lpc[l] = "gone" <=> l < victim

(* The destructor's order (TCPServer.cpp:63): whatever the connections     *)
(* notify while the loops stop, no loop and not the owner ever posts to a  *)
(* loop that has been destroyed. The pool, stopped last, still may.        *)
LatePostsAreThePools == late \subseteq Workers

(* A connection in the backlog of the edge-triggered listening socket is   *)
(* about to be accepted, unless an accept has failed.                      *)
NoStrandedBacklog ==
    listening /\ backlog > 0 =>
        edge \/ Accepting \in batch[Main] \/ lpc[Main] = "accept" \/ stranded

(* Once Acceptor::stop has returned no connection is dispatched any more.  *)
AcceptorQuiet == [][upc \notin {"serve", "stopping"} => robin' = robin]_vars

(* Whatever is posted to a loop, a new connection, an answer, a removal or *)
(* the stop, is taken by the loop's thread, unless the loop is told to     *)
(* quit first: no push and write slip past the read and the swap.          *)
PostedIsRun == \A l \in Loops : queue[l] # <<>> ~> (queue[l] = <<>> \/ quit[l])

(* The destructors return: every loop notices quit_, every worker the      *)
(* cleared flag, whatever they were doing or waiting for.                  *)
DestructorReturns == upc = "stopping" ~> upc = "done"

=============================================================================
