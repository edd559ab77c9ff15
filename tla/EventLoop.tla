------------------------------ MODULE EventLoop ------------------------------
(***************************************************************************)
(* server/src/net/EventLoop.cpp and EventTrigger.cpp: loops that other     *)
(* threads post tasks to. A post is two steps, the push under the mutex    *)
(* and the write to the eventfd; the loop's answer is three, epoll_wait,   *)
(* the read of the eventfd and the swap under the mutex. What a task or an *)
(* event of a channel does is left to the module that extends this one.    *)
(***************************************************************************)
EXTENDS Naturals, Sequences, FiniteSets

CONSTANT NSub       \* REACTOR_POOL_SIZE_, a power of two

ASSUME LoopAssumption == NSub \in Nat \ {0}

(* The sub loops and the main loop, in the order of their destruction. *)
Subs == 0 .. NSub - 1
Main == NSub
Loops == 0 .. NSub

VARIABLES
    queue,     \* task_queue_ of each loop
    readable,  \* its eventfd has been written and not read since
    quit,      \* quit_
    lpc,       \* where its thread is; "gone" when the loop is destroyed
    batch,     \* what epoll_wait returned and is not handled yet
    running,   \* the swapped-out tasks
    owes,      \* <<thread, loop>>: pushed a task (or set quit_), not written yet
    late       \* (history) threads that posted to a destroyed loop

loopVars == <<queue, readable, quit, lpc, batch, running, owes, late>>

LoopPcs == {"work", "wait", "swap", "accept", "exited", "gone"}

LoopInit ==
    /\ queue = [l \in Loops |-> <<>>]
    /\ readable = [l \in Loops |-> FALSE]
    /\ quit = [l \in Loops |-> FALSE]
    /\ lpc = [l \in Loops |-> "work"]
    /\ batch = [l \in Loops |-> {}]
    /\ running = [l \in Loops |-> <<>>]
    /\ owes = {}
    /\ late = {}

(* A thread in the middle of a post does nothing else. *)
Free(t) == \A p \in owes : p[1] # t

(* Mutation of Post: a loop that has tasks or runs some is not woken. *)
PostSkipsWake(t, l, task) ==
    IF lpc[l] = "gone" THEN late' = late \union {t} /\ UNCHANGED <<queue, owes>>
    ELSE /\ queue' = [queue EXCEPT ![l] = Append(@, task)]
         /\ owes' = IF queue[l] = <<>> /\ running[l] = <<>> THEN owes \union {<<t, l>>} ELSE owes
         /\ UNCHANGED late

(* queue_in_loop by thread t, up to the write. A loop that was destroyed   *)
(* is freed memory; the model takes the outcome in which it still reads as *)
(* the closed trigger.                                                     *)
Post(t, l, task) ==
    IF lpc[l] = "gone" THEN late' = late \union {t} /\ UNCHANGED <<queue, owes>>
    ELSE /\ queue' = [queue EXCEPT ![l] = Append(@, task)]
         /\ owes' = owes \union {<<t, l>>}
         /\ UNCHANGED late

(* wake_up. *)
WakeUp(t, l) ==
    /\ <<t, l>> \in owes
    /\ owes' = owes \ {<<t, l>>}
    /\ IF lpc[l] = "gone" THEN late' = late \union {t} /\ UNCHANGED readable
       ELSE readable' = [readable EXCEPT ![l] = TRUE] /\ UNCHANGED late
    /\ UNCHANGED <<queue, quit, lpc, batch, running>>

-----------------------------------------------------------------------------
(* The thread of loop l, EventLoop::loop: it works through the batch and   *)
(* the tasks, looks at quit_, and waits. A step ends where another thread  *)
(* could tell.                                                             *)

Goes(l, from, to) ==
    /\ lpc[l] = from /\ running[l] = <<>> /\ Free(l)
    /\ lpc' = [lpc EXCEPT ![l] = to]

CheckQuit(l) ==
    /\ batch[l] = {}
    /\ Goes(l, "work", IF quit[l] THEN "exited" ELSE "wait")
    /\ UNCHANGED <<queue, readable, quit, batch, running, owes, late>>

(* epoll_wait returns the eventfd if it is readable, and other events. The *)
(* trigger is registered edge-triggered; since the loop reads the eventfd  *)
(* after every event it reports, readable means written since the last.    *)
Item(kind, c) == [kind |-> kind, conn |-> c]

Trigger == Item("trigger", 0)

EpollWait(l, events) ==
    /\ Goes(l, "wait", "work")
    /\ batch' = [batch EXCEPT ![l] = events \union (IF readable[l] THEN {Trigger} ELSE {})]
    /\ batch'[l] # {}
    /\ UNCHANGED <<queue, readable, quit, running, owes, late>>

(* do_pending_tasks: the eventfd is read (handle_wake_up), ...             *)
HandleTrigger(l) ==
    /\ Trigger \in batch[l]
    /\ Goes(l, "work", "swap")
    /\ batch' = [batch EXCEPT ![l] = @ \ {Trigger}]
    /\ readable' = [readable EXCEPT ![l] = FALSE]
    /\ UNCHANGED <<queue, quit, running, owes, late>>

(* Mutation of SwapTasks: one task is taken for every read. *)
SwapOne(l) ==
    /\ Goes(l, "swap", "work")
    /\ LET n == IF queue[l] = <<>> THEN 0 ELSE 1
       IN  /\ running' = [running EXCEPT ![l] = SubSeq(queue[l], 1, n)]
           /\ queue' = [queue EXCEPT ![l] = SubSeq(@, n + 1, Len(@))]
    /\ UNCHANGED <<readable, quit, batch, owes, late>>

(* ... the queue swapped, ... *)
SwapTasks(l) ==
    /\ Goes(l, "swap", "work")
    /\ running' = [running EXCEPT ![l] = queue[l]]
    /\ queue' = [queue EXCEPT ![l] = <<>>]
    /\ UNCHANGED <<readable, quit, batch, owes, late>>

(* ... and its tasks run, one by one. *)
TaskIs(l, kind) ==
    /\ lpc[l] = "work" /\ Free(l)
    /\ running[l] # <<>> /\ Head(running[l]).kind = kind

PopTask(l) == running' = [running EXCEPT ![l] = Tail(@)]

LoopStep(l) == CheckQuit(l) \/ HandleTrigger(l) \/ SwapTasks(l)

-----------------------------------------------------------------------------
(* ~EventLoop by thread t: quit_ is set and the eventfd written, then the  *)
(* thread is joined and the tasks nobody will run are destroyed.           *)

SetQuit(t, l) ==
    /\ quit' = [quit EXCEPT ![l] = TRUE]
    /\ owes' = owes \union {<<t, l>>}
    /\ UNCHANGED <<queue, readable, lpc, batch, running, late>>

JoinLoop(t, l) ==
    /\ Free(t) /\ lpc[l] = "exited"
    /\ lpc' = [lpc EXCEPT ![l] = "gone"]
    /\ queue' = [queue EXCEPT ![l] = <<>>]
    /\ UNCHANGED <<readable, quit, batch, running, owes, late>>

-----------------------------------------------------------------------------
(* No wake-up is lost: a loop does not wait with tasks in its queue, nor   *)
(* after it has been told to quit, unless its eventfd is readable or some  *)
(* thread is about to write it.                                            *)
WakeupPending ==
    \A l \in Loops :
        lpc[l] = "wait" /\ (queue[l] # <<>> \/ quit[l]) =>
            readable[l] \/ \E p \in owes : p[2] = l

=============================================================================
