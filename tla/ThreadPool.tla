----------------------------- MODULE ThreadPool -----------------------------
(***************************************************************************)
(* server/include/base/ThreadPool.h: workers that wait on a semaphore and  *)
(* take jobs from a queue under a mutex. add_task pushes the job and then  *)
(* posts the semaphore; the destructor clears running_state_, posts once   *)
(* for every worker and joins them. What a job does is left to the module  *)
(* that extends this one.                                                  *)
(***************************************************************************)
EXTENDS Naturals, Sequences, FiniteSets

CONSTANT Workers    \* the threads of the pool

ASSUME WorkersAssumption == IsFiniteSet(Workers)

VARIABLES
    jobs,      \* task_queue_
    sem,       \* sem_
    up,        \* running_state_
    posts,     \* how many times the destructor has posted the semaphore
    unposted,  \* threads that pushed a job and have not posted yet
    wpc,       \* where each worker is
    task       \* the job it has taken last

poolVars == <<jobs, sem, up, posts, unposted, wpc, task>>

WorkerPcs == {"check", "sem", "lock", "job", "post", "done"}

PoolInit ==
    /\ jobs = <<>> /\ sem = 0 /\ up = TRUE /\ posts = 0 /\ unposted = {}
    /\ wpc = [w \in Workers |-> "check"]
    /\ task = [w \in Workers |-> 0]

(* add_task by thread t: the push, and the sem_post. *)
PushJob(t, job) ==
    /\ jobs' = Append(jobs, job)
    /\ unposted' = unposted \union {t}
    /\ UNCHANGED <<sem, up, posts, wpc, task>>

PostJob(t) ==
    /\ t \in unposted
    /\ unposted' = unposted \ {t}
    /\ sem' = sem + 1
    /\ UNCHANGED <<jobs, up, posts, wpc, task>>

-----------------------------------------------------------------------------
(* worker_routine *)

Moves(w, from, to) == wpc[w] = from /\ wpc' = [wpc EXCEPT ![w] = to]

CheckRunning(w) ==
    /\ Moves(w, "check", IF up THEN "sem" ELSE "done")
    /\ UNCHANGED <<jobs, sem, up, posts, unposted, task>>

SemWait(w) ==
    /\ sem > 0
    /\ Moves(w, "sem", "lock")
    /\ sem' = sem - 1
    /\ UNCHANGED <<jobs, up, posts, unposted, task>>

(* A permit without a job (one of the destructor's): back to the check. *)
FindNoJob(w) ==
    /\ jobs = <<>>
    /\ Moves(w, "lock", "check")
    /\ UNCHANGED <<jobs, sem, up, posts, unposted, task>>

TakeJob(w) ==
    /\ jobs # <<>>
    /\ Moves(w, "lock", "job")
    /\ jobs' = Tail(jobs)
    /\ task' = [task EXCEPT ![w] = Head(jobs)]
    /\ UNCHANGED <<sem, up, posts, unposted>>

(* Mutation of WorkerStep: a worker drops its permit when the flag is set. *)
WorkerStepDrops(w) ==
    \/ CheckRunning(w) \/ SemWait(w) \/ TakeJob(w)
    \/ /\ Moves(w, "lock", "check")
       /\ UNCHANGED <<jobs, sem, up, posts, unposted, task>>

WorkerStep(w) == CheckRunning(w) \/ SemWait(w) \/ FindNoJob(w) \/ TakeJob(w)

-----------------------------------------------------------------------------
(* ~ThreadPool *)

StopPool ==
    /\ up' = FALSE
    /\ UNCHANGED <<jobs, sem, posts, unposted, wpc, task>>

(* Mutation of PostStop: one permit for the whole pool. *)
PostStopOnce ==
    /\ ~up /\ posts < Cardinality(Workers)
    /\ posts' = Cardinality(Workers)
    /\ sem' = sem + 1
    /\ UNCHANGED <<jobs, up, unposted, wpc, task>>

PostStop ==
    /\ ~up /\ posts < Cardinality(Workers)
    /\ posts' = posts + 1
    /\ sem' = sem + 1
    /\ UNCHANGED <<jobs, up, unposted, wpc, task>>

PoolJoined == posts = Cardinality(Workers) /\ \A w \in Workers : wpc[w] = "done"

-----------------------------------------------------------------------------
(* Permits: on the semaphore, held by a worker on its way to the queue, or *)
(* about to be posted by a thread that has pushed.                         *)
Permits == sem + Cardinality({w \in Workers : wpc[w] = "lock"}) + Cardinality(unposted)

(* Every job in the queue has a permit of its own, and until the           *)
(* destructor there are no others: no job waits while all workers sleep,   *)
(* and no worker that was woken finds its job taken.                       *)
PermitPerJob ==
    /\ Permits >= Len(jobs)
    /\ up => Permits = Len(jobs)

=============================================================================
