------------------------------ MODULE AsyncLog ------------------------------
(***************************************************************************)
(* asynclog: LogBuffer.cpp and LogFlusher.cpp. Any thread calls push(); the *)
(* flusher thread waits, takes the full blocks and gives them to LogFile;  *)
(* the thread that destroys the Logger stops it and joins the flusher.     *)
(* What one lock of log_buffer_mutex_ protects is one action. A block is   *)
(* the sequence of the records in it (write_pos_ is its length).           *)
(***************************************************************************)
EXTENDS Naturals, Sequences, FiniteSets, SequencesExt

CONSTANTS
    Blocks,     \* BUFFER_POOL_INIT_SIZE
    BlockCap,   \* IOV_MAX: records in a block
    MaxLogs     \* bound: records accepted in all

ASSUME LogAssumption == Blocks \in Nat \ {0} /\ BlockCap \in Nat \ {0} /\ MaxLogs \in Nat

VARIABLES
    available,   \* available_buffer_pool_; records go into its front
    flushing,    \* flushing_buffer_pool_
    held,        \* buffer_data of flush_routine: a sequence of at most one block
    enable,      \* buffer_enable_
    signalled,   \* the sleeping flusher has been notified
    state,       \* what wait_for_flush_or_timeout returned last
    pc,          \* the flusher: "wait", "asleep", "take", "write", "recycle", "exited"
    owner,       \* the Logger's destructor: "running", "joining", "joined"
    accepted,    \* (history) records accepted so far, numbered from 1
    handed       \* (history) the records write_log was called with

buffers == <<available, flushing, held>>
vars == <<available, flushing, held, enable, signalled, state, pc, owner, accepted, handed>>

Init ==
    /\ available = [i \in 1 .. Blocks |-> <<>>]
    /\ flushing = <<>> /\ held = <<>>
    /\ enable = TRUE /\ signalled = FALSE
    /\ state = "FLUSH" /\ pc = "wait" /\ owner = "running"
    /\ accepted = 0 /\ handed = <<>>

(* notify_all: it reaches the flusher only if it is asleep. *)
Notify == signalled' = (signalled \/ pc = "asleep")

(* What the flusher waits for. *)
Wanted == ~enable \/ flushing # <<>>

-----------------------------------------------------------------------------
(* The callers of the Logger. *)

(* Mutation of Push: a full block is moved without a notify. *)
PushSilently ==
    /\ enable /\ available # <<>> /\ accepted < MaxLogs
    /\ accepted' = accepted + 1
    /\ LET block == Append(Head(available), accepted')
       IN  IF Len(block) < BlockCap
           THEN available' = <<block>> \o Tail(available) /\ UNCHANGED flushing
           ELSE available' = Tail(available) /\ flushing' = Append(flushing, block)
    /\ UNCHANGED <<signalled, held, enable, state, pc, owner, handed>>

(* push() on an enabled buffer with a block to write to; otherwise it      *)
(* returns UNENABLE or ERR and changes nothing. The record that fills the  *)
(* block moves it to the flushing queue and wakes the flusher.             *)
Push ==
    /\ enable /\ available # <<>> /\ accepted < MaxLogs
    /\ accepted' = accepted + 1
    /\ LET block == Append(Head(available), accepted')
       IN  IF Len(block) < BlockCap
           THEN /\ available' = <<block>> \o Tail(available)
                /\ UNCHANGED <<flushing, signalled>>
           ELSE /\ available' = Tail(available)
                /\ flushing' = Append(flushing, block)
                /\ Notify
    /\ UNCHANGED <<held, enable, state, pc, owner, handed>>

(* ~Logger: LogFlusher::stop disables the buffer, ... *)
Stop ==
    /\ owner = "running"
    /\ enable' = FALSE
    /\ Notify
    /\ owner' = "joining"
    /\ UNCHANGED <<buffers, state, pc, accepted, handed>>

(* ... and joins the flusher thread. *)
Join ==
    /\ owner = "joining" /\ pc = "exited"
    /\ owner' = "joined"
    /\ UNCHANGED <<buffers, enable, signalled, state, pc, accepted, handed>>

-----------------------------------------------------------------------------
(* The flusher thread. *)

(* Mutation of ForceSwap: only a full block is moved. *)
ForceSwapFull ==
    IF available = <<>> \/ Len(Head(available)) < BlockCap
    THEN UNCHANGED <<available, flushing>>
    ELSE /\ flushing' = Append(flushing, Head(available))
         /\ available' = Tail(available)

(* force_swap_buffer_locked: a block with records in it starts its way to  *)
(* the file before it is full.                                             *)
ForceSwap ==
    IF available = <<>> \/ Head(available) = <<>>
    THEN UNCHANGED <<available, flushing>>
    ELSE /\ flushing' = Append(flushing, Head(available))
         /\ available' = Tail(available)

(* Mutation of Wakes: closing does not swap the block being filled. *)
WakesWithoutSwap ==
    /\ pc' = "take" /\ signalled' = FALSE
    /\ state' = IF ~enable THEN "CLOSE" ELSE IF flushing # <<>> THEN "FLUSH" ELSE "TIME_OUT"
    /\ IF enable /\ flushing = <<>> THEN ForceSwap ELSE UNCHANGED <<available, flushing>>
    /\ UNCHANGED <<held, enable, owner, accepted, handed>>

(* The rest of wait_for_flush_or_timeout once wait_for has returned.       *)
Wakes ==
    /\ pc' = "take" /\ signalled' = FALSE
    /\ \/ ~enable /\ state' = "CLOSE" /\ ForceSwap
       \/ enable /\ flushing = <<>> /\ state' = "TIME_OUT" /\ ForceSwap
       \/ enable /\ flushing # <<>> /\ state' = "FLUSH" /\ UNCHANGED <<available, flushing>>
    /\ UNCHANGED <<held, enable, owner, accepted, handed>>

(* wait_for tests its predicate before it sleeps. *)
WaitPasses == pc = "wait" /\ Wanted /\ Wakes

Sleep ==
    /\ pc = "wait" /\ ~Wanted
    /\ pc' = "asleep" /\ signalled' = FALSE
    /\ UNCHANGED <<buffers, enable, state, owner, accepted, handed>>

(* A notified flusher that finds the predicate true. (One that does not,   *)
(* after a spurious wake-up, goes back to sleep.)                          *)
WakeUp == pc = "asleep" /\ signalled /\ Wanted /\ Wakes

TimeOut == pc = "asleep" /\ Wakes

(* Mutations of Take: the newest block is taken first, or the thread does  *)
(* not end.                                                                *)
TakeNewest ==
    /\ pc = "take"
    /\ IF flushing # <<>>
       THEN held' = <<Last(flushing)>> /\ flushing' = Front(flushing) /\ pc' = "write"
       ELSE /\ pc' = IF state = "CLOSE" THEN "exited" ELSE "wait"
            /\ UNCHANGED <<held, flushing>>
    /\ UNCHANGED <<available, enable, signalled, state, owner, accepted, handed>>

TakeNeverEnds ==
    /\ pc = "take"
    /\ IF flushing # <<>>
       THEN held' = <<Head(flushing)>> /\ flushing' = Tail(flushing) /\ pc' = "write"
       ELSE pc' = "wait" /\ UNCHANGED <<held, flushing>>
    /\ UNCHANGED <<available, enable, signalled, state, owner, accepted, handed>>

(* get_flushing_buffer; with none left the loop ends the thread or waits.  *)
Take ==
    /\ pc = "take"
    /\ IF flushing # <<>>
       THEN held' = <<Head(flushing)>> /\ flushing' = Tail(flushing) /\ pc' = "write"
       ELSE /\ pc' = IF state = "CLOSE" THEN "exited" ELSE "wait"
            /\ UNCHANGED <<held, flushing>>
    /\ UNCHANGED <<available, enable, signalled, state, owner, accepted, handed>>

(* LogFile::write_log, outside the lock (module LogFile says what becomes  *)
(* of the block).                                                          *)
WriteLog ==
    /\ pc = "write"
    /\ handed' = handed \o Head(held)
    /\ pc' = "recycle"
    /\ UNCHANGED <<buffers, enable, signalled, state, owner, accepted>>

(* Mutations of Recycle: the block goes to the front of the pool, or the   *)
(* flusher keeps its pointer to it.                                        *)
RecycleFirst ==
    /\ pc = "recycle"
    /\ available' = <<<<>>>> \o available
    /\ held' = <<>>
    /\ pc' = "take"
    /\ UNCHANGED <<flushing, enable, signalled, state, owner, accepted, handed>>

RecycleHolds ==
    /\ pc = "recycle"
    /\ available' = Append(available, <<>>)
    /\ pc' = "take"
    /\ UNCHANGED <<held, flushing, enable, signalled, state, owner, accepted, handed>>

(* recycle_buffer empties the block and puts it behind the others. *)
Recycle ==
    /\ pc = "recycle"
    /\ available' = Append(available, <<>>)
    /\ held' = <<>>
    /\ pc' = "take"
    /\ UNCHANGED <<flushing, enable, signalled, state, owner, accepted, handed>>

Flusher == WaitPasses \/ Sleep \/ WakeUp \/ TimeOut \/ Take \/ WriteLog \/ Recycle

Next == Push \/ Stop \/ Join \/ Flusher

Spec == Init /\ [][Next]_vars

(* The flusher is a thread of its own, its sleep ends after three seconds  *)
(* at the latest, and a join returns once the thread has ended. Nobody has *)
(* to log or to stop.                                                      *)
FairSpec == Spec /\ WF_vars(Flusher) /\ WF_vars(Join)

-----------------------------------------------------------------------------
Block == Seq(Nat)

TypeOK ==
    /\ available \in Seq(Block) /\ flushing \in Seq(Block) /\ held \in Seq(Block)
    /\ Len(held) = IF pc \in {"write", "recycle"} THEN 1 ELSE 0
    /\ enable \in BOOLEAN /\ signalled \in BOOLEAN
    /\ state \in {"FLUSH", "TIME_OUT", "CLOSE"}
    /\ pc \in {"wait", "asleep", "take", "write", "recycle", "exited"}
    /\ owner \in {"running", "joining", "joined"}
    /\ accepted \in Nat /\ handed \in Seq(Nat)

(* No block leaks, none is on its way to the file without records, none is *)
(* left full in the pool, and only the front of the pool has records: the  *)
(* block push() writes to is always the one the oldest unswapped record is *)
(* in (push, recycle_buffer, force_swap_buffer_locked).                    *)
PoolIntact ==
    /\ Len(available) + Len(flushing) + Len(held) = Blocks
    /\ \A i \in 1 .. Len(flushing) : flushing[i] # <<>>
    /\ \A i \in 1 .. Len(available) :
          Len(available[i]) < BlockCap /\ (i > 1 => available[i] = <<>>)

(* The flusher never sleeps through work: if there is a full block, or the *)
(* log is being stopped, while it sleeps, it has been notified             *)
(* (wait_for_flush_or_timeout against push and stop).                      *)
NoMissedWakeup == pc = "asleep" /\ Wanted => signalled

(* Every record push() returned OK for has been given to the file or is in *)
(* exactly one block, and the order is that of the pushes.                 *)
NothingLost ==
    LET writing == IF pc = "write" THEN Head(held) ELSE <<>>
        filling == IF available = <<>> THEN <<>> ELSE Head(available)
    IN  handed \o writing \o FlattenSeq(flushing) \o filling = [i \in 1 .. accepted |-> i]

(* The buffer and the flusher implement FifoLog: records reach the file in *)
(* the order of the pushes, and ~Logger returns with nothing left behind.  *)
Promise == INSTANCE FifoLog WITH open <- enable, finished <- owner = "joined"

KeepsPromise == Promise!Spec

(* Every accepted record is given to the file, stop or no stop: the timed  *)
(* wait takes care of the block that never fills.                          *)
EveryLogHanded == \A n \in 1 .. MaxLogs : accepted >= n ~> Len(handed) >= n

(* ~Logger returns. *)
StopReturns == owner = "joining" ~> owner = "joined"

=============================================================================
