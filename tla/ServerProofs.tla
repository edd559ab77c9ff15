---------------------------- MODULE ServerProofs ----------------------------
(***************************************************************************)
(* Server.tla for any number of sub loops, workers, connections and        *)
(* requests: the invariant below is inductive, and with it no wake-up is   *)
(* lost, every queued job has its permit, no loop posts to a destroyed     *)
(* one, and nothing is dispatched once the acceptor has been stopped.      *)
(***************************************************************************)
EXTENDS Server, FiniteSetTheorems, SequenceTheorems, TLAPS

Owed(l) == readable[l] \/ \E p \in owes : p[2] = l

(* A loop that is not about to swap its queue will be told of what is in   *)
(* it: by the batch it is working on, or by its eventfd.                   *)
Wakeups ==
    \A l \in Loops :
        /\ lpc[l] = "wait" => batch[l] = {}
        /\ queue[l] # <<>> /\ lpc[l] \in {"work", "wait", "accept"} =>
             Trigger \in batch[l] \/ Owed(l)
        /\ quit[l] /\ lpc[l] = "wait" => Owed(l)

(* Who is in the middle of a post, and to which loop.                      *)
Posters ==
    \A p \in owes :
        /\ p[1] = Main => lpc[Main] = "accept"
        /\ p[1] \in Subs => p[2] = Main /\ lpc[p[1]] = "work"
        /\ p[1] = User => \/ upc = "stopping" /\ p[2] = Main
                          \/ upc = "loops" /\ p[2] = victim

(* The destructor's order. *)
Order ==
    /\ lpc[Main] = "accept" => listening
    /\ listening => ~stopped
    /\ ~stopped => upc \in {"serve", "stopping"}
    /\ upc \in {"serve", "stopping"} => victim = 0
    /\ upc = "loops" => victim \in Loops

IInv ==
    /\ TypeOK /\ Wakeups /\ Posters /\ Order
    /\ PermitPerJob /\ LatePostsAreThePools /\ NoStrandedBacklog

-----------------------------------------------------------------------------
(* Facts about the values. *)

LEMMA LoopFacts ==
    /\ NSub \in Nat \ {0} /\ Main \in Loops /\ Main \notin Subs /\ Subs \subseteq Loops
    /\ \A l \in Loops : l \in Subs \/ l = Main
    /\ 0 \in Loops
    /\ User \notin Loops /\ User \notin Workers /\ Workers \cap Loops = {}
BY LoopAssumption, ServerAssumption DEF Loops, Main, Subs

LEMMA ItemFacts ==
    /\ Trigger # Accepting
    /\ \A c : Event(c) # Trigger /\ Event(c) # Accepting
BY DEF Trigger, Accepting, Event, Item

LEMMA LoopOfInSubs == ASSUME NEW c \in Nat PROVE LoopOf(c) \in Subs
BY LoopAssumption DEF LoopOf, Subs

LEMMA Established == Init => IInv
<1> SUFFICES ASSUME Init PROVE IInv
    OBVIOUS
<1> USE LoopFacts, ServerAssumption DEF Init, LoopInit, PoolInit
<1>1. TypeOK
  <2>1. Cardinality(Workers) \in Nat /\ posts \in 0 .. Cardinality(Workers)
      BY WorkersAssumption, FS_CardinalityType
  <2>2. \A l \in Loops : ~(l < 0)
      BY DEF Loops
  <2>3. /\ queue \in [Loops -> Seq(Items)] /\ running \in [Loops -> Seq(Items)]
        /\ jobs \in Seq(Conns)
      OBVIOUS
  <2>4. /\ lpc \in [Loops -> LoopPcs] /\ wpc \in [Workers -> WorkerPcs]
        /\ task \in [Workers -> Nat] /\ conn \in [Conns -> ConnStates]
        /\ batch \in [Loops -> SUBSET ({Trigger, Accepting} \union {Event(c) : c \in Conns})]
      BY DEF LoopPcs, WorkerPcs, ConnStates
  <2>5. victim \in 0 .. NSub + 1 /\ upc \in UserPcs /\ reqs \in 0 .. MaxReqs /\ arrived \in 0 .. MaxConns
      BY DEF UserPcs
  <2> QED
      BY <2>1, <2>2, <2>3, <2>4, <2>5 DEF TypeOK
<1>2. Wakeups
    BY DEF Wakeups
<1>3. Posters
    BY DEF Posters
<1>4. Order
    BY DEF Order
<1>5. PermitPerJob
  <2>1. {w \in Workers : wpc[w] = "lock"} = {}
      OBVIOUS
  <2>2. Cardinality({}) = 0
      BY FS_EmptySet
  <2>3. Len(jobs) = 0
      OBVIOUS
  <2> QED
      BY <2>1, <2>2, <2>3 DEF PermitPerJob, Permits
<1>6. LatePostsAreThePools /\ NoStrandedBacklog
    BY DEF LatePostsAreThePools, NoStrandedBacklog
<1> QED
    BY <1>1, <1>2, <1>3, <1>4, <1>5, <1>6 DEF IInv


(* A post, whoever makes it and whatever has become of the loop. *)
LEMMA PostTyped ==
    ASSUME TypeOK, NEW t \in Threads, NEW l \in Loops, NEW k \in Items, Post(t, l, k)
    PROVE  /\ queue' \in [Loops -> Seq(Items)]
           /\ owes' \subseteq Threads \X Loops /\ late' \subseteq Threads
<1>1. /\ queue \in [Loops -> Seq(Items)]
      /\ owes \subseteq Threads \X Loops /\ late \subseteq Threads
    BY DEF TypeOK
<1>2. CASE lpc[l] = "gone"
    BY <1>1, <1>2 DEF Post
<1>3. CASE lpc[l] # "gone"
  <2>1. Append(queue[l], k) \in Seq(Items)
      BY <1>1, AppendProperties
  <2> QED
      BY <1>1, <1>3, <2>1 DEF Post
<1> QED
    BY <1>2, <1>3

LEMMA PostLive ==
    ASSUME NEW t, NEW l, NEW k, Post(t, l, k), lpc[l] # "gone"
    PROVE  owes' = owes \union {<<t, l>>} /\ late' = late
BY DEF Post

LEMMA PostWakes ==
    ASSUME TypeOK, Wakeups, NEW t, NEW l \in Loops, NEW k, Post(t, l, k),
           UNCHANGED <<readable, quit, lpc>>,
           \A m \in Loops : /\ batch'[m] \subseteq batch[m]
                            /\ Trigger \in batch[m] => Trigger \in batch'[m]
    PROVE  Wakeups'
<1>1. CASE lpc[l] = "gone"
    BY <1>1 DEF Post, Wakeups, Owed, TypeOK
<1>2. CASE lpc[l] # "gone"
  <2>1. /\ \A m \in Loops : m # l => queue'[m] = queue[m]
        /\ owes' = owes \union {<<t, l>>}
      BY <1>2 DEF Post, TypeOK
  <2>2. Owed(l)'
    <3>1. <<t, l>> \in owes' /\ <<t, l>>[2] = l
        BY <2>1
    <3> QED
        BY <3>1 DEF Owed
  <2>3. \A m \in Loops : Owed(m) => Owed(m)'
      BY <2>1 DEF Owed
  <2> QED
      BY <2>1, <2>2, <2>3 DEF Wakeups
<1> QED
    BY <1>1, <1>2

LEMMA PopTyped ==
    ASSUME TypeOK, NEW l \in Loops, NEW kind, TaskIs(l, kind), PopTask(l)
    PROVE  running' \in [Loops -> Seq(Items)] /\ Head(running[l]) \in Items
<1>1. running \in [Loops -> Seq(Items)] /\ running[l] # <<>>
    BY DEF TypeOK, TaskIs
<1>2. Tail(running[l]) \in Seq(Items) /\ Head(running[l]) \in Items
    BY <1>1, HeadTailProperties
<1> QED
    BY <1>1, <1>2 DEF PopTask

(* A sub loop that works has not been destroyed, so the main loop has not. *)
LEMMA MainIsThere ==
    ASSUME TypeOK, NEW l \in Subs, lpc[l] = "work"
    PROVE  lpc[Main] # "gone"
<1>1. ~(l < victim)
    BY LoopFacts DEF TypeOK
<1>2. l < Main /\ l \in Int /\ Main \in Int /\ victim \in Int
    BY LoopAssumption DEF Subs, Main, TypeOK
<1>3. ~(Main < victim) 
  <2>1. victim \in Loops \/ victim = NSub + 1
      BY LoopAssumption DEF TypeOK, Loops
  <2> QED
      BY <1>1, <1>2
<1> QED
    BY <1>3, LoopFacts DEF TypeOK

(* What the permits count is finite. *)
LEMMA UnpostedFinite == ASSUME TypeOK PROVE IsFiniteSet(unposted)
<1>1. IsFiniteSet(Subs)
    BY LoopAssumption, FS_Interval DEF Subs
<1> QED
    BY <1>1, FS_Subset DEF TypeOK

Locked == {w \in Workers : wpc[w] = "lock"}

LEMMA LockedFinite == IsFiniteSet(Locked) /\ Cardinality(Locked) \in Nat
BY WorkersAssumption, FS_Subset, FS_CardinalityType DEF Locked

-----------------------------------------------------------------------------
(* One lemma for each action. *)

LEMMA PeerConnectKeeps ==
    ASSUME IInv, PeerConnect
    PROVE  IInv'
<1> USE LoopFacts, ItemFacts DEF IInv, PeerConnect, loopVars, poolVars, serverVars
<1>1. TypeOK'
  <2>1. /\ backlog' \in Nat /\ arrived' \in 0 .. MaxConns
        /\ robin' + backlog' = arrived'
    <3>1. /\ robin \in Nat /\ backlog \in Nat /\ arrived \in 0 .. MaxConns
          /\ robin + backlog = arrived
        BY DEF TypeOK
    <3>2. MaxConns \in Nat
        BY ServerAssumption
    <3> QED
        BY <3>1, <3>2
  <2> QED
      BY <2>1 DEF TypeOK
<1>2. Wakeups'
    BY DEF TypeOK, Wakeups, Owed
<1>3. Posters'
    BY DEF TypeOK, Posters
<1>4. Order'
    BY DEF TypeOK, Order
<1>5. PermitPerJob'
    BY DEF TypeOK, PermitPerJob, Permits
<1>6. LatePostsAreThePools'
    BY DEF TypeOK, LatePostsAreThePools, Posters, Order
<1>7. NoStrandedBacklog'
    BY DEF TypeOK, NoStrandedBacklog, Order
<1> QED
    BY <1>1, <1>2, <1>3, <1>4, <1>5, <1>6, <1>7

LEMMA MainWaitsKeeps ==
    ASSUME IInv, MainWaits
    PROVE  IInv'
<1> USE LoopFacts, ItemFacts DEF IInv, MainWaits, EpollWait, Goes, poolVars, serverVars
<1>1. TypeOK'
    BY DEF TypeOK, Items, LoopPcs, WorkerPcs, ConnStates, UserPcs
<1>2. Wakeups'
    BY DEF TypeOK, Wakeups, Owed
<1>3. Posters'
    BY DEF TypeOK, Posters
<1>4. Order'
    BY DEF TypeOK, Order
<1>5. PermitPerJob'
    BY DEF TypeOK, PermitPerJob, Permits
<1>6. LatePostsAreThePools'
    BY DEF TypeOK, LatePostsAreThePools, Posters, Order
<1>7. NoStrandedBacklog'
  <2>1. batch[Main] = {} /\ lpc[Main] = "wait"
      BY DEF Wakeups
  <2>2. Heard => Accepting \in batch'[Main]
      BY DEF TypeOK
  <2> QED
      BY <2>1, <2>2 DEF NoStrandedBacklog, Heard
<1> QED
    BY <1>1, <1>2, <1>3, <1>4, <1>5, <1>6, <1>7

LEMMA SubWaitsKeeps ==
    ASSUME IInv, NEW l \in Subs, SubWaits(l)
    PROVE  IInv'
<1> USE LoopFacts, ItemFacts DEF IInv, SubWaits, EpollWait, Goes, poolVars, acceptVars, serverVars
<1>1. TypeOK'
    BY DEF TypeOK, Items, LoopPcs, WorkerPcs, ConnStates, UserPcs
<1>2. Wakeups'
    BY DEF TypeOK, Wakeups, Owed
<1>3. Posters'
    BY DEF TypeOK, Posters
<1>4. Order'
    BY DEF TypeOK, Order
<1>5. PermitPerJob'
    BY DEF TypeOK, PermitPerJob, Permits
<1>6. LatePostsAreThePools'
    BY DEF TypeOK, LatePostsAreThePools, Posters, Order
<1>7. NoStrandedBacklog'
    BY DEF TypeOK, NoStrandedBacklog, Order
<1> QED
    BY <1>1, <1>2, <1>3, <1>4, <1>5, <1>6, <1>7

LEMMA HandleAcceptKeeps ==
    ASSUME IInv, HandleAccept
    PROVE  IInv'
<1> USE LoopFacts, ItemFacts DEF IInv, HandleAccept, Goes, poolVars, acceptVars, serverVars
<1>1. TypeOK'
    BY DEF TypeOK, Items, LoopPcs, WorkerPcs, ConnStates, UserPcs
<1>2. Wakeups'
    BY DEF TypeOK, Wakeups, Owed
<1>3. Posters'
    BY DEF TypeOK, Posters
<1>4. Order'
    BY DEF TypeOK, Order
<1>5. PermitPerJob'
    BY DEF TypeOK, PermitPerJob, Permits
<1>6. LatePostsAreThePools'
    BY DEF TypeOK, LatePostsAreThePools, Posters, Order
<1>7. NoStrandedBacklog'
    BY DEF TypeOK, NoStrandedBacklog, Order
<1> QED
    BY <1>1, <1>2, <1>3, <1>4, <1>5, <1>6, <1>7

LEMMA AcceptOneKeeps ==
    ASSUME IInv, AcceptOne
    PROVE  IInv'
<1> USE LoopFacts, ItemFacts DEF IInv, AcceptOne, InAccept, Free, poolVars
<1>a. /\ robin \in Conns /\ LoopOf(robin) \in Subs
      /\ lpc[LoopOf(robin)] # "gone"
  <2>1. robin \in Conns /\ robin \in Nat
    <3>1. /\ robin \in Nat /\ backlog \in Nat /\ arrived \in 0 .. MaxConns
          /\ robin + backlog = arrived
        BY DEF TypeOK
    <3>2. MaxConns \in Nat
        BY ServerAssumption
    <3> QED
        BY <3>1, <3>2 DEF Conns
  <2>2. victim = 0 /\ LoopOf(robin) \in Subs
      BY <2>1, LoopOfInSubs DEF Order
  <2>3. ~(LoopOf(robin) < 0)
      BY <2>2 DEF Subs
  <2> QED
      BY <2>1, <2>2, <2>3 DEF TypeOK
<1>b. /\ owes' = owes \union {<<Main, LoopOf(robin)>>}
      /\ late' = late
    BY <1>a, PostLive
<1>c. /\ queue' \in [Loops -> Seq(Items)]
      /\ owes' \subseteq Threads \X Loops /\ late' \subseteq Threads
  <2>1. Item("init", robin) \in Items /\ Main \in Threads
      BY <1>a DEF Item, Items, Threads, Conns
  <2> QED
      BY <1>a, <2>1, PostTyped
<1>1. TypeOK'
  <2>1. /\ robin' \in Nat /\ backlog' \in Nat /\ robin' + backlog' = arrived'
        /\ mgr' \subseteq 0 .. robin' - 1
    <3>1. /\ robin \in Nat /\ backlog \in Nat /\ arrived \in 0 .. MaxConns
          /\ robin + backlog = arrived /\ mgr \subseteq 0 .. robin - 1
        BY DEF TypeOK
    <3>2. MaxConns \in Nat
        BY ServerAssumption
    <3> QED
        BY <3>1, <3>2
  <2>2. conn' \in [Conns -> ConnStates]
      BY DEF TypeOK, ConnStates
  <2> QED
      BY <1>c, <2>1, <2>2 DEF TypeOK
<1>2. Wakeups'
  <2>1. \A m \in Loops : batch'[m] = batch[m]
      OBVIOUS
  <2> QED
      BY <1>a, <2>1, PostWakes
<1>3. Posters'
  <2>1. \A p \in owes : p[1] # Main
      BY DEF Free
  <2>2. /\ lpc' = lpc /\ lpc[Main] = "accept" /\ upc' = upc /\ victim' = victim
        /\ owes' = owes \union {<<Main, LoopOf(robin)>>}
      BY <1>b
  <2>3. Posters
      OBVIOUS
  <2> HIDE DEF IInv, AcceptOne, InAccept
  <2>4. SUFFICES ASSUME NEW p \in owes'
        PROVE  /\ p[1] = Main => lpc'[Main] = "accept"
               /\ p[1] \in Subs => p[2] = Main /\ lpc'[p[1]] = "work"
               /\ p[1] = User => \/ upc' = "stopping" /\ p[2] = Main
                                 \/ upc' = "loops" /\ p[2] = victim'
      BY DEF Posters
  <2>5. CASE p \in owes
      BY <2>2, <2>3, <2>5 DEF Posters
  <2>6. CASE p = <<Main, LoopOf(robin)>>
      BY <2>2, <2>6
  <2> QED
      BY <2>2, <2>5, <2>6
<1>4. Order'
    BY DEF TypeOK, Order
<1>5. PermitPerJob'
    BY DEF TypeOK, PermitPerJob, Permits
<1>6. LatePostsAreThePools'
    BY <1>b DEF LatePostsAreThePools
<1>7. NoStrandedBacklog'
    BY DEF TypeOK, NoStrandedBacklog, Order
<1> QED
    BY <1>1, <1>2, <1>3, <1>4, <1>5, <1>6, <1>7

LEMMA AcceptNoneKeeps ==
    ASSUME IInv, AcceptNone
    PROVE  IInv'
<1> USE LoopFacts, ItemFacts DEF IInv, AcceptNone, Goes, poolVars, acceptVars, serverVars, Free
<1>1. TypeOK'
    BY DEF TypeOK, Items, LoopPcs, WorkerPcs, ConnStates, UserPcs
<1>2. Wakeups'
    BY DEF TypeOK, Wakeups, Owed
<1>3. Posters'
    BY DEF TypeOK, Posters
<1>4. Order'
    BY DEF TypeOK, Order
<1>5. PermitPerJob'
    BY DEF TypeOK, PermitPerJob, Permits
<1>6. LatePostsAreThePools'
    BY DEF TypeOK, LatePostsAreThePools, Posters, Order
<1>7. NoStrandedBacklog'
    BY DEF TypeOK, NoStrandedBacklog, Order
<1> QED
    BY <1>1, <1>2, <1>3, <1>4, <1>5, <1>6, <1>7

LEMMA AcceptErrorKeeps ==
    ASSUME IInv, AcceptError
    PROVE  IInv'
<1> USE LoopFacts, ItemFacts DEF IInv, AcceptError, Goes, poolVars, serverVars, Free
<1>1. TypeOK'
    BY DEF TypeOK, Items, LoopPcs, WorkerPcs, ConnStates, UserPcs
<1>2. Wakeups'
    BY DEF TypeOK, Wakeups, Owed
<1>3. Posters'
    BY DEF TypeOK, Posters
<1>4. Order'
    BY DEF TypeOK, Order
<1>5. PermitPerJob'
    BY DEF TypeOK, PermitPerJob, Permits
<1>6. LatePostsAreThePools'
    BY DEF TypeOK, LatePostsAreThePools, Posters, Order
<1>7. NoStrandedBacklog'
    BY DEF TypeOK, NoStrandedBacklog, Order
<1> QED
    BY <1>1, <1>2, <1>3, <1>4, <1>5, <1>6, <1>7

LEMMA RemoveTaskKeeps ==
    ASSUME IInv, RemoveTask
    PROVE  IInv'
<1> USE LoopFacts, ItemFacts DEF IInv, RemoveTask, poolVars, acceptVars
<1>1. TypeOK'
  <2>1. /\ running' \in [Loops -> Seq(Items)]
        /\ Head(running[Main]) \in Items
      BY PopTyped
  <2> QED
      BY <2>1 DEF TypeOK, Items, LoopPcs, WorkerPcs, ConnStates, UserPcs
<1>2. Wakeups'
    BY DEF TypeOK, Wakeups, Owed
<1>3. Posters'
    BY DEF TypeOK, Posters
<1>4. Order'
    BY DEF TypeOK, Order
<1>5. PermitPerJob'
    BY DEF TypeOK, PermitPerJob, Permits
<1>6. LatePostsAreThePools'
    BY DEF TypeOK, LatePostsAreThePools, Posters, Order
<1>7. NoStrandedBacklog'
    BY DEF TypeOK, NoStrandedBacklog, Order
<1> QED
    BY <1>1, <1>2, <1>3, <1>4, <1>5, <1>6, <1>7

LEMMA StopTaskKeeps ==
    ASSUME IInv, StopTask
    PROVE  IInv'
<1> USE LoopFacts, ItemFacts DEF IInv, StopTask, poolVars, acceptVars
<1>1. TypeOK'
  <2>1. /\ running' \in [Loops -> Seq(Items)]
        /\ Head(running[Main]) \in Items
      BY PopTyped
  <2> QED
      BY <2>1 DEF TypeOK, Items, LoopPcs, WorkerPcs, ConnStates, UserPcs
<1>2. Wakeups'
    BY DEF TypeOK, Wakeups, Owed
<1>3. Posters'
    BY DEF TypeOK, Posters
<1>4. Order'
    BY DEF TypeOK, Order, TaskIs
<1>5. PermitPerJob'
    BY DEF TypeOK, PermitPerJob, Permits
<1>6. LatePostsAreThePools'
    BY DEF TypeOK, LatePostsAreThePools, Posters, Order
<1>7. NoStrandedBacklog'
    BY DEF TypeOK, NoStrandedBacklog, Order
<1> QED
    BY <1>1, <1>2, <1>3, <1>4, <1>5, <1>6, <1>7

LEMMA InitTaskKeeps ==
    ASSUME IInv, NEW l \in Subs, InitTask(l)
    PROVE  IInv'
<1> USE LoopFacts, ItemFacts DEF IInv, InitTask, poolVars, acceptVars
<1>1. TypeOK'
  <2>1. /\ running' \in [Loops -> Seq(Items)]
        /\ Head(running[l]) \in Items
      BY PopTyped
  <2> QED
      BY <2>1 DEF TypeOK, Items, LoopPcs, WorkerPcs, ConnStates, UserPcs
<1>2. Wakeups'
    BY DEF TypeOK, Wakeups, Owed
<1>3. Posters'
    BY DEF TypeOK, Posters
<1>4. Order'
    BY DEF TypeOK, Order
<1>5. PermitPerJob'
    BY DEF TypeOK, PermitPerJob, Permits
<1>6. LatePostsAreThePools'
    BY DEF TypeOK, LatePostsAreThePools, Posters, Order
<1>7. NoStrandedBacklog'
    BY DEF TypeOK, NoStrandedBacklog, Order
<1> QED
    BY <1>1, <1>2, <1>3, <1>4, <1>5, <1>6, <1>7

LEMMA ReplyTaskKeeps ==
    ASSUME IInv, NEW l \in Subs, ReplyTask(l)
    PROVE  IInv'
<1> USE LoopFacts, ItemFacts DEF IInv, ReplyTask, poolVars, acceptVars, serverVars
<1>1. TypeOK'
  <2>1. /\ running' \in [Loops -> Seq(Items)]
        /\ Head(running[l]) \in Items
      BY PopTyped
  <2> QED
      BY <2>1 DEF TypeOK, Items, LoopPcs, WorkerPcs, ConnStates, UserPcs
<1>2. Wakeups'
    BY DEF TypeOK, Wakeups, Owed
<1>3. Posters'
    BY DEF TypeOK, Posters
<1>4. Order'
    BY DEF TypeOK, Order
<1>5. PermitPerJob'
    BY DEF TypeOK, PermitPerJob, Permits
<1>6. LatePostsAreThePools'
    BY DEF TypeOK, LatePostsAreThePools, Posters, Order
<1>7. NoStrandedBacklog'
    BY DEF TypeOK, NoStrandedBacklog, Order
<1> QED
    BY <1>1, <1>2, <1>3, <1>4, <1>5, <1>6, <1>7

LEMMA ReplyClosesKeeps ==
    ASSUME IInv, NEW l \in Subs, ReplyCloses(l)
    PROVE  IInv'
<1> USE LoopFacts, ItemFacts DEF IInv, ReplyCloses, Free, poolVars, acceptVars
<1>a. lpc[l] = "work" /\ lpc[Main] # "gone"
    BY MainIsThere DEF TaskIs
<1>b. owes' = owes \union {<<l, Main>>} /\ late' = late
    BY <1>a, PostLive
<1>c. /\ queue' \in [Loops -> Seq(Items)]
      /\ owes' \subseteq Threads \X Loops /\ late' \subseteq Threads
  <2>1. Head(running[l]) \in Items
      BY PopTyped
  <2>2. Item("remove", Head(running[l]).conn) \in Items
      BY <2>1 DEF Item, Items
  <2> QED
      BY <2>2, PostTyped DEF Threads
<1>1. TypeOK'
  <2>1. running' \in [Loops -> Seq(Items)]
      BY PopTyped
  <2>2. conn' \in [Conns -> ConnStates]
      BY DEF TypeOK, ConnStates
  <2> QED
      BY <1>c, <2>1, <2>2 DEF TypeOK
<1>2. Wakeups'
  <2>1. \A m \in Loops : /\ batch'[m] \subseteq batch[m]
                         /\ Trigger \in batch[m] => Trigger \in batch'[m]
      BY DEF TypeOK
  <2> QED
      BY <2>1, PostWakes
<1>3. Posters'
    BY <1>a, <1>b, SMTT(30) DEF TypeOK, Posters, Threads
<1>4. Order'
    BY DEF TypeOK, Order
<1>5. PermitPerJob'
    BY DEF TypeOK, PermitPerJob, Permits
<1>6. LatePostsAreThePools'
    BY <1>b DEF LatePostsAreThePools
<1>7. NoStrandedBacklog'
    BY DEF TypeOK, NoStrandedBacklog, Order
<1> QED
    BY <1>1, <1>2, <1>3, <1>4, <1>5, <1>6, <1>7

LEMMA ReadRequestKeeps ==
    ASSUME IInv, NEW l \in Subs, NEW c \in Conns, ReadRequest(l, c)
    PROVE  IInv'
<1> USE LoopFacts, ItemFacts DEF IInv, ReadRequest, Handles, Free, PushJob, acceptVars
<1>1. TypeOK'
  <2>1. jobs' \in Seq(Conns) /\ unposted' \subseteq Subs
    <3>1. Append(jobs, c) \in Seq(Conns)
        BY AppendProperties DEF TypeOK
    <3> QED
        BY <3>1 DEF TypeOK
  <2>3. reqs' \in 0 .. MaxReqs
    <3>1. reqs \in 0 .. MaxReqs /\ MaxReqs \in Nat
        BY ServerAssumption DEF TypeOK
    <3> QED
        BY <3>1
  <2>2. batch' \in [Loops -> SUBSET ({Trigger, Accepting} \union {Event(k) : k \in Conns})]
      BY DEF TypeOK
  <2> QED
      BY <2>1, <2>2, <2>3 DEF TypeOK
<1>2. Wakeups'
    BY DEF TypeOK, Wakeups, Owed
<1>3. Posters'
    BY DEF TypeOK, Posters
<1>4. Order'
    BY DEF TypeOK, Order
<1>5. PermitPerJob'
  <2>1. Cardinality(unposted') = Cardinality(unposted) + 1 /\ Cardinality(unposted) \in Nat
      BY UnpostedFinite, FS_AddElement, FS_CardinalityType
  <2>2. Len(jobs') = Len(jobs) + 1 /\ Len(jobs) \in Nat
    <3>1. jobs \in Seq(Conns)
        BY DEF TypeOK
    <3> QED
        BY <3>1, AppendProperties, LenProperties
  <2>3. /\ Permits = sem + Cardinality(Locked) + Cardinality(unposted)
        /\ Permits' = sem' + Cardinality(Locked') + Cardinality(unposted')
      BY DEF Permits, Locked
  <2>4. Locked' = Locked /\ Cardinality(Locked) \in Nat /\ sem' = sem /\ sem \in Nat
      BY LockedFinite DEF Locked, TypeOK
  <2>5. Permits' = Permits + 1 /\ Permits \in Nat
      BY <2>1, <2>3, <2>4
  <2> QED
      BY <2>2, <2>5 DEF PermitPerJob
<1>6. LatePostsAreThePools'
    BY DEF TypeOK, LatePostsAreThePools, Posters, Order
<1>7. NoStrandedBacklog'
    BY DEF TypeOK, NoStrandedBacklog, Order
<1> QED
    BY <1>1, <1>2, <1>3, <1>4, <1>5, <1>6, <1>7

LEMMA ReadNothingKeeps ==
    ASSUME IInv, NEW l \in Subs, NEW c \in Conns, ReadNothing(l, c)
    PROVE  IInv'
<1> USE LoopFacts, ItemFacts DEF IInv, ReadNothing, Handles, Free, poolVars, acceptVars, serverVars
<1>1. TypeOK'
    BY DEF TypeOK, Items, LoopPcs, WorkerPcs, ConnStates, UserPcs
<1>2. Wakeups'
    BY DEF TypeOK, Wakeups, Owed
<1>3. Posters'
    BY DEF TypeOK, Posters
<1>4. Order'
    BY DEF TypeOK, Order
<1>5. PermitPerJob'
    BY DEF TypeOK, PermitPerJob, Permits
<1>6. LatePostsAreThePools'
    BY DEF TypeOK, LatePostsAreThePools, Posters, Order
<1>7. NoStrandedBacklog'
    BY DEF TypeOK, NoStrandedBacklog, Order
<1> QED
    BY <1>1, <1>2, <1>3, <1>4, <1>5, <1>6, <1>7

LEMMA CloseConnKeeps ==
    ASSUME IInv, NEW l \in Subs, NEW c \in Conns, CloseConn(l, c)
    PROVE  IInv'
<1> USE LoopFacts, ItemFacts DEF IInv, CloseConn, Handles, Free, poolVars, acceptVars
<1>a. lpc[l] = "work" /\ lpc[Main] # "gone"
    BY MainIsThere DEF Handles
<1>b. owes' = owes \union {<<l, Main>>} /\ late' = late
    BY <1>a, PostLive
<1>c. /\ queue' \in [Loops -> Seq(Items)]
      /\ owes' \subseteq Threads \X Loops /\ late' \subseteq Threads
  <2>2. Item("remove", c) \in Items
      BY DEF Item, Items, Conns
  <2> QED
      BY <2>2, PostTyped DEF Threads
<1>1. TypeOK'
  <2>1. conn' \in [Conns -> ConnStates]
      BY DEF TypeOK, ConnStates
  <2>2. batch' \in [Loops -> SUBSET ({Trigger, Accepting} \union {Event(k) : k \in Conns})]
      BY DEF TypeOK
  <2> QED
      BY <1>c, <2>1, <2>2 DEF TypeOK
<1>2. Wakeups'
  <2>1. \A m \in Loops : /\ batch'[m] \subseteq batch[m]
                         /\ Trigger \in batch[m] => Trigger \in batch'[m]
      BY DEF TypeOK
  <2> QED
      BY <2>1, PostWakes
<1>3. Posters'
    BY <1>a, <1>b, SMTT(30) DEF TypeOK, Posters, Threads
<1>4. Order'
    BY DEF TypeOK, Order
<1>5. PermitPerJob'
    BY DEF TypeOK, PermitPerJob, Permits
<1>6. LatePostsAreThePools'
    BY <1>b DEF LatePostsAreThePools
<1>7. NoStrandedBacklog'
    BY DEF TypeOK, NoStrandedBacklog, Order
<1> QED
    BY <1>1, <1>2, <1>3, <1>4, <1>5, <1>6, <1>7

LEMMA LockConnKeeps ==
    ASSUME IInv, NEW w \in Workers, LockConn(w)
    PROVE  IInv'
<1> USE LoopFacts, ItemFacts DEF IInv, LockConn, Moves, loopVars, acceptVars, serverVars
<1>1. TypeOK'
    BY DEF TypeOK, Items, LoopPcs, WorkerPcs, ConnStates, UserPcs
<1>2. Wakeups'
    BY DEF TypeOK, Wakeups, Owed
<1>3. Posters'
    BY DEF TypeOK, Posters
<1>4. Order'
    BY DEF TypeOK, Order
<1>5. PermitPerJob'
    BY DEF TypeOK, PermitPerJob, Permits
<1>6. LatePostsAreThePools'
    BY DEF TypeOK, LatePostsAreThePools, Posters, Order
<1>7. NoStrandedBacklog'
    BY DEF TypeOK, NoStrandedBacklog, Order
<1> QED
    BY <1>1, <1>2, <1>3, <1>4, <1>5, <1>6, <1>7

LEMMA PostReplyKeeps ==
    ASSUME IInv, NEW w \in Workers, PostReply(w)
    PROVE  IInv'
<1> USE LoopFacts, ItemFacts DEF IInv, PostReply, Moves, acceptVars, serverVars
<1>a. task[w] \in Nat /\ LoopOf(task[w]) \in Loops
    BY LoopOfInSubs DEF TypeOK
<1>c. /\ queue' \in [Loops -> Seq(Items)]
      /\ owes' \subseteq Threads \X Loops /\ late' \subseteq Threads
  <2>1. Item("reply", task[w]) \in Items /\ w \in Threads
      BY <1>a DEF Item, Items, Threads
  <2> QED
      BY <1>a, <2>1, PostTyped
<1>1. TypeOK'
  <2>1. wpc' \in [Workers -> WorkerPcs]
      BY DEF TypeOK, WorkerPcs
  <2> QED
      BY <1>c, <2>1 DEF TypeOK
<1>2. Wakeups'
  <2>1. \A m \in Loops : batch'[m] = batch[m]
      OBVIOUS
  <2> QED
      BY <1>a, <2>1, PostWakes
<1>3. Posters'
    BY SMTT(30) DEF TypeOK, Posters, Post
<1>4. Order'
    BY DEF TypeOK, Order
<1>5. PermitPerJob'
    BY DEF TypeOK, PermitPerJob, Permits
<1>6. LatePostsAreThePools'
    BY DEF LatePostsAreThePools, Post
<1>7. NoStrandedBacklog'
    BY DEF TypeOK, NoStrandedBacklog, Order
<1> QED
    BY <1>1, <1>2, <1>3, <1>4, <1>5, <1>6, <1>7

LEMMA StopAcceptorKeeps ==
    ASSUME IInv, StopAcceptor
    PROVE  IInv'
<1> USE LoopFacts, ItemFacts DEF IInv, StopAcceptor, UserGoes, Free, poolVars, acceptVars
<1>a. lpc[Main] # "gone"
  <2>1. victim = 0 /\ ~(Main < 0)
      BY LoopAssumption DEF Order, Main
  <2> QED
      BY <2>1 DEF TypeOK
<1>b. owes' = owes \union {<<User, Main>>} /\ late' = late
    BY <1>a, PostLive
<1>c. /\ queue' \in [Loops -> Seq(Items)]
      /\ owes' \subseteq Threads \X Loops /\ late' \subseteq Threads
  <2>1. Item("stop", 0) \in Items /\ User \in Threads
      BY DEF Item, Items, Threads
  <2> QED
      BY <2>1, PostTyped
<1>1. TypeOK'
    BY <1>c DEF TypeOK, UserPcs
<1>2. Wakeups'
  <2>1. \A m \in Loops : batch'[m] = batch[m]
      OBVIOUS
  <2> QED
      BY <2>1, PostWakes
<1>3. Posters'
    BY <1>b, SMTT(30) DEF TypeOK, Posters, Subs
<1>4. Order'
    BY DEF TypeOK, Order
<1>5. PermitPerJob'
    BY DEF TypeOK, PermitPerJob, Permits
<1>6. LatePostsAreThePools'
    BY <1>b DEF LatePostsAreThePools
<1>7. NoStrandedBacklog'
    BY DEF TypeOK, NoStrandedBacklog, Order
<1> QED
    BY <1>1, <1>2, <1>3, <1>4, <1>5, <1>6, <1>7

LEMMA AcceptorStoppedKeeps ==
    ASSUME IInv, AcceptorStopped
    PROVE  IInv'
<1> USE LoopFacts, ItemFacts DEF IInv, AcceptorStopped, UserGoes, Free, loopVars, poolVars, acceptVars
<1>1. TypeOK'
    BY DEF TypeOK, Items, LoopPcs, WorkerPcs, ConnStates, UserPcs
<1>2. Wakeups'
    BY DEF TypeOK, Wakeups, Owed
<1>3. Posters'
    BY DEF TypeOK, Posters
<1>4. Order'
    BY DEF TypeOK, Order
<1>5. PermitPerJob'
    BY DEF TypeOK, PermitPerJob, Permits
<1>6. LatePostsAreThePools'
    BY DEF TypeOK, LatePostsAreThePools, Posters, Order
<1>7. NoStrandedBacklog'
    BY DEF TypeOK, NoStrandedBacklog, Order
<1> QED
    BY <1>1, <1>2, <1>3, <1>4, <1>5, <1>6, <1>7

LEMMA QuitLoopKeeps ==
    ASSUME IInv, QuitLoop
    PROVE  IInv'
<1> USE LoopFacts, ItemFacts DEF IInv, QuitLoop, Nth, SetQuit, Free, poolVars, acceptVars, serverVars
<1>1. TypeOK'
  <2>1. owes' \subseteq Threads \X Loops /\ quit' \in [Loops -> BOOLEAN]
      BY SMTT(30) DEF TypeOK, Order, Threads
  <2> QED
      BY <2>1 DEF TypeOK
<1>2. Wakeups'
  <2>1. <<User, victim>> \in owes' /\ <<User, victim>>[2] = victim
      OBVIOUS
  <2>2. Owed(victim)'
      BY <2>1 DEF Owed
  <2>3. \A m \in Loops : Owed(m) => Owed(m)'
      BY DEF Owed
  <2>4. \A m \in Loops : m # victim => quit'[m] = quit[m]
      BY DEF TypeOK
  <2> QED
      BY <2>2, <2>3, <2>4 DEF Wakeups
<1>3. Posters'
    BY SMTT(30) DEF TypeOK, Posters
<1>4. Order'
    BY DEF TypeOK, Order
<1>5. PermitPerJob'
    BY DEF TypeOK, PermitPerJob, Permits
<1>6. LatePostsAreThePools'
    BY DEF TypeOK, LatePostsAreThePools, Posters, Order
<1>7. NoStrandedBacklog'
    BY DEF TypeOK, NoStrandedBacklog, Order
<1> QED
    BY <1>1, <1>2, <1>3, <1>4, <1>5, <1>6, <1>7

LEMMA DestroyLoopKeeps ==
    ASSUME IInv, DestroyLoop
    PROVE  IInv'
<1> USE LoopFacts, ItemFacts DEF IInv, DestroyLoop, Nth, JoinLoop, Free, poolVars, acceptVars
<1>a. /\ victim \in Loops /\ victim' \in 0 .. NSub + 1
      /\ victim # Main => victim' \in Loops
    BY LoopAssumption DEF Order, Loops, Main
<1>1. TypeOK'
  <2>1. lpc' \in [Loops -> LoopPcs] /\ queue' \in [Loops -> Seq(Items)]
    <3>1. lpc \in [Loops -> LoopPcs] /\ queue \in [Loops -> Seq(Items)]
        BY DEF TypeOK
    <3>2. <<>> \in Seq(Items) /\ "gone" \in LoopPcs
        BY DEF LoopPcs
    <3> QED
        BY <3>1, <3>2
  <2>2. \A l \in Loops : lpc'[l] = "gone" <=> l = victim \/ l < victim
      BY DEF TypeOK
  <2>3. \A l \in Loops : l = victim \/ l < victim <=> l < victim'
      BY <1>a DEF Loops
  <2>4. upc' \in UserPcs
      BY DEF TypeOK, UserPcs
  <2> QED
      BY <1>a, <2>1, <2>2, <2>3, <2>4 DEF TypeOK
<1>2. Wakeups'
    BY DEF TypeOK, Wakeups, Owed
<1>3. Posters'
    BY DEF TypeOK, Posters
<1>4. Order'
    BY <1>a DEF TypeOK, Order
<1>5. PermitPerJob'
    BY DEF TypeOK, PermitPerJob, Permits
<1>6. LatePostsAreThePools'
    BY DEF TypeOK, LatePostsAreThePools, Posters, Order
<1>7. NoStrandedBacklog'
    BY DEF TypeOK, NoStrandedBacklog, Order
<1> QED
    BY <1>1, <1>2, <1>3, <1>4, <1>5, <1>6, <1>7

LEMMA ClearMembersKeeps ==
    ASSUME IInv, ClearMembers
    PROVE  IInv'
<1> USE LoopFacts, ItemFacts DEF IInv, ClearMembers, UserGoes, Free, loopVars, poolVars, acceptVars
<1>1. TypeOK'
    BY DEF TypeOK, Items, LoopPcs, WorkerPcs, ConnStates, UserPcs
<1>2. Wakeups'
    BY DEF TypeOK, Wakeups, Owed
<1>3. Posters'
    BY DEF TypeOK, Posters
<1>4. Order'
    BY DEF TypeOK, Order
<1>5. PermitPerJob'
    BY DEF TypeOK, PermitPerJob, Permits
<1>6. LatePostsAreThePools'
    BY DEF TypeOK, LatePostsAreThePools, Posters, Order
<1>7. NoStrandedBacklog'
    BY DEF TypeOK, NoStrandedBacklog, Order
<1> QED
    BY <1>1, <1>2, <1>3, <1>4, <1>5, <1>6, <1>7

LEMMA StopWorkersKeeps ==
    ASSUME IInv, StopWorkers
    PROVE  IInv'
<1> USE LoopFacts, ItemFacts DEF IInv, StopWorkers, StopPool, loopVars, acceptVars, serverVars
<1>1. TypeOK'
    BY DEF TypeOK, Items, LoopPcs, WorkerPcs, ConnStates, UserPcs
<1>2. Wakeups'
    BY DEF TypeOK, Wakeups, Owed
<1>3. Posters'
    BY DEF TypeOK, Posters
<1>4. Order'
    BY DEF TypeOK, Order
<1>5. PermitPerJob'
    BY DEF TypeOK, PermitPerJob, Permits
<1>6. LatePostsAreThePools'
    BY DEF TypeOK, LatePostsAreThePools, Posters, Order
<1>7. NoStrandedBacklog'
    BY DEF TypeOK, NoStrandedBacklog, Order
<1> QED
    BY <1>1, <1>2, <1>3, <1>4, <1>5, <1>6, <1>7

LEMMA WakeWorkersKeeps ==
    ASSUME IInv, WakeWorkers
    PROVE  IInv'
<1> USE LoopFacts, ItemFacts DEF IInv, WakeWorkers, PostStop, loopVars, acceptVars, serverVars
<1>1. TypeOK'
  <2>1. Cardinality(Workers) \in Nat
      BY WorkersAssumption, FS_CardinalityType
  <2>2. posts' \in 0 .. Cardinality(Workers) /\ sem' \in Nat
      BY <2>1, SMTT(30) DEF TypeOK
  <2> QED
      BY <2>2 DEF TypeOK
<1>2. Wakeups'
    BY DEF TypeOK, Wakeups, Owed
<1>3. Posters'
    BY DEF TypeOK, Posters
<1>4. Order'
    BY DEF TypeOK, Order
<1>5. PermitPerJob'
  <2>1. Cardinality(unposted) \in Nat
      BY UnpostedFinite, FS_CardinalityType
  <2>4. /\ Permits = sem + Cardinality(Locked) + Cardinality(unposted)
        /\ Permits' = sem' + Cardinality(Locked') + Cardinality(unposted')
      BY DEF Permits, Locked
  <2>5. /\ Locked' = Locked /\ Cardinality(Locked) \in Nat
        /\ unposted' = unposted /\ sem' = sem + 1 /\ sem \in Nat
      BY LockedFinite DEF Locked, TypeOK
  <2>2. Permits \in Nat /\ Permits' = Permits + 1
      BY <2>1, <2>4, <2>5
  <2>3. Len(jobs) \in Nat /\ jobs' = jobs
      BY LenProperties DEF TypeOK
  <2> QED
      BY <2>2, <2>3 DEF PermitPerJob
<1>6. LatePostsAreThePools'
    BY DEF TypeOK, LatePostsAreThePools, Posters, Order
<1>7. NoStrandedBacklog'
    BY DEF TypeOK, NoStrandedBacklog, Order
<1> QED
    BY <1>1, <1>2, <1>3, <1>4, <1>5, <1>6, <1>7

LEMMA JoinWorkersKeeps ==
    ASSUME IInv, JoinWorkers
    PROVE  IInv'
<1> USE LoopFacts, ItemFacts DEF IInv, JoinWorkers, UserGoes, Free, loopVars, poolVars, acceptVars
<1>1. TypeOK'
    BY DEF TypeOK, Items, LoopPcs, WorkerPcs, ConnStates, UserPcs
<1>2. Wakeups'
    BY DEF TypeOK, Wakeups, Owed
<1>3. Posters'
    BY DEF TypeOK, Posters
<1>4. Order'
    BY DEF TypeOK, Order
<1>5. PermitPerJob'
    BY DEF TypeOK, PermitPerJob, Permits
<1>6. LatePostsAreThePools'
    BY DEF TypeOK, LatePostsAreThePools, Posters, Order
<1>7. NoStrandedBacklog'
    BY DEF TypeOK, NoStrandedBacklog, Order
<1> QED
    BY <1>1, <1>2, <1>3, <1>4, <1>5, <1>6, <1>7

LEMMA WakeUpKeeps ==
    ASSUME IInv, NEW t \in Threads, NEW p \in owes, p[1] = t, WakeUp(t, p[2]),
           UNCHANGED <<poolVars, acceptVars, serverVars>>
    PROVE  IInv'
<1> USE LoopFacts DEF IInv, poolVars, acceptVars, serverVars
<1>a. p[2] \in Loops /\ owes \subseteq Threads \X Loops
    BY DEF TypeOK
<1>b. /\ owes' = owes \ {<<t, p[2]>>} /\ late' \subseteq late \union {t}
      /\ UNCHANGED <<queue, quit, lpc, batch, running>>
      /\ lpc[p[2]] # "gone" => readable' = [readable EXCEPT ![p[2]] = TRUE] /\ late' = late
      /\ lpc[p[2]] = "gone" => readable' = readable
    BY DEF WakeUp
<1>1. TypeOK'
  <2>1. /\ readable \in [Loops -> BOOLEAN] /\ late \subseteq Threads
      BY DEF TypeOK
  <2>2. /\ readable' \in [Loops -> BOOLEAN] /\ late' \subseteq Threads
        /\ owes' \subseteq Threads \X Loops
      BY <1>a, <1>b, <2>1
  <2> QED
      BY <1>b, <2>2 DEF TypeOK
<1>2. Wakeups'
  <2>1. ASSUME NEW m \in Loops, lpc[m] # "gone", Owed(m)
        PROVE  Owed(m)'
    <3>0. readable \in [Loops -> BOOLEAN]
        BY DEF TypeOK
    <3>1. CASE m = p[2]
      <4>1. readable'[m]
          BY <1>b, <2>1, <3>0, <3>1
      <4> QED
          BY <4>1 DEF Owed
    <3>2. CASE m # p[2] /\ readable[m]
      <4>1. readable'[m]
          BY <1>b, <2>1, <3>0, <3>2
      <4> QED
          BY <4>1 DEF Owed
    <3>3. CASE m # p[2] /\ ~readable[m]
      <4>1. PICK q \in owes : q[2] = m
          BY <2>1, <3>3 DEF Owed
      <4>2. q \in owes'
          BY <1>b, <3>3, <4>1
      <4> QED
          BY <4>1, <4>2 DEF Owed
    <3> QED
        BY <3>1, <3>2, <3>3
  <2>2. UNCHANGED <<queue, quit, lpc, batch>> /\ Wakeups
      BY <1>b
  <2> HIDE DEF IInv
  <2> QED
      BY <2>1, <2>2 DEF Wakeups
<1>3. Posters'
    BY <1>b DEF Posters
<1>4. Order'
    BY <1>b DEF Order
<1>5. PermitPerJob'
    BY DEF PermitPerJob, Permits
<1>6. LatePostsAreThePools'
  <2>1. CASE lpc[p[2]] # "gone"
      BY <1>b, <2>1 DEF LatePostsAreThePools
  <2>2. CASE lpc[p[2]] = "gone"
    <3>1. p[2] < victim
        BY <1>a, <2>2 DEF TypeOK
    <3>2. Posters /\ Order /\ TypeOK /\ LatePostsAreThePools
        OBVIOUS
    <3>3. ~(\A l \in Loops : ~(l < victim))
        BY <1>a, <3>1
    <3>4. victim # 0 /\ ~(victim < victim)
        BY <3>2, <1>a, <3>1 DEF Loops, TypeOK
    <3> HIDE DEF IInv
    <3>5. t # Main
        BY <3>2, <3>4 DEF Posters, Order
    <3>6. t \notin Subs
      <4>1. SUFFICES ASSUME t \in Subs PROVE FALSE
          OBVIOUS
      <4>2. p[2] = Main /\ lpc[t] = "work"
          BY <3>2, <4>1 DEF Posters
      <4> QED
          BY <2>2, <3>2, <4>1, <4>2, MainIsThere
    <3>7. t # User
        BY <2>2, <3>1, <3>2, <3>4 DEF Posters, Order
    <3>8. t \in Workers
        BY <3>5, <3>6, <3>7 DEF Threads
    <3> QED
        BY <1>b, <3>2, <3>8 DEF LatePostsAreThePools
  <2> QED
      BY <2>1, <2>2
<1>7. NoStrandedBacklog'
    BY <1>b DEF NoStrandedBacklog
<1> QED
    BY <1>1, <1>2, <1>3, <1>4, <1>5, <1>6, <1>7

LEMMA PostJobKeeps ==
    ASSUME IInv, NEW t \in Threads, PostJob(t), UNCHANGED <<loopVars, acceptVars, serverVars>>
    PROVE  IInv'
<1> USE DEF IInv, PostJob, loopVars, acceptVars, serverVars
<1>1. TypeOK'
    BY DEF TypeOK
<1>2. Wakeups' /\ Posters' /\ Order'
    BY DEF Wakeups, Owed, Posters, Order
<1>3. PermitPerJob'
  <2>1. /\ Cardinality(unposted') = Cardinality(unposted) - 1
        /\ Cardinality(unposted) \in Nat
      BY UnpostedFinite, FS_RemoveElement, FS_CardinalityType
  <2>2. /\ Permits = sem + Cardinality(Locked) + Cardinality(unposted)
        /\ Permits' = sem' + Cardinality(Locked') + Cardinality(unposted')
      BY DEF Permits, Locked
  <2>3. Locked' = Locked /\ Cardinality(Locked) \in Nat /\ sem' = sem + 1 /\ sem \in Nat
      BY LockedFinite DEF Locked, TypeOK
  <2>4. Permits' = Permits
      BY <2>1, <2>2, <2>3
  <2> QED
      BY <2>4 DEF PermitPerJob
<1>4. LatePostsAreThePools' /\ NoStrandedBacklog'
    BY DEF LatePostsAreThePools, NoStrandedBacklog
<1> QED
    BY <1>1, <1>2, <1>3, <1>4

LEMMA CheckQuitKeeps ==
    ASSUME IInv, NEW l \in Loops, CheckQuit(l), UNCHANGED <<poolVars, acceptVars, serverVars>>
    PROVE  IInv'
<1> USE LoopFacts, ItemFacts DEF IInv, CheckQuit, Goes, Free, poolVars, acceptVars, serverVars
<1>1. TypeOK'
    BY DEF TypeOK, LoopPcs
<1>2. Wakeups'
    BY SMTT(30) DEF Wakeups, Owed, TypeOK
<1>3. Posters'
    BY DEF Posters, TypeOK
<1>4. Order'
    BY DEF Order, TypeOK
<1>5. PermitPerJob'
    BY DEF PermitPerJob, Permits
<1>6. LatePostsAreThePools' /\ NoStrandedBacklog'
    BY DEF LatePostsAreThePools, NoStrandedBacklog, TypeOK
<1> QED
    BY <1>1, <1>2, <1>3, <1>4, <1>5, <1>6

LEMMA HandleTriggerKeeps ==
    ASSUME IInv, NEW l \in Loops, HandleTrigger(l), UNCHANGED <<poolVars, acceptVars, serverVars>>
    PROVE  IInv'
<1> USE LoopFacts, ItemFacts DEF IInv, HandleTrigger, Goes, Free, poolVars, acceptVars, serverVars
<1>1. TypeOK'
    BY DEF TypeOK, LoopPcs
<1>2. Wakeups'
    BY DEF Wakeups, Owed, TypeOK
<1>3. Posters'
    BY DEF Posters, TypeOK
<1>4. Order'
    BY DEF Order, TypeOK
<1>5. PermitPerJob'
    BY DEF PermitPerJob, Permits
<1>6. LatePostsAreThePools' /\ NoStrandedBacklog'
    BY DEF LatePostsAreThePools, NoStrandedBacklog, TypeOK
<1> QED
    BY <1>1, <1>2, <1>3, <1>4, <1>5, <1>6

LEMMA SwapTasksKeeps ==
    ASSUME IInv, NEW l \in Loops, SwapTasks(l), UNCHANGED <<poolVars, acceptVars, serverVars>>
    PROVE  IInv'
<1> USE LoopFacts, ItemFacts DEF IInv, SwapTasks, Goes, Free, poolVars, acceptVars, serverVars
<1>1. TypeOK'
  <2>1. <<>> \in Seq(Items)
      OBVIOUS
  <2> QED
      BY <2>1 DEF TypeOK, LoopPcs
<1>2. Wakeups'
    BY DEF Wakeups, Owed, TypeOK
<1>3. Posters'
    BY DEF Posters, TypeOK
<1>4. Order'
    BY DEF Order, TypeOK
<1>5. PermitPerJob'
    BY DEF PermitPerJob, Permits
<1>6. LatePostsAreThePools' /\ NoStrandedBacklog'
    BY DEF LatePostsAreThePools, NoStrandedBacklog, TypeOK
<1> QED
    BY <1>1, <1>2, <1>3, <1>4, <1>5, <1>6

LEMMA CheckRunningKeeps ==
    ASSUME IInv, NEW w \in Workers, CheckRunning(w), UNCHANGED <<loopVars, acceptVars, serverVars>>
    PROVE  IInv'
<1> USE LoopFacts DEF IInv, CheckRunning, Moves, loopVars, acceptVars, serverVars
<1>1. TypeOK'
    BY DEF TypeOK, WorkerPcs
<1>2. Wakeups' /\ Posters' /\ Order'
    BY DEF Wakeups, Owed, Posters, Order
<1>3. PermitPerJob'
    BY DEF TypeOK, PermitPerJob, Permits
<1>4. LatePostsAreThePools' /\ NoStrandedBacklog'
    BY DEF LatePostsAreThePools, NoStrandedBacklog
<1> QED
    BY <1>1, <1>2, <1>3, <1>4

LEMMA SemWaitKeeps ==
    ASSUME IInv, NEW w \in Workers, SemWait(w), UNCHANGED <<loopVars, acceptVars, serverVars>>
    PROVE  IInv'
<1> USE LoopFacts DEF IInv, SemWait, Moves, loopVars, acceptVars, serverVars
<1>1. TypeOK'
    BY DEF TypeOK, WorkerPcs
<1>2. Wakeups' /\ Posters' /\ Order'
    BY DEF Wakeups, Owed, Posters, Order
<1>3. PermitPerJob'
  <2>1. Locked' = Locked \union {w} /\ w \notin Locked
      BY DEF TypeOK, Locked
  <2>2. Cardinality(Locked') = Cardinality(Locked) + 1 /\ Cardinality(Locked) \in Nat
      BY <2>1, LockedFinite, FS_AddElement
  <2>3. /\ Permits = sem + Cardinality(Locked) + Cardinality(unposted)
        /\ Permits' = sem' + Cardinality(Locked') + Cardinality(unposted')
      BY DEF Permits, Locked
  <2>4. /\ Cardinality(unposted) \in Nat /\ unposted' = unposted
        /\ sem' = sem - 1 /\ sem \in Nat
      BY UnpostedFinite, FS_CardinalityType DEF TypeOK
  <2>5. Permits' = Permits
      BY <2>2, <2>3, <2>4
  <2> QED
      BY <2>5 DEF PermitPerJob
<1>4. LatePostsAreThePools' /\ NoStrandedBacklog'
    BY DEF LatePostsAreThePools, NoStrandedBacklog
<1> QED
    BY <1>1, <1>2, <1>3, <1>4

(* A worker that finds no job holds a permit too many, which only the      *)
(* destructor posts.                                                       *)
LEMMA FindNoJobKeeps ==
    ASSUME IInv, NEW w \in Workers, FindNoJob(w), UNCHANGED <<loopVars, acceptVars, serverVars>>
    PROVE  IInv'
<1> USE LoopFacts DEF IInv, FindNoJob, Moves, loopVars, acceptVars, serverVars
<1>1. TypeOK'
    BY DEF TypeOK, WorkerPcs
<1>2. Wakeups' /\ Posters' /\ Order'
    BY DEF Wakeups, Owed, Posters, Order
<1>3. PermitPerJob'
  <2>1. Locked' = Locked \ {w} /\ w \in Locked
      BY DEF TypeOK, Locked
  <2>2. /\ Cardinality(Locked') = Cardinality(Locked) - 1 /\ Cardinality(Locked) \in Nat
        /\ Cardinality(Locked) # 0
    <3>1. Cardinality(Locked') = Cardinality(Locked) - 1 /\ Cardinality(Locked) \in Nat
        BY <2>1, LockedFinite, FS_RemoveElement
    <3>2. Cardinality(Locked) # 0
        BY <2>1, LockedFinite, FS_EmptySet
    <3> QED
        BY <3>1, <3>2
  <2>3. /\ Permits = sem + Cardinality(Locked) + Cardinality(unposted)
        /\ Permits' = sem' + Cardinality(Locked') + Cardinality(unposted')
      BY DEF Permits, Locked
  <2>4. /\ Cardinality(unposted) \in Nat /\ unposted' = unposted
        /\ sem' = sem /\ sem \in Nat /\ up' = up /\ jobs' = jobs
      BY UnpostedFinite, FS_CardinalityType DEF TypeOK
  <2>5. Permits \in Nat /\ Permits > 0 /\ Permits' = Permits - 1
      BY <2>2, <2>3, <2>4
  <2>6. Len(jobs) = 0
      OBVIOUS
  <2> QED
      BY <2>4, <2>5, <2>6 DEF PermitPerJob
<1>4. LatePostsAreThePools' /\ NoStrandedBacklog'
    BY DEF LatePostsAreThePools, NoStrandedBacklog
<1> QED
    BY <1>1, <1>2, <1>3, <1>4

LEMMA TakeJobKeeps ==
    ASSUME IInv, NEW w \in Workers, TakeJob(w), UNCHANGED <<loopVars, acceptVars, serverVars>>
    PROVE  IInv'
<1> USE LoopFacts DEF IInv, TakeJob, Moves, loopVars, acceptVars, serverVars
<1>a. /\ Head(jobs) \in Conns /\ Tail(jobs) \in Seq(Conns)
      /\ Len(Tail(jobs)) = Len(jobs) - 1 /\ Len(jobs) \in Nat
  <2>1. jobs \in Seq(Conns) /\ jobs # <<>>
      BY DEF TypeOK
  <2> QED
      BY <2>1, HeadTailProperties, LenProperties
<1>1. TypeOK'
  <2>1. Head(jobs) \in Nat
      BY <1>a DEF Conns
  <2> QED
      BY <1>a, <2>1 DEF TypeOK, WorkerPcs
<1>2. Wakeups' /\ Posters' /\ Order'
    BY DEF Wakeups, Owed, Posters, Order
<1>3. PermitPerJob'
  <2>1. Locked' = Locked \ {w} /\ w \in Locked
      BY DEF TypeOK, Locked
  <2>2. Cardinality(Locked') = Cardinality(Locked) - 1 /\ Cardinality(Locked) \in Nat
      BY <2>1, LockedFinite, FS_RemoveElement
  <2>3. /\ Permits = sem + Cardinality(Locked) + Cardinality(unposted)
        /\ Permits' = sem' + Cardinality(Locked') + Cardinality(unposted')
      BY DEF Permits, Locked
  <2>4. /\ Cardinality(unposted) \in Nat /\ unposted' = unposted
        /\ sem' = sem /\ sem \in Nat /\ up' = up /\ jobs' = Tail(jobs)
      BY UnpostedFinite, FS_CardinalityType DEF TypeOK
  <2>5. Permits \in Nat /\ Permits' = Permits - 1
      BY <2>2, <2>3, <2>4
  <2>6. Permits >= Len(jobs) /\ (up => Permits = Len(jobs))
      BY DEF PermitPerJob
  <2> HIDE DEF IInv, TakeJob
  <2>7. Len(jobs') = Len(jobs) - 1 /\ Len(jobs) \in Nat /\ (up' <=> up)
      BY <1>a, <2>4
  <2>8. Permits' >= Len(jobs')
      BY <2>5, <2>6, <2>7
  <2>9. up' => Permits' = Len(jobs')
      BY <2>5, <2>6, <2>7
  <2> QED
      BY <2>8, <2>9 DEF PermitPerJob
<1>4. LatePostsAreThePools' /\ NoStrandedBacklog'
    BY DEF LatePostsAreThePools, NoStrandedBacklog
<1> QED
    BY <1>1, <1>2, <1>3, <1>4

-----------------------------------------------------------------------------
(* The invariant. *)

LEMMA StutterKeeps == ASSUME IInv, UNCHANGED vars PROVE IInv'
BY DEF IInv, vars, loopVars, poolVars, acceptVars, serverVars, TypeOK, Wakeups, Owed, Posters,
       Order, PermitPerJob, Permits, LatePostsAreThePools, NoStrandedBacklog

LEMMA NextPreserves == IInv /\ [Next]_vars => IInv'
<1> SUFFICES ASSUME IInv, [Next]_vars PROVE IInv'
    OBVIOUS
<1>1. CASE UNCHANGED vars
    BY <1>1, StutterKeeps
<1>2. CASE PeerConnect
    BY <1>2, PeerConnectKeeps
<1>3. ASSUME NEW t \in Threads, FinishPost(t) PROVE IInv'
    BY <1>3, WakeUpKeeps, PostJobKeeps DEF FinishPost
<1>4. ASSUME NEW l \in Loops, LoopThread(l) PROVE IInv'
    BY <1>4, CheckQuitKeeps, HandleTriggerKeeps, SwapTasksKeeps DEF LoopThread, LoopStep
<1>5. CASE MainStep
    BY <1>5, MainWaitsKeeps, HandleAcceptKeeps, AcceptOneKeeps, AcceptNoneKeeps,
       AcceptErrorKeeps, RemoveTaskKeeps, StopTaskKeeps DEF MainStep
<1>6. ASSUME NEW l \in Subs, SubStep(l) PROVE IInv'
    BY <1>6, SubWaitsKeeps, InitTaskKeeps, ReplyTaskKeeps, ReplyClosesKeeps,
       ReadRequestKeeps, ReadNothingKeeps, CloseConnKeeps DEF SubStep
<1>7. ASSUME NEW w \in Workers, WorkerThread(w) PROVE IInv'
    BY <1>7, CheckRunningKeeps, SemWaitKeeps, FindNoJobKeeps, TakeJobKeeps,
       LockConnKeeps, PostReplyKeeps DEF WorkerThread, WorkerStep
<1>8. CASE StopAcceptor
    BY <1>8, StopAcceptorKeeps
<1>9. CASE Destroys
    BY <1>9, AcceptorStoppedKeeps, QuitLoopKeeps, DestroyLoopKeeps, ClearMembersKeeps,
       StopWorkersKeeps, WakeWorkersKeeps, JoinWorkersKeeps DEF Destroys
<1> QED
    BY <1>1, <1>2, <1>3, <1>4, <1>5, <1>6, <1>7, <1>8, <1>9 DEF Next

(* Every reachable state of the server, of any size, satisfies IInv.       *)
THEOREM Inductive == Spec => []IInv
BY Established, NextPreserves, PTL DEF Spec

(* The loops, the pool, the connections' ids and the destructor's progress *)
(* are always well formed.                                                 *)
THEOREM TypeCorrect == Spec => []TypeOK
<1>1. IInv => TypeOK
    BY DEF IInv
<1> QED
    BY <1>1, Inductive, PTL

(* EventTrigger's push-then-write against read-then-swap, and ~EventLoop's *)
(* quit_-then-write: no loop goes to sleep over a task or a quit.          *)
THEOREM NoWakeupIsLost == Spec => []WakeupPending
<1>1. IInv => WakeupPending
  <2> SUFFICES ASSUME IInv, NEW l \in Loops, lpc[l] = "wait", queue[l] # <<>> \/ quit[l]
               PROVE  Owed(l)
      BY DEF WakeupPending, Owed
  <2>1. batch[l] = {}
      BY DEF IInv, Wakeups
  <2> QED
      BY <2>1 DEF IInv, Wakeups
<1> QED
    BY <1>1, Inductive, PTL

(* The pool's semaphore keeps step with its queue.                         *)
THEOREM EveryJobHasItsPermit == Spec => []PermitPerJob
<1>1. IInv => PermitPerJob
    BY DEF IInv
<1> QED
    BY <1>1, Inductive, PTL

(* ~TCPServer's order of destruction: only the pool posts to a loop that   *)
(* is gone.                                                                *)
THEOREM LoopsOutliveTheirPosters == Spec => []LatePostsAreThePools
<1>1. IInv => LatePostsAreThePools
    BY DEF IInv
<1> QED
    BY <1>1, Inductive, PTL

(* The edge-triggered accept loop leaves nobody in the backlog.            *)
THEOREM BacklogIsHeard == Spec => []NoStrandedBacklog
<1>1. IInv => NoStrandedBacklog
    BY DEF IInv
<1> QED
    BY <1>1, Inductive, PTL

(* Acceptor::stop is a barrier: no connection is dispatched after it.      *)
THEOREM AcceptorStaysQuiet == Spec => AcceptorQuiet
<1>1. IInv /\ [Next]_vars => [upc \notin {"serve", "stopping"} => robin' = robin]_vars
  <2> SUFFICES ASSUME IInv, Next, upc \notin {"serve", "stopping"} PROVE robin' = robin
      OBVIOUS
  <2>1. ~AcceptOne
      BY DEF AcceptOne, InAccept, IInv, Order
  <2>2. CASE PeerConnect
      BY <2>2 DEF PeerConnect, serverVars
  <2>3. CASE \E t \in Threads : FinishPost(t)
      BY <2>3 DEF FinishPost, serverVars
  <2>4. CASE \E l \in Loops : LoopThread(l)
      BY <2>4 DEF LoopThread, serverVars
  <2>5. CASE MainStep
      BY <2>1, <2>5 DEF MainStep, MainWaits, HandleAccept, AcceptNone, AcceptError, RemoveTask,
                        StopTask, serverVars
  <2>6. CASE \E l \in Subs : SubStep(l)
      BY <2>6 DEF SubStep, SubWaits, InitTask, ReplyTask, ReplyCloses, ReadRequest, ReadNothing,
                  CloseConn, serverVars
  <2>7. CASE \E w \in Workers : WorkerThread(w)
      BY <2>7 DEF WorkerThread, LockConn, PostReply, serverVars
  <2>8. CASE StopAcceptor \/ Destroys
      BY <2>8 DEF StopAcceptor, Destroys, AcceptorStopped, QuitLoop, DestroyLoop, ClearMembers,
                  StopWorkers, WakeWorkers, JoinWorkers, serverVars
  <2> QED
      BY <2>2, <2>3, <2>4, <2>5, <2>6, <2>7, <2>8 DEF Next
<1> QED
    BY <1>1, Inductive, PTL DEF Spec, AcceptorQuiet

=============================================================================
