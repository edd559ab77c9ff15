------------------------ MODULE TCPConnectionProofs ------------------------
(***************************************************************************)
(* What each method of a connection preserves, for every SockBuf and       *)
(* BlockLine. Two predicates of the record c carry the argument: Sane says *)
(* that the queue of chunks and pending_output_bytes_ agree, Settled that  *)
(* the interest set and the backpressure flag fit the queue. Watched is    *)
(* what is left of Settled right after a chunk was queued, Tuned what is   *)
(* left of it before the MOD: send() starts from Watched, is Tuned after   *)
(* apply_backpressure and ends in Settled.                                 *)
(***************************************************************************)
EXTENDS TCPConnection, SequenceTheorems, TLAPS

(* The queue of chunks and the counter agree. *)
Sane(c) ==
    /\ c \in ConnType
    /\ c.head <= Len(c.out)
    /\ \A i \in 0 .. Len(c.out), j \in 1 .. Len(c.out) : i < j => End(c, i) < End(c, j)
    /\ c.pending = Total(c) - End(c, c.head)

(* The epoll entry of an open connection is there unless it was lost, and  *)
(* it holds what event_ was at the last MOD.                               *)
Synced(c) ==
    /\ c.inEpoll <=> ~c.lost
    /\ ~c.inEpoll => c.mask = {}
    /\ c.inEpoll /\ ~c.fresh => c.mask = c.event

(* What holds before send() whatever was queued: the write and pressure    *)
(* state may lag behind the queue.                                         *)
Watched(c) ==
    /\ c.fd # "open" => ~c.inEpoll /\ c.event = {}
    /\ c.fd = "open" =>
         /\ c.enable /\ Synced(c)
         /\ c.blocking => "IN" \notin c.event

(* What holds before the MOD of update_channel. *)
Tuned(c) ==
    /\ Watched(c)
    /\ c.fd = "open" =>
         /\ "OUT" \in c.event <=> Unsent(c)
         /\ c.blocking => c.pending >= UnblockLine
         /\ ~c.blocking => c.pending < BlockLine /\ (c.closeWait \/ "IN" \in c.event)

(* What holds after every method. *)
Settled(c) == Tuned(c) /\ (c.fd = "open" => ~c.fresh)

(* d is c after a method that may have closed it: the queue only grows     *)
(* shorter at its front.                                                   *)
Follows(c, d) ==
    /\ d.out = c.out /\ d.head >= c.head
    /\ \/ d.fd = c.fd /\ d.notified = c.notified /\ d.enable = c.enable
       \/ d.fd = "closed" /\ d.notified /\ ~d.enable

-----------------------------------------------------------------------------

LEMMA LinesOrdered == UnblockLine \in Nat /\ UnblockLine < BlockLine /\ UnblockLine > 0
BY BlockLineAssumption DEF UnblockLine

LEMMA ConnFields ==
    ASSUME NEW c \in ConnType
    PROVE  /\ c.out \in Seq([id : Nat, to : Nat]) /\ Len(c.out) \in Nat
           /\ c.head \in Nat /\ c.pending \in Int /\ c.written \in Nat
           /\ c.enable \in BOOLEAN /\ c.fresh \in BOOLEAN /\ c.inEpoll \in BOOLEAN
           /\ c.edge \in BOOLEAN /\ c.blocking \in BOOLEAN /\ c.closeWait \in BOOLEAN
           /\ c.notified \in BOOLEAN /\ c.lost \in BOOLEAN
           /\ c.event \subseteq Events /\ c.mask \subseteq Events
           /\ c.received \subseteq Events
BY DEF ConnType

LEMMA EndType ==
    ASSUME NEW c, Sane(c), NEW i \in 0 .. Len(c.out)
    PROVE  End(c, i) \in Nat
<1>1. c.out \in Seq([id : Nat, to : Nat]) /\ Len(c.out) \in Nat
  BY ConnFields DEF Sane
<1>2. CASE i = 0
  BY <1>2 DEF End
<1>3. CASE i # 0
  <2>0. i \in 1 .. Len(c.out)
    BY <1>1, <1>3
  <2>1. c.out[i] \in [id : Nat, to : Nat]
    BY <1>1, <2>0, ElementOfSeq
  <2> QED
    BY <1>3, <2>1 DEF End
<1> QED
  BY <1>2, <1>3

(* Chunks are never empty, so a counter at zero is an empty queue.         *)
LEMMA PendingZero ==
    ASSUME NEW c, Sane(c)
    PROVE  c.pending = 0 <=> ~Unsent(c)
<1>1. Len(c.out) \in Nat /\ c.head \in 0 .. Len(c.out)
  BY ConnFields DEF Sane
<1>2. Total(c) \in Nat /\ End(c, c.head) \in Nat
  BY <1>1, EndType DEF Total
<1>3. CASE c.head = Len(c.out)
  BY <1>1, <1>2, <1>3 DEF Sane, Total, Unsent
<1>4. CASE c.head # Len(c.out)
  <2>1. c.head < Len(c.out) /\ Len(c.out) \in 1 .. Len(c.out)
    BY <1>1, <1>4
  <2>2. End(c, c.head) < Total(c)
    BY <1>1, <2>1 DEF Sane, Total
  <2> QED
    BY <1>2, <2>1, <2>2 DEF Sane, Unsent
<1> QED
  BY <1>3, <1>4

LEMMA FollowsTrans ==
    ASSUME NEW a, NEW b, NEW c, Sane(a), Sane(b), Sane(c), Follows(a, b), Follows(b, c)
    PROVE  Follows(a, c)
<1>1. a.head \in Nat /\ b.head \in Nat /\ c.head \in Nat
  BY ConnFields DEF Sane
<1>2. c.out = a.out /\ c.head >= a.head
  BY <1>1 DEF Follows
<1> QED
  BY <1>2 DEF Follows

LEMMA EnableType ==
    ASSUME NEW c \in ConnType, NEW e \in Events
    PROVE  Enable(c, e) \in ConnType /\ Disable(c, e) \in ConnType
<1>1. c.event \union {e} \in SUBSET Events /\ c.event \ {e} \in SUBSET Events
  BY DEF ConnType
<1>2. \A ev \in SUBSET Events : [c EXCEPT !.event = ev, !.fresh = TRUE] \in ConnType
  BY DEF ConnType
<1> QED
  BY <1>1, <1>2 DEF Enable, Disable

LEMMA ForceCloseType ==
    ASSUME NEW c \in ConnType, NEW r \in CloseReasons
    PROVE  ForceClose(c, r) \in ConnType
<1> DEFINE none == {}
           gone == [c EXCEPT !.event = none, !.received = none, !.fresh = FALSE,
                             !.inEpoll = FALSE, !.mask = none, !.edge = FALSE]
           why == IF gone.fd = "closed" THEN gone.why ELSE r
<1>1. none \in SUBSET Events
  OBVIOUS
<1>2. ForceClose(c, r) = [gone EXCEPT !.enable = FALSE, !.fd = "closed",
                                      !.notified = TRUE, !.why = why]
  BY DEF ForceClose, UnregisterChannel
<1> HIDE DEF none
<1>3. gone \in ConnType
  BY <1>1 DEF ConnType
<1> HIDE DEF gone
<1>4. why \in CloseReasons
  BY <1>3 DEF ConnType
<1> HIDE DEF why
<1> QED
  BY <1>2, <1>3, <1>4, ZenonT(60) DEF ConnType

LEMMA ForceCloseSettles ==
    ASSUME NEW c, Sane(c), NEW r \in CloseReasons
    PROVE  /\ Sane(ForceClose(c, r))
           /\ Settled(ForceClose(c, r))
           /\ Follows(c, ForceClose(c, r))
           /\ ForceClose(c, r).fd = "closed" /\ ~ForceClose(c, r).enable
<1> DEFINE d == ForceClose(c, r)
<1>1. d \in ConnType
  BY ForceCloseType DEF Sane
<1>2. /\ d.out = c.out /\ d.head = c.head /\ d.pending = c.pending
      /\ d.fd = "closed" /\ ~d.enable /\ d.notified /\ ~d.inEpoll /\ d.event = {}
  BY DEF Sane, ForceClose, UnregisterChannel, ConnType
<1>3. Sane(d)
  BY <1>1, <1>2 DEF Sane, End, Total
<1> HIDE DEF d
<1>4. Settled(d)
  BY <1>2 DEF Settled, Tuned, Watched
<1>5. Follows(c, d)
  <2>1. d.head >= c.head
    BY <1>2, ConnFields DEF Sane
  <2> QED
    BY <1>2, <2>1, Zenon DEF Follows
<1> QED
  BY <1>2, <1>3, <1>4, <1>5 DEF d

(* update_channel() on the channel's own record: a MOD that fails changes   *)
(* nothing but the freshness flag.                                         *)
LEMMA UpdateMatches ==
    ASSUME NEW c \in ConnType, NEW s
    PROVE  /\ UpdateChannel(c, s) \in ConnType
           /\ ~UpdateChannel(c, s).fresh
           /\ UpdateChannel(c, s).inEpoll = c.inEpoll /\ UpdateChannel(c, s).lost = c.lost
           /\ c.fresh /\ c.inEpoll => UpdateChannel(c, s).mask = c.event
           /\ ~c.inEpoll => UpdateChannel(c, s).mask = c.mask
           /\ ~c.fresh => UpdateChannel(c, s) = c
           /\ UpdateChannel(c, s).event = c.event
           /\ UpdateChannel(c, s).out = c.out /\ UpdateChannel(c, s).head = c.head
           /\ UpdateChannel(c, s).pending = c.pending
           /\ UpdateChannel(c, s).fd = c.fd /\ UpdateChannel(c, s).notified = c.notified
           /\ UpdateChannel(c, s).enable = c.enable
           /\ UpdateChannel(c, s).blocking = c.blocking
           /\ UpdateChannel(c, s).closeWait = c.closeWait
           /\ UpdateChannel(c, s).why = c.why
<1> DEFINE e == c.edge \/ Level(c, s) \cap (c.event \union {"ERR"}) # {}
           d == [c EXCEPT !.inEpoll = TRUE, !.mask = c.event, !.fresh = FALSE, !.edge = e]
           f == [c EXCEPT !.fresh = FALSE]
<1>1. e \in BOOLEAN
  BY DEF ConnType
<1>2. UpdateChannel(c, s) = IF ~c.fresh THEN c ELSE IF c.inEpoll THEN d ELSE f
  BY DEF UpdateChannel, Armed
<1> HIDE DEF e
<1>3. /\ d \in ConnType /\ ~d.fresh /\ d.mask = c.event /\ d.inEpoll
      /\ d.event = c.event /\ d.out = c.out /\ d.head = c.head
      /\ d.pending = c.pending /\ d.fd = c.fd /\ d.notified = c.notified
      /\ d.enable = c.enable /\ d.blocking = c.blocking
      /\ d.closeWait = c.closeWait /\ d.why = c.why /\ d.lost = c.lost
  BY <1>1 DEF ConnType
<1>4. /\ f \in ConnType /\ ~f.fresh /\ f.mask = c.mask /\ f.inEpoll = c.inEpoll
      /\ f.event = c.event /\ f.out = c.out /\ f.head = c.head
      /\ f.pending = c.pending /\ f.fd = c.fd /\ f.notified = c.notified
      /\ f.enable = c.enable /\ f.blocking = c.blocking
      /\ f.closeWait = c.closeWait /\ f.why = c.why /\ f.lost = c.lost
  BY DEF ConnType
<1> HIDE DEF d, f
<1>5. c.fresh \in BOOLEAN /\ c.inEpoll \in BOOLEAN /\ d.inEpoll \in BOOLEAN
  BY <1>3, ConnFields
<1> QED
  BY <1>2, <1>3, <1>4, <1>5

(* shutdown() keeps what it finds settled settled, and neither makes nor   *)
(* unmakes the epoll entry of a connection it leaves open.                 *)
LEMMA ShutdownTunes ==
    ASSUME NEW c, Sane(c), Tuned(c), NEW s
    PROVE  /\ Sane(Shutdown(c, s))
           /\ Tuned(Shutdown(c, s))
           /\ ~c.fresh => Settled(Shutdown(c, s))
           /\ ~c.inEpoll => ~Shutdown(c, s).inEpoll
           /\ Follows(c, Shutdown(c, s))
<1> DEFINE off   == Disable(c, "IN")
           quiet == IF "IN" \in c.event THEN UpdateChannel(off, s) ELSE c
           waits == [quiet EXCEPT !.closeWait = TRUE]
<1>1. /\ off \in ConnType
      /\ "IN" \in c.event => off.fresh
      /\ off.event = c.event \ {"IN"}
      /\ off.out = c.out /\ off.head = c.head /\ off.pending = c.pending
      /\ off.fd = c.fd /\ off.notified = c.notified /\ off.enable = c.enable
      /\ off.blocking = c.blocking
      /\ off.inEpoll = c.inEpoll /\ off.lost = c.lost /\ off.mask = c.mask
  <2>1. off \in ConnType
    BY EnableType DEF Events, Sane
  <2> QED
    BY <2>1 DEF Disable, Sane, ConnType
<1>2. /\ quiet \in ConnType
      /\ quiet.out = c.out /\ quiet.head = c.head /\ quiet.pending = c.pending
      /\ quiet.fd = c.fd /\ quiet.notified = c.notified /\ quiet.enable = c.enable
      /\ quiet.blocking = c.blocking
      /\ quiet.event = c.event \ {"IN"}
      /\ quiet.inEpoll = c.inEpoll
      /\ c.fd = "open" => Synced(quiet)
      /\ ~c.fresh => ~quiet.fresh
  <2>1. CASE "IN" \in c.event
    <3>1. quiet = UpdateChannel(off, s)
      BY <2>1
    <3> HIDE DEF off, quiet
    <3>2. /\ quiet \in ConnType /\ ~quiet.fresh
          /\ quiet.inEpoll = c.inEpoll /\ quiet.lost = c.lost
          /\ quiet.inEpoll => quiet.mask = quiet.event
          /\ ~quiet.inEpoll => quiet.mask = c.mask
          /\ quiet.event = c.event \ {"IN"}
      BY <2>1, <3>1, <1>1, UpdateMatches
    <3>3. c.fd = "open" => Synced(quiet)
      BY <3>2 DEF Tuned, Watched, Synced
    <3> QED
      BY <3>1, <3>2, <3>3, <1>1, UpdateMatches
  <2>2. CASE "IN" \notin c.event
    BY <2>2 DEF Sane, Tuned, Watched
  <2> QED
    BY <2>1, <2>2
<1> HIDE DEF quiet
<1>3. /\ waits \in ConnType
      /\ waits.out = c.out /\ waits.head = c.head /\ waits.pending = c.pending
      /\ waits.fd = c.fd /\ waits.notified = c.notified /\ waits.enable = c.enable
      /\ waits.blocking = c.blocking /\ waits.closeWait
      /\ waits.event = c.event \ {"IN"}
      /\ waits.inEpoll = c.inEpoll
      /\ c.fd = "open" => Synced(waits)
      /\ ~c.fresh => ~waits.fresh
  BY <1>2 DEF ConnType, Synced
<1> HIDE DEF waits
<1>6. Sane(waits)
  BY <1>3 DEF Sane, End, Total
<1>7. Tuned(waits) /\ (~c.fresh => Settled(waits))
  BY <1>3 DEF Settled, Tuned, Watched, Unsent
<1>8. Follows(c, waits)
  BY <1>3, ConnFields DEF Follows, Sane
<1>9. CASE waits.pending > 0
  BY <1>3, <1>6, <1>7, <1>8, <1>9 DEF Shutdown, waits, quiet
<1>10. CASE ~(waits.pending > 0)
  <2>1. Shutdown(c, s) = ForceClose(waits, "graceful")
    BY <1>10 DEF Shutdown, waits, quiet
  <2>2. Follows(waits, ForceClose(waits, "graceful"))
    BY <1>6, ForceCloseSettles DEF CloseReasons
  <2>3. Follows(c, ForceClose(waits, "graceful"))
    BY <1>3, <2>2 DEF Follows
  <2>4. Settled(ForceClose(waits, "graceful")) /\ Sane(ForceClose(waits, "graceful"))
    BY <1>6, ForceCloseSettles DEF CloseReasons
  <2>5. ForceClose(waits, "graceful").fd = "closed"
    BY <1>6, ForceCloseSettles DEF CloseReasons
  <2> QED
    BY <2>1, <2>3, <2>4, <2>5 DEF Settled, Tuned, Watched
<1> QED
  BY <1>9, <1>10

LEMMA ShutdownSettles ==
    ASSUME NEW c, Sane(c), Settled(c), NEW s
    PROVE  /\ Sane(Shutdown(c, s))
           /\ Settled(Shutdown(c, s))
           /\ Follows(c, Shutdown(c, s))
<1>1. Tuned(c) /\ (c.fd = "open" => ~c.fresh)
  BY DEF Settled
<1>2. CASE c.fd = "open"
  BY <1>1, <1>2, ShutdownTunes
<1>3. CASE c.fd # "open"
  <2>1. /\ Sane(Shutdown(c, s)) /\ Tuned(Shutdown(c, s)) /\ Follows(c, Shutdown(c, s))
    BY <1>1, ShutdownTunes
  <2>2. Shutdown(c, s).fd # "open"
    BY <1>3, <2>1 DEF Follows
  <2> QED
    BY <2>1, <2>2 DEF Settled
<1> QED
  BY <1>2, <1>3

(* Forgetting a change whose MOD failed leaves a lost connection settled.  *)
LEMMA UnfreshSettles ==
    ASSUME NEW c, Sane(c), Tuned(c), ~c.inEpoll
    PROVE  LET d == [c EXCEPT !.fresh = FALSE] IN
           /\ Sane(d) /\ Settled(d) /\ Follows(c, d)
           /\ d.received = c.received /\ d.edge = c.edge /\ d.mask = c.mask
           /\ d.fd = c.fd /\ d.out = c.out /\ d.head = c.head /\ ~d.inEpoll
           /\ d.written = c.written /\ d.why = c.why
<1> DEFINE d == [c EXCEPT !.fresh = FALSE]
<1>1. /\ d \in ConnType /\ ~d.fresh
      /\ d.out = c.out /\ d.head = c.head /\ d.pending = c.pending
      /\ d.fd = c.fd /\ d.notified = c.notified /\ d.enable = c.enable
      /\ d.inEpoll = c.inEpoll /\ d.lost = c.lost /\ d.mask = c.mask
      /\ d.event = c.event /\ d.blocking = c.blocking /\ d.closeWait = c.closeWait
      /\ d.received = c.received /\ d.edge = c.edge
      /\ d.written = c.written /\ d.why = c.why
  BY DEF Sane, ConnType
<1> HIDE DEF d
<1>2. Sane(d)
  BY <1>1 DEF Sane, End, Total
<1>3. Settled(d)
  BY <1>1 DEF Settled, Tuned, Watched, Synced, Unsent
<1>4. Follows(c, d)
  BY <1>1, ConnFields DEF Follows, Sane
<1> QED
  BY <1>1, <1>2, <1>3, <1>4 DEF d

(* The MOD at the end of send(), whether the entry is there or not.        *)
LEMMA ModifiedSettles ==
    ASSUME NEW c, Sane(c), Tuned(c), c.fd = "open", NEW s
    PROVE  /\ Sane(Modified(c, s))
           /\ Settled(Modified(c, s))
           /\ Follows(c, Modified(c, s))
<1>1. CASE c.fresh /\ ~c.inEpoll
  <2> DEFINE e == Shutdown(c, s)
             d == [e EXCEPT !.fresh = FALSE]
  <2>1. Sane(e) /\ Tuned(e) /\ ~e.inEpoll /\ Follows(c, e)
    BY <1>1, ShutdownTunes
  <2>2. Modified(c, s) = d
    BY <1>1 DEF Modified
  <2> HIDE DEF e
  <2>3. Sane(d) /\ Settled(d) /\ Follows(e, d)
    BY <2>1, UnfreshSettles
  <2>4. Follows(c, d)
    BY <2>1, <2>3, FollowsTrans
  <2> QED
    BY <2>2, <2>3, <2>4
<1>2. CASE ~(c.fresh /\ ~c.inEpoll)
  <2> DEFINE d == UpdateChannel(c, s)
  <2>1. Modified(c, s) = d
    BY <1>2 DEF Modified
  <2>2. c \in ConnType
    BY DEF Sane
  <2>3. /\ d \in ConnType /\ ~d.fresh
        /\ d.inEpoll = c.inEpoll /\ d.lost = c.lost
        /\ c.fresh /\ c.inEpoll => d.mask = c.event
        /\ ~c.inEpoll => d.mask = c.mask
        /\ ~c.fresh => d = c
        /\ d.event = c.event /\ d.out = c.out /\ d.head = c.head
        /\ d.pending = c.pending /\ d.fd = c.fd /\ d.notified = c.notified
        /\ d.enable = c.enable /\ d.blocking = c.blocking /\ d.closeWait = c.closeWait
    BY <2>2, UpdateMatches
  <2> HIDE DEF d
  <2>4. Sane(d)
    BY <2>3 DEF Sane, End, Total
  <2>5. Synced(c) => Synced(d)
    BY <2>3 DEF Synced
  <2>6. Settled(d)
    BY <2>3, <2>5 DEF Settled, Tuned, Watched, Unsent
  <2>7. Follows(c, d)
    BY <2>2, <2>3, ConnFields DEF Follows
  <2> QED
    BY <2>1, <2>4, <2>6, <2>7
<1> QED
  BY <1>1, <1>2

(* d differs from c in the interest set and the pressure flag at most, and *)
(* a change of the interest set is noted in fresh.                         *)
Retunes(c, d) ==
    /\ d \in ConnType
    /\ d.out = c.out /\ d.head = c.head /\ d.pending = c.pending
    /\ d.fd = c.fd /\ d.notified = c.notified /\ d.enable = c.enable
    /\ d.closeWait = c.closeWait
    /\ Synced(c) => Synced(d)

LEMMA EnableRetunes ==
    ASSUME NEW c \in ConnType, NEW e \in Events
    PROVE  /\ Retunes(c, Enable(c, e))
           /\ Enable(c, e).blocking = c.blocking
           /\ Enable(c, e).event = c.event \union {e}
<1>1. Enable(c, e) \in ConnType
  BY EnableType
<1>2. CASE e \in c.event
  BY <1>2 DEF Enable, Retunes
<1>3. CASE e \notin c.event
  BY <1>1, <1>3 DEF Enable, Retunes, Synced, ConnType
<1> QED
  BY <1>2, <1>3

LEMMA DisableRetunes ==
    ASSUME NEW c \in ConnType, NEW e \in Events
    PROVE  /\ Retunes(c, Disable(c, e))
           /\ Disable(c, e).blocking = c.blocking
           /\ Disable(c, e).event = c.event \ {e}
<1>1. Disable(c, e) \in ConnType
  BY EnableType
<1>2. CASE e \in c.event
  BY <1>1, <1>2 DEF Disable, Retunes, Synced, ConnType
<1>3. CASE e \notin c.event
  BY <1>3 DEF Disable, Retunes
<1> QED
  BY <1>2, <1>3

LEMMA BlockingRetunes ==
    ASSUME NEW c \in ConnType, NEW v \in BOOLEAN
    PROVE  LET d == [c EXCEPT !.blocking = v] IN
           Retunes(c, d) /\ d.blocking = v /\ d.event = c.event
BY DEF Retunes, Synced, ConnType

LEMMA BackpressureRetunes ==
    ASSUME NEW c \in ConnType, c.blocking => "IN" \notin c.event
    PROVE  LET d == ApplyBackpressure(c) IN
           /\ Retunes(c, d)
           /\ "OUT" \in d.event <=> "OUT" \in c.event
           /\ d.blocking => d.pending >= UnblockLine /\ "IN" \notin d.event
           /\ ~d.blocking => d.pending < BlockLine /\ "IN" \in d.event
<1> DEFINE blocks   == c.pending >= BlockLine /\ ~c.blocking
           unblocks == c.pending < UnblockLine /\ c.blocking
           b == IF blocks THEN [Disable(c, "IN") EXCEPT !.blocking = TRUE]
                ELSE IF unblocks THEN [c EXCEPT !.blocking = FALSE]
                ELSE c
           d == ApplyBackpressure(c)
<1>1. /\ Retunes(c, b)
      /\ "OUT" \in b.event <=> "OUT" \in c.event
      /\ b.blocking => b.pending >= UnblockLine /\ "IN" \notin b.event
      /\ ~b.blocking => b.pending < BlockLine
  <2>1. CASE blocks
    <3>1. b = [Disable(c, "IN") EXCEPT !.blocking = TRUE]
      BY <2>1
    <3>2. Retunes(Disable(c, "IN"), b) /\ b.blocking /\ b.event = Disable(c, "IN").event
      <4>1. Disable(c, "IN") \in ConnType
        BY EnableType DEF Events
      <4> QED
        BY <3>1, <4>1, BlockingRetunes
    <3> QED
      BY <2>1, <3>2, DisableRetunes, LinesOrdered, ConnFields, BlockLineAssumption
         DEF Retunes, Events
  <2>2. CASE ~blocks /\ unblocks
    <3>1. b = [c EXCEPT !.blocking = FALSE]
      BY <2>2
    <3>2. Retunes(c, b) /\ ~b.blocking /\ b.event = c.event /\ b.pending = c.pending
      <4>1. Retunes(c, b) /\ b.blocking = FALSE /\ b.event = c.event
        BY <3>1, BlockingRetunes
      <4> QED
        BY <4>1 DEF Retunes
    <3> QED
      BY <2>2, <3>2, LinesOrdered, ConnFields, BlockLineAssumption
  <2>3. CASE ~blocks /\ ~unblocks
    <3>1. b = c
      BY <2>3
    <3> QED
      BY <2>3, <3>1, LinesOrdered, ConnFields, BlockLineAssumption DEF Retunes
  <2> QED
    BY <2>1, <2>2, <2>3
<1>2. d = IF b.blocking THEN b ELSE Enable(b, "IN")
  BY DEF ApplyBackpressure
<1> HIDE DEF b, d
<1>3. CASE b.blocking
  BY <1>1, <1>2, <1>3 DEF d
<1>4. CASE ~b.blocking
  <2>1. b \in ConnType
    BY <1>1 DEF Retunes
  <2>2. Retunes(b, d) /\ d.blocking = b.blocking /\ d.event = b.event \union {"IN"}
    BY <1>2, <1>4, <2>1, EnableRetunes DEF Events
  <2> QED
    BY <1>1, <1>4, <2>2 DEF Retunes, d
<1> QED
  BY <1>3, <1>4

(* Every byte counted: ends never decrease along the queue.                *)
LEMMA PoppedSane ==
    ASSUME NEW c, Sane(c), NEW s \in SockType, NEW h \in c.head .. Len(c.out)
    PROVE  /\ Sane(Popped(c, s, h))
           /\ Popped(c, s, h).out = c.out /\ Popped(c, s, h).head = h
           /\ Popped(c, s, h).fd = c.fd /\ Popped(c, s, h).notified = c.notified
           /\ Popped(c, s, h).enable = c.enable /\ Popped(c, s, h).fresh = c.fresh
           /\ Popped(c, s, h).inEpoll = c.inEpoll /\ Popped(c, s, h).mask = c.mask
           /\ Popped(c, s, h).lost = c.lost
           /\ Popped(c, s, h).event = c.event /\ Popped(c, s, h).blocking = c.blocking
<1> DEFINE p == c.pending - (End(c, h) - End(c, c.head))
           w == IF Unsent(c) THEN WriteTarget(c, s) ELSE c.written
           d == [c EXCEPT !.pending = p, !.head = h, !.written = w]
<1>1. /\ c.head \in Nat /\ Len(c.out) \in Nat /\ c.head <= Len(c.out) /\ h \in Nat
      /\ c.pending \in Int /\ c \in ConnType
  BY ConnFields DEF Sane
<1>2. End(c, h) \in Nat /\ End(c, c.head) \in Nat /\ End(c, Len(c.out)) \in Nat
  BY <1>1, EndType
<1>3. p \in Int /\ p = Total(c) - End(c, h)
  BY <1>1, <1>2 DEF Sane, Total
<1>4. w \in Nat
  <2>1. s.drained \in Nat /\ SockBuf \in Nat /\ c.written \in Nat
    BY <1>1, SockBufAssumption, ConnFields DEF SockType
  <2> QED
    BY <1>2, <2>1 DEF WriteTarget, Total
<1>5. Popped(c, s, h) = d
  BY <1>1 DEF Popped
<1> HIDE DEF p, w
<1>6. /\ d \in ConnType
      /\ d.out = c.out /\ d.head = h /\ d.fd = c.fd /\ d.notified = c.notified
      /\ d.enable = c.enable /\ d.inEpoll = c.inEpoll /\ d.fresh = c.fresh
      /\ d.mask = c.mask /\ d.event = c.event /\ d.blocking = c.blocking
      /\ d.pending = p /\ d.lost = c.lost
  BY <1>1, <1>3, <1>4 DEF ConnType
<1> HIDE DEF d
<1>7. Sane(d)
  BY <1>1, <1>3, <1>6 DEF Sane, End, Total
<1> QED
  BY <1>5, <1>6, <1>7

(* The record send() leaves after apply_backpressure, before the MOD.      *)
Pressed(c, s, h) ==
    LET popped == Popped(c, s, h)
    IN  ApplyBackpressure(IF Unsent(popped) THEN Enable(popped, "OUT")
                          ELSE Disable(popped, "OUT"))

LEMMA PressedTuned ==
    ASSUME NEW c, Sane(c), Watched(c), c.enable, c.fd = "open",
           NEW s \in SockType, NEW h \in c.head .. Len(c.out)
    PROVE  LET d == Pressed(c, s, h) IN
           Sane(d) /\ Tuned(d) /\ Follows(c, d) /\ d.fd = "open"
<1> DEFINE popped  == Popped(c, s, h)
           wants   == IF Unsent(popped) THEN Enable(popped, "OUT") ELSE Disable(popped, "OUT")
           pressed == ApplyBackpressure(wants)
<1>1. Pressed(c, s, h) = pressed
  BY DEF Pressed
<1>3. /\ Sane(popped) /\ Watched(popped)
      /\ popped.out = c.out /\ popped.head = h /\ popped.fd = "open"
      /\ popped.notified = c.notified /\ popped.enable
  <2>1. /\ Sane(popped)
        /\ popped.out = c.out /\ popped.head = h /\ popped.fd = c.fd
        /\ popped.notified = c.notified /\ popped.enable = c.enable
        /\ popped.inEpoll = c.inEpoll /\ popped.fresh = c.fresh
        /\ popped.mask = c.mask /\ popped.event = c.event /\ popped.lost = c.lost
        /\ popped.blocking = c.blocking
    BY PoppedSane, ZenonT(60)
  <2> HIDE DEF popped
  <2> QED
    BY <2>1 DEF Watched, Synced
<1> HIDE DEF popped
<1>4. /\ Retunes(popped, wants)
      /\ "OUT" \in wants.event <=> Unsent(popped)
      /\ wants.blocking => "IN" \notin wants.event
  <2>1. popped \in ConnType
    BY <1>3 DEF Sane
  <2>2. CASE Unsent(popped)
    BY <2>1, <2>2, <1>3, EnableRetunes DEF Watched, Events
  <2>3. CASE ~Unsent(popped)
    BY <2>1, <2>3, <1>3, DisableRetunes DEF Watched, Events
  <2> QED
    BY <2>2, <2>3
<1> HIDE DEF wants
<1>5. /\ Retunes(wants, pressed)
      /\ "OUT" \in pressed.event <=> "OUT" \in wants.event
      /\ pressed.blocking => pressed.pending >= UnblockLine /\ "IN" \notin pressed.event
      /\ ~pressed.blocking => pressed.pending < BlockLine /\ "IN" \in pressed.event
  BY <1>4, BackpressureRetunes DEF Retunes
<1> HIDE DEF pressed
<1>6. Retunes(popped, pressed)
  BY <1>4, <1>5 DEF Retunes
<1>7. Sane(pressed)
  BY <1>3, <1>6 DEF Sane, Retunes, End, Total
<1>8. Tuned(pressed)
  <2>1. Unsent(pressed) <=> Unsent(popped)
    BY <1>6 DEF Retunes, Unsent
  <2>2. pressed.enable /\ Synced(pressed) /\ pressed.fd = "open"
    BY <1>3, <1>6 DEF Retunes, Watched
  <2> QED
    BY <1>4, <1>5, <2>1, <2>2 DEF Tuned, Watched
<1>9. Follows(c, pressed)
  <2>1. /\ pressed.out = c.out /\ pressed.head = h /\ pressed.fd = c.fd
        /\ pressed.notified = c.notified /\ pressed.enable = c.enable
    BY <1>3, <1>6, ConnFields DEF Retunes, Sane
  <2>2. h >= c.head
    BY ConnFields DEF Sane
  <2> QED
    BY <2>1, <2>2 DEF Follows
<1> QED
  BY <1>1, <1>3, <1>6, <1>7, <1>8, <1>9 DEF Retunes

LEMMA FlushedSettles ==
    ASSUME NEW c, Sane(c), Watched(c), c.enable, c.fd = "open",
           NEW s \in SockType, NEW h \in c.head .. Len(c.out)
    PROVE  /\ Sane(Flushed(c, s, h))
           /\ Settled(Flushed(c, s, h))
           /\ Follows(c, Flushed(c, s, h))
<1> DEFINE pressed == Pressed(c, s, h)
           settled == Modified(pressed, s)
<1>1. Flushed(c, s, h) = IF settled.pending = 0 /\ settled.closeWait
                         THEN ForceClose(settled, "graceful") ELSE settled
  BY DEF Flushed, Pressed
<1>2. Sane(pressed) /\ Tuned(pressed) /\ Follows(c, pressed) /\ pressed.fd = "open"
  BY PressedTuned
<1> HIDE DEF pressed
<1>3. Sane(settled) /\ Settled(settled) /\ Follows(pressed, settled)
  BY <1>2, ModifiedSettles
<1> HIDE DEF settled
<1>4. Follows(c, settled)
  BY <1>2, <1>3, FollowsTrans
<1>5. CASE settled.pending = 0 /\ settled.closeWait
  <2>1. Flushed(c, s, h) = ForceClose(settled, "graceful")
    BY <1>1, <1>5
  <2>2. Follows(c, ForceClose(settled, "graceful"))
    BY <1>3, <1>4, FollowsTrans, ForceCloseSettles DEF CloseReasons
  <2> QED
    BY <2>1, <2>2, <1>3, ForceCloseSettles DEF CloseReasons
<1>6. CASE ~(settled.pending = 0 /\ settled.closeWait)
  BY <1>1, <1>3, <1>4, <1>6
<1> QED
  BY <1>5, <1>6

LEMMA SendsSettles ==
    ASSUME NEW c, Sane(c), Watched(c), c.enable => c.fd = "open",
           NEW s \in SockType, NEW d, Sends(c, s, d)
    PROVE  Sane(d) /\ Settled(d) /\ Follows(c, d)
<1>1. CASE ~c.enable /\ d = c
  <2>1. c.fd # "open" /\ Settled(c)
    BY <1>1 DEF Watched, Tuned, Settled
  <2> QED
    BY <1>1, <2>1, ConnFields DEF Follows, Sane
<1>2. CASE c.enable /\ s.rst /\ Unsent(c) /\ d = ForceClose(c, "error")
  BY <1>2, ForceCloseSettles DEF CloseReasons
<1>3. CASE c.enable /\ \E h \in c.head .. Len(c.out) : d = Flushed(c, s, h)
  BY <1>3, FlushedSettles
<1> QED
  BY <1>1, <1>2, <1>3 DEF Sends

(* d is c with another ready-list flag, timer, received event set or       *)
(* removal notice.                                                         *)
Touches(c, d) ==
    /\ d \in ConnType
    /\ d.fd = c.fd /\ d.enable = c.enable
    /\ d.event = c.event /\ d.fresh = c.fresh
    /\ d.inEpoll = c.inEpoll /\ d.mask = c.mask /\ d.lost = c.lost
    /\ d.blocking = c.blocking /\ d.closeWait = c.closeWait
    /\ d.pending = c.pending /\ d.out = c.out /\ d.head = c.head

LEMMA TouchesSettles ==
    ASSUME NEW c, Sane(c), Settled(c), NEW d, Touches(c, d)
    PROVE  Sane(d) /\ Settled(d)
<1>1. Sane(d)
  BY DEF Touches, Sane, End, Total
<1>2. Settled(d)
  BY DEF Touches, Settled, Tuned, Watched, Synced, Unsent
<1> QED
  BY <1>1, <1>2

LEMMA FieldTouches ==
    ASSUME NEW c \in ConnType, NEW b \in BOOLEAN, NEW t \in {"none", "armed", "due"},
           NEW ev \in SUBSET Events
    PROVE  /\ Touches(c, [c EXCEPT !.edge = b])
           /\ Touches(c, [c EXCEPT !.timer = t])
           /\ Touches(c, [c EXCEPT !.received = ev])
           /\ Touches(c, [c EXCEPT !.notified = b])
           /\ [c EXCEPT !.edge = b].notified = c.notified
           /\ [c EXCEPT !.timer = t].notified = c.notified
           /\ [c EXCEPT !.received = ev].notified = c.notified
<1>1. Touches(c, [c EXCEPT !.edge = b]) /\ [c EXCEPT !.edge = b].notified = c.notified
  BY DEF Touches, ConnType
<1>2. Touches(c, [c EXCEPT !.timer = t]) /\ [c EXCEPT !.timer = t].notified = c.notified
  BY DEF Touches, ConnType
<1>3. Touches(c, [c EXCEPT !.received = ev]) /\ [c EXCEPT !.received = ev].notified = c.notified
  BY DEF Touches, ConnType
<1>4. Touches(c, [c EXCEPT !.notified = b])
  BY DEF Touches, ConnType
<1> QED
  BY <1>1, <1>2, <1>3, <1>4

(* send(chunk) queues the chunk at the end of the stream.                  *)
LEMMA QueuedSane ==
    ASSUME NEW c, Sane(c), Watched(c), NEW id \in Nat, NEW size \in Nat \ {0}
    PROVE  LET d == Queued(c, id, size) IN
           /\ Sane(d) /\ Watched(d)
           /\ Len(d.out) = Len(c.out) + 1
           /\ \A i \in 1 .. Len(c.out) : d.out[i] = c.out[i]
           /\ d.out[Len(c.out) + 1].id = id
           /\ d.head = c.head
           /\ d.fd = c.fd /\ d.enable = c.enable /\ d.notified = c.notified
<1> DEFINE k == [id |-> id, to |-> Total(c) + size]
           q == Append(c.out, k)
           p == c.pending + size
           d == Queued(c, id, size)
<1>1. c \in ConnType /\ c.out \in Seq([id : Nat, to : Nat]) /\ Len(c.out) \in Nat
      /\ c.pending \in Int /\ c.head \in Nat
  BY ConnFields DEF Sane
<1>2. Total(c) \in Nat
  BY <1>1, EndType DEF Total
<1>3. k \in [id : Nat, to : Nat] /\ p \in Int
  BY <1>1, <1>2
<1>4. /\ q \in Seq([id : Nat, to : Nat]) /\ Len(q) = Len(c.out) + 1
      /\ \A i \in 1 .. Len(c.out) : q[i] = c.out[i]
      /\ q[Len(c.out) + 1] = k
  <2> HIDE DEF k
  <2> QED
    BY <1>1, <1>3, AppendProperties
<1>5. d = [c EXCEPT !.pending = p, !.out = q]
  BY DEF Queued
<1>6. k.id = id /\ k.to = Total(c) + size
  OBVIOUS
<1> HIDE DEF k, q, p, d
<1>7. /\ d \in ConnType /\ d.out = q /\ d.pending = p /\ d.head = c.head
      /\ d.fd = c.fd /\ d.enable = c.enable /\ d.notified = c.notified
      /\ d.inEpoll = c.inEpoll /\ d.event = c.event /\ d.mask = c.mask
      /\ d.fresh = c.fresh /\ d.blocking = c.blocking /\ d.lost = c.lost
  BY <1>1, <1>3, <1>4, <1>5 DEF ConnType
<1>8. \A i \in 0 .. Len(c.out) : End(d, i) = End(c, i)
  <2> SUFFICES ASSUME NEW i \in 0 .. Len(c.out) PROVE End(d, i) = End(c, i)
    OBVIOUS
  <2>1. i = 0 \/ i \in 1 .. Len(c.out)
    BY <1>1
  <2> QED
    BY <1>4, <1>7, <2>1 DEF End
<1>9. Total(d) = Total(c) + size
  <2>1. Len(c.out) \in Nat /\ Len(d.out) = Len(c.out) + 1 /\ Len(d.out) # 0
    BY <1>1, <1>4, <1>7
  <2>2. d.out[Len(d.out)] = k
    BY <1>4, <1>7, <2>1
  <2>3. End(d, Len(d.out)) = k.to
    BY <2>1, <2>2 DEF End
  <2> QED
    BY <1>6, <2>3 DEF Total
<1>10. \A i \in 0 .. Len(d.out), j \in 1 .. Len(d.out) : i < j => End(d, i) < End(d, j)
  <2> SUFFICES ASSUME NEW i \in 0 .. Len(d.out), NEW j \in 1 .. Len(d.out), i < j
               PROVE  End(d, i) < End(d, j)
    OBVIOUS
  <2>0. Len(d.out) = Len(c.out) + 1 /\ Len(c.out) \in Nat
    BY <1>1, <1>4, <1>7
  <2>a. i \in 0 .. Len(c.out) + 1 /\ j \in 1 .. Len(c.out) + 1
    BY <2>0
  <2>1. i \in 0 .. Len(c.out) /\ (j \in 1 .. Len(c.out) \/ j = Len(c.out) + 1)
    BY <2>0, <2>a
  <2>2. CASE j \in 1 .. Len(c.out)
    <3>1. End(d, i) = End(c, i) /\ End(d, j) = End(c, j)
      BY <1>1, <1>8, <2>1, <2>2
    <3> QED
      BY <2>1, <2>2, <3>1 DEF Sane
  <2>3. CASE j = Len(c.out) + 1
    <3>1. End(d, j) = Total(c) + size
      BY <1>4, <1>7, <1>9, <2>3 DEF Total
    <3>2. End(d, i) = End(c, i) /\ End(c, i) \in Nat
      BY <1>8, <2>1, EndType
    <3>3. CASE i = Len(c.out)
      BY <1>2, <3>1, <3>2, <3>3 DEF Total
    <3>4. CASE i # Len(c.out)
      <4>1. i < Len(c.out) /\ Len(c.out) \in 1 .. Len(c.out)
        BY <1>1, <2>1, <3>4
      <4>2. End(c, i) < Total(c)
        BY <2>1, <4>1 DEF Sane, Total
      <4> QED
        BY <1>2, <3>1, <3>2, <4>2
    <3> QED
      BY <3>3, <3>4
  <2> QED
    BY <2>1, <2>2, <2>3
<1>11. c.head \in 0 .. Len(c.out)
  BY <1>1 DEF Sane
<1>12. d.pending = Total(d) - End(d, d.head)
  <2>1. End(d, d.head) = End(c, c.head) /\ End(c, c.head) \in Nat
    BY <1>7, <1>8, <1>11, EndType
  <2>2. c.pending = Total(c) - End(c, c.head)
    BY DEF Sane
  <2> QED
    BY <1>2, <1>7, <1>9, <2>1, <2>2 DEF p
<1>13. Sane(d)
  BY <1>1, <1>4, <1>7, <1>10, <1>11, <1>12 DEF Sane
<1>14. Watched(d)
  BY <1>7 DEF Watched, Synced
<1> QED
  BY <1>4, <1>6, <1>7, <1>13, <1>14 DEF d

-----------------------------------------------------------------------------

(* d is c with another interest set or pressure flag: nothing the wake-ups *)
(* and the output depend on has changed yet.                               *)
Tunes(c, d) ==
    /\ d \in ConnType
    /\ d.fd = c.fd /\ d.received = c.received /\ d.edge = c.edge /\ d.mask = c.mask
    /\ d.out = c.out /\ d.head = c.head /\ d.written = c.written /\ d.why = c.why
    /\ d.inEpoll = c.inEpoll

(* What a method that ran on c while the socket was s may do to the        *)
(* wake-ups: unless it closes the connection, an entry on the ready list   *)
(* stays there, and one that asks anew for EPOLLIN is put there if there   *)
(* is something to read.                                                   *)
KeepsWakeups(c, d, s) ==
    d.fd = "open" =>
        /\ d.received = c.received
        /\ d.inEpoll => c.inEpoll
        /\ c.edge => d.edge
        /\ s.rx # <<>> /\ "IN" \in d.mask => d.edge \/ "IN" \in c.mask

(* Only a graceful close finds the queue empty; a closed connection stays  *)
(* closed and its output is not touched any more.                          *)
ClosesWell(c, d) ==
    /\ c.fd = "closed" => d.fd = "closed" /\ d.head = c.head
    /\ d.why = "graceful" /\ c.why # "graceful" => ~Unsent(d)

LEMMA TuneSteps ==
    ASSUME NEW c \in ConnType, NEW e \in Events, NEW v \in BOOLEAN
    PROVE  /\ Tunes(c, Enable(c, e)) /\ Tunes(c, Disable(c, e))
           /\ Tunes(c, [c EXCEPT !.blocking = v])
           /\ Tunes(c, [c EXCEPT !.closeWait = v])
<1>1. Enable(c, e) \in ConnType /\ Disable(c, e) \in ConnType
  BY EnableType
<1>2. Tunes(c, Enable(c, e))
  BY <1>1 DEF Enable, Tunes, ConnType
<1>3. Tunes(c, Disable(c, e))
  BY <1>1 DEF Disable, Tunes, ConnType
<1>4. Tunes(c, [c EXCEPT !.blocking = v]) /\ Tunes(c, [c EXCEPT !.closeWait = v])
  BY DEF Tunes, ConnType
<1> QED
  BY <1>2, <1>3, <1>4

LEMMA BackpressureTunes ==
    ASSUME NEW c \in ConnType
    PROVE  Tunes(c, ApplyBackpressure(c))
<1> DEFINE blocks   == c.pending >= BlockLine /\ ~c.blocking
           unblocks == c.pending < UnblockLine /\ c.blocking
           off      == Disable(c, "IN")
           b == IF blocks THEN [off EXCEPT !.blocking = TRUE]
                ELSE IF unblocks THEN [c EXCEPT !.blocking = FALSE]
                ELSE c
           d == ApplyBackpressure(c)
<1>1. d = IF b.blocking THEN b ELSE Enable(b, "IN")
  BY DEF ApplyBackpressure
<1>2. Tunes(c, off)
  BY TuneSteps DEF Events
<1> HIDE DEF d, off
<1>3. Tunes(c, b)
  <2>1. CASE blocks
    <3>1. Tunes(off, [off EXCEPT !.blocking = TRUE])
      BY <1>2, TuneSteps DEF Tunes, Events
    <3>2. b = [off EXCEPT !.blocking = TRUE]
      BY <2>1
    <3> HIDE DEF b
    <3> QED
      BY <1>2, <3>1, <3>2 DEF Tunes
  <2>2. CASE ~blocks /\ unblocks
    <3>1. b = [c EXCEPT !.blocking = FALSE]
      BY <2>2
    <3> QED
      BY <3>1, TuneSteps DEF Events
  <2>3. CASE ~blocks /\ ~unblocks
    BY <2>3 DEF Tunes
  <2> QED
    BY <2>1, <2>2, <2>3
<1> HIDE DEF b
<1>4. Tunes(b, Enable(b, "IN"))
  BY <1>3, TuneSteps DEF Tunes, Events
<1>5. Tunes(c, d)
  <2>1. CASE b.blocking
    BY <1>1, <1>3, <2>1
  <2>2. CASE ~b.blocking
    <3>1. d = Enable(b, "IN")
      BY <1>1, <2>2
    <3> QED
      BY <1>3, <1>4, <3>1 DEF Tunes
  <2> QED
    BY <2>1, <2>2
<1> QED
  BY <1>5 DEF d

(* EPOLL_CTL_MOD polls the socket: what can be read is on the ready list.  *)
LEMMA UpdateWakes ==
    ASSUME NEW c \in ConnType, NEW s \in SockType
    PROVE  LET d == UpdateChannel(c, s)
           IN  /\ KeepsWakeups(c, d, s)
               /\ d.out = c.out /\ d.head = c.head /\ d.written = c.written
               /\ d.fd = c.fd /\ d.why = c.why
<1> DEFINE e == c.edge \/ Level(c, s) \cap (c.event \union {"ERR"}) # {}
           m == c.event
           d == [c EXCEPT !.inEpoll = TRUE, !.mask = m, !.fresh = FALSE, !.edge = e]
<1>1. CASE ~c.fresh
  <2>1. UpdateChannel(c, s) = c
    BY <1>1 DEF UpdateChannel
  <2> QED
    BY <2>1 DEF KeepsWakeups
<1>2. CASE c.fresh /\ c.inEpoll
  <2>1. UpdateChannel(c, s) = d
    BY <1>2 DEF UpdateChannel, Armed
  <2>2. s.rx # <<>> => "IN" \in Level(c, s)
    BY DEF Level, Events
  <2>3. s.rx # <<>> /\ "IN" \in m => e
    BY <2>2
  <2>4. c.edge => e
    OBVIOUS
  <2>5. e \in BOOLEAN /\ m \in SUBSET Events
    BY DEF ConnType
  <2> HIDE DEF e, m
  <2>6. /\ d.received = c.received /\ d.mask = m /\ d.edge = e /\ c.inEpoll
        /\ d.out = c.out /\ d.head = c.head /\ d.written = c.written
        /\ d.fd = c.fd /\ d.why = c.why
    BY <1>2, <2>5 DEF ConnType
  <2> HIDE DEF d
  <2> QED
    BY <2>1, <2>3, <2>4, <2>6 DEF KeepsWakeups
<1>3. CASE c.fresh /\ ~c.inEpoll
  <2> DEFINE f == [c EXCEPT !.fresh = FALSE]
  <2>1. UpdateChannel(c, s) = f
    BY <1>3 DEF UpdateChannel
  <2>2. /\ f.received = c.received /\ f.mask = c.mask /\ f.edge = c.edge
        /\ f.inEpoll = c.inEpoll
        /\ f.out = c.out /\ f.head = c.head /\ f.written = c.written
        /\ f.fd = c.fd /\ f.why = c.why
    BY DEF ConnType
  <2> HIDE DEF f
  <2> QED
    BY <2>1, <2>2 DEF KeepsWakeups
<1> QED
  BY <1>1, <1>2, <1>3

LEMMA ForceCloseEffects ==
    ASSUME NEW c \in ConnType, NEW s, NEW r \in CloseReasons
    PROVE  LET d == ForceClose(c, r)
           IN  /\ d.fd = "closed" /\ d.head = c.head /\ d.out = c.out
               /\ d.why = c.why \/ d.why = r
               /\ KeepsWakeups(c, d, s)
BY DEF ForceClose, UnregisterChannel, ConnType, KeepsWakeups

(* shutdown() takes EPOLLIN away, and closes only what is flushed.         *)
LEMMA TunedShutdownEffects ==
    ASSUME NEW c, Sane(c), Tuned(c), c.fd = "open" => ~c.fresh \/ ~c.inEpoll,
           NEW s \in SockType
    PROVE  LET d == Shutdown(c, s)
           IN  /\ KeepsWakeups(c, d, s)
               /\ ClosesWell(c, d)
               /\ d.head = c.head /\ d.out = c.out
               /\ d.fd = "open" => "IN" \notin d.mask /\ d.written = c.written
<1> DEFINE off   == Disable(c, "IN")
           quiet == IF "IN" \in c.event THEN UpdateChannel(off, s) ELSE c
           waits == [quiet EXCEPT !.closeWait = TRUE]
           d     == Shutdown(c, s)
<1>0. c \in ConnType
  BY DEF Sane
<1>1. Tunes(c, off) /\ off.pending = c.pending
  BY <1>0, TuneSteps, DisableRetunes DEF Events, Retunes
<1>2. off.event = c.event \ {"IN"}
  BY <1>0, DisableRetunes DEF Events
<1>a. "IN" \in c.event => off.fresh
  BY <1>0 DEF Disable, ConnType
<1>b. off.inEpoll = c.inEpoll
  BY <1>0 DEF Disable, ConnType
<1> HIDE DEF off
<1>3. /\ quiet \in ConnType
      /\ KeepsWakeups(c, quiet, s)
      /\ quiet.out = c.out /\ quiet.head = c.head /\ quiet.written = c.written
      /\ quiet.fd = c.fd /\ quiet.why = c.why /\ quiet.pending = c.pending
      /\ quiet.fd = "open" => "IN" \notin quiet.mask
  <2>1. CASE "IN" \in c.event
    <3>1. quiet = UpdateChannel(off, s)
      BY <2>1
    <3>2. off \in ConnType
      BY <1>1 DEF Tunes
    <3>3. KeepsWakeups(off, quiet, s)
      BY <3>1, <3>2, UpdateWakes
    <3>4. /\ quiet \in ConnType
          /\ quiet.mask = off.event \/ (~off.inEpoll /\ quiet.mask = off.mask)
          /\ quiet.out = off.out /\ quiet.head = off.head /\ quiet.written = off.written
          /\ quiet.fd = off.fd /\ quiet.why = off.why /\ quiet.pending = off.pending
      BY <2>1, <1>a, <3>1, <3>2, UpdateWakes, UpdateMatches
    <3> HIDE DEF quiet
    <3>5. quiet.fd = "open" => "IN" \notin quiet.mask
      BY <1>1, <1>2, <1>b, <3>4 DEF Tunes, Tuned, Watched, Synced
    <3> QED
      BY <1>1, <1>2, <3>3, <3>4, <3>5 DEF Tunes, KeepsWakeups
  <2>2. CASE "IN" \notin c.event
    <3>1. quiet = c
      BY <2>2
    <3>2. c.fd = "open" => c.mask = c.event \/ c.mask = {}
      BY ConnFields, <1>0 DEF Tuned, Watched, Synced
    <3> QED
      BY <1>0, <2>2, <3>1, <3>2 DEF KeepsWakeups
  <2> QED
    BY <2>1, <2>2
<1> HIDE DEF quiet
<1>4. Tunes(quiet, waits) /\ waits.pending = c.pending
  <2>1. Tunes(quiet, waits)
    BY <1>3, TuneSteps DEF Events
  <2>2. waits.pending = quiet.pending
    BY <1>3 DEF ConnType
  <2> QED
    BY <1>3, <2>1, <2>2
<1>5. d = IF waits.pending > 0 THEN waits ELSE ForceClose(waits, "graceful")
  BY DEF Shutdown, quiet, off
<1> HIDE DEF waits, d
<1>6. CASE c.pending > 0
  <2>1. d = waits
    BY <1>4, <1>5, <1>6
  <2> QED
    BY <1>3, <1>4, <2>1 DEF d, Tunes, KeepsWakeups, ClosesWell
<1>7. CASE ~(c.pending > 0)
  <2>1. d = ForceClose(waits, "graceful")
    BY <1>4, <1>5, <1>7
  <2>2. /\ d.fd = "closed" /\ d.head = waits.head /\ d.out = waits.out
    BY <1>4, <2>1, ForceCloseEffects DEF Tunes, CloseReasons
  <2>3. ~Unsent(c)
    <3>1. Len(c.out) \in Nat /\ c.head \in 0 .. Len(c.out)
      BY <1>0, ConnFields DEF Sane
    <3>2. CASE Unsent(c)
      <4>1. Len(c.out) \in 1 .. Len(c.out)
        BY <3>1, <3>2 DEF Unsent
      <4>2. End(c, c.head) < Total(c)
        BY <3>1, <3>2, <4>1 DEF Sane, Unsent, Total
      <4>3. End(c, c.head) \in Nat /\ Total(c) \in Nat
        BY <3>1, EndType DEF Total
      <4> QED
        BY <1>7, <4>2, <4>3 DEF Sane
    <3> QED
      BY <3>2
  <2>4. d.head = c.head /\ d.out = c.out
    BY <1>3, <1>4, <2>2 DEF Tunes
  <2>5. ~Unsent(d)
    BY <2>3, <2>4 DEF Unsent
  <2> QED
    BY <2>2, <2>4, <2>5 DEF d, KeepsWakeups, ClosesWell
<1> QED
  BY <1>0, <1>6, <1>7

LEMMA ShutdownEffects ==
    ASSUME NEW c, Sane(c), Settled(c), NEW s \in SockType
    PROVE  LET d == Shutdown(c, s)
           IN  /\ KeepsWakeups(c, d, s)
               /\ ClosesWell(c, d)
               /\ d.head = c.head /\ d.out = c.out
               /\ d.fd = "open" => "IN" \notin d.mask /\ d.written = c.written
BY TunedShutdownEffects DEF Settled

(* send() stops at a full socket or at an empty queue.                     *)
LEMMA FlushedEffects ==
    ASSUME NEW c, Sane(c), Watched(c), c.enable, c.fd = "open",
           NEW s \in SockType, NEW h \in c.head .. Len(c.out), FlushesTo(c, s, h)
    PROVE  LET d == Flushed(c, s, h)
           IN  /\ KeepsWakeups(c, d, s)
               /\ ClosesWell(c, d)
               /\ d.fd = "open" => ~Unsent(d) \/ Space(d, s) = 0
<1> DEFINE popped  == Popped(c, s, h)
           wants   == IF Unsent(popped) THEN Enable(popped, "OUT") ELSE Disable(popped, "OUT")
           pressed == ApplyBackpressure(wants)
           settled == Modified(pressed, s)
           d       == Flushed(c, s, h)
           w       == IF Unsent(c) THEN WriteTarget(c, s) ELSE c.written
<1>0. c \in ConnType
  BY DEF Sane
<1>1. /\ popped \in ConnType /\ popped.fd = c.fd /\ popped.received = c.received
      /\ popped.edge = c.edge /\ popped.mask = c.mask
      /\ popped.out = c.out /\ popped.head = h /\ popped.written = w /\ popped.why = c.why
      /\ popped.inEpoll = c.inEpoll
  <2>1. popped \in ConnType
    BY PoppedSane DEF Sane
  <2> DEFINE p == c.pending - (End(c, h) - End(c, c.head))
  <2>2. popped = [c EXCEPT !.pending = p, !.head = h, !.written = w]
    BY <1>0 DEF Popped, ConnType
  <2> HIDE DEF p, w
  <2> QED
    BY <1>0, <2>1, <2>2 DEF ConnType
<1>2. d = IF settled.pending = 0 /\ settled.closeWait
          THEN ForceClose(settled, "graceful") ELSE settled
  BY DEF Flushed
<1>3. Sane(d)
  BY FlushedSettles
<1>a. Sane(pressed) /\ Tuned(pressed) /\ pressed.fd = "open"
  <2>1. Pressed(c, s, h) = pressed
    BY DEF Pressed
  <2> HIDE DEF pressed
  <2> QED
    BY <2>1, PressedTuned
<1> HIDE DEF popped, d
<1>4. Tunes(popped, wants)
  BY <1>1, TuneSteps DEF Events
<1> HIDE DEF wants
<1>5. Tunes(wants, pressed)
  BY <1>4, BackpressureTunes DEF Tunes
<1> HIDE DEF pressed
<1>6. Tunes(popped, pressed)
  BY <1>4, <1>5 DEF Tunes
<1>7. /\ KeepsWakeups(pressed, settled, s) /\ settled \in ConnType
      /\ settled.out = pressed.out /\ settled.head = pressed.head
      /\ settled.fd = "open" => settled.written = pressed.written
      /\ settled.why = "graceful" /\ pressed.why # "graceful" => ~Unsent(settled)
  <2>1. CASE pressed.fresh /\ ~pressed.inEpoll
    <3> DEFINE e == Shutdown(pressed, s)
               f == [e EXCEPT !.fresh = FALSE]
    <3>1. settled = f
      BY <2>1 DEF Modified
    <3>2. Sane(e) /\ Tuned(e) /\ ~e.inEpoll
      BY <1>a, <2>1, ShutdownTunes
    <3>3. /\ KeepsWakeups(pressed, e, s) /\ ClosesWell(pressed, e)
          /\ e.head = pressed.head /\ e.out = pressed.out
          /\ e.fd = "open" => e.written = pressed.written
      BY <1>a, <2>1, TunedShutdownEffects
    <3> HIDE DEF e, settled
    <3>4. /\ f \in ConnType
          /\ f.received = e.received /\ f.edge = e.edge /\ f.mask = e.mask
          /\ f.fd = e.fd /\ f.out = e.out /\ f.head = e.head /\ ~f.inEpoll
          /\ f.written = e.written /\ f.why = e.why
      BY <3>2, UnfreshSettles DEF Sane
    <3> HIDE DEF f
    <3> QED
      BY <3>1, <3>3, <3>4 DEF KeepsWakeups, ClosesWell, Unsent
  <2>2. CASE ~(pressed.fresh /\ ~pressed.inEpoll)
    <3>1. settled = UpdateChannel(pressed, s)
      BY <2>2 DEF Modified
    <3> HIDE DEF settled
    <3>2. pressed \in ConnType
      BY <1>a DEF Sane
    <3>3. settled.why = pressed.why
      BY <3>1, <3>2, UpdateWakes
    <3> QED
      BY <3>1, <3>2, <3>3, UpdateWakes, UpdateMatches
  <2> QED
    BY <2>1, <2>2
<1> HIDE DEF settled
<1>8. /\ KeepsWakeups(c, settled, s)
      /\ settled.why = "graceful" /\ c.why # "graceful" => ~Unsent(settled)
      /\ settled.out = c.out /\ settled.head = h
      /\ settled.fd = "open" => settled.written = w
  BY <1>1, <1>6, <1>7 DEF Tunes, KeepsWakeups
<1>9. settled.fd = "open" => ~Unsent(settled) \/ Space(settled, s) = 0
  <2> SUFFICES ASSUME settled.fd = "open", Unsent(settled) PROVE Space(settled, s) = 0
    OBVIOUS
  <2>1. Len(c.out) \in Nat /\ c.head \in 0 .. Len(c.out) /\ h \in Nat /\ h < Len(c.out)
    BY <1>0, <1>8, ConnFields DEF Sane, Unsent
  <2>2. Unsent(c)
    BY <2>1 DEF Unsent
  <2>3. h + 1 \in 1 .. Len(c.out) /\ End(c, h + 1) > WriteTarget(c, s)
    BY <2>1 DEF FlushesTo
  <2>4. End(c, h + 1) <= Total(c) /\ End(c, h + 1) \in Nat /\ Total(c) \in Nat
    <3>1. End(c, h + 1) \in Nat /\ Total(c) \in Nat
      BY <2>1, <2>3, EndType DEF Total
    <3>2. CASE h + 1 = Len(c.out)
      BY <3>1, <3>2 DEF Total
    <3>3. CASE h + 1 # Len(c.out)
      <4>1. h + 1 < Len(c.out) /\ h + 1 \in 0 .. Len(c.out) /\ Len(c.out) \in 1 .. Len(c.out)
        BY <2>1, <2>3, <3>3
      <4>2. End(c, h + 1) < Total(c)
        BY <4>1 DEF Sane, Total
      <4> QED
        BY <3>1, <4>2
    <3> QED
      BY <3>2, <3>3
  <2>5. s.drained \in Nat /\ SockBuf \in Nat
    BY SockBufAssumption DEF SockType
  <2>6. WriteTarget(c, s) = s.drained + SockBuf
    BY <2>3, <2>4, <2>5 DEF WriteTarget
  <2>7. settled.written = s.drained + SockBuf
    BY <1>8, <2>2, <2>6 DEF w
  <2> QED
    BY <2>5, <2>7 DEF Space
<1>10. CASE settled.pending = 0 /\ settled.closeWait
  <2>1. d = ForceClose(settled, "graceful")
    BY <1>2, <1>10
  <2>2. d.fd = "closed" /\ d.pending = 0
    BY <1>7, <1>10, <2>1 DEF ForceClose, UnregisterChannel, ConnType
  <2>3. ~Unsent(d)
    BY <1>3, <2>2, PendingZero
  <2> QED
    BY <2>2, <2>3 DEF d, KeepsWakeups, ClosesWell
<1>11. CASE ~(settled.pending = 0 /\ settled.closeWait)
  <2>1. d = settled
    BY <1>2, <1>11
  <2> QED
    BY <1>8, <1>9, <2>1 DEF d, ClosesWell
<1> QED
  BY <1>10, <1>11

LEMMA SendsEffects ==
    ASSUME NEW c, Sane(c), Watched(c), c.enable => c.fd = "open",
           NEW s \in SockType, NEW d, Sends(c, s, d)
    PROVE  /\ KeepsWakeups(c, d, s)
           /\ ClosesWell(c, d)
           /\ d.fd = "open" => ~Unsent(d) \/ Space(d, s) = 0
<1>1. CASE ~c.enable /\ d = c
  <2>1. c.fd # "open"
    BY <1>1 DEF Watched
  <2> QED
    BY <1>1, <2>1 DEF KeepsWakeups, ClosesWell
<1>2. CASE c.enable /\ d = ForceClose(c, "error")
  <2>1. /\ d.fd = "closed" /\ KeepsWakeups(c, d, s)
        /\ d.why = c.why \/ d.why = "error"
    BY <1>2, ForceCloseEffects DEF Sane, CloseReasons
  <2> QED
    BY <1>2, <2>1 DEF ClosesWell
<1>3. CASE c.enable /\ \E h \in c.head .. Len(c.out) : FlushesTo(c, s, h) /\ d = Flushed(c, s, h)
  BY <1>3, FlushedEffects
<1> QED
  BY <1>1, <1>2, <1>3 DEF Sends

(* Queueing a chunk leaves the wake-ups alone.                             *)
LEMMA QueuedEffects ==
    ASSUME NEW c, Sane(c), NEW id \in Nat, NEW size \in Nat \ {0}
    PROVE  LET d == Queued(c, id, size)
           IN  /\ d.fd = c.fd /\ d.received = c.received /\ d.edge = c.edge
               /\ d.mask = c.mask /\ d.head = c.head /\ d.why = c.why
               /\ d.enable = c.enable /\ d.inEpoll = c.inEpoll
<1> DEFINE p == c.pending + size
           q == Append(c.out, [id |-> id, to |-> Total(c) + size])
           d == [c EXCEPT !.pending = p, !.out = q]
<1>1. Queued(c, id, size) = d
  BY DEF Queued
<1> HIDE DEF p, q
<1>2. /\ d.fd = c.fd /\ d.received = c.received /\ d.edge = c.edge
      /\ d.mask = c.mask /\ d.head = c.head /\ d.why = c.why
      /\ d.enable = c.enable /\ d.inEpoll = c.inEpoll
  BY DEF Sane, ConnType
<1> QED
  BY <1>1, <1>2

=============================================================================
