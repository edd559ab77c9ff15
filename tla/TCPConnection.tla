--------------------------- MODULE TCPConnection ---------------------------
(***************************************************************************)
(* server/src/net/TCPConnection.cpp: what each method of a connection does *)
(* to its record c. Every method runs on the connection's loop thread.     *)
(*                                                                         *)
(*   fd         "new" before init_channel, "open", "closed" (fd_ = -1)     *)
(*   enable     enable_state_                                              *)
(*   blocking   is_blocking_          closeWait  close_wait_               *)
(*   pending    pending_output_bytes_                                      *)
(*   out, head  output_chunks_ is out[head + 1 ..]: popping a chunk moves  *)
(*              head. A chunk is [id, to]: the request it answers and the  *)
(*              offset in the output stream where it ends.                 *)
(*   written    the offset up to which the kernel took the stream          *)
(*   timer      the packet of the current version_: "none", "armed", "due" *)
(*   notified   a channel_remove of this connection is queued on main_loop_ *)
(*   why        (history) what made force_close close the descriptor       *)
(***************************************************************************)
EXTENDS Channel

CONSTANT BlockLine    \* TCP_BLOCK_LINE, in the model's bytes

ASSUME BlockLineAssumption == BlockLine \in Nat \ {0, 1}

UnblockLine == BlockLine \div 2

CloseReasons == {"none", "graceful", "unexpected", "error", "idle"}

ConnType ==
    [fd : {"new", "open", "closed"}, enable : BOOLEAN,
     event : SUBSET Events, received : SUBSET Events, fresh : BOOLEAN,
     inEpoll : BOOLEAN, mask : SUBSET Events, lost : BOOLEAN, edge : BOOLEAN,
     blocking : BOOLEAN, closeWait : BOOLEAN, pending : Int,
     out : Seq([id : Nat, to : Nat]), head : Nat, written : Nat,
     timer : {"none", "armed", "due"}, notified : BOOLEAN, why : CloseReasons]

NewConnection ==
    [fd |-> "new", enable |-> FALSE,
     event |-> {}, received |-> {}, fresh |-> FALSE,
     inEpoll |-> FALSE, mask |-> {}, lost |-> FALSE, edge |-> FALSE,
     blocking |-> FALSE, closeWait |-> FALSE, pending |-> 0,
     out |-> <<>>, head |-> 0, written |-> 0,
     timer |-> "none", notified |-> FALSE, why |-> "none"]

(* The stream offset where the i-th chunk ends. *)
End(c, i) == IF i = 0 THEN 0 ELSE c.out[i].to

Total(c) == End(c, Len(c.out))

(* output_chunks_ is not empty. *)
Unsent(c) == c.head < Len(c.out)

(* Mutation of ForceClose: close_notify is not called. *)
ForceCloseSilent(c, reason) ==
    [UnregisterChannel(c) EXCEPT !.enable = FALSE, !.fd = "closed", !.why = reason]

ForceClose(c, reason) ==
    [UnregisterChannel(c) EXCEPT
        !.enable = FALSE, !.fd = "closed", !.notified = TRUE,
        !.why = IF c.fd = "closed" THEN @ ELSE reason]

(* Mutations of Shutdown: it closes whatever is still queued, notifies the *)
(* server before the delayed close, or changes event_ without the MOD.     *)
ShutdownAtOnce(c, s) == ForceClose([c EXCEPT !.closeWait = TRUE], "graceful")

ShutdownNotifiesEarly(c, s) ==
    IF c.pending > 0 THEN [c EXCEPT !.closeWait = TRUE, !.notified = TRUE]
    ELSE ForceClose([c EXCEPT !.closeWait = TRUE], "graceful")

ShutdownUnsynced(c, s) ==
    IF c.pending > 0 THEN [Disable(c, "IN") EXCEPT !.closeWait = TRUE]
    ELSE ForceClose([c EXCEPT !.closeWait = TRUE], "graceful")

(* The MOD in here fails on a lost entry, and its close callback is        *)
(* Shutdown again, with EPOLLIN off: it does what the outer one does next. *)
Shutdown(c, s) ==
    LET quiet == IF "IN" \in c.event THEN UpdateChannel(Disable(c, "IN"), s) ELSE c
        waits == [quiet EXCEPT !.closeWait = TRUE]
    IN  IF waits.pending > 0 THEN waits ELSE ForceClose(waits, "graceful")

(* channel_.update_channel() at the end of send(): a MOD that fails, the   *)
(* entry having been deleted, runs the close callback, which is shutdown.  *)
Modified(c, s) ==
    IF c.fresh /\ ~c.inEpoll THEN [Shutdown(c, s) EXCEPT !.fresh = FALSE]
    ELSE UpdateChannel(c, s)

(* Mutation of ApplyBackpressure: > for >= at the high line. *)
ApplyBackpressureLate(c) ==
    IF c.blocking THEN (IF c.pending < UnblockLine
                        THEN Enable([c EXCEPT !.blocking = FALSE], "IN") ELSE c)
    ELSE IF c.pending > BlockLine THEN [Disable(c, "IN") EXCEPT !.blocking = TRUE]
    ELSE Enable(c, "IN")

ApplyBackpressure(c) ==
    LET blocks   == c.pending >= BlockLine /\ ~c.blocking
        unblocks == c.pending < UnblockLine /\ c.blocking
        b == IF blocks THEN [Disable(c, "IN") EXCEPT !.blocking = TRUE]
             ELSE IF unblocks THEN [c EXCEPT !.blocking = FALSE]
             ELSE c
    IN  IF b.blocking THEN b ELSE Enable(b, "IN")

(* The stream offset the write loop stops at: the kernel takes bytes until *)
(* its buffer is full or the queue is empty.                               *)
WriteTarget(c, s) ==
    IF Total(c) <= s.drained + SockBuf THEN Total(c) ELSE s.drained + SockBuf

(* The write loop pops exactly the chunks that end at or before that       *)
(* offset: it leaves h chunks popped.                                      *)
FlushesTo(c, s, h) ==
    /\ h \in c.head .. Len(c.out)
    /\ h > c.head => End(c, h) <= WriteTarget(c, s)
    /\ h < Len(c.out) => End(c, h + 1) > WriteTarget(c, s)

(* Mutation of Popped: the bytes of a partial write are subtracted too. *)
PoppedPartial(c, s, h) ==
    [c EXCEPT !.pending = @ - (WriteTarget(c, s) - End(c, c.head)),
              !.head = h,
              !.written = IF Unsent(c) THEN WriteTarget(c, s) ELSE @]

Popped(c, s, h) ==
    [c EXCEPT !.pending = @ - (End(c, h) - End(c, c.head)),
              !.head = h,
              !.written = IF Unsent(c) THEN WriteTarget(c, s) ELSE @]

(* Mutation of Flushed: a partial write does not ask for EPOLLOUT. *)
FlushedForgetsOut(c, s, h) ==
    LET settled == Modified(ApplyBackpressure(Disable(Popped(c, s, h), "OUT")), s)
    IN  IF settled.pending = 0 /\ settled.closeWait
        THEN ForceClose(settled, "graceful")
        ELSE settled

(* send() when the socket takes the writes: h chunks are popped, EPOLLOUT  *)
(* follows what is left, then backpressure, MOD, and the delayed close.    *)
Flushed(c, s, h) ==
    LET popped  == Popped(c, s, h)
        wants   == IF Unsent(popped) THEN Enable(popped, "OUT") ELSE Disable(popped, "OUT")
        settled == Modified(ApplyBackpressure(wants), s)
    IN  IF settled.pending = 0 /\ settled.closeWait
        THEN ForceClose(settled, "graceful")
        ELSE settled

(* Mutation of Sends: no check of enable_state_. *)
SendsAnyway(c, s, c2) ==
    \E h \in c.head .. Len(c.out) : FlushesTo(c, s, h) /\ c2 = Popped(c, s, h)

(* c2 is the record send() leaves: nothing on a disabled connection, a     *)
(* forced close when a write fails.                                        *)
Sends(c, s, c2) ==
    \/ ~c.enable /\ c2 = c
    \/ c.enable /\ s.rst /\ Unsent(c) /\ c2 = ForceClose(c, "error")
    \/ c.enable /\ ~(s.rst /\ Unsent(c))
       /\ \E h \in c.head .. Len(c.out) : FlushesTo(c, s, h) /\ c2 = Flushed(c, s, h)

(* send(chunk) counts and queues the chunk, enabled or not, before send(). *)
Queued(c, id, size) ==
    [c EXCEPT !.pending = @ + size,
              !.out = Append(@, [id |-> id, to |-> Total(c) + size])]

(* init_channel when EPOLL_CTL_ADD succeeds. *)
Opened(c, s) ==
    LET asks == Enable(Enable(c, "RDHUP"), "IN")
    IN  [RegisterChannel(asks, s) EXCEPT !.fd = "open", !.enable = TRUE, !.timer = "armed"]

(* init_channel when EPOLL_CTL_ADD fails: register_channel runs the close  *)
(* callback, whose MOD fails too and runs it again, so force_close runs    *)
(* twice; init_channel then arms the timer and enables the closed          *)
(* connection.                                                             *)
OpenFailed(c) ==
    [ForceClose(ForceClose([c EXCEPT !.closeWait = TRUE], "error"), "error")
        EXCEPT !.enable = TRUE, !.timer = "armed"]

=============================================================================
