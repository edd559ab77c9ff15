------------------------------ MODULE Channel ------------------------------
(***************************************************************************)
(* server/src/net/Channel.cpp and the epoll_ctl half of EventLoop.cpp: the *)
(* interest set a connection wants (event_), what the kernel holds for it  *)
(* (mask, inEpoll), and the edge-triggered ready list (edge).              *)
(*                                                                         *)
(* Pure operators over a connection record c, which has the fields         *)
(*   event     event_            : the events the owner wants, EPOLLET left *)
(*                                 out (every channel sets it)             *)
(*   received  received_event_                                             *)
(*   fresh     event_fresh_flag_ : event_ was changed since the last MOD   *)
(*   inEpoll, mask               : the kernel's entry for the descriptor   *)
(*   lost      (history) the entry was deleted by another connection: see  *)
(*             UnregisterChannel                                           *)
(*   edge                        : the entry is on epoll's ready list      *)
(*   out, written                : see TCPConnection                       *)
(* and a socket record s (the kernel's and the peer's side):               *)
(*   rx         what the peer sent and nobody read; sent counts it all     *)
(*   fin, rst   the peer half-closed, or reset, the connection             *)
(*   drained    the offset up to which the peer took the output stream     *)
(***************************************************************************)
EXTENDS Integers, Sequences

CONSTANTS
    SockBuf,    \* bytes the kernel takes before a write would block
    Kinds       \* the kinds of request the peer may send

ASSUME SockBufAssumption == SockBuf \in Nat \ {0}

Events == {"IN", "OUT", "RDHUP", "ERR"}

SockType ==
    [rx : Seq(Kinds), sent : Nat, fin : BOOLEAN, rst : BOOLEAN, drained : Nat]

(* Room left in the kernel's send buffer. *)
Space(c, s) == SockBuf - (c.written - s.drained)

(* What epoll would report for the socket now. EPOLLHUP comes only with    *)
(* EPOLLERR here (the server never calls shutdown(2)): both are "ERR".     *)
Level(c, s) == {e \in Events :
    \/ e = "IN"    /\ (s.rx # <<>> \/ s.fin \/ s.rst)
    \/ e = "OUT"   /\ (Space(c, s) > 0 \/ s.rst)
    \/ e = "RDHUP" /\ (s.fin \/ s.rst)
    \/ e = "ERR"   /\ s.rst}

(* The part of Level the kernel reports under the registered mask: EPOLLERR *)
(* is reported whether it is asked for or not.                             *)
Reported(c, s) == IF c.inEpoll THEN Level(c, s) \cap (c.mask \union {"ERR"}) ELSE {}

Enable(c, e) ==
    IF e \in c.event THEN c
    ELSE [c EXCEPT !.event = @ \union {e}, !.fresh = TRUE]

Disable(c, e) ==
    IF e \in c.event THEN [c EXCEPT !.event = @ \ {e}, !.fresh = TRUE] ELSE c

(* EPOLL_CTL_ADD and EPOLL_CTL_MOD both poll the socket at once and put it *)
(* on the ready list when it is ready: that is what re-arms an edge.       *)
Armed(c, s) == [c EXCEPT !.inEpoll = TRUE, !.mask = c.event, !.fresh = FALSE,
                         !.edge = @ \/ Level(c, s) \cap (c.event \union {"ERR"}) # {}]

(* A MOD for an entry that is not there fails; the close callback the loop *)
(* then runs is part of Modified (TCPConnection).                          *)
UpdateChannel(c, s) ==
    IF ~c.fresh THEN c ELSE IF c.inEpoll THEN Armed(c, s) ELSE [c EXCEPT !.fresh = FALSE]

RegisterChannel(c, s) == Armed(c, s)

(* EPOLL_CTL_DEL by number, and nobody resets the number the Channel keeps. *)
(* On an open connection it names c's own entry. On a closed one it changes *)
(* nothing of c any more, and deletes the entry of the connection that has *)
(* been given the number since, if there is one in this loop: what that is *)
(* for the other connection is HttpPipeline's StaleUnregister.             *)
UnregisterChannel(c) ==
    [c EXCEPT !.event = {}, !.received = {}, !.fresh = FALSE,
              !.inEpoll = FALSE, !.mask = {}, !.edge = FALSE]

=============================================================================
