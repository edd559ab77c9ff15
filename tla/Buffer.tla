------------------------------- MODULE Buffer -------------------------------
(***************************************************************************)
(* server/include/base/Buffer.h: the read buffer of a connection, as       *)
(* operators on a record. data is the vector, rp and wp are read_pos_ and  *)
(* write_pos_; positions count from 0, as in the code, so the byte at      *)
(* position p is data[p + 1]. Nothing keeps rp below wp: update_read_pos   *)
(* only logs when it is moved past it.                                     *)
(***************************************************************************)
EXTENDS Integers, Sequences

CONSTANTS
    Byte,       \* what the stream is made of
    Junk,       \* what a cell holds that was never written
    InitSize,   \* STANDARD_BUF_INIT_SIZE
    HugeSize    \* HUG_MSG_BUFFER_SIZE

ASSUME BufferAssumption ==
    /\ Junk \in Byte
    /\ InitSize \in Nat \ {0} /\ HugeSize \in Nat /\ InitSize < HugeSize

BufferType == [data : Seq(Byte), rp : Nat, wp : Nat]

Zeros(n) == [i \in 1 .. n |-> Junk]

EmptyBuffer == [data |-> Zeros(InitSize), rp |-> 0, wp |-> 0]

WritableSize(b) == Len(b.data) - b.wp

At(b, pos) == b.data[pos + 1]

(* The n bytes from position pos. *)
Bytes(b, pos, n) == SubSeq(b.data, pos + 1, pos + n)

(* What readv puts in place of the writable cells; the rest of s is left   *)
(* in the caller's extra buffer.                                           *)
Filled(b, s) ==
    [b EXCEPT !.data = [i \in 1 .. Len(b.data) |->
        IF i \in b.wp + 1 .. b.wp + Len(s) THEN s[i - b.wp] ELSE b.data[i]]]

(* The cells from read_pos_ to the end move to the front: how many.        *)
Moved(b) == Len(b.data) - b.rp

(* Compaction: the unread cells, the extra bytes, and what was there.      *)
Compacted(b, extra) ==
    [data |-> [i \in 1 .. Len(b.data) |->
                  IF i <= Moved(b) THEN b.data[b.rp + i]
                  ELSE IF i <= Moved(b) + Len(extra) THEN extra[i - Moved(b)]
                  ELSE b.data[i]],
     rp |-> 0,
     wp |-> Moved(b) + Len(extra)]

(* Growth: the vector becomes exactly as long as what it holds. *)
Grown(b, extra) ==
    [data |-> [i \in 1 .. Moved(b) + Len(extra) |->
                  IF i <= Moved(b) THEN b.data[b.rp + i] ELSE extra[i - Moved(b)]],
     rp |-> 0,
     wp |-> Moved(b) + Len(extra)]

(* Mutation of Received: the moved bytes are still counted from read_pos_. *)
ReceivedUnreset(b, s) ==
    LET f == Filled(b, s)
        extra == SubSeq(s, WritableSize(b) + 1, Len(s))
    IN  IF Len(s) <= WritableSize(b) THEN [f EXCEPT !.wp = @ + Len(s)]
        ELSE IF Moved(f) + Len(extra) < Len(f.data) THEN [Compacted(f, extra) EXCEPT !.rp = f.rp]
        ELSE Grown(f, extra)

(* Mutation of Received: no growth when the moved cells alone would fit. *)
ReceivedTight(b, s) ==
    LET f == Filled(b, s)
        extra == SubSeq(s, WritableSize(b) + 1, Len(s))
    IN  IF Len(s) <= WritableSize(b) THEN [f EXCEPT !.wp = @ + Len(s)]
        ELSE IF Moved(f) < Len(f.data) THEN Compacted(f, extra)
        ELSE Grown(f, extra)

(* readv of the bytes s, and update_write_pos. *)
Received(b, s) ==
    LET f == Filled(b, s)
        extra == SubSeq(s, WritableSize(b) + 1, Len(s))
    IN  IF Len(s) <= WritableSize(b) THEN [f EXCEPT !.wp = @ + Len(s)]
        ELSE IF Moved(f) + Len(extra) < Len(f.data) THEN Compacted(f, extra)
        ELSE Grown(f, extra)

(* std::copy and the iterators are defined only up to the vector's end. *)
Writable(b, s) == Len(s) <= WritableSize(b) \/ b.rp <= Len(b.data)

PosReset(b) == IF b.rp = b.wp THEN [b EXCEPT !.rp = 0, !.wp = 0] ELSE b

(* readable_size() is unsigned: past write_pos_ it is huge. *)
FewReadable(b) == b.rp <= b.wp /\ b.wp - b.rp < InitSize

ShrinkBuffer(b) ==
    IF Len(b.data) >= HugeSize /\ FewReadable(b)
    THEN [data |-> [i \in 1 .. InitSize |->
                       IF i <= b.wp - b.rp THEN b.data[b.rp + i] ELSE Junk],
          rp |-> 0,
          wp |-> b.wp - b.rp]
    ELSE b

UpdateReadPos(b, n) == ShrinkBuffer(PosReset([b EXCEPT !.rp = @ + n]))

=============================================================================
