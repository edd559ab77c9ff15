---------------------------- MODULE OutputChunk ----------------------------
(***************************************************************************)
(* server/src/net/OutputChunk.cpp: a response on its way to the socket, as *)
(* operators on a record. A StringChunk is one string sent from            *)
(* written_bytes_ on; an MMapFileChunk is a head and a mapped file that    *)
(* writev gathers, and an iovec for each that is moved past what the       *)
(* kernel took. at and len are iov_base and iov_len, counted in the head   *)
(* or in the file.                                                         *)
(***************************************************************************)
EXTENDS Naturals, Sequences

Iovec(at, len) == [at |-> at, len |-> len]

(* append, called for the head and for the body. *)
StringChunk(data) ==
    [kind |-> "string", data |-> data, written |-> 0, pending |-> Len(data)]

(* set_chunk, once the head is appended. *)
MMapFileChunk(head, file) ==
    [kind |-> "mmap", head |-> head, file |-> file,
     iov |-> <<Iovec(0, Len(head)), Iovec(0, Len(file))>>,
     written |-> 0, pending |-> Len(head) + Len(file)]

Slice(data, v) == SubSeq(data, v.at + 1, v.at + v.len)

(* What send or writev is called with. *)
Offered(c) ==
    IF c.kind = "string" THEN Slice(c.data, Iovec(c.written, c.pending - c.written))
    ELSE Slice(c.head, c.iov[1]) \o Slice(c.file, c.iov[2])

Complete(c) == c.written = c.pending

(* Mutation of Advanced: what the head took is not subtracted. *)
AdvancedWhole(iov, n) ==
    IF n < iov[1].len THEN <<Iovec(iov[1].at + n, iov[1].len - n), iov[2]>>
    ELSE <<Iovec(iov[1].at, 0), Iovec(iov[2].at + n, iov[2].len - n)>>

(* The iovecs after n bytes of them were taken; a head that is done keeps  *)
(* its base.                                                               *)
Advanced(iov, n) ==
    IF n < iov[1].len THEN <<Iovec(iov[1].at + n, iov[1].len - n), iov[2]>>
    ELSE LET m == n - iov[1].len
         IN  <<Iovec(iov[1].at, 0), Iovec(iov[2].at + m, iov[2].len - m)>>

(* One turn of writeToSocket, in which the kernel takes n bytes: it ends   *)
(* there if that was all.                                                  *)
Took(c, n) ==
    LET w == [c EXCEPT !.written = @ + n]
    IN  IF Complete(w) \/ c.kind = "string" THEN w
        ELSE [w EXCEPT !.iov = Advanced(c.iov, n)]

=============================================================================
