-------------------------- MODULE HttpParserProofs --------------------------
(***************************************************************************)
(* Proofs about HttpParser, for every script, cut of its bytes and buffer  *)
(* size. The buffer: whatever compaction, growth, shrinking and resets do, *)
(* its unread cells are the ones it had. The stream: those cells are the   *)
(* next bytes of the stream, up to the case of a header name (Tracks) or   *)
(* exactly (Copies). The client: where each request, header and body lies  *)
(* in the stream. The handlers: what they find, given what the client      *)
(* sent. Together they make InStep inductive: the state, the contents and  *)
(* the dispatches are those of the bytes consumed.                         *)
(***************************************************************************)
EXTENDS HttpParser, SequenceLemmas, FiniteSetTheorems

(* The read buffer. Whatever is done to it, its unread cells are the ones  *)
(* it had.                                                                 *)
Sound(b) == b \in BufferType /\ b.wp <= Len(b.data)

Shifted(b, c) ==
    /\ Sound(c)
    /\ c.wp - c.rp = b.wp - b.rp
    /\ \A p \in c.rp + 1 .. c.wp : c.data[p] = b.data[p + (b.wp - c.wp)]

Appended(b, s, c) ==
    /\ Sound(c)
    /\ c.wp - c.rp = b.wp - b.rp + Len(s)
    /\ \A p \in c.rp + 1 .. c.wp :
          LET old == c.wp - Len(s)
          IN  IF p <= old THEN c.data[p] = b.data[p + (b.wp - old)]
              ELSE c.data[p] = s[p - old]

LEMMA SoundFields ==
    ASSUME NEW b, Sound(b)
    PROVE  /\ b = [data |-> b.data, rp |-> b.rp, wp |-> b.wp]
           /\ b.data \in Seq(Byte) /\ b.rp \in Nat /\ b.wp \in Nat
           /\ Len(b.data) \in Nat /\ b.wp <= Len(b.data)
  BY DEF Sound, BufferType

LEMMA PosResetShifts == ASSUME NEW b, Sound(b) PROVE Shifted(b, PosReset(b))
<1>1. CASE b.rp = b.wp
  <2> DEFINE c == [b EXCEPT !.rp = 0, !.wp = 0]
  <2>1. PosReset(b) = c
    BY <1>1 DEF PosReset
  <2>2. c \in BufferType /\ c.wp = 0 /\ c.rp = 0 /\ c.data = b.data
    <3>1. b \in [data : Seq(Byte), rp : Nat, wp : Nat]
      BY DEF Sound, BufferType
    <3> QED
      BY <3>1 DEF BufferType
  <2>3. b.wp - b.rp = 0 /\ 0 <= Len(b.data)
    BY <1>1, SoundFields
  <2> HIDE DEF c
  <2> QED
    BY <2>1, <2>2, <2>3 DEF Shifted, Sound
<1>2. CASE b.rp # b.wp
  <2>1. PosReset(b) = b
    BY <1>2 DEF PosReset
  <2>2. \A p \in b.rp + 1 .. b.wp : p + (b.wp - b.wp) = p
    BY SoundFields
  <2> QED
    BY <2>1, <2>2 DEF Shifted
<1> QED
  BY <1>1, <1>2

LEMMA ShrinkShifts == ASSUME NEW b, Sound(b) PROVE Shifted(b, ShrinkBuffer(b))
<1>1. CASE Len(b.data) >= HugeSize /\ FewReadable(b)
  <2> DEFINE d == [i \in 1 .. InitSize |->
                       IF i <= b.wp - b.rp THEN b.data[b.rp + i] ELSE Junk]
             c == [data |-> d, rp |-> 0, wp |-> b.wp - b.rp]
  <2>1. ShrinkBuffer(b) = c
    BY <1>1 DEF ShrinkBuffer
  <2>2. b.wp - b.rp \in Nat /\ b.wp - b.rp < InitSize /\ InitSize \in Nat /\ Junk \in Byte
    BY <1>1, SoundFields, BufferAssumption DEF FewReadable
  <2>3. \A i \in 1 .. InitSize : d[i] \in Byte
    BY <2>2, SoundFields
  <2>4. d \in Seq(Byte) /\ Len(d) = InitSize
    BY <2>2, <2>3
  <2>5. Sound(c)
    BY <2>2, <2>4 DEF Sound, BufferType
  <2>6. c.wp = b.wp - b.rp /\ c.rp = 0 /\ c.data = d
    OBVIOUS
  <2>7. ASSUME NEW p \in 1 .. b.wp - b.rp PROVE d[p] = b.data[p + (b.wp - (b.wp - b.rp))]
    <3>1. p \in 1 .. InitSize /\ p <= b.wp - b.rp /\ p + (b.wp - (b.wp - b.rp)) = b.rp + p
      BY <2>2, SoundFields
    <3> QED
      BY <3>1
  <2>8. c.wp - c.rp = b.wp - b.rp
    BY <2>2, <2>6
  <2> HIDE DEF c, d
  <2>9. \A p \in c.rp + 1 .. c.wp : c.data[p] = b.data[p + (b.wp - c.wp)]
    BY <2>6, <2>7
  <2> QED
    BY <2>1, <2>5, <2>8, <2>9 DEF Shifted
<1>2. CASE ~(Len(b.data) >= HugeSize /\ FewReadable(b))
  <2>1. ShrinkBuffer(b) = b
    BY <1>2 DEF ShrinkBuffer
  <2>2. \A p \in b.rp + 1 .. b.wp : p + (b.wp - b.wp) = p
    BY SoundFields
  <2> QED
    BY <2>1, <2>2 DEF Shifted
<1> QED
  BY <1>1, <1>2

LEMMA ShiftedTrans ==
    ASSUME NEW b, NEW c, NEW d, Sound(b), Shifted(b, c), Shifted(c, d)
    PROVE  Shifted(b, d)
<1>1. Sound(c) /\ Sound(d)
  BY DEF Shifted
<1>2. /\ b.rp \in Nat /\ b.wp \in Nat /\ c.rp \in Nat /\ c.wp \in Nat
      /\ d.rp \in Nat /\ d.wp \in Nat
  BY <1>1, SoundFields
<1>3. c.wp - c.rp = b.wp - b.rp /\ d.wp - d.rp = c.wp - c.rp
  BY DEF Shifted
<1>4. ASSUME NEW p \in d.rp + 1 .. d.wp PROVE d.data[p] = b.data[p + (b.wp - d.wp)]
  <2> DEFINE q == p + (c.wp - d.wp)
  <2>1. q \in c.rp + 1 .. c.wp /\ q + (b.wp - c.wp) = p + (b.wp - d.wp)
    BY <1>2, <1>3
  <2>2. d.data[p] = c.data[q]
    BY DEF Shifted
  <2> HIDE DEF q
  <2>3. c.data[q] = b.data[q + (b.wp - c.wp)]
    BY <2>1 DEF Shifted
  <2> QED
    BY <2>1, <2>2, <2>3
<1> QED
  BY <1>1, <1>3, <1>4 DEF Shifted

(* update_read_pos: the first n unread cells are gone. *)
LEMMA UpdateReadPosShifts ==
    ASSUME NEW b, Sound(b), NEW n \in Nat
    PROVE  LET c == UpdateReadPos(b, n)
           IN  /\ Sound(c)
               /\ c.wp - c.rp = b.wp - b.rp - n
               /\ \A p \in c.rp + 1 .. c.wp : c.data[p] = b.data[p + (b.wp - c.wp)]
<1> DEFINE a == [data |-> b.data, rp |-> b.rp + n, wp |-> b.wp]
           c == UpdateReadPos(b, n)
<1>1. [b EXCEPT !.rp = @ + n] = a
  BY SoundFields
<1>2. Sound(a) /\ a.rp = b.rp + n /\ a.wp = b.wp /\ a.data = b.data
  BY SoundFields DEF Sound, BufferType
<1>3. c = ShrinkBuffer(PosReset(a))
  BY <1>1 DEF UpdateReadPos
<1> HIDE DEF a, c
<1>4. Shifted(a, PosReset(a))
  BY <1>2, PosResetShifts
<1>5. Shifted(PosReset(a), ShrinkBuffer(PosReset(a)))
  BY <1>4, ShrinkShifts DEF Shifted
<1>6. Shifted(a, c)
  BY <1>2, <1>3, <1>4, <1>5, ShiftedTrans
<1>7. b.wp - (b.rp + n) = b.wp - b.rp - n
  BY SoundFields
<1> QED
  BY <1>2, <1>6, <1>7 DEF Shifted, c

(* The cells after a move: first the unread ones, then s. e is the vector  *)
(* filled by readv, extra the bytes for which it had no room.              *)
FilledWith(e, L, data, wp, s, N) ==
    \A i \in 1 .. L : e[i] = IF i \in wp + 1 .. wp + N THEN s[i - wp] ELSE data[i]

From(extra, n, s, from) == \A i \in 1 .. n : extra[i] = s[from + i]

Moves(L, N, rp, wp, data, s, e, extra) ==
    /\ wp <= L /\ rp <= L /\ L - wp < N
    /\ FilledWith(e, L, data, wp, s, N)
    /\ From(extra, N - (L - wp), s, L - wp)

Follows(d, K, data, rp, wp, s) ==
    \A i \in 1 .. K : d[i] = IF i <= wp - rp THEN data[rp + i] ELSE s[i - (wp - rp)]

OnceMoved(L, N, rp, wp, data, s, e, extra) ==
    \A i \in 1 .. (wp - rp) + N :
        (IF i <= L - rp THEN e[rp + i] ELSE extra[i - (L - rp)])
            = IF i <= wp - rp THEN data[rp + i] ELSE s[i - (wp - rp)]

LEMMA MovedCells ==
    ASSUME NEW L \in Nat, NEW N \in Nat, NEW rp \in Nat, NEW wp \in Nat,
           NEW data, NEW s, NEW e, NEW extra, Moves(L, N, rp, wp, data, s, e, extra)
    PROVE  OnceMoved(L, N, rp, wp, data, s, e, extra)
<1> SUFFICES ASSUME NEW i \in 1 .. (wp - rp) + N
             PROVE  (IF i <= L - rp THEN e[rp + i] ELSE extra[i - (L - rp)])
                        = IF i <= wp - rp THEN data[rp + i] ELSE s[i - (wp - rp)]
  BY DEF OnceMoved
<1>0. wp <= L /\ rp <= L /\ L - wp < N
  BY DEF Moves
<1>1. CASE i <= L - rp
  <2>1. rp + i \in 1 .. L /\ (rp + i) - wp = i - (wp - rp)
    BY <1>0, <1>1
  <2>2. rp + i \in wp + 1 .. wp + N <=> ~(i <= wp - rp)
    BY <1>0, <1>1
  <2>3. e[rp + i] = IF rp + i \in wp + 1 .. wp + N THEN s[(rp + i) - wp] ELSE data[rp + i]
    BY <2>1 DEF FilledWith, Moves
  <2> QED
    BY <1>1, <2>1, <2>2, <2>3
<1>2. CASE ~(i <= L - rp)
  <2>1. i - (L - rp) \in 1 .. N - (L - wp)
    BY <1>0, <1>2
  <2>2. (L - wp) + (i - (L - rp)) = i - (wp - rp) /\ ~(i <= wp - rp)
    BY <1>0, <1>2
  <2>3. extra[i - (L - rp)] = s[(L - wp) + (i - (L - rp))]
    BY <2>1 DEF From, Moves
  <2> QED
    BY <1>2, <2>2, <2>3
<1> QED
  BY <1>1, <1>2

(* A buffer that holds K cells from its front. *)
LEMMA FrontCells ==
    ASSUME NEW b, NEW s, NEW c, NEW N \in Nat, NEW rp \in Nat, NEW wp \in Nat,
           b.rp = rp, b.wp = wp, Len(s) = N,
           NEW d \in Seq(Byte), NEW K \in Nat, K = (wp - rp) + N, K <= Len(d),
           c = [data |-> d, rp |-> 0, wp |-> K],
           Follows(d, K, b.data, rp, wp, s)
    PROVE  Appended(b, s, c)
<1>1. Sound(c) /\ c.rp = 0 /\ c.wp = K /\ c.data = d
  BY DEF Sound, BufferType
<1>2. c.wp - c.rp = b.wp - b.rp + Len(s) /\ c.wp - Len(s) = wp - rp
  BY <1>1
<1>3. ASSUME NEW p \in 1 .. K
      PROVE  IF p <= c.wp - Len(s) THEN c.data[p] = b.data[p + (b.wp - (c.wp - Len(s)))]
             ELSE c.data[p] = s[p - (c.wp - Len(s))]
  <2>1. p + (wp - (wp - rp)) = rp + p
    OBVIOUS
  <2> QED
    BY <1>1, <1>2, <2>1 DEF Follows
<1> QED
  BY <1>1, <1>2, <1>3 DEF Appended

(* readv and update_write_pos: the bytes s follow the unread cells. *)
LEMMA ReceivedAppends ==
    ASSUME NEW b, Sound(b), NEW s \in Seq(Byte), Writable(b, s)
    PROVE  Appended(b, s, Received(b, s))
<1>p. PICK L \in Nat, N \in Nat, rp \in Nat, wp \in Nat :
         /\ L = Len(b.data) /\ N = Len(s) /\ rp = b.rp /\ wp = b.wp
         /\ b = [data |-> b.data, rp |-> rp, wp |-> wp]
  BY SoundFields
<1> DEFINE e == [i \in 1 .. L |-> IF i \in wp + 1 .. wp + N THEN s[i - wp] ELSE b.data[i]]
           f == [data |-> e, rp |-> rp, wp |-> wp]
           extra == SubSeq(s, WritableSize(b) + 1, N)
<1>1. /\ b.data \in Seq(Byte) /\ wp <= L
      /\ WritableSize(b) = L - wp /\ WritableSize(b) \in Nat
  BY <1>p, SoundFields DEF WritableSize
<1>2. Filled(b, s) = f
  <2>1. Filled(b, s) = [b EXCEPT !.data = e]
    BY <1>p DEF Filled
  <2> HIDE DEF e
  <2>2. [b EXCEPT !.data = e] = f
    BY <1>p
  <2> QED
    BY <2>1, <2>2
<1>3. \A i \in 1 .. L : e[i] \in Byte
  <2> SUFFICES ASSUME NEW i \in 1 .. L PROVE e[i] \in Byte
    OBVIOUS
  <2>1. CASE i \in wp + 1 .. wp + N
    <3>1. i - wp \in 1 .. N /\ e[i] = s[i - wp]
      BY <1>1, <2>1
    <3>2. s[i - wp] \in Byte
      BY <1>p, <3>1, ElementOfSeq
    <3> QED
      BY <3>1, <3>2
  <2>2. CASE i \notin wp + 1 .. wp + N
    BY <1>p, <1>1, <2>2, ElementOfSeq
  <2> QED
    BY <2>1, <2>2
<1>4. e \in Seq(Byte) /\ Len(e) = L /\ f.data = e /\ f.rp = rp /\ f.wp = wp
  BY <1>1, <1>3
<1>5. CASE N <= WritableSize(b)
  <2> DEFINE c == [data |-> e, rp |-> rp, wp |-> wp + N]
  <2>1. Received(b, s) = c
    <3> HIDE DEF e
    <3>1. Received(b, s) = [f EXCEPT !.wp = @ + N]
      BY <1>p, <1>2, <1>5 DEF Received
    <3> QED
      BY <3>1
  <2>2. Sound(c) /\ c.rp = rp /\ c.wp = wp + N /\ c.data = e
    <3>1. wp + N \in Nat /\ wp + N <= L
      BY <1>1, <1>5
    <3> HIDE DEF e
    <3> QED
      BY <1>1, <1>4, <3>1 DEF Sound, BufferType
  <2>3. ASSUME NEW p \in c.rp + 1 .. c.wp
        PROVE  IF p <= c.wp - N THEN c.data[p] = b.data[p + (wp - (c.wp - N))]
               ELSE c.data[p] = s[p - (c.wp - N)]
    <3>1. c.wp - N = wp /\ p + (wp - (c.wp - N)) = p /\ p \in 1 .. L
      BY <1>1, <1>5, <2>2
    <3>2. e[p] = IF p <= wp THEN b.data[p] ELSE s[p - wp]
      BY <1>1, <2>2, <3>1
    <3> QED
      BY <2>2, <3>1, <3>2
  <2> HIDE DEF c
  <2>4. c.wp - c.rp = wp - rp + N
    BY <1>1, <2>2
  <2> QED
    BY <1>p, <2>1, <2>2, <2>3, <2>4 DEF Appended
<1>6. CASE ~(N <= WritableSize(b))
  <2> DEFINE M == L - rp
             W == L - wp
             K == wp - rp + N
             new(i) == IF i <= wp - rp THEN b.data[rp + i] ELSE s[i - (wp - rp)]
  <2>1. /\ rp <= L /\ M \in Nat /\ W \in Nat /\ W < N /\ N - W \in Nat
        /\ M + (N - W) = K /\ K \in Nat
    <3>1. rp <= L /\ L - wp < N /\ wp <= L
      BY <1>p, <1>1, <1>6 DEF Writable
    <3>2. /\ L - rp \in Nat /\ L - wp \in Nat /\ L - wp < N /\ N - (L - wp) \in Nat
          /\ (L - rp) + (N - (L - wp)) = wp - rp + N /\ wp - rp + N \in Nat
      BY ONLY <3>1, L \in Nat, N \in Nat, rp \in Nat, wp \in Nat
    <3> QED
      BY <3>1, <3>2
  <2>2. extra \in Seq(Byte) /\ Len(extra) = N - W /\ \A i \in 1 .. N - W : extra[i] = s[W + i]
    <3>0. \A i \in W + 1 .. N : s[i] \in Byte
      <4> SUFFICES ASSUME NEW i \in W + 1 .. N PROVE s[i] \in Byte
        OBVIOUS
      <4>1. i \in 1 .. N
        BY <2>1
      <4> QED
        BY <1>p, <4>1, ElementOfSeq
    <3>1. extra = SubSeq(s, W + 1, N) /\ W + 1 \in Int /\ N \in Int /\ N - (W + 1) + 1 = N - W
          /\ W + 1 <= N /\ \A i \in W + 1 .. N : s[i] \in Byte
      BY <1>1, <2>1, <3>0
    <3>2. /\ SubSeq(s, W + 1, N) \in Seq(Byte)
          /\ Len(SubSeq(s, W + 1, N)) = N - (W + 1) + 1
          /\ \A i \in 1 .. N - (W + 1) + 1 : SubSeq(s, W + 1, N)[i] = s[(W + 1) + i - 1]
      BY <3>1, SubSeqProperties
    <3>3. \A i \in 1 .. N - W : (W + 1) + i - 1 = W + i
      BY <2>1
    <3> HIDE DEF extra, M, W
    <3> QED
      BY <3>1, <3>2, <3>3
  <2>3. Moved(f) = M /\ M + Len(extra) = K
    BY <1>4, <2>1, <2>2 DEF Moved
  <2>4. ASSUME NEW i \in 1 .. K
        PROVE  (IF i <= M THEN e[rp + i] ELSE extra[i - M]) = new(i)
    <3>1. FilledWith(e, L, b.data, wp, s, N)
      BY DEF FilledWith
    <3>2. L - wp < N
      BY <1>1, <1>6
    <3>3. wp <= L /\ rp <= L /\ i \in 1 .. (wp - rp) + N
      BY <1>1, <2>1
    <3>4. From(extra, N - (L - wp), s, L - wp)
      BY <2>2 DEF From
    <3> HIDE DEF e, extra, M, W, K, new
    <3>5. (IF i <= L - rp THEN e[rp + i] ELSE extra[i - (L - rp)])
               = IF i <= wp - rp THEN b.data[rp + i] ELSE s[i - (wp - rp)]
      <4>1. Moves(L, N, rp, wp, b.data, s, e, extra)
        BY <3>1, <3>2, <3>3, <3>4 DEF Moves
      <4>2. OnceMoved(L, N, rp, wp, b.data, s, e, extra)
        BY <4>1, MovedCells
      <4> QED
        BY <3>3, <4>2 DEF OnceMoved
    <3> QED
      BY <3>5 DEF new, M
  <2>5. \A i \in 1 .. M : e[rp + i] \in Byte
    <3> HIDE DEF e
    <3>1. \A i \in 1 .. M : rp + i \in 1 .. L
      BY <1>1, <2>1
    <3> QED
      BY <1>4, <3>1
  <2> HIDE DEF e, extra, M, W, K, new
  <2>6. ASSUME NEW d \in Seq(Byte), K <= Len(d),
               \A i \in 1 .. K : d[i] = IF i <= M THEN e[rp + i] ELSE extra[i - M],
               Received(b, s) = [data |-> d, rp |-> 0, wp |-> K]
        PROVE  Appended(b, s, Received(b, s))
    <3>1. \A i \in 1 .. K : d[i] = new(i)
      BY <2>4, <2>6
    <3> DEFINE c == Received(b, s)
    <3> HIDE DEF c
    <3>2. /\ b.rp = rp /\ b.wp = wp /\ Len(s) = N /\ K \in Nat /\ K = (wp - rp) + N
          /\ c = [data |-> d, rp |-> 0, wp |-> K]
          /\ Follows(d, K, b.data, rp, wp, s)
      BY <1>p, <2>1, <2>6, <3>1 DEF new, K, c, Follows
    <3> QED
      BY <2>6, <3>2, FrontCells DEF c
  <2>7. CASE Moved(f) + Len(extra) < Len(f.data)
    <3> DEFINE d == [i \in 1 .. L |->
                        IF i <= M THEN e[rp + i]
                        ELSE IF i <= M + Len(extra) THEN extra[i - M] ELSE e[i]]
    <3>1. K < L /\ M + Len(extra) = K
      BY <1>4, <2>3, <2>7
    <3>2. Received(b, s) = [data |-> d, rp |-> 0, wp |-> K]
      <4>1. Received(b, s) = Compacted(f, extra)
        BY <1>p, <1>2, <1>6, <2>7 DEF Received, extra
      <4>2. Compacted(f, extra) = [data |-> d, rp |-> 0, wp |-> Moved(f) + Len(extra)]
        BY <1>4, <2>3 DEF Compacted
      <4> QED
        BY <2>3, <4>1, <4>2
    <3>3. ASSUME NEW i \in 1 .. L PROVE d[i] \in Byte
      <4>1. CASE i <= M
        BY <2>5, <4>1
      <4>2. CASE ~(i <= M) /\ i <= M + Len(extra)
        <5>1. i - M \in 1 .. Len(extra) /\ d[i] = extra[i - M]
          BY <2>1, <2>2, <4>2
        <5> QED
          BY <2>2, <5>1
      <4>3. CASE ~(i <= M) /\ ~(i <= M + Len(extra))
        BY <1>4, <4>3
      <4> QED
        BY <4>1, <4>2, <4>3
    <3>4. d \in Seq(Byte) /\ Len(d) = L
      BY <1>1, <3>3, IsASeq
    <3>5. \A i \in 1 .. K : d[i] = IF i <= M THEN e[rp + i] ELSE extra[i - M]
      BY <1>1, <2>1, <3>1
    <3> HIDE DEF d
    <3>6. K <= Len(d)
      BY <1>1, <2>1, <3>1, <3>4
    <3> QED
      BY <2>6, <3>2, <3>4, <3>5, <3>6
  <2>8. CASE ~(Moved(f) + Len(extra) < Len(f.data))
    <3> DEFINE d == [i \in 1 .. M + Len(extra) |-> IF i <= M THEN e[rp + i] ELSE extra[i - M]]
    <3>2. Received(b, s) = [data |-> d, rp |-> 0, wp |-> K]
      <4>1. Received(b, s) = Grown(f, extra)
        BY <1>p, <1>2, <1>6, <2>8 DEF Received, extra
      <4>2. Grown(f, extra) = [data |-> d, rp |-> 0, wp |-> Moved(f) + Len(extra)]
        BY <1>4, <2>3 DEF Grown
      <4> QED
        BY <2>3, <4>1, <4>2
    <3>3. ASSUME NEW i \in 1 .. M + Len(extra) PROVE d[i] \in Byte
      <4>1. CASE i <= M
        BY <2>5, <4>1
      <4>2. CASE ~(i <= M)
        <5>1. i - M \in 1 .. Len(extra) /\ d[i] = extra[i - M]
          BY <2>1, <2>2, <4>2
        <5> QED
          BY <2>2, <5>1
      <4> QED
        BY <4>1, <4>2
    <3>4. d \in Seq(Byte) /\ Len(d) = K
      BY <2>1, <2>3, <3>3
    <3>5. \A i \in 1 .. K : d[i] = IF i <= M THEN e[rp + i] ELSE extra[i - M]
      BY <2>3
    <3> HIDE DEF d
    <3>6. K <= Len(d)
      BY <2>1, <3>4
    <3> QED
      BY <2>6, <3>2, <3>4, <3>5, <3>6
  <2> QED
    BY <2>7, <2>8
<1> QED
  BY <1>5, <1>6

-----------------------------------------------------------------------------
(* What the unread cells are: bytes g - wp further in the stream st, of    *)
(* which t have been consumed and g received, exactly or up to case.       *)
Tracks(b, t, g, st) ==
    /\ t - b.rp = g - b.wp
    /\ \A i \in b.rp + 1 .. b.wp : LowerByte(b.data[i]) = LowerByte(st[i + (g - b.wp)])

Copies(b, g, st) == \A i \in b.rp + 1 .. b.wp : b.data[i] = st[i + (g - b.wp)]

LEMMA LowerByteLowers ==
    ASSUME NEW c \in Byte
    PROVE  LowerByte(c) \in Byte /\ LowerByte(LowerByte(c)) = LowerByte(c)
  BY ParserAssumption DEF LowerByte

LEMMA ConsumeTracks ==
    ASSUME NEW b, Sound(b), NEW n \in Nat, NEW t \in Nat, NEW g \in Nat, NEW st,
           Tracks(b, t, g, st)
    PROVE  /\ Sound(UpdateReadPos(b, n)) /\ Tracks(UpdateReadPos(b, n), t + n, g, st)
           /\ Copies(b, g, st) => Copies(UpdateReadPos(b, n), g, st)
<1> DEFINE c == UpdateReadPos(b, n)
<1>1. /\ Sound(c) /\ c.wp - c.rp = b.wp - b.rp - n
      /\ \A p \in c.rp + 1 .. c.wp : c.data[p] = b.data[p + (b.wp - c.wp)]
  BY UpdateReadPosShifts
<1> HIDE DEF c
<1>2. b.rp \in Nat /\ b.wp \in Nat /\ c.rp \in Nat /\ c.wp \in Nat
  BY <1>1, SoundFields
<1>3. t - b.rp = g - b.wp
  BY DEF Tracks
<1>4. (t + n) - c.rp = g - c.wp
  BY <1>1, <1>2, <1>3
<1>5. ASSUME NEW p \in c.rp + 1 .. c.wp
      PROVE  /\ p + (b.wp - c.wp) \in b.rp + 1 .. b.wp
             /\ (p + (b.wp - c.wp)) + (g - b.wp) = p + (g - c.wp)
  BY <1>1, <1>2
<1>6. Tracks(c, t + n, g, st)
  <2>1. ASSUME NEW p \in c.rp + 1 .. c.wp
        PROVE  LowerByte(c.data[p]) = LowerByte(st[p + (g - c.wp)])
    <3> DEFINE q == p + (b.wp - c.wp)
    <3>1. q \in b.rp + 1 .. b.wp /\ q + (g - b.wp) = p + (g - c.wp) /\ c.data[p] = b.data[q]
      BY <1>1, <1>5
    <3> HIDE DEF q
    <3>2. LowerByte(b.data[q]) = LowerByte(st[q + (g - b.wp)])
      BY <3>1 DEF Tracks
    <3> QED
      BY <3>1, <3>2
  <2> QED
    BY <1>4, <2>1 DEF Tracks
<1>7. ASSUME Copies(b, g, st) PROVE Copies(c, g, st)
  <2>1. ASSUME NEW p \in c.rp + 1 .. c.wp PROVE c.data[p] = st[p + (g - c.wp)]
    <3> DEFINE q == p + (b.wp - c.wp)
    <3>1. q \in b.rp + 1 .. b.wp /\ q + (g - b.wp) = p + (g - c.wp) /\ c.data[p] = b.data[q]
      BY <1>1, <1>5
    <3> HIDE DEF q
    <3>2. b.data[q] = st[q + (g - b.wp)]
      BY <1>7, <3>1 DEF Copies
    <3> QED
      BY <3>1, <3>2
  <2> QED
    BY <2>1 DEF Copies
<1> QED
  BY <1>1, <1>6, <1>7 DEF c

LEMMA ReceiveTracks ==
    ASSUME NEW b, Sound(b), NEW n \in Nat, NEW t \in Nat, NEW g \in Nat,
           NEW st \in Seq(Byte), g + n <= Len(st), Tracks(b, t, g, st),
           Writable(b, SubSeq(st, g + 1, g + n))
    PROVE  LET c == Received(b, SubSeq(st, g + 1, g + n))
           IN  Sound(c) /\ Tracks(c, t, g + n, st) /\ (Copies(b, g, st) => Copies(c, g + n, st))
<1> DEFINE s == SubSeq(st, g + 1, g + n)
           c == Received(b, s)
           old == c.wp - n
<1>1. s \in Seq(Byte) /\ Len(s) = n /\ \A i \in 1 .. n : s[i] = st[g + i]
  OBVIOUS
<1> HIDE DEF s, c, old
<1>2. Appended(b, s, c)
  BY <1>1, ReceivedAppends DEF s, c
<1>3. Sound(c) /\ c.wp - c.rp = b.wp - b.rp + n
  BY <1>1, <1>2 DEF Appended
<1>4. b.rp \in Nat /\ b.wp \in Nat /\ c.rp \in Nat /\ c.wp \in Nat
  BY <1>3, SoundFields
<1>5. t - b.rp = g - b.wp
  BY DEF Tracks
<1>a. t \in Nat /\ g \in Nat /\ n \in Nat
  OBVIOUS
<1>6. t - c.rp = (g + n) - c.wp
  <2>1. PICK br \in Nat, bw \in Nat, cr \in Nat, cw \in Nat :
            br = b.rp /\ bw = b.wp /\ cr = c.rp /\ cw = c.wp
    BY <1>4
  <2>2. cw - cr = bw - br + n /\ t - br = g - bw
    BY <1>3, <1>5, <2>1
  <2>3. t - cr = (g + n) - cw
    BY ONLY <2>2, <1>a, br \in Nat, bw \in Nat, cr \in Nat, cw \in Nat
  <2> QED
    BY <2>1, <2>3
<1>7. ASSUME NEW p \in c.rp + 1 .. c.wp, ~(p <= old)
      PROVE  c.data[p] = st[p + ((g + n) - c.wp)]
  <2>1. c.data[p] = s[p - old]
    BY <1>1, <1>2, <1>7 DEF Appended, old
  <2>2. p - old \in 1 .. n /\ g + (p - old) = p + ((g + n) - c.wp)
    <3>1. PICK cr \in Nat, cw \in Nat : cr = c.rp /\ cw = c.wp
      BY <1>4
    <3>2. p \in cr + 1 .. cw /\ ~(p <= cw - n)
      BY <1>7, <3>1 DEF old
    <3>3. p - (cw - n) \in 1 .. n /\ g + (p - (cw - n)) = p + ((g + n) - cw)
      BY ONLY <3>2, <1>a, cr \in Nat, cw \in Nat
    <3> QED
      BY <3>1, <3>3 DEF old
  <2> QED
    BY <1>1, <2>1, <2>2
<1>8. ASSUME NEW p \in c.rp + 1 .. c.wp, p <= old
      PROVE  /\ c.data[p] = b.data[p + (b.wp - old)]
             /\ p + (b.wp - old) \in b.rp + 1 .. b.wp
             /\ (p + (b.wp - old)) + (g - b.wp) = p + ((g + n) - c.wp)
  <2>1. c.data[p] = b.data[p + (b.wp - old)]
    BY <1>1, <1>2, <1>8 DEF Appended, old
  <2>2. old = c.wp - n /\ p \in Int /\ c.rp + 1 <= p /\ p <= old
    BY <1>4, <1>8 DEF old
  <2>a. PICK br \in Nat, bw \in Nat, cr \in Nat, cw \in Nat :
           br = b.rp /\ bw = b.wp /\ cr = c.rp /\ cw = c.wp
    BY <1>4
  <2>b. cw - cr = bw - br + n /\ cr + 1 <= p /\ p <= cw - n
    BY <1>3, <2>2, <2>a
  <2>e. p \in Int
    BY <2>2
  <2>c. p + (bw - (cw - n)) \in br + 1 .. bw
    BY ONLY <1>a, <2>b, <2>e, br \in Nat, bw \in Nat, cr \in Nat, cw \in Nat
  <2>d. (p + (bw - (cw - n))) + (g - bw) = p + ((g + n) - cw)
    BY ONLY <1>a, <2>e, bw \in Nat, cw \in Nat
  <2>3. p + (b.wp - old) \in b.rp + 1 .. b.wp
    BY <2>2, <2>a, <2>c
  <2>4. (p + (b.wp - old)) + (g - b.wp) = p + ((g + n) - c.wp)
    BY <2>2, <2>a, <2>d
  <2> QED
    BY <2>1, <2>3, <2>4
<1>9. Tracks(c, t, g + n, st)
  <2>1. ASSUME NEW p \in c.rp + 1 .. c.wp
        PROVE  LowerByte(c.data[p]) = LowerByte(st[p + ((g + n) - c.wp)])
    <3>1. CASE p <= old
      <4> DEFINE q == p + (b.wp - old)
      <4>1. /\ c.data[p] = b.data[q] /\ q \in b.rp + 1 .. b.wp
            /\ q + (g - b.wp) = p + ((g + n) - c.wp)
        BY <1>8, <3>1
      <4> HIDE DEF q
      <4>2. LowerByte(b.data[q]) = LowerByte(st[q + (g - b.wp)])
        BY <4>1 DEF Tracks
      <4> QED
        BY <4>1, <4>2
    <3>2. CASE ~(p <= old)
      BY <1>7, <3>2
    <3> QED
      BY <3>1, <3>2
  <2> QED
    BY <1>6, <2>1 DEF Tracks
<1>10. ASSUME Copies(b, g, st) PROVE Copies(c, g + n, st)
  <2>1. ASSUME NEW p \in c.rp + 1 .. c.wp
        PROVE  c.data[p] = st[p + ((g + n) - c.wp)]
    <3>1. CASE p <= old
      <4> DEFINE q == p + (b.wp - old)
      <4>1. /\ c.data[p] = b.data[q] /\ q \in b.rp + 1 .. b.wp
            /\ q + (g - b.wp) = p + ((g + n) - c.wp)
        BY <1>8, <3>1
      <4> HIDE DEF q
      <4>2. b.data[q] = st[q + (g - b.wp)]
        BY <1>10, <4>1 DEF Copies
      <4> QED
        BY <4>1, <4>2
    <3>2. CASE ~(p <= old)
      BY <1>7, <3>2
    <3> QED
      BY <3>1, <3>2
  <2> QED
    BY <2>1 DEF Copies
<1> QED
  BY <1>3, <1>9, <1>10 DEF c, s

(* A read position grows by what is consumed, and never else. *)
LEMMA ReadPosBounds ==
    ASSUME NEW b, Sound(b)
    PROVE  /\ \A n \in Nat : UpdateReadPos(b, n).rp <= b.rp + n
           /\ \A s \in Seq(Byte) : Received(b, s).rp <= b.rp
<1>1. b = [data |-> b.data, rp |-> b.rp, wp |-> b.wp] /\ b.rp \in Nat /\ b.wp \in Nat
  BY SoundFields
<1>2. ASSUME NEW n \in Nat PROVE UpdateReadPos(b, n).rp <= b.rp + n
  <2> DEFINE a == [data |-> b.data, rp |-> b.rp + n, wp |-> b.wp]
             c == PosReset(a)
  <2>1. [b EXCEPT !.rp = @ + n] = a
    BY <1>1
  <2>2. c.rp = 0 \/ c.rp = b.rp + n
    BY DEF PosReset
  <2>3. UpdateReadPos(b, n) = ShrinkBuffer(c)
    BY <2>1 DEF UpdateReadPos
  <2> HIDE DEF c
  <2>4. ShrinkBuffer(c).rp = 0 \/ ShrinkBuffer(c).rp = c.rp
    BY DEF ShrinkBuffer
  <2> QED
    BY <1>1, <2>2, <2>3, <2>4
<1>3. ASSUME NEW s \in Seq(Byte) PROVE Received(b, s).rp <= b.rp
  <2> DEFINE d == [i \in 1 .. Len(b.data) |->
                      IF i \in b.wp + 1 .. b.wp + Len(s) THEN s[i - b.wp] ELSE b.data[i]]
             f == Filled(b, s)
             extra == SubSeq(s, WritableSize(b) + 1, Len(s))
  <2>1. f.rp = b.rp /\ [f EXCEPT !.wp = @ + Len(s)].rp = b.rp
    <3>1. f = [b EXCEPT !.data = d]
      BY DEF Filled
    <3> HIDE DEF d, f
    <3>2. f = [data |-> d, rp |-> b.rp, wp |-> b.wp]
      BY <1>1, <3>1
    <3> QED
      BY <3>2
  <2>2. Compacted(f, extra).rp = 0 /\ Grown(f, extra).rp = 0
    BY DEF Compacted, Grown
  <2>3. \/ Received(b, s) = [f EXCEPT !.wp = @ + Len(s)]
        \/ Received(b, s) = Compacted(f, extra) \/ Received(b, s) = Grown(f, extra)
    BY DEF Received
  <2> DEFINE g == [f EXCEPT !.wp = @ + Len(s)]
             c == Compacted(f, extra)
             e == Grown(f, extra)
             r == Received(b, s)
  <2>4. g.rp = b.rp /\ c.rp = 0 /\ e.rp = 0 /\ (r = g \/ r = c \/ r = e)
    BY <2>1, <2>2, <2>3
  <2> HIDE DEF g, c, e, r
  <2>5. r.rp = b.rp \/ r.rp = 0
    BY <2>4
  <2> QED
    BY <1>1, <2>5 DEF r
<1> QED
  BY <1>2, <1>3

(* key_to_lower changes no cell up to case, and none outside the name. *)
LEMMA LowerTracks ==
    ASSUME NEW b, Sound(b), NEW from \in Int, NEW to \in Int
    PROVE  LET c == KeyToLower(b, from, to)
           IN  /\ Sound(c) /\ c.rp = b.rp /\ c.wp = b.wp /\ Len(c.data) = Len(b.data)
               /\ \A i \in 1 .. Len(b.data) :
                     /\ LowerByte(c.data[i]) = LowerByte(b.data[i])
                     /\ i \notin from + 1 .. to - 1 => c.data[i] = b.data[i]
                     /\ i \in from + 1 .. to - 1 => c.data[i] = LowerByte(b.data[i])
<1> DEFINE c == KeyToLower(b, from, to)
           d == [i \in 1 .. Len(b.data) |->
                    IF i \in from + 1 .. to - 1 THEN LowerByte(b.data[i]) ELSE b.data[i]]
<1>1. /\ b \in [data : Seq(Byte), rp : Nat, wp : Nat]
      /\ b.data \in Seq(Byte) /\ Len(b.data) \in Nat /\ b.wp <= Len(b.data)
  BY DEF Sound, BufferType
<1>2. \A i \in 1 .. Len(b.data) : b.data[i] \in Byte
  BY <1>1, ElementOfSeq
<1>3. \A i \in 1 .. Len(b.data) :
         d[i] = IF i \in from + 1 .. to - 1 THEN LowerByte(b.data[i]) ELSE b.data[i]
  OBVIOUS
<1>4. \A i \in 1 .. Len(b.data) : d[i] \in Byte /\ LowerByte(d[i]) = LowerByte(b.data[i])
  BY <1>2, <1>3, LowerByteLowers
<1>5. d \in Seq(Byte) /\ Len(d) = Len(b.data)
  BY <1>1, <1>4, IsASeq
<1>6. c = [b EXCEPT !.data = d]
  BY DEF KeyToLower
<1> HIDE DEF c, d
<1>7. c.data = d /\ c.rp = b.rp /\ c.wp = b.wp /\ c \in BufferType
  BY <1>1, <1>5, <1>6 DEF BufferType
<1> QED
  BY <1>1, <1>3, <1>4, <1>5, <1>7 DEF c, Sound

-----------------------------------------------------------------------------
(* What the handlers find in the buffer. *)
LEMMA BytesAre ==
    ASSUME NEW b, Sound(b), NEW pos \in Nat, NEW n \in Nat, pos + n <= b.wp
    PROVE  /\ Bytes(b, pos, n) \in Word /\ Len(Bytes(b, pos, n)) = n
           /\ \A i \in 1 .. n : Bytes(b, pos, n)[i] = b.data[pos + i]
<1>1. PICK L \in Nat : L = Len(b.data) /\ b.data \in Seq(Byte) /\ pos + n <= L
  BY SoundFields
<1>2. \A i \in pos + 1 .. pos + n : b.data[i] \in Byte
  <2> SUFFICES ASSUME NEW i \in pos + 1 .. pos + n PROVE b.data[i] \in Byte
    OBVIOUS
  <2>1. i \in 1 .. L
    BY <1>1
  <2> QED
    BY <1>1, <2>1, ElementOfSeq
<1>3. CASE n = 0
  <2>1. SubSeq(b.data, pos + 1, pos + n) = <<>>
    BY <1>1, <1>3, SubSeqEmpty
  <2> QED
    BY <1>3, <2>1, EmptySeq DEF Bytes, Word
<1>4. CASE n # 0
  <2>1. /\ SubSeq(b.data, pos + 1, pos + n) \in Seq(Byte)
        /\ Len(SubSeq(b.data, pos + 1, pos + n)) = (pos + n) - (pos + 1) + 1
        /\ \A i \in 1 .. (pos + n) - (pos + 1) + 1 :
              SubSeq(b.data, pos + 1, pos + n)[i] = b.data[(pos + 1) + i - 1]
    <3>1. pos + 1 \in Int /\ pos + n \in Int /\ pos + 1 <= pos + n
      BY <1>4
    <3> QED
      BY <1>1, <1>2, <3>1, SubSeqProperties
  <2>2. (pos + n) - (pos + 1) + 1 = n /\ \A i \in 1 .. n : (pos + 1) + i - 1 = pos + i
    OBVIOUS
  <2> QED
    BY <2>1, <2>2 DEF Bytes, Word
<1> QED
  BY <1>3, <1>4

LEMMA MaxOfTwo ==
    ASSUME NEW m \in Int, NEW n \in Int
    PROVE  Max({m, n}) = IF m >= n THEN m ELSE n
<1>1. CASE m >= n
  <2>1. {m, n} \subseteq Int /\ m \in {m, n} /\ \A y \in {m, n} : m >= y
    BY <1>1
  <2> QED
    BY <1>1, <2>1, MaxIs
<1>2. CASE ~(m >= n)
  <2>1. {m, n} \subseteq Int /\ n \in {m, n} /\ \A y \in {m, n} : n >= y
    BY <1>2
  <2> QED
    BY <1>2, <2>1, MaxIs
<1> QED
  BY <1>1, <1>2

LEMMA SpacesAre ==
    ASSUME Sound(buf), Spaces # {}
    PROVE  /\ Min(Spaces) \in buf.rp .. buf.wp - 1 /\ At(buf, Min(Spaces)) = SP
           /\ \A p \in buf.rp .. Min(Spaces) - 1 : At(buf, p) # SP
           /\ Min(Spaces) \in Nat /\ buf.rp \in Nat /\ buf.wp \in Nat
<1>1. buf.rp \in Nat /\ buf.wp \in Nat
  BY SoundFields
<1>2. Spaces \subseteq Nat
  <2> SUFFICES ASSUME NEW p \in buf.rp .. buf.wp - 1 PROVE p \in Nat
    BY DEF Spaces
  <2> QED
    BY <1>1
<1>3. Min(Spaces) \in Spaces /\ \A m \in Spaces : Min(Spaces) <= m
  BY <1>2, MinProperties
<1>4. Min(Spaces) \in buf.rp .. buf.wp - 1 /\ At(buf, Min(Spaces)) = SP
  BY <1>3 DEF Spaces
<1>5. ASSUME NEW p \in buf.rp .. Min(Spaces) - 1, At(buf, p) = SP PROVE FALSE
  <2>1. p \in buf.rp .. buf.wp - 1 /\ ~(Min(Spaces) <= p)
    BY <1>1, <1>4
  <2> QED
    BY <1>3, <1>5, <2>1 DEF Spaces
<1> QED
  BY <1>1, <1>2, <1>3, <1>4, <1>5

LEMMA CrlfsAre ==
    ASSUME Sound(buf), NEW from \in Nat, Crlfs(from) # {}
    PROVE  /\ Min(Crlfs(from)) \in from .. buf.wp - 2
           /\ IsPair(buf, Min(Crlfs(from)), CR, LF)
           /\ \A p \in from .. Min(Crlfs(from)) - 1 : ~IsPair(buf, p, CR, LF)
           /\ Min(Crlfs(from)) \in Nat /\ buf.wp \in Nat
<1>1. buf.wp \in Nat
  BY SoundFields
<1>2. Crlfs(from) \subseteq Nat
  <2> SUFFICES ASSUME NEW p \in from .. buf.wp - 2 PROVE p \in Nat
    BY DEF Crlfs
  <2> QED
    BY <1>1
<1>3. Min(Crlfs(from)) \in Crlfs(from) /\ \A m \in Crlfs(from) : Min(Crlfs(from)) <= m
  BY <1>2, MinProperties
<1>4. Min(Crlfs(from)) \in from .. buf.wp - 2 /\ IsPair(buf, Min(Crlfs(from)), CR, LF)
  BY <1>3 DEF Crlfs
<1>5. ASSUME NEW p \in from .. Min(Crlfs(from)) - 1, IsPair(buf, p, CR, LF) PROVE FALSE
  <2>1. p \in from .. buf.wp - 2 /\ ~(Min(Crlfs(from)) <= p)
    BY <1>1, <1>4
  <2> QED
    BY <1>3, <1>5, <2>1 DEF Crlfs
<1> QED
  BY <1>1, <1>2, <1>3, <1>4, <1>5

(* The line of a header, wherever its separator is taken to be. *)
LEMMA LineIs ==
    ASSUME Sound(buf), HasLine
    PROVE  /\ Colons \in Nat /\ LineEnd \in Nat /\ buf.rp \in Nat /\ buf.wp \in Nat
           /\ buf.rp <= Colons /\ Colons + 2 <= LineEnd /\ LineEnd + 2 <= buf.wp
<1>1. buf.rp \in Nat /\ buf.wp \in Nat
  BY SoundFields
<1>2. Colons \in Nat /\ buf.rp <= Colons
  <2> DEFINE hits == {p \in buf.rp .. buf.wp - 3 : IsPair(buf, p, COLON, SP)}
  <2>1. CASE hits # {}
    <3>1. hits \subseteq Nat
      <4> SUFFICES ASSUME NEW p \in buf.rp .. buf.wp - 3 PROVE p \in Nat
        OBVIOUS
      <4> QED
        BY <1>1
    <3>2. Colons = Min(hits)
      BY <2>1 DEF Colons
    <3>3. Min(hits) \in hits
      BY <2>1, <3>1, MinProperties
    <3>4. Min(hits) \in buf.rp .. buf.wp - 3
      BY <3>3
    <3> QED
      BY <1>1, <3>2, <3>4
  <2>2. CASE ~(hits # {})
    <3>1. Colons = Max({buf.rp, buf.wp - 2})
      BY <2>2 DEF Colons
    <3>2. Max({buf.rp, buf.wp - 2}) = IF buf.rp >= buf.wp - 2 THEN buf.rp ELSE buf.wp - 2
      BY <1>1, MaxOfTwo
    <3> QED
      BY <1>1, <3>1, <3>2
  <2> QED
    BY <2>1, <2>2
<1>3. Colons + 2 \in Nat /\ Crlfs(Colons + 2) # {}
  BY <1>2 DEF HasLine
<1>4. LineEnd \in Colons + 2 .. buf.wp - 2
  BY <1>3, CrlfsAre DEF LineEnd
<1> QED
  BY <1>1, <1>2, <1>4

-----------------------------------------------------------------------------
(* The client's bytes. *)
Fields(r) == [j \in DOMAIN r.headers |-> HeaderBytes(r.headers[j])]

(* How many bytes the first k header lines have. *)
HeadersBefore(r, k) == Len(FlatTo(Fields(r), k))

LEMMA HeaderBytesAre ==
    ASSUME NEW h \in Header
    PROVE  LET L == Len(h.key)
           IN  /\ L \in Nat /\ HeaderBytes(h) \in Seq(Byte) /\ Len(HeaderBytes(h)) = L + 5
               /\ \A i \in 1 .. L : HeaderBytes(h)[i] = h.key[i]
               /\ HeaderBytes(h)[L + 1] = COLON /\ HeaderBytes(h)[L + 2] = SP
               /\ HeaderBytes(h)[L + 3] = h.value
               /\ HeaderBytes(h)[L + 4] = CR /\ HeaderBytes(h)[L + 5] = LF
<1> DEFINE t == <<COLON, SP, h.value, CR, LF>>
           L == Len(h.key)
<1>1. h.key \in Seq(Byte) /\ h.value \in Byte /\ {COLON, SP, CR, LF} \subseteq Byte
  <2>1. h.key \in Seq(Token) /\ h.value \in Token /\ Token \subseteq Byte
    BY DEF Header, Token
  <2>2. h.key \in Seq(Byte)
    BY <2>1
  <2> QED
    BY <2>1, <2>2, ParserAssumption
<1>2. t \in Seq(Byte) /\ Len(t) = 5
  BY <1>1
<1>3. t[1] = COLON /\ t[2] = SP /\ t[3] = h.value /\ t[4] = CR /\ t[5] = LF
  OBVIOUS
<1>4. L \in Nat
  BY <1>1
<1>5. HeaderBytes(h) = h.key \o t
  BY DEF HeaderBytes
<1> HIDE DEF t
<1>6. h.key \o t \in Seq(Byte) /\ Joins(h.key \o t, h.key, L, t, 5)
  BY <1>1, <1>2, ConcatCells
<1> HIDE DEF L
<1>9. \A c \in {1, 2, 3, 4, 5} : c \in 1 .. 5
  OBVIOUS
<1> QED
  BY <1>3, <1>4, <1>5, <1>6, <1>9 DEF L, Joins

LEMMA FieldsAre ==
    ASSUME NEW r \in Request
    PROVE  /\ r.headers \in Seq(Header) /\ Len(r.headers) \in Nat
           /\ Fields(r) \in Seq(Seq(Byte)) /\ Len(Fields(r)) = Len(r.headers)
           /\ \A j \in 1 .. Len(r.headers) :
                 r.headers[j] \in Header /\ Fields(r)[j] = HeaderBytes(r.headers[j])
<1>1. r.headers \in Seq(Header) /\ Len(r.headers) \in Nat /\ DOMAIN r.headers = 1 .. Len(r.headers)
  BY DEF Request
<1>2. \A j \in 1 .. Len(r.headers) : r.headers[j] \in Header
  BY <1>1, ElementOfSeq
<1>3. \A j \in 1 .. Len(r.headers) : HeaderBytes(r.headers[j]) \in Seq(Byte)
  BY <1>2, HeaderBytesAre
<1>4. Fields(r) = [j \in 1 .. Len(r.headers) |-> HeaderBytes(r.headers[j])]
  BY <1>1 DEF Fields
<1> QED
  BY <1>1, <1>2, <1>3, <1>4

(* The line of header k + 1 follows those of the first k. *)
LEMMA HeadersBeforeStep ==
    ASSUME NEW r \in Request, NEW k \in 0 .. Len(r.headers)
    PROVE  /\ HeadersBefore(r, k) \in Nat /\ HeadersBefore(r, 0) = 0
           /\ k < Len(r.headers) =>
                 /\ k + 1 \in 1 .. Len(r.headers)
                 /\ HeadersBefore(r, k + 1) = HeadersBefore(r, k) + Len(r.headers[k + 1].key) + 5
                 /\ HeadersBefore(r, k + 1) <= HeadersBefore(r, Len(r.headers))
                 /\ Len(r.headers[k + 1].key) \in Nat
<1>1. Fields(r) \in Seq(Seq(Byte)) /\ Len(Fields(r)) = Len(r.headers) /\ Len(r.headers) \in Nat
  BY FieldsAre
<1>2. FlatTo(Fields(r), k) \in Seq(Byte)
  BY <1>1, FlatToType
<1>3. HeadersBefore(r, k) \in Nat
  BY <1>2 DEF HeadersBefore
<1>4. HeadersBefore(r, 0) = 0
  BY FlatToZero, EmptySeq DEF HeadersBefore
<1>5. ASSUME k < Len(r.headers)
      PROVE  /\ k + 1 \in 1 .. Len(r.headers)
             /\ HeadersBefore(r, k + 1) = HeadersBefore(r, k) + Len(r.headers[k + 1].key) + 5
             /\ HeadersBefore(r, k + 1) <= HeadersBefore(r, Len(r.headers))
             /\ Len(r.headers[k + 1].key) \in Nat
  <2>1. k + 1 \in 1 .. Len(r.headers) /\ (k + 1) - 1 = k
    BY <1>1, <1>5
  <2>2. /\ Len(FlatTo(Fields(r), k + 1)) = Len(FlatTo(Fields(r), (k + 1) - 1)) + Len(Fields(r)[k + 1])
        /\ Len(FlatTo(Fields(r), k + 1)) <= Len(FlattenSeq(Fields(r)))
    BY <1>1, <2>1, FlattenCells
  <2>3. Len(Fields(r)[k + 1]) = Len(r.headers[k + 1].key) + 5 /\ Len(r.headers[k + 1].key) \in Nat
    BY <2>1, FieldsAre, HeaderBytesAre
  <2>4. FlattenSeq(Fields(r)) = FlatTo(Fields(r), Len(r.headers))
    BY <1>1, FlatToAll
  <2>5. HeadersBefore(r, k + 1) = HeadersBefore(r, k) + (Len(r.headers[k + 1].key) + 5)
    BY <2>1, <2>2, <2>3 DEF HeadersBefore
  <2>6. HeadersBefore(r, k + 1) <= HeadersBefore(r, Len(r.headers))
    BY <2>2, <2>4 DEF HeadersBefore
  <2> QED
    BY <1>3, <2>1, <2>3, <2>5, <2>6
<1> QED
  BY <1>3, <1>4, <1>5

RequestLine(r) == <<r.method, SP, r.url, SP, r.version, CR, LF>>

LEMMA HeadBytesAre ==
    ASSUME NEW r \in Request
    PROVE  LET H == HeadersBefore(r, Len(r.headers))
               b == HeadBytes(r)
           IN  /\ H \in Nat /\ b \in Seq(Byte) /\ Len(b) = H + 9
               /\ b[1] = r.method /\ b[2] = SP /\ b[3] = r.url /\ b[4] = SP
               /\ b[5] = r.version /\ b[6] = CR /\ b[7] = LF
               /\ b[H + 8] = CR /\ b[H + 9] = LF
               /\ \A j \in 1 .. H : b[7 + j] = FlattenSeq(Fields(r))[j]
<1> DEFINE H == HeadersBefore(r, Len(r.headers))
           t == RequestLine(r)
           f == FlattenSeq(Fields(r))
           u == <<CR, LF>>
<1>1. r.method \in Byte /\ r.url \in Byte /\ r.version \in Byte /\ {SP, CR, LF} \subseteq Byte
  BY ParserAssumption DEF Request, Token
<1>2. /\ t \in Seq(Byte) /\ Len(t) = 7
      /\ t[1] = r.method /\ t[2] = SP /\ t[3] = r.url /\ t[4] = SP
      /\ t[5] = r.version /\ t[6] = CR /\ t[7] = LF
  BY <1>1 DEF RequestLine
<1>3. u \in Seq(Byte) /\ Len(u) = 2 /\ u[1] = CR /\ u[2] = LF
  BY <1>1
<1>4. Fields(r) \in Seq(Seq(Byte)) /\ Len(Fields(r)) = Len(r.headers) /\ Len(r.headers) \in Nat
  BY FieldsAre
<1>5. f \in Seq(Byte) /\ Len(f) = H /\ H \in Nat
  BY <1>4, FlattenType, FlatToAll DEF HeadersBefore
<1>6. HeadBytes(r) = (t \o f) \o u
  <2>1. HeadBytes(r) = t \o f \o u
    BY DEF HeadBytes, RequestLine, Fields
  <2> HIDE DEF t, f, u
  <2> QED
    BY <2>1
<1> HIDE DEF t, f, u, H
<1>7. t \o f \in Seq(Byte) /\ Joins(t \o f, t, 7, f, H)
  BY <1>2, <1>5, ConcatCells
<1> DEFINE g == t \o f
<1> HIDE DEF g
<1>b. g \in Seq(Byte) /\ Joins(g, t, 7, f, H) /\ Len(g) = 7 + H
  BY <1>7 DEF g, Joins
<1>8. /\ g \o u \in Seq(Byte) /\ Joins(g \o u, g, 7 + H, u, 2)
  BY <1>3, <1>b, ConcatCells
<1>9. ASSUME NEW i \in 1 .. 7 PROVE (g \o u)[i] = t[i]
  <2>1. i \in 1 .. 7 + H
    BY <1>5
  <2> QED
    BY <1>b, <1>8, <2>1 DEF Joins
<1>10. ASSUME NEW j \in 1 .. H PROVE (g \o u)[7 + j] = f[j]
  <2>1. 7 + j \in 1 .. 7 + H
    BY <1>5
  <2> QED
    BY <1>b, <1>8, <2>1 DEF Joins
<1>12. /\ \A c \in {1, 2, 3, 4, 5, 6, 7} : c \in 1 .. 7
       /\ \A c \in {1, 2} : c \in 1 .. 2
       /\ (7 + H) + 1 = H + 8 /\ (7 + H) + 2 = H + 9
  BY <1>5
<1>13. HeadBytes(r) = g \o u
  BY <1>6 DEF g
<1> QED
  <2> DEFINE b == HeadBytes(r)
  <2>1. b \in Seq(Byte) /\ Len(b) = H + 9
    BY <1>8, <1>12, <1>13 DEF Joins
  <2>2. /\ b[1] = r.method /\ b[2] = SP /\ b[3] = r.url /\ b[4] = SP
        /\ b[5] = r.version /\ b[6] = CR /\ b[7] = LF
    <3>1. \A c \in {1, 2, 3, 4, 5, 6, 7} : b[c] = t[c]
      BY <1>9, <1>12, <1>13
    <3> QED
      BY <1>2, <3>1
  <2>3. b[H + 8] = CR /\ b[H + 9] = LF
    <3>1. b[(7 + H) + 1] = u[1] /\ b[(7 + H) + 2] = u[2]
      BY <1>8, <1>12, <1>13 DEF Joins
    <3> QED
      BY <1>3, <1>12, <3>1
  <2>4. \A j \in 1 .. H : b[7 + j] = f[j]
    BY <1>10, <1>13
  <2> QED
    BY <1>5, <2>1, <2>2, <2>3, <2>4 DEF f, H

LEMMA RequestBytesAre ==
    ASSUME NEW r \in Request
    PROVE  LET H == HeadersBefore(r, Len(r.headers))
               b == RequestBytes(r)
           IN  /\ H \in Nat /\ Len(r.body) \in Nat /\ b \in Seq(Byte)
               /\ Len(b) = H + 9 + Len(r.body)
               /\ b[1] = r.method /\ b[2] = SP /\ b[3] = r.url /\ b[4] = SP
               /\ b[5] = r.version /\ b[6] = CR /\ b[7] = LF
               /\ b[H + 8] = CR /\ b[H + 9] = LF
               /\ \A j \in 1 .. H : b[7 + j] = FlattenSeq(Fields(r))[j]
               /\ \A j \in 1 .. Len(r.body) : b[(H + 9) + j] = r.body[j]
<1> DEFINE H == HeadersBefore(r, Len(r.headers))
           d == HeadBytes(r)
<1>1. /\ H \in Nat /\ d \in Seq(Byte) /\ Len(d) = H + 9
      /\ d[1] = r.method /\ d[2] = SP /\ d[3] = r.url /\ d[4] = SP
      /\ d[5] = r.version /\ d[6] = CR /\ d[7] = LF
      /\ d[H + 8] = CR /\ d[H + 9] = LF
      /\ \A j \in 1 .. H : d[7 + j] = FlattenSeq(Fields(r))[j]
  BY HeadBytesAre
<1>2. r.body \in Seq(Byte)
  BY DEF Request
<1>a. PICK B \in Nat : B = Len(r.body)
  BY <1>2
<1>3. RequestBytes(r) = d \o r.body
  BY DEF RequestBytes
<1> HIDE DEF H, d
<1>4. /\ d \o r.body \in Seq(Byte)
      /\ Joins(d \o r.body, d, H + 9, r.body, B)
  BY <1>1, <1>2, <1>a, ConcatCells
<1>7. /\ \A c \in {1, 2, 3, 4, 5, 6, 7, H + 8, H + 9} : c \in 1 .. H + 9
      /\ \A j \in 1 .. H : 7 + j \in 1 .. H + 9
  BY <1>1
<1> QED
  <2> DEFINE b == d \o r.body
  <2>1. /\ b[1] = r.method /\ b[2] = SP /\ b[3] = r.url /\ b[4] = SP
        /\ b[5] = r.version /\ b[6] = CR /\ b[7] = LF
        /\ b[H + 8] = CR /\ b[H + 9] = LF
    BY <1>1, <1>4, <1>7 DEF Joins
  <2>2. \A j \in 1 .. H : b[7 + j] = FlattenSeq(Fields(r))[j]
    BY <1>1, <1>4, <1>7 DEF Joins
  <2> QED
    BY <1>1, <1>3, <1>4, <1>a, <2>1, <2>2 DEF H, Joins

(* The stream, request by request. *)
Pieces(s) == [i \in DOMAIN s |-> RequestBytes(s[i])]

LEMMA PiecesAre ==
    ASSUME NEW s \in Seq(Request)
    PROVE  /\ Pieces(s) \in Seq(Seq(Byte)) /\ Len(Pieces(s)) = Len(s)
           /\ \A i \in 1 .. Len(s) : s[i] \in Request /\ Pieces(s)[i] = RequestBytes(s[i])
           /\ StreamOf(s) = FlattenSeq(Pieces(s)) /\ StreamOf(s) \in Seq(Byte)
<1>1. DOMAIN s = 1 .. Len(s) /\ \A i \in 1 .. Len(s) : s[i] \in Request
  BY ElementOfSeq
<1>2. \A i \in 1 .. Len(s) : RequestBytes(s[i]) \in Seq(Byte)
  BY <1>1, RequestBytesAre
<1>3. Pieces(s) = [i \in 1 .. Len(s) |-> RequestBytes(s[i])]
  BY <1>1 DEF Pieces
<1>4. Pieces(s) \in Seq(Seq(Byte)) /\ Len(Pieces(s)) = Len(s)
  BY <1>2, <1>3
<1>5. StreamOf(s) = FlattenSeq(Pieces(s))
  BY DEF StreamOf, Pieces
<1> QED
  BY <1>1, <1>3, <1>4, <1>5, FlattenType

-----------------------------------------------------------------------------
(* The parser's variables, and what it holds of the stream. *)
Base == ParserTypeOK /\ StreamKept /\ stream = StreamOf(script) /\ buf.rp <= taken

LEMMA BaseFacts ==
    ASSUME Base
    PROVE  /\ Sound(buf) /\ Tracks(buf, taken, got, stream)
           /\ script \in Scripts /\ script \in Seq(Request) /\ stream \in Seq(Byte)
           /\ Len(stream) \in Nat
           /\ got \in Nat /\ got <= Len(stream) /\ seen \in 0 .. got /\ seen \in Nat
           /\ taken \in Nat /\ cut \in BOOLEAN /\ pc \in {"read", "parse", "undefined", "aborted"}
           /\ packet = [state |-> packet.state, content |-> packet.content]
           /\ packet.state \in States /\ packet.content \in ContentType
           /\ out \in Seq(ContentType) /\ buf.rp <= taken
<1>1. ParserTypeOK /\ StreamKept /\ buf.rp <= taken
  BY DEF Base
<1>2. /\ Sound(buf) /\ script \in Scripts /\ stream \in Seq(Byte)
      /\ got \in 0 .. Len(stream) /\ seen \in 0 .. got
      /\ taken \in Nat /\ cut \in BOOLEAN /\ pc \in {"read", "parse", "undefined", "aborted"}
      /\ packet \in [state : States, content : ContentType]
      /\ out \in Seq(ContentType)
  BY <1>1 DEF ParserTypeOK, Sound
<1>3. Tracks(buf, taken, got, stream)
  BY <1>1 DEF StreamKept, Tracks
<1>4. script \in Seq(Request)
  BY <1>2, ClientAssumption
<1>5. Len(stream) \in Nat
  BY <1>2
<1>6. got \in Nat /\ got <= Len(stream)
  BY <1>2, <1>5
<1>7. seen \in Nat
  BY <1>2, <1>6
<1> QED
  BY <1>1, <1>2, <1>3, <1>4, <1>5, <1>6, <1>7

(* What std::stoul makes of a value, and of one that is a single word. *)
LEMMA NumbersAre == \A w \in DOMAIN Numbers : Numbers[w] \in Nat
<1>1. Numbers \in [DOMAIN Numbers -> 0 .. SizeMod - 1] /\ SizeMod \in Nat
  BY ParserAssumption
<1> QED
  BY <1>1

LEMMA OneWord ==
    ASSUME NEW w
    PROVE  /\ IsNumber(<<w>>) => w \in DOMAIN Numbers
           /\ w \in Token => /\ IsNumber(<<w>>) <=> w \in DOMAIN Numbers
                             /\ NumberOf(<<w>>) = Numbers[w]
<1> DEFINE v == <<w>>
<1>1. DOMAIN v = {1} /\ v[1] = w
  OBVIOUS
<1>2. Min({1}) = 1
  BY DEF Min
<1> HIDE DEF v
<1>3. Solid(v) = IF w \in {SP, CR, LF} THEN {} ELSE {1}
  BY <1>1 DEF Solid
<1>4. w \in Token => w \notin {SP, CR, LF}
  BY DEF Token
<1> QED
  BY <1>1, <1>2, <1>3, <1>4 DEF IsNumber, NumberOf, v

LEMMA Contents ==
    /\ NewContent \in ContentType
    /\ \A c \in ContentType : Fault(c) \in ContentType
    /\ \A c \in ContentType, key \in Word, value \in Word :
          (key = ContentLength => IsNumber(value)) => WithHeader(c, key, value) \in ContentType
<1>1. NewContent \in ContentType
  BY DEF NewContent, ContentType, Word
<1>2. <<GET>> \in Word /\ <<PATH_ERR>> \in Word
  BY ParserAssumption DEF Word
<1>3. ASSUME NEW c \in ContentType PROVE Fault(c) \in ContentType
  <2> HIDE DEF Word, GET, PATH_ERR
  <2> QED
    BY <1>2 DEF Fault, ContentType
<1>4. ASSUME NEW c \in ContentType, NEW key \in Word, NEW value \in Word,
             key = ContentLength => IsNumber(value)
      PROVE  WithHeader(c, key, value) \in ContentType
  <2>1. CASE key = Connection
    <3>1. WithHeader(c, key, value) = [c EXCEPT !.keep_alive = value # <<Close>>]
      BY <2>1 DEF WithHeader
    <3>2. (value # <<Close>>) \in BOOLEAN
      OBVIOUS
    <3> DEFINE v == value # <<Close>>
    <3> HIDE DEF v
    <3>3. [c EXCEPT !.keep_alive = v] \in ContentType
      BY <3>2 DEF ContentType, v
    <3> QED
      BY <3>1, <3>3 DEF v
  <2>2. CASE key # Connection /\ key = ContentLength
    <3>1. NumberOf(value) \in Nat
      BY <1>4, <2>2, NumbersAre DEF IsNumber, NumberOf
    <3>2. WithHeader(c, key, value) = [c EXCEPT !.content_length = NumberOf(value)]
      BY <2>2 DEF WithHeader
    <3> DEFINE v == NumberOf(value)
    <3> HIDE DEF v
    <3>3. [c EXCEPT !.content_length = v] \in ContentType
      BY <3>1 DEF ContentType, v
    <3> QED
      BY <3>2, <3>3 DEF v
  <2>3. CASE key # Connection /\ key # ContentLength
    <3>1. WithHeader(c, key, value) = [c EXCEPT !.headers = Emplace(c.headers, key, value)]
      BY <2>3 DEF WithHeader
    <3>2. c.headers \subseteq Word \X Word
      BY DEF ContentType
    <3>3. Emplace(c.headers, key, value) \in SUBSET (Word \X Word)
      BY <3>2 DEF Emplace
    <3> DEFINE v == Emplace(c.headers, key, value)
    <3> HIDE DEF v
    <3>4. [c EXCEPT !.headers = v] \in ContentType
      BY <3>3 DEF ContentType, v
    <3> QED
      BY <3>1, <3>4 DEF v
  <2> QED
    BY <2>1, <2>2, <2>3
<1> QED
  BY <1>1, <1>3, <1>4

LEMMA BaseInit == Init => Base
<1> SUFFICES ASSUME Init PROVE Base
  OBVIOUS
<1>1. script \in Seq(Request)
  BY ClientAssumption DEF Init
<1>2. stream \in Seq(Byte) /\ stream = StreamOf(script)
  BY <1>1, PiecesAre DEF Init
<1>3. EmptyBuffer \in BufferType /\ EmptyBuffer.wp = 0 /\ EmptyBuffer.rp = 0
      /\ Len(EmptyBuffer.data) \in Nat
  <2>1. Zeros(InitSize) \in Seq(Byte)
    BY BufferAssumption DEF Zeros
  <2> QED
    BY <2>1 DEF EmptyBuffer, BufferType
<1>4. Sound(EmptyBuffer)
  BY <1>3 DEF Sound
<1>5. packet \in [state : States, content : ContentType]
  BY Contents DEF Init, NewPacket, States
<1>6. got \in 0 .. Len(stream) /\ seen \in 0 .. got /\ taken \in Nat
  BY <1>2 DEF Init
<1>a. out \in Seq(ContentType)
  BY EmptySeq DEF Init
<1>7. cut \in BOOLEAN /\ pc \in {"read", "parse", "undefined", "aborted"} /\ out \in Seq(ContentType)
  BY <1>a DEF Init
<1>8. ParserTypeOK
  BY <1>2, <1>4, <1>5, <1>6, <1>7 DEF ParserTypeOK, Sound, Init
<1>9. StreamKept /\ buf.rp <= taken
  BY <1>3 DEF StreamKept, Init
<1> QED
  BY <1>2, <1>8, <1>9 DEF Base

(* What a step has to keep, variable by variable. *)
LEMMA BaseFrom ==
    ASSUME Base, UNCHANGED <<script, stream>>,
           got' \in 0 .. Len(stream), seen' \in 0 .. got', taken' \in Nat, cut' \in BOOLEAN,
           Sound(buf'), Tracks(buf', taken', got', stream), buf'.rp <= taken',
           packet' \in [state : States, content : ContentType],
           pc' \in {"read", "parse", "undefined", "aborted"}, out' \in Seq(ContentType)
    PROVE  Base'
  BY DEF Base, ParserTypeOK, StreamKept, Sound, Tracks

LEMMA ConsumeBound ==
    ASSUME NEW b, Sound(b), NEW n \in Nat, NEW t \in Nat, b.rp <= t
    PROVE  UpdateReadPos(b, n).rp <= t + n
<1>1. UpdateReadPos(b, n).rp <= b.rp + n
  BY ReadPosBounds
<1>2. b.rp \in Nat /\ UpdateReadPos(b, n).rp \in Nat
  BY UpdateReadPosShifts, SoundFields
<1> QED
  BY <1>1, <1>2

LEMMA ConsumeBase ==
    ASSUME Base, NEW n \in Nat, NEW s \in States, NEW content \in ContentType,
           Consume(n, s, content)
    PROVE  Base'
<1>1. Sound(buf') /\ Tracks(buf', taken + n, got, stream) /\ buf'.rp <= taken + n
  BY BaseFacts, ConsumeTracks, ConsumeBound DEF Consume
<1>2. packet' \in [state : States, content : ContentType] /\ taken' \in Nat /\ taken' = taken + n
  BY BaseFacts DEF Consume
<1>3. /\ UNCHANGED <<script, stream, got, seen, cut, pc, out>>
      /\ got \in 0 .. Len(stream) /\ seen \in 0 .. got
  BY BaseFacts DEF Consume
<1> QED
  BY <1>1, <1>2, <1>3, BaseFacts, BaseFrom

LEMMA BaseReceive == ASSUME Base, NEW n \in 1 .. MaxRead, Receive(n) PROVE Base'
<1> DEFINE s == SubSeq(stream, got + 1, got + n)
<1>1. n \in Nat /\ got + n <= Len(stream) /\ Writable(buf, s) /\ got' = got + n
      /\ buf' = Received(buf, s)
  BY ParserAssumption DEF Receive
<1>2. Sound(buf') /\ Tracks(buf', taken, got + n, stream)
  BY <1>1, BaseFacts, ReceiveTracks
<1>6. buf'.rp <= taken
  <2>1. s \in Seq(Byte)
    BY <1>1, BaseFacts
  <2> HIDE DEF s
  <2>2. buf'.rp <= buf.rp
    BY <1>1, <2>1, BaseFacts, ReadPosBounds
  <2>3. buf.rp \in Nat /\ buf'.rp \in Nat
    BY <1>2, BaseFacts, SoundFields
  <2> QED
    BY <2>2, <2>3, BaseFacts
<1>3. got' \in 0 .. Len(stream) /\ seen' \in 0 .. got' /\ seen' = seen /\ taken' = taken
  BY <1>1, BaseFacts DEF Receive
<1>4. UNCHANGED <<script, stream, cut, packet, pc, out>>
  BY DEF Receive
<1>5. packet \in [state : States, content : ContentType]
  BY DEF Base, ParserTypeOK
<1> QED
  BY <1>1, <1>2, <1>3, <1>4, <1>5, <1>6, BaseFacts, BaseFrom

(* The steps that leave the buffer alone. *)
LEMMA BaseIdle ==
    ASSUME Base, UNCHANGED <<script, stream, got, buf, taken>>,
           seen' \in 0 .. got, cut' \in BOOLEAN,
           packet' \in [state : States, content : ContentType],
           pc' \in {"read", "parse", "undefined", "aborted"}, out' \in Seq(ContentType)
    PROVE  Base'
<1>1. got \in 0 .. Len(stream)
  BY BaseFacts
<1> QED
  BY <1>1, BaseFacts, BaseFrom

LEMMA TextIs ==
    ASSUME Sound(buf), NEW to \in Nat, buf.rp <= to, to <= buf.wp
    PROVE  /\ Text(buf.rp, to) \in Word /\ Len(Text(buf.rp, to)) = to - buf.rp
           /\ to - buf.rp \in Nat /\ buf.rp \in Nat
           /\ \A i \in 1 .. to - buf.rp : Text(buf.rp, to)[i] = buf.data[buf.rp + i]
<1>1. buf.rp \in Nat /\ buf.wp \in Nat
  BY SoundFields
<1>2. to - buf.rp \in Nat /\ buf.rp + (to - buf.rp) <= buf.wp
  BY <1>1
<1> DEFINE n == to - buf.rp
<1> HIDE DEF n
<1>3. n \in Nat /\ buf.rp + n <= buf.wp
  BY <1>2 DEF n
<1>4. /\ Bytes(buf, buf.rp, n) \in Word /\ Len(Bytes(buf, buf.rp, n)) = n
      /\ \A i \in 1 .. n : Bytes(buf, buf.rp, n)[i] = buf.data[buf.rp + i]
  BY <1>1, <1>3, BytesAre
<1>5. Text(buf.rp, to) = Bytes(buf, buf.rp, n)
  BY DEF Text, n
<1> QED
  BY <1>1, <1>3, <1>4, <1>5 DEF n

LEMMA BaseWord ==
    ASSUME Base
    PROVE  /\ InState("METHOD") /\ Spaces # {} =>
                 /\ Min(Spaces) + 1 - buf.rp \in Nat
                 /\ [packet.content EXCEPT !.method = Text(buf.rp, Min(Spaces))] \in ContentType
           /\ InState("PATH") /\ Spaces # {} =>
                 /\ Min(Spaces) + 1 - buf.rp \in Nat
                 /\ [packet.content EXCEPT !.url = Text(buf.rp, Min(Spaces))] \in ContentType
<1> SUFFICES ASSUME Spaces # {}
             PROVE  /\ Min(Spaces) + 1 - buf.rp \in Nat
                    /\ [packet.content EXCEPT !.method = Text(buf.rp, Min(Spaces))] \in ContentType
                    /\ [packet.content EXCEPT !.url = Text(buf.rp, Min(Spaces))] \in ContentType
  OBVIOUS
<1>0. packet.content \in ContentType /\ Sound(buf)
  BY BaseFacts
<1>1. /\ Min(Spaces) \in Nat /\ buf.rp \in Nat /\ buf.wp \in Nat
      /\ buf.rp <= Min(Spaces) /\ Min(Spaces) <= buf.wp
  BY <1>0, SpacesAre
<1>2. Text(buf.rp, Min(Spaces)) \in Word
  BY <1>0, <1>1, TextIs
<1> DEFINE v == Text(buf.rp, Min(Spaces))
<1> HIDE DEF v
<1>3. /\ [packet.content EXCEPT !.method = v] \in ContentType
      /\ [packet.content EXCEPT !.url = v] \in ContentType
  BY <1>0, <1>2 DEF ContentType, v
<1> QED
  BY <1>1, <1>3 DEF v

LEMMA BaseVersion ==
    ASSUME Base, Crlfs(buf.rp) # {}
    PROVE  LET version == Text(buf.rp, Min(Crlfs(buf.rp)))
           IN  /\ Min(Crlfs(buf.rp)) + 2 - buf.rp \in Nat
               /\ [packet.content EXCEPT !.version = version,
                     !.keep_alive = @ \/ version = <<VERSION_11>>] \in ContentType
<1> DEFINE v == Text(buf.rp, Min(Crlfs(buf.rp)))
           c == packet.content
<1>0. c \in ContentType /\ Sound(buf) /\ buf.rp \in Nat
  BY BaseFacts, SoundFields
<1>1. /\ Min(Crlfs(buf.rp)) \in Nat /\ buf.wp \in Nat
      /\ buf.rp <= Min(Crlfs(buf.rp)) /\ Min(Crlfs(buf.rp)) <= buf.wp
  BY <1>0, CrlfsAre
<1>2. v \in Word
  BY <1>0, <1>1, TextIs
<1> DEFINE k == c.keep_alive \/ v = <<VERSION_11>>
<1>3. k \in BOOLEAN
  BY <1>0 DEF ContentType
<1> HIDE DEF v, k, c
<1>4. [c EXCEPT !.version = v, !.keep_alive = k] \in ContentType
  BY <1>0, <1>2, <1>3 DEF ContentType
<1>5. [c EXCEPT !.version = v, !.keep_alive = @ \/ v = <<VERSION_11>>]
         = [c EXCEPT !.version = v, !.keep_alive = k]
  BY <1>0 DEF ContentType, k
<1> QED
  BY <1>0, <1>1, <1>4, <1>5 DEF v, c

(* A header's line: the buffer in lower case, and what is read from it. *)
LEMMA BaseLine ==
    ASSUME Base, HasLine
    PROVE  /\ Sound(Low) /\ Tracks(Low, taken, got, stream)
           /\ Low.rp = buf.rp /\ Low.wp = buf.wp
           /\ Key \in Word /\ Value \in Word
           /\ LineEnd + 2 - buf.rp \in Nat
<1>1. Sound(buf) /\ Tracks(buf, taken, got, stream)
  BY BaseFacts
<1>2. /\ Colons \in Nat /\ LineEnd \in Nat /\ buf.rp \in Nat /\ buf.wp \in Nat
      /\ buf.rp <= Colons /\ Colons + 2 <= LineEnd /\ LineEnd + 2 <= buf.wp
  BY <1>1, LineIs
<1>3. /\ Sound(Low) /\ Low.rp = buf.rp /\ Low.wp = buf.wp
      /\ \A i \in 1 .. Len(buf.data) : LowerByte(Low.data[i]) = LowerByte(buf.data[i])
  <2>1. buf.rp \in Int /\ Colons \in Int
    BY <1>2
  <2>2. LET c == KeyToLower(buf, buf.rp, Colons)
        IN  /\ Sound(c) /\ c.rp = buf.rp /\ c.wp = buf.wp
            /\ \A i \in 1 .. Len(buf.data) : LowerByte(c.data[i]) = LowerByte(buf.data[i])
    BY <1>1, <2>1, LowerTracks
  <2> QED
    BY <2>2 DEF Low
<1>4. Tracks(Low, taken, got, stream)
  <2>1. \A i \in buf.rp + 1 .. buf.wp : i \in 1 .. Len(buf.data)
    BY <1>1, <1>2, SoundFields
  <2> QED
    BY <1>1, <1>3, <2>1 DEF Tracks
<1>5. Key \in Word
  <2>1. Colons - buf.rp \in Nat /\ buf.rp + (Colons - buf.rp) <= Low.wp
    BY <1>2, <1>3
  <2> QED
    BY <1>2, <1>3, <2>1, BytesAre DEF Key
<1>6. Value \in Word
  <2>1. LineEnd - Colons - 2 \in Nat /\ Colons + 2 \in Nat
        /\ (Colons + 2) + (LineEnd - Colons - 2) <= Low.wp
    BY <1>2, <1>3
  <2> QED
    BY <1>3, <2>1, BytesAre DEF Value
<1>7. LineEnd + 2 - buf.rp \in Nat
  BY <1>2
<1> QED
  BY <1>3, <1>4, <1>5, <1>6, <1>7

LEMMA BaseHeader == ASSUME Base, ParseHeader PROVE Base'
<1>1. HasLine /\ ~BadLength
  BY DEF ParseHeader
<1>2. /\ Sound(Low) /\ Tracks(Low, taken, got, stream)
      /\ Key \in Word /\ Value \in Word /\ LineEnd + 2 - buf.rp \in Nat
  BY <1>1, BaseLine
<1>3. Sound(buf') /\ Tracks(buf', taken', got, stream) /\ buf'.rp <= taken'
  <2>1. Low.rp <= taken
    BY <1>1, BaseLine, BaseFacts
  <2> QED
    BY <1>2, <2>1, BaseFacts, ConsumeTracks, ConsumeBound DEF ParseHeader
<1>4. taken' \in Nat
  BY <1>2, BaseFacts DEF ParseHeader
<1>5. packet' \in [state : States, content : ContentType]
  <2>1. WithHeader(packet.content, Key, Value) \in ContentType
    BY <1>1, <1>2, BaseFacts, Contents DEF BadLength
  <2>2. packet' = [packet EXCEPT !.content = WithHeader(packet.content, Key, Value)]
    BY DEF ParseHeader
  <2>3. packet \in [state : States, content : ContentType]
    BY DEF Base, ParserTypeOK
  <2> QED
    BY <2>1, <2>2, <2>3
<1>6. /\ UNCHANGED <<script, stream, got, seen, cut, pc, out>>
      /\ got \in 0 .. Len(stream) /\ seen \in 0 .. got
  BY BaseFacts DEF ParseHeader
<1> QED
  BY <1>3, <1>4, <1>5, <1>6, BaseFacts, BaseFrom

LEMMA BaseHeaderFails == ASSUME Base, ParseHeaderFails PROVE Base'
<1>1. Sound(buf') /\ Tracks(buf', taken, got, stream) /\ buf'.rp <= taken
  BY BaseLine, BaseFacts DEF ParseHeaderFails
<1>2. packet' \in [state : States, content : ContentType]
  <2>1. packet \in [state : States, content : ContentType]
    BY DEF Base, ParserTypeOK
  <2> QED
    BY <2>1, Contents DEF ParseHeaderFails
<1>3. out' \in Seq(ContentType)
  <2>1. Fault(packet.content) \in ContentType
    BY BaseFacts, Contents
  <2> QED
    BY <2>1, BaseFacts DEF ParseHeaderFails
<1>4. /\ UNCHANGED <<script, stream, got, seen, cut, taken>> /\ pc' = "read"
      /\ got \in 0 .. Len(stream) /\ seen \in 0 .. got
  BY BaseFacts DEF ParseHeaderFails
<1> QED
  BY <1>1, <1>2, <1>3, <1>4, BaseFacts, BaseFrom

LEMMA NoWrap ==
    ASSUME NEW a \in Nat, ~(a >= SizeMod)
    PROVE  a % SizeMod = a
<1>1. SizeMod \in Nat \ {0}
  BY ParserAssumption
<1> QED
  BY <1>1

LEMMA BaseBody == ASSUME Base, BodyIncomplete \/ BodyWhole \/ BodyAborts PROVE Base'
<1>0. /\ UNCHANGED <<script, stream, got, seen, cut, out>>
      /\ got \in 0 .. Len(stream) /\ seen \in 0 .. got
  BY BaseFacts DEF BodyIncomplete, BodyWhole, BodyAborts
<1>1. /\ Sound(BodyBuffer) /\ Tracks(BodyBuffer, taken + 2, got, stream) /\ taken + 2 \in Nat
      /\ BodyBuffer.rp <= taken + 2
  <2>1. 2 \in Nat /\ taken + 2 \in Nat
    BY BaseFacts
  <2> QED
    BY <2>1, BaseFacts, ConsumeTracks, ConsumeBound DEF BodyBuffer
<1>2. packet \in [state : States, content : ContentType]
  BY DEF Base, ParserTypeOK
<1>3. CASE BodyIncomplete \/ BodyAborts
  <2>1. /\ buf' = BodyBuffer /\ taken' = taken + 2 /\ packet' = packet
        /\ pc' \in {"read", "parse", "undefined", "aborted"}
    BY <1>3 DEF BodyIncomplete, BodyAborts
  <2> QED
    BY <1>0, <1>1, <1>2, <2>1, BaseFacts, BaseFrom
<1>4. CASE BodyWhole
  <2>1. packet.content \in ContentType /\ BodyLength \in Nat
    BY BaseFacts DEF BodyLength, ContentType
  <2>2. /\ buf' = UpdateReadPos(BodyBuffer, BodyLength) /\ taken' = taken + 2 + BodyLength
        /\ (BodyBuffer.rp + BodyLength) % SizeMod <= BodyBuffer.wp
        /\ ~(BodyBuffer.rp + BodyLength >= SizeMod)
        /\ pc' = pc
        /\ packet' = [state |-> "END",
                      content |-> [packet.content EXCEPT
                                     !.body = Bytes(BodyBuffer, BodyBuffer.rp, BodyLength)]]
    BY <1>4 DEF BodyWhole, BodyEnd, BodyWraps
  <2>3. /\ Sound(buf') /\ Tracks(buf', (taken + 2) + BodyLength, got, stream)
        /\ buf'.rp <= (taken + 2) + BodyLength
    BY <1>1, <2>1, <2>2, BaseFacts, ConsumeTracks, ConsumeBound
  <2>4. taken' \in Nat /\ taken' = (taken + 2) + BodyLength
    BY <2>1, <2>2, BaseFacts
  <2>5. BodyBuffer.rp \in Nat /\ BodyBuffer.rp + BodyLength <= BodyBuffer.wp
    <3>1. BodyBuffer.rp \in Nat /\ BodyBuffer.wp \in Nat
      BY <1>1, SoundFields
    <3> QED
      BY <2>1, <2>2, <3>1, NoWrap
  <2> DEFINE v == Bytes(BodyBuffer, BodyBuffer.rp, BodyLength)
  <2>6. v \in Word
    BY <1>1, <2>1, <2>2, <2>5, BytesAre
  <2> HIDE DEF v
  <2>7. [packet.content EXCEPT !.body = v] \in ContentType
    BY <2>1, <2>6 DEF ContentType
  <2>8. packet' \in [state : States, content : ContentType]
    BY <2>2, <2>7 DEF v, States
  <2> QED
    BY <1>0, <2>2, <2>3, <2>4, <2>8, BaseFacts, BaseFrom
<1> QED
  BY <1>3, <1>4

LEMMA BaseStep == ASSUME Base, ParserNext PROVE Base'
<1>0. packet \in [state : States, content : ContentType]
  BY DEF Base, ParserTypeOK
<1>1. ASSUME NEW n \in 1 .. MaxRead, Receive(n) PROVE Base'
  BY <1>1, BaseReceive
<1>2. ASSUME NEW n \in 1 .. MaxRead, ReceiveUndefined(n) PROVE Base'
  BY <1>0, <1>2, BaseFacts, BaseIdle DEF ReceiveUndefined
<1>3. CASE ParseReady
  <2>1. got \in 0 .. got
    BY BaseFacts
  <2>2. cut' \in BOOLEAN
    BY <1>3, BaseFacts DEF ParseReady, MidBody
  <2> QED
    BY <1>0, <1>3, <2>1, <2>2, BaseFacts, BaseIdle DEF ParseReady
<1>4. CASE ParseStart
  <2>1. packet' \in [state : States, content : ContentType]
    BY <1>0, <1>4 DEF ParseStart, States
  <2> QED
    BY <1>4, <2>1, BaseFacts, BaseIdle DEF ParseStart
<1>a. ASSUME Incomplete PROVE Base'
  BY <1>0, <1>a, BaseFacts, BaseIdle DEF Incomplete
<1>5. CASE ParseMethod
  <2>1. CASE Spaces = {}
    BY <1>5, <1>a, <2>1 DEF ParseMethod
  <2>2. CASE Spaces # {}
    BY <1>5, <2>2, BaseWord, ConsumeBase DEF ParseMethod, States
  <2> QED
    BY <2>1, <2>2
<1>6. CASE ParseUrl
  <2>1. CASE Spaces = {}
    BY <1>6, <1>a, <2>1 DEF ParseUrl
  <2>2. CASE Spaces # {}
    BY <1>6, <2>2, BaseWord, ConsumeBase DEF ParseUrl, States
  <2> QED
    BY <2>1, <2>2
<1>7. CASE ParseVersion
  <2>1. CASE Crlfs(buf.rp) = {}
    BY <1>7, <1>a, <2>1 DEF ParseVersion
  <2>2. CASE Crlfs(buf.rp) # {}
    BY <1>7, <2>2, BaseVersion, ConsumeBase DEF ParseVersion, States
  <2> QED
    BY <2>1, <2>2
<1>8. CASE HeadersEnd
  <2>1. packet' \in [state : States, content : ContentType]
    BY <1>0, <1>8 DEF HeadersEnd, States
  <2> QED
    BY <1>8, <2>1, BaseFacts, BaseIdle DEF HeadersEnd
<1>9. CASE HeaderIncomplete
  BY <1>9, <1>a DEF HeaderIncomplete
<1>10. CASE BodyNone
  BY <1>10, BaseFacts, ConsumeBase DEF BodyNone, States
<1>11. CASE FsmOver
  <2>1. packet' \in [state : States, content : ContentType]
    BY <1>11, Contents DEF FsmOver, NewPacket, States
  <2>2. out' \in Seq(ContentType)
    BY <1>11, BaseFacts DEF FsmOver
  <2> QED
    BY <1>11, <2>1, <2>2, BaseFacts, BaseIdle DEF FsmOver
<1>12. CASE ParseHeaderUndefined
  BY <1>0, <1>12, BaseFacts, BaseIdle DEF ParseHeaderUndefined
<1> QED
  BY <1>1, <1>2, <1>3, <1>4, <1>5, <1>6, <1>7, <1>8, <1>9, <1>10, <1>11,
     <1>12, BaseHeader, BaseHeaderFails, BaseBody DEF ParserNext, Parse

-----------------------------------------------------------------------------
(* Where the requests are in the stream. *)
LEMMA EndOfIs ==
    ASSUME script \in Seq(Request), NEW i \in 0 .. Len(script)
    PROVE  EndOf(i) = Len(FlatTo(Pieces(script), i))
<1> DEFINE front == SubSeq(script, 1, i)
           left == [j \in DOMAIN front |-> RequestBytes(front[j])]
           right == SubSeq(Pieces(script), 1, i)
<1>1. /\ Pieces(script) \in Seq(Seq(Byte)) /\ Len(Pieces(script)) = Len(script)
      /\ Len(script) \in Nat
      /\ \A j \in 1 .. Len(script) : Pieces(script)[j] = RequestBytes(script[j])
  BY PiecesAre
<1>2. front \in Seq(Request) /\ Len(front) = i /\ \A j \in 1 .. i : front[j] = script[j]
  OBVIOUS
<1>3. right \in Seq(Seq(Byte)) /\ Len(right) = i /\ \A j \in 1 .. i : right[j] = Pieces(script)[j]
  <2> HIDE DEF Pieces
  <2> QED
    BY <1>1
<1>4. left = Pieces(front)
  BY DEF Pieces
<1> HIDE DEF front, right
<1>5. left \in Seq(Seq(Byte)) /\ Len(left) = i /\ \A j \in 1 .. i : left[j] = RequestBytes(front[j])
  BY <1>2, <1>4, PiecesAre
<1> HIDE DEF left
<1>6. \A j \in 1 .. i : left[j] = right[j]
  <2> SUFFICES ASSUME NEW j \in 1 .. i PROVE left[j] = right[j]
    OBVIOUS
  <2>1. j \in 1 .. Len(script)
    BY <1>1
  <2> QED
    BY <1>1, <1>2, <1>3, <1>5, <2>1
<1>7. left = right
  BY <1>3, <1>5, <1>6, SeqEqual
<1>8. EndOf(i) = Len(FlattenSeq(left))
  BY DEF EndOf, StreamOf, front, left
<1> QED
  BY <1>7, <1>8 DEF FlatTo, right

LEMMA EndsAre ==
    ASSUME Base, NEW i \in 1 .. Len(script)
    PROVE  /\ script[i] \in Request
           /\ EndOf(i - 1) \in Nat /\ EndOf(i) \in Nat
           /\ EndOf(i) = EndOf(i - 1) + Len(RequestBytes(script[i]))
           /\ EndOf(i) <= Len(stream) /\ Len(RequestBytes(script[i])) \in Nat
           /\ \A j \in 1 .. Len(RequestBytes(script[i])) :
                 stream[EndOf(i - 1) + j] = RequestBytes(script[i])[j]
<1>1. script \in Seq(Request) /\ stream = StreamOf(script) /\ Len(script) \in Nat
  BY BaseFacts DEF Base
<1>2. /\ Pieces(script) \in Seq(Seq(Byte)) /\ Len(Pieces(script)) = Len(script)
      /\ script[i] \in Request /\ Pieces(script)[i] = RequestBytes(script[i])
      /\ stream = FlattenSeq(Pieces(script))
  BY <1>1, PiecesAre
<1>3. i - 1 \in 0 .. Len(script) /\ i \in 0 .. Len(script) /\ i \in 1 .. Len(Pieces(script))
      /\ i - 1 \in 0 .. Len(Pieces(script)) /\ i \in 0 .. Len(Pieces(script))
  BY <1>1, <1>2
<1>4. /\ EndOf(i) = Len(FlatTo(Pieces(script), i))
      /\ EndOf(i - 1) = Len(FlatTo(Pieces(script), i - 1))
  BY <1>1, <1>3, EndOfIs
<1>5. FlatTo(Pieces(script), i) \in Seq(Byte) /\ FlatTo(Pieces(script), i - 1) \in Seq(Byte)
  BY <1>2, <1>3, FlatToType
<1>6. /\ EndOf(i) = EndOf(i - 1) + Len(Pieces(script)[i])
      /\ EndOf(i) <= Len(stream)
      /\ Found(stream, EndOf(i - 1), Pieces(script)[i])
  BY <1>2, <1>3, <1>4, FlattenCells
<1>7. Len(RequestBytes(script[i])) \in Nat
  BY <1>2, RequestBytesAre
<1> QED
  BY <1>2, <1>4, <1>5, <1>6, <1>7 DEF Found

LEMMA EndOfLast ==
    ASSUME Base
    PROVE  EndOf(Len(script)) = Len(stream) /\ EndOf(0) = 0 /\ Len(script) \in Nat
<1>1. script \in Seq(Request) /\ stream = StreamOf(script) /\ Len(script) \in Nat
  BY BaseFacts DEF Base
<1>2. /\ Pieces(script) \in Seq(Seq(Byte)) /\ Len(Pieces(script)) = Len(script)
      /\ stream = FlattenSeq(Pieces(script))
  BY <1>1, PiecesAre
<1>3. Len(script) \in 0 .. Len(script) /\ 0 \in 0 .. Len(script)
  BY <1>1
<1>4. EndOf(Len(script)) = Len(FlatTo(Pieces(script), Len(script)))
      /\ EndOf(0) = Len(FlatTo(Pieces(script), 0))
  BY <1>1, <1>3, EndOfIs
<1>5. FlatTo(Pieces(script), Len(script)) = FlattenSeq(Pieces(script))
  BY <1>2, FlatToAll
<1>6. FlatTo(Pieces(script), 0) = <<>>
  BY FlatToZero
<1> QED
  BY <1>1, <1>2, <1>4, <1>5, <1>6

LEMMA EndOfMonotone ==
    ASSUME Base, NEW m \in 0 .. Len(script), NEW n \in 0 .. Len(script), m <= n
    PROVE  EndOf(m) <= EndOf(n) /\ EndOf(m) \in Nat /\ EndOf(n) \in Nat
<1>1. script \in Seq(Request)
  BY BaseFacts
<1>2. Pieces(script) \in Seq(Seq(Byte)) /\ Len(Pieces(script)) = Len(script)
  BY <1>1, PiecesAre
<1>3. EndOf(m) = Len(FlatTo(Pieces(script), m)) /\ EndOf(n) = Len(FlatTo(Pieces(script), n))
  BY <1>1, EndOfIs
<1>4. Len(FlatTo(Pieces(script), m)) <= Len(FlatTo(Pieces(script), n))
  BY <1>2, FlatToPrefix
<1>5. FlatTo(Pieces(script), m) \in Seq(Byte) /\ FlatTo(Pieces(script), n) \in Seq(Byte)
  BY <1>2, FlatToType
<1> QED
  BY <1>3, <1>4, <1>5

(* The bytes of request i, by what they are. E is where it begins, H how   *)
(* long its header lines are.                                              *)
LEMMA RequestCells ==
    ASSUME Base, NEW i \in 1 .. Len(script)
    PROVE  LET r == script[i]
               E == EndOf(i - 1)
               H == HeadersBefore(r, Len(r.headers))
           IN  /\ r \in Request /\ E \in Nat /\ H \in Nat /\ Len(r.body) \in Nat
               /\ EndOf(i) = E + (H + 9 + Len(r.body)) /\ EndOf(i) <= Len(stream)
               /\ BodyOf(i) = E + H + 9
               /\ stream[E + 1] = r.method /\ stream[E + 2] = SP
               /\ stream[E + 3] = r.url /\ stream[E + 4] = SP
               /\ stream[E + 5] = r.version /\ stream[E + 6] = CR /\ stream[E + 7] = LF
               /\ stream[E + (H + 8)] = CR /\ stream[E + (H + 9)] = LF
               /\ \A j \in 1 .. H : stream[E + (7 + j)] = FlattenSeq(Fields(r))[j]
               /\ \A j \in 1 .. Len(r.body) : stream[E + ((H + 9) + j)] = r.body[j]
<1> DEFINE r == script[i]
           E == EndOf(i - 1)
           H == HeadersBefore(r, Len(r.headers))
           b == RequestBytes(r)
<1>1. /\ r \in Request /\ E \in Nat /\ EndOf(i) \in Nat /\ EndOf(i) = E + Len(b)
      /\ EndOf(i) <= Len(stream)
      /\ \A j \in 1 .. Len(b) : stream[E + j] = b[j]
  BY EndsAre
<1> HIDE DEF r, E
<1>2. /\ H \in Nat /\ Len(r.body) \in Nat /\ Len(b) = H + 9 + Len(r.body)
      /\ b[1] = r.method /\ b[2] = SP /\ b[3] = r.url /\ b[4] = SP
      /\ b[5] = r.version /\ b[6] = CR /\ b[7] = LF
      /\ b[H + 8] = CR /\ b[H + 9] = LF
      /\ \A j \in 1 .. H : b[7 + j] = FlattenSeq(Fields(r))[j]
      /\ \A j \in 1 .. Len(r.body) : b[(H + 9) + j] = r.body[j]
  BY <1>1, RequestBytesAre
<1> HIDE DEF H, b
<1>a. PICK B \in Nat : B = Len(r.body)
  BY <1>2
<1>b. PICK N \in Nat : N = Len(b) /\ N = H + 9 + B
  <2>1. Len(b) = H + 9 + B
    BY <1>2, <1>a
  <2>2. H + 9 + B \in Nat
    BY ONLY <1>2, B \in Nat
  <2> QED
    BY <2>1, <2>2
<1>c. H \in Nat /\ E \in Nat /\ B \in Nat /\ N \in Nat /\ N = H + 9 + B
  BY <1>1, <1>2, <1>b
<1>3. \A c \in {1, 2, 3, 4, 5, 6, 7, H + 8, H + 9} : c \in 1 .. N
  BY ONLY <1>c
<1>4. \A j \in 1 .. H : 7 + j \in 1 .. N
  BY ONLY <1>c
<1>5. \A j \in 1 .. B : (H + 9) + j \in 1 .. N
  BY ONLY <1>c
<1>6. BodyOf(i) = E + H + 9
  <2>1. BodyOf(i) = EndOf(i) - B
    BY <1>a DEF BodyOf, r
  <2>2. EndOf(i) = E + N
    BY <1>1, <1>b
  <2>3. (E + N) - B = E + H + 9
    BY ONLY <1>c
  <2> QED
    BY <2>1, <2>2, <2>3
<1>7. /\ stream[E + 1] = r.method /\ stream[E + 2] = SP
      /\ stream[E + 3] = r.url /\ stream[E + 4] = SP
      /\ stream[E + 5] = r.version /\ stream[E + 6] = CR /\ stream[E + 7] = LF
      /\ stream[E + (H + 8)] = CR /\ stream[E + (H + 9)] = LF
  BY <1>1, <1>2, <1>3, <1>b
<1>8. \A j \in 1 .. H : stream[E + (7 + j)] = FlattenSeq(Fields(r))[j]
  BY <1>1, <1>2, <1>4, <1>b
<1>9. \A j \in 1 .. Len(r.body) : stream[E + ((H + 9) + j)] = r.body[j]
  BY <1>1, <1>2, <1>5, <1>a, <1>b
<1> QED
  BY <1>1, <1>2, <1>6, <1>7, <1>8, <1>9 DEF r, E, H

(* The line of header k + 1. *)
LEMMA HeaderCells ==
    ASSUME Base, NEW i \in 1 .. Len(script), NEW k \in Nat, k < Len(script[i].headers)
    PROVE  LET r == script[i]
               h == r.headers[k + 1]
               T == EndOf(i - 1) + 7 + HeadersBefore(r, k)
               L == Len(h.key)
           IN  /\ h \in Header /\ L \in Nat /\ T \in Nat /\ k + 1 \in 1 .. Len(r.headers)
               /\ T + L + 5 = EndOf(i - 1) + 7 + HeadersBefore(r, k + 1)
               /\ T + L + 5 <= EndOf(i) /\ EndOf(i) <= Len(stream)
               /\ \A j \in 1 .. L : stream[T + j] = h.key[j]
               /\ stream[T + (L + 1)] = COLON /\ stream[T + (L + 2)] = SP
               /\ stream[T + (L + 3)] = h.value
               /\ stream[T + (L + 4)] = CR /\ stream[T + (L + 5)] = LF
<1> DEFINE r == script[i]
           E == EndOf(i - 1)
           H == HeadersBefore(r, Len(r.headers))
           B == HeadersBefore(r, k)
           h == r.headers[k + 1]
           L == Len(h.key)
           d == HeaderBytes(h)
           f == FlattenSeq(Fields(r))
<1>1. /\ r \in Request /\ E \in Nat /\ H \in Nat /\ Len(r.body) \in Nat
      /\ EndOf(i) = E + (H + 9 + Len(r.body)) /\ EndOf(i) <= Len(stream)
      /\ \A j \in 1 .. H : stream[E + (7 + j)] = f[j]
  BY RequestCells
<1> HIDE DEF r, E
<1>2. Fields(r) \in Seq(Seq(Byte)) /\ Len(Fields(r)) = Len(r.headers) /\ Len(r.headers) \in Nat
  BY <1>1, FieldsAre
<1>3. k \in 0 .. Len(r.headers) /\ k < Len(r.headers)
  BY <1>2 DEF r
<1>4. /\ B \in Nat /\ k + 1 \in 1 .. Len(r.headers)
      /\ HeadersBefore(r, k + 1) = B + L + 5 /\ HeadersBefore(r, k + 1) <= H /\ L \in Nat
  BY <1>1, <1>3, HeadersBeforeStep
<1>5. h \in Header /\ Fields(r)[k + 1] = d
  BY <1>1, <1>4, FieldsAre
<1>6. /\ Len(d) = L + 5
      /\ \A j \in 1 .. L : d[j] = h.key[j]
      /\ d[L + 1] = COLON /\ d[L + 2] = SP /\ d[L + 3] = h.value
      /\ d[L + 4] = CR /\ d[L + 5] = LF
  BY <1>5, HeaderBytesAre
<1>7. Found(FlattenSeq(Fields(r)), Len(FlatTo(Fields(r), (k + 1) - 1)), Fields(r)[k + 1])
  BY <1>2, <1>4, FlattenCells
<1>8. (k + 1) - 1 = k
  OBVIOUS
<1>9. \A j \in 1 .. L + 5 : f[B + j] = d[j]
  BY <1>5, <1>6, <1>7, <1>8 DEF HeadersBefore, Found
<1> HIDE DEF h, d, f, B, H, L
<1>10. ASSUME NEW j \in 1 .. L + 5 PROVE stream[(E + 7 + B) + j] = d[j]
  <2>1. /\ E \in Nat /\ B \in Nat /\ L \in Nat /\ H \in Nat /\ j \in 1 .. L + 5
        /\ B + L + 5 <= H
    BY <1>1, <1>4
  <2>2. B + j \in 1 .. H /\ E + (7 + (B + j)) = (E + 7 + B) + j
    BY ONLY <2>1
  <2> QED
    BY <1>1, <1>9, <2>2
<1>11. \A j \in 1 .. L : j \in 1 .. L + 5
  BY <1>4
<1>12. \A c \in {L + 1, L + 2, L + 3, L + 4, L + 5} : c \in 1 .. L + 5
  BY <1>4
<1>13. (E + 7 + B) + L + 5 = E + 7 + HeadersBefore(r, k + 1) /\ E + 7 + B \in Nat
  BY <1>1, <1>4
<1>14. (E + 7 + B) + L + 5 <= EndOf(i)
  <2>1. PICK Z \in Nat : Z = Len(r.body)
    BY <1>1
  <2>2. /\ E \in Nat /\ B \in Nat /\ L \in Nat /\ H \in Nat /\ Z \in Nat
        /\ B + L + 5 <= H
    BY <1>1, <1>4
  <2>3. (E + 7 + B) + L + 5 <= E + (H + 9 + Z)
    BY ONLY <2>2
  <2> QED
    BY <1>1, <2>1, <2>3
<1>15. \A j \in 1 .. L : stream[(E + 7 + B) + j] = h.key[j]
  BY <1>6, <1>10, <1>11
<1>16. /\ stream[(E + 7 + B) + (L + 1)] = COLON /\ stream[(E + 7 + B) + (L + 2)] = SP
       /\ stream[(E + 7 + B) + (L + 3)] = h.value
       /\ stream[(E + 7 + B) + (L + 4)] = CR /\ stream[(E + 7 + B) + (L + 5)] = LF
  BY <1>6, <1>10, <1>12
<1> QED
  BY <1>1, <1>4, <1>5, <1>13, <1>14, <1>15, <1>16 DEF r, E, B, h, L

-----------------------------------------------------------------------------
(* What the handlers find, by what the client sent. *)
Delimiters == {SP, COLON, CR, LF}

LEMMA DelimitersKept ==
    ASSUME NEW x, NEW y, LowerByte(x) = LowerByte(y), NEW d \in Delimiters
    PROVE  x = d <=> y = d
  BY DEF LowerByte, Delimiters, SP, COLON, CR, LF

(* The j-th unread byte. *)
LEMMA Cell ==
    ASSUME Base, NEW j \in Nat, 1 <= j, taken + j <= got
    PROVE  /\ At(buf, buf.rp + (j - 1)) = buf.data[buf.rp + j]
           /\ LowerByte(buf.data[buf.rp + j]) = LowerByte(stream[taken + j])
           /\ \A d \in Delimiters : buf.data[buf.rp + j] = d <=> stream[taken + j] = d
           /\ Copies(buf, got, stream) => buf.data[buf.rp + j] = stream[taken + j]
<1>1. PICK rp \in Nat, wp \in Nat : rp = buf.rp /\ wp = buf.wp
  BY BaseFacts, SoundFields
<1>2. PICK t \in Nat, g \in Nat : t = taken /\ g = got
  BY BaseFacts
<1>3. t - rp = g - wp /\ t + j <= g
  BY <1>1, <1>2, BaseFacts DEF Tracks
<1>4. rp + j \in rp + 1 .. wp /\ (rp + j) + (g - wp) = t + j /\ (rp + (j - 1)) + 1 = rp + j
  BY ONLY <1>3, rp \in Nat, wp \in Nat, t \in Nat, g \in Nat, j \in Nat, 1 <= j
<1>5. Tracks(buf, taken, got, stream)
  BY BaseFacts
<1>6. LowerByte(buf.data[rp + j]) = LowerByte(stream[t + j])
  <2>1. rp + j \in buf.rp + 1 .. buf.wp /\ (rp + j) + (got - buf.wp) = t + j
    BY <1>1, <1>2, <1>4
  <2> QED
    BY <1>5, <2>1 DEF Tracks
<1>7. ASSUME Copies(buf, got, stream) PROVE buf.data[rp + j] = stream[t + j]
  <2>1. rp + j \in buf.rp + 1 .. buf.wp /\ (rp + j) + (got - buf.wp) = t + j
    BY <1>1, <1>2, <1>4
  <2> QED
    BY <1>7, <2>1 DEF Copies
<1>8. At(buf, rp + (j - 1)) = buf.data[rp + j]
  BY <1>4 DEF At
<1>9. \A d \in Delimiters : buf.data[rp + j] = d <=> stream[t + j] = d
  BY <1>6, DelimitersKept
<1> QED
  BY <1>1, <1>2, <1>6, <1>7, <1>8, <1>9

LEMMA Unread ==
    ASSUME Base, taken <= got
    PROVE  /\ buf.rp \in Nat /\ buf.wp \in Nat /\ got - taken \in Nat
           /\ buf.wp = buf.rp + (got - taken) /\ buf.rp <= buf.wp
           /\ buf.wp <= Len(buf.data) /\ Len(buf.data) \in Nat
<1>1. /\ buf.rp \in Nat /\ buf.wp \in Nat /\ taken \in Nat /\ got \in Nat
      /\ taken - buf.rp = got - buf.wp /\ buf.wp <= Len(buf.data) /\ Len(buf.data) \in Nat
  BY BaseFacts, SoundFields DEF Tracks
<1>2. got - taken \in Nat /\ buf.wp = buf.rp + (got - taken)
  BY <1>1
<1>3. buf.rp <= buf.wp
  BY <1>1, <1>2
<1> QED
  BY <1>1, <1>2, <1>3

LEMMA OneByte ==
    ASSUME NEW s \in Word, Len(s) = 1
    PROVE  s = <<s[1]>>
  BY DEF Word

LEMMA ByteIs ==
    ASSUME NEW b, Sound(b), NEW pos \in Nat, pos + 1 <= b.wp
    PROVE  Bytes(b, pos, 1) = <<b.data[pos + 1]>>
<1>1. PICK n \in Nat : n = 1
  OBVIOUS
<1>2. pos + n <= b.wp
  BY <1>1
<1>3. /\ Bytes(b, pos, n) \in Word /\ Len(Bytes(b, pos, n)) = n
      /\ \A i \in 1 .. n : Bytes(b, pos, n)[i] = b.data[pos + i]
  BY <1>2, BytesAre
<1>4. Bytes(b, pos, n)[n] = b.data[pos + n]
  <2>1. n \in 1 .. n
    BY <1>1
  <2> QED
    BY <1>3, <2>1
<1> QED
  BY <1>1, <1>3, <1>4, OneByte

(* A word and the space after it. *)
LEMMA WordScan ==
    ASSUME Base, Copies(buf, got, stream), taken <= got, NEW w \in Token,
           stream[taken + 1] = w, stream[taken + 2] = SP, taken + 2 <= Len(stream)
    PROVE  /\ Spaces = {} => got < taken + 2
           /\ Spaces # {} => /\ taken + 2 <= got /\ Min(Spaces) + 1 - buf.rp = 2
                             /\ Text(buf.rp, Min(Spaces)) = <<w>>
<1>1. PICK rp \in Nat, n \in Nat, t \in Nat :
         rp = buf.rp /\ n = got - taken /\ buf.wp = rp + n /\ t = taken /\ got = t + n
  BY Unread, BaseFacts
<1>2. w # SP /\ SP \in Delimiters
  BY DEF Token, Delimiters
<1>3. n >= 1 => At(buf, rp) # SP
  <2>1. n >= 1 => 1 \in Nat /\ 1 <= 1 /\ taken + 1 <= got /\ rp + (1 - 1) = rp
    BY <1>1
  <2> QED
    BY <1>1, <1>2, <2>1, Cell
<1>4. n >= 2 => At(buf, rp + 1) = SP
  <2>1. n >= 2 => 2 \in Nat /\ 1 <= 2 /\ taken + 2 <= got /\ rp + (2 - 1) = rp + 1
    BY <1>1
  <2> QED
    BY <1>1, <1>2, <2>1, Cell
<1>5. n >= 2 => rp + 1 \in Spaces
  <2>1. n >= 2 => rp + 1 \in rp .. (rp + n) - 1
    BY <1>1
  <2> QED
    BY <1>1, <1>4, <2>1 DEF Spaces
<1>6. Spaces = {} => got < taken + 2
  BY <1>1, <1>5
<1>7. ASSUME Spaces # {}
      PROVE  /\ taken + 2 <= got /\ Min(Spaces) + 1 - buf.rp = 2
             /\ Text(buf.rp, Min(Spaces)) = <<w>>
  <2>1. PICK m \in Nat : m = Min(Spaces)
    BY <1>7, BaseFacts, SpacesAre
  <2>2. /\ m \in rp .. (rp + n) - 1 /\ At(buf, m) = SP
        /\ \A p \in rp .. m - 1 : At(buf, p) # SP
    BY <1>1, <1>7, <2>1, BaseFacts, SpacesAre
  <2>3. n >= 1 /\ m # rp
    BY <1>3, <2>2
  <2>4. n >= 2
    BY <2>2, <2>3
  <2>5. ~(rp + 1 \in rp .. m - 1)
    BY <1>4, <2>2, <2>4
  <2>6. m = rp + 1
    BY <2>2, <2>3, <2>5
  <2>7. taken + 2 <= got
    BY <1>1, <2>4
  <2>8. Min(Spaces) + 1 - buf.rp = 2
    BY <1>1, <2>1, <2>6
  <2>9. /\ Text(buf.rp, m) \in Word /\ Len(Text(buf.rp, m)) = m - buf.rp
        /\ \A i \in 1 .. m - buf.rp : Text(buf.rp, m)[i] = buf.data[buf.rp + i]
    <3>1. buf.rp <= m /\ m <= buf.wp
      BY <1>1, <2>4, <2>6
    <3> QED
      BY <3>1, BaseFacts, TextIs
  <2>10. m - buf.rp = 1 /\ 1 \in 1 .. m - buf.rp
    BY <1>1, <2>6
  <2>11. buf.data[buf.rp + 1] = w
    <3>1. 1 \in Nat /\ 1 <= 1 /\ taken + 1 <= got
      BY <1>1, <2>4
    <3> QED
      BY <3>1, Cell
  <2>12. Text(buf.rp, m) = <<w>>
    BY <2>9, <2>10, <2>11, OneByte
  <2> QED
    BY <2>1, <2>7, <2>8, <2>12
<1> QED
  BY <1>6, <1>7

(* The version and the end of the request's line. *)
LEMMA VersionScan ==
    ASSUME Base, Copies(buf, got, stream), taken <= got, NEW w \in Token,
           stream[taken + 1] = w, stream[taken + 2] = CR, stream[taken + 3] = LF,
           taken + 3 <= Len(stream)
    PROVE  /\ Crlfs(buf.rp) = {} => got < taken + 3
           /\ Crlfs(buf.rp) # {} => /\ taken + 3 <= got /\ Min(Crlfs(buf.rp)) + 2 - buf.rp = 3
                                    /\ Text(buf.rp, Min(Crlfs(buf.rp))) = <<w>>
<1>1. PICK rp \in Nat, n \in Nat, t \in Nat :
         rp = buf.rp /\ n = got - taken /\ buf.wp = rp + n /\ t = taken /\ got = t + n
  BY Unread, BaseFacts
<1>2. w # CR /\ {CR, LF} \subseteq Delimiters
  BY DEF Token, Delimiters
<1>3. n >= 1 => At(buf, rp) # CR
  <2>1. n >= 1 => 1 \in Nat /\ 1 <= 1 /\ taken + 1 <= got /\ rp + (1 - 1) = rp
    BY <1>1
  <2> QED
    BY <1>1, <1>2, <2>1, Cell
<1>4. n >= 3 => IsPair(buf, rp + 1, CR, LF)
  <2>1. n >= 3 => 2 \in Nat /\ 1 <= 2 /\ taken + 2 <= got /\ rp + (2 - 1) = rp + 1
    BY <1>1
  <2>2. n >= 3 => 3 \in Nat /\ 1 <= 3 /\ taken + 3 <= got /\ rp + (3 - 1) = (rp + 1) + 1
    BY <1>1
  <2>3. n >= 3 => At(buf, rp + 1) = CR
    BY <1>1, <1>2, <2>1, Cell
  <2>4. n >= 3 => At(buf, (rp + 1) + 1) = LF
    BY <1>1, <1>2, <2>2, Cell
  <2> QED
    BY <2>3, <2>4 DEF IsPair
<1>5. n >= 3 => rp + 1 \in Crlfs(rp)
  <2>1. n >= 3 => rp + 1 \in rp .. (rp + n) - 2
    BY <1>1
  <2> QED
    BY <1>1, <1>4, <2>1 DEF Crlfs
<1>6. Crlfs(buf.rp) = {} => got < taken + 3
  BY <1>1, <1>5
<1>7. ASSUME Crlfs(buf.rp) # {}
      PROVE  /\ taken + 3 <= got /\ Min(Crlfs(buf.rp)) + 2 - buf.rp = 3
             /\ Text(buf.rp, Min(Crlfs(buf.rp))) = <<w>>
  <2>1. PICK m \in Nat : m = Min(Crlfs(buf.rp))
    BY <1>1, <1>7, BaseFacts, CrlfsAre
  <2>2. /\ m \in rp .. (rp + n) - 2 /\ IsPair(buf, m, CR, LF)
        /\ \A p \in rp .. m - 1 : ~IsPair(buf, p, CR, LF)
    BY <1>1, <1>7, <2>1, BaseFacts, CrlfsAre
  <2>3. n >= 1 /\ m # rp
    BY <1>3, <2>2 DEF IsPair
  <2>4. n >= 3
    BY <2>2, <2>3
  <2>5. ~(rp + 1 \in rp .. m - 1)
    BY <1>4, <2>2, <2>4
  <2>6. m = rp + 1
    BY <2>2, <2>3, <2>5
  <2>7. taken + 3 <= got
    BY <1>1, <2>4
  <2>8. Min(Crlfs(buf.rp)) + 2 - buf.rp = 3
    BY <1>1, <2>1, <2>6
  <2>9. /\ Text(buf.rp, m) \in Word /\ Len(Text(buf.rp, m)) = m - buf.rp
        /\ \A i \in 1 .. m - buf.rp : Text(buf.rp, m)[i] = buf.data[buf.rp + i]
    <3>1. buf.rp <= m /\ m <= buf.wp
      BY <1>1, <2>4, <2>6
    <3> QED
      BY <3>1, BaseFacts, TextIs
  <2>10. m - buf.rp = 1 /\ 1 \in 1 .. m - buf.rp
    BY <1>1, <2>6
  <2>11. buf.data[buf.rp + 1] = w
    <3>1. 1 \in Nat /\ 1 <= 1 /\ taken + 1 <= got
      BY <1>1, <2>4
    <3> QED
      BY <3>1, Cell
  <2>12. Text(buf.rp, m) = <<w>>
    BY <2>9, <2>10, <2>11, OneByte
  <2> QED
    BY <2>1, <2>7, <2>8, <2>12
<1> QED
  BY <1>6, <1>7

(* The empty line. *)
LEMMA EmptyLineScan ==
    ASSUME Base, taken <= got, stream[taken + 1] = CR, stream[taken + 2] = LF
    PROVE  /\ buf.rp \in Crlfs(buf.rp) <=> taken + 2 <= got
           /\ HasLine => taken + 4 <= got
<1>1. PICK rp \in Nat, n \in Nat, t \in Nat :
         rp = buf.rp /\ n = got - taken /\ buf.wp = rp + n /\ t = taken /\ got = t + n
  BY Unread, BaseFacts
<1>2. {CR, LF} \subseteq Delimiters
  BY DEF Delimiters
<1>3. n >= 2 => IsPair(buf, rp, CR, LF)
  <2>1. n >= 2 => 1 \in Nat /\ 1 <= 1 /\ taken + 1 <= got /\ rp + (1 - 1) = rp
    BY <1>1
  <2>2. n >= 2 => 2 \in Nat /\ 1 <= 2 /\ taken + 2 <= got /\ rp + (2 - 1) = rp + 1
    BY <1>1
  <2>3. n >= 2 => At(buf, rp) = CR
    BY <1>1, <1>2, <2>1, Cell
  <2>4. n >= 2 => At(buf, rp + 1) = LF
    BY <1>1, <1>2, <2>2, Cell
  <2> QED
    BY <2>3, <2>4 DEF IsPair
<1>4. rp \in rp .. (rp + n) - 2 <=> n >= 2
  OBVIOUS
<1>5. buf.rp \in Crlfs(buf.rp) <=> n >= 2
  BY <1>1, <1>3, <1>4 DEF Crlfs
<1>6. n >= 2 <=> taken + 2 <= got
  BY <1>1
<1>7. ASSUME HasLine PROVE taken + 4 <= got
  <2>1. /\ Colons \in Nat /\ LineEnd \in Nat
        /\ rp <= Colons /\ Colons + 2 <= LineEnd /\ LineEnd + 2 <= rp + n
    BY <1>1, <1>7, BaseFacts, LineIs
  <2>2. n >= 4
    BY <2>1
  <2> QED
    BY <1>1, <2>2
<1> QED
  BY <1>5, <1>6, <1>7

(* The line of a header: h is what the client sent, from the first unread  *)
(* byte on.                                                                *)
LineAt(h) ==
    /\ h \in Header /\ taken <= got
    /\ \A j \in 1 .. Len(h.key) : stream[taken + j] = h.key[j]
    /\ stream[taken + (Len(h.key) + 1)] = COLON
    /\ stream[taken + (Len(h.key) + 2)] = SP
    /\ stream[taken + (Len(h.key) + 3)] = h.value
    /\ stream[taken + (Len(h.key) + 4)] = CR
    /\ stream[taken + (Len(h.key) + 5)] = LF

(* Its cells, by their delimiters. *)
LineCells(rp, n, L) ==
    /\ \A j \in 1 .. L : j <= n => At(buf, rp + (j - 1)) \notin Delimiters
    /\ n >= L + 1 => At(buf, rp + L) = COLON
    /\ n >= L + 2 => At(buf, rp + L + 1) = SP
    /\ n >= L + 3 => At(buf, rp + L + 2) \notin Delimiters
    /\ n >= L + 4 => At(buf, rp + L + 3) = CR
    /\ n >= L + 5 => At(buf, rp + L + 4) = LF

LEMMA LineCellsAre ==
    ASSUME Base, NEW h, LineAt(h)
    PROVE  \E rp \in Nat, n \in Nat, L \in Nat :
              /\ rp = buf.rp /\ n = got - taken /\ buf.wp = rp + n /\ got = taken + n
              /\ L = Len(h.key) /\ LineCells(rp, n, L)
<1>1. PICK rp \in Nat, n \in Nat, t \in Nat :
         rp = buf.rp /\ n = got - taken /\ buf.wp = rp + n /\ t = taken /\ got = t + n
  BY Unread, BaseFacts DEF LineAt
<1>2. h.key \in Seq(Token) /\ h.value \in Token
  BY DEF LineAt, Header
<1>3. PICK L \in Nat : L = Len(h.key)
  BY <1>2
<1>4. \A x \in Token : x \notin Delimiters
  BY DEF Token, Delimiters
<1>5. {COLON, SP, CR, LF} \subseteq Delimiters
  BY DEF Delimiters
<1>6. ASSUME NEW j \in 1 .. L, j <= n PROVE At(buf, rp + (j - 1)) \notin Delimiters
  <2>1. j \in Nat /\ 1 <= j /\ taken + j <= got
    BY <1>1, <1>6
  <2>2. stream[taken + j] \in Token
    BY <1>2, <1>3, ElementOfSeq DEF LineAt
  <2>3. \A d \in Delimiters : ~(stream[taken + j] = d)
    BY <1>4, <2>2
  <2>4. \A d \in Delimiters : ~(At(buf, rp + (j - 1)) = d)
    BY <1>1, <2>1, <2>3, Cell
  <2> QED
    BY <2>4
<1>7. ASSUME NEW c \in 1 .. 5, n >= L + c
      PROVE  /\ At(buf, rp + ((L + c) - 1)) = buf.data[rp + (L + c)]
             /\ \A d \in Delimiters : At(buf, rp + ((L + c) - 1)) = d <=> stream[taken + (L + c)] = d
  <2>1. L + c \in Nat /\ 1 <= L + c /\ taken + (L + c) <= got
    BY <1>1, <1>7
  <2> QED
    BY <1>1, <2>1, Cell
<1>8. /\ rp + ((L + 1) - 1) = rp + L /\ rp + ((L + 2) - 1) = rp + L + 1
      /\ rp + ((L + 3) - 1) = rp + L + 2 /\ rp + ((L + 4) - 1) = rp + L + 3
      /\ rp + ((L + 5) - 1) = rp + L + 4
  OBVIOUS
<1>9. \A c \in {1, 2, 3, 4, 5} : c \in 1 .. 5
  OBVIOUS
<1>10. n >= L + 1 => At(buf, rp + L) = COLON
  BY <1>3, <1>5, <1>7, <1>8, <1>9 DEF LineAt
<1>11. n >= L + 2 => At(buf, rp + L + 1) = SP
  BY <1>3, <1>5, <1>7, <1>8, <1>9 DEF LineAt
<1>12. n >= L + 3 => At(buf, rp + L + 2) \notin Delimiters
  <2> SUFFICES ASSUME n >= L + 3, NEW d \in Delimiters, At(buf, rp + L + 2) = d PROVE FALSE
    OBVIOUS
  <2>1. At(buf, rp + ((L + 3) - 1)) = d <=> stream[taken + (L + 3)] = d
    BY <1>7, <1>9
  <2>2. stream[taken + (L + 3)] = h.value
    BY <1>3 DEF LineAt
  <2> QED
    BY <1>2, <1>4, <1>8, <2>1, <2>2
<1>13. n >= L + 4 => At(buf, rp + L + 3) = CR
  BY <1>3, <1>5, <1>7, <1>8, <1>9 DEF LineAt
<1>14. n >= L + 5 => At(buf, rp + L + 4) = LF
  BY <1>3, <1>5, <1>7, <1>8, <1>9 DEF LineAt
<1>15. LineCells(rp, n, L)
  BY <1>6, <1>10, <1>11, <1>12, <1>13, <1>14 DEF LineCells
<1> QED
  BY <1>1, <1>3, <1>15

LEMMA LineScan ==
    ASSUME Base, NEW h, LineAt(h)
    PROVE  /\ buf.rp \notin Crlfs(buf.rp)
           /\ HasLine => /\ taken + Len(h.key) + 5 <= got
                         /\ Colons = buf.rp + Len(h.key)
                         /\ LineEnd = buf.rp + Len(h.key) + 3
           /\ InState("HEADER") /\ ~HasLine => got < taken + Len(h.key) + 5
<1>1. PICK rp \in Nat, n \in Nat, L \in Nat :
         /\ rp = buf.rp /\ n = got - taken /\ buf.wp = rp + n /\ got = taken + n
         /\ L = Len(h.key) /\ LineCells(rp, n, L)
  BY LineCellsAre
<1>2. {COLON, SP, CR, LF} \subseteq Delimiters /\ COLON # CR
  BY DEF Delimiters, COLON, CR
<1>3. \A p \in rp .. rp + L - 1 : p < rp + n => At(buf, p) \notin Delimiters
  <2> SUFFICES ASSUME NEW p \in rp .. rp + L - 1, p < rp + n PROVE At(buf, p) \notin Delimiters
    OBVIOUS
  <2>1. (p - rp) + 1 \in 1 .. L /\ (p - rp) + 1 <= n /\ rp + (((p - rp) + 1) - 1) = p
    OBVIOUS
  <2> QED
    BY <1>1, <2>1 DEF LineCells
<1>4. buf.rp \notin Crlfs(buf.rp)
  <2> SUFFICES ASSUME buf.rp \in Crlfs(buf.rp) PROVE FALSE
    OBVIOUS
  <2>1. rp <= (rp + n) - 2 /\ At(buf, rp) = CR
    BY <1>1 DEF Crlfs, IsPair
  <2>2. CASE L = 0
    <3>1. At(buf, rp + L) = COLON /\ rp + L = rp
      BY <1>1, <2>1, <2>2 DEF LineCells
    <3> QED
      BY <1>2, <2>1, <3>1
  <2>3. CASE L # 0
    <3>1. rp \in rp .. rp + L - 1 /\ rp < rp + n
      BY <2>1, <2>3
    <3> QED
      BY <1>2, <1>3, <2>1, <3>1
  <2> QED
    BY <2>2, <2>3
<1> DEFINE hits == {p \in rp .. (rp + n) - 3 : IsPair(buf, p, COLON, SP)}
<1>5. Colons = IF hits # {} THEN Min(hits) ELSE Max({rp, (rp + n) - 2})
  BY <1>1 DEF Colons
<1>6. hits \subseteq Nat
  <2> SUFFICES ASSUME NEW p \in rp .. (rp + n) - 3 PROVE p \in Nat
    OBVIOUS
  <2> QED
    OBVIOUS
<1>7. n >= L + 3 => rp + L \in hits
  <2>1. n >= L + 3 => rp + L \in rp .. (rp + n) - 3
    OBVIOUS
  <2>2. n >= L + 3 => At(buf, rp + L) = COLON /\ At(buf, (rp + L) + 1) = SP
    BY <1>1 DEF LineCells
  <2> QED
    BY <2>1, <2>2 DEF IsPair
<1>8. \A p \in hits : p \in rp .. (rp + n) - 3 /\ p >= rp + L
  <2> SUFFICES ASSUME NEW p \in hits PROVE p \in rp .. (rp + n) - 3 /\ p >= rp + L
    OBVIOUS
  <2>1. p \in rp .. (rp + n) - 3 /\ At(buf, p) = COLON
    BY DEF IsPair
  <2>2. p < rp + n
    BY <2>1
  <2>3. p \notin rp .. rp + L - 1
    BY <1>2, <1>3, <2>1, <2>2
  <2> QED
    BY <2>1, <2>3
<1> HIDE DEF hits
<1>9. n >= L + 3 => Colons = rp + L
  <2> SUFFICES ASSUME n >= L + 3 PROVE Colons = rp + L
    OBVIOUS
  <2>1. rp + L \in hits /\ \A y \in hits : rp + L <= y
    BY <1>7, <1>8
  <2>2. Min(hits) = rp + L
    BY <1>6, <2>1, MinIs
  <2> QED
    BY <1>5, <2>1, <2>2
<1> DEFINE ends == Crlfs(rp + L + 2)
<1>10. ends \subseteq Nat
  <2> SUFFICES ASSUME NEW p \in rp + L + 2 .. (rp + n) - 2 PROVE p \in Nat
    BY <1>1 DEF Crlfs
  <2> QED
    OBVIOUS
<1>11. n >= L + 5 => rp + L + 3 \in ends
  <2>1. n >= L + 5 => rp + L + 3 \in rp + L + 2 .. (rp + n) - 2
    OBVIOUS
  <2>2. n >= L + 5 => At(buf, rp + L + 3) = CR /\ At(buf, (rp + L + 3) + 1) = LF
    BY <1>1 DEF LineCells
  <2> QED
    BY <1>1, <2>1, <2>2 DEF Crlfs, IsPair
<1>12. \A p \in ends : p \in rp + L + 3 .. (rp + n) - 2
  <2> SUFFICES ASSUME NEW p \in ends PROVE p \in rp + L + 3 .. (rp + n) - 2
    OBVIOUS
  <2>1. p \in rp + L + 2 .. (rp + n) - 2 /\ At(buf, p) = CR
    BY <1>1 DEF Crlfs, IsPair
  <2>2. CASE p = rp + L + 2
    <3>1. n >= L + 3
      BY <2>1, <2>2
    <3>2. At(buf, rp + L + 2) \notin Delimiters
      BY <1>1, <3>1 DEF LineCells
    <3> QED
      BY <1>2, <2>1, <2>2, <3>2
  <2>3. CASE p # rp + L + 2
    BY <2>1, <2>3
  <2> QED
    BY <2>2, <2>3
<1> HIDE DEF ends
<1>13. ASSUME HasLine
       PROVE  n >= L + 5 /\ Colons = rp + L /\ LineEnd = rp + L + 3
  <2>1. /\ Colons \in Nat /\ LineEnd \in Nat
        /\ rp <= Colons /\ Colons + 2 <= LineEnd /\ LineEnd + 2 <= rp + n
    BY <1>1, <1>13, BaseFacts, LineIs
  <2>2. hits # {}
    <3> SUFFICES ASSUME hits = {} PROVE FALSE
      OBVIOUS
    <3>1. (rp + n) - 2 \in Int /\ rp \in Int
      OBVIOUS
    <3>2. Colons = IF rp >= (rp + n) - 2 THEN rp ELSE (rp + n) - 2
      BY <1>5, <3>1, MaxOfTwo
    <3> QED
      BY <2>1, <3>2
  <2>3. Min(hits) \in hits
    BY <1>6, <2>2, MinProperties
  <2>4. n >= L + 3
    BY <1>8, <2>3
  <2>5. Colons = rp + L
    BY <1>9, <2>4
  <2>6. Colons + 2 = rp + L + 2
    BY <2>5
  <2>7. LineEnd = Min(ends) /\ ends # {}
    BY <1>13, <2>6 DEF LineEnd, HasLine, ends
  <2>8. Min(ends) \in ends /\ \A m \in ends : Min(ends) <= m
    BY <1>10, <2>7, MinProperties
  <2>9. LineEnd \in rp + L + 3 .. (rp + n) - 2
    BY <1>12, <2>7, <2>8
  <2>10. n >= L + 5
    BY <2>9
  <2>11. LineEnd <= rp + L + 3
    BY <1>11, <2>7, <2>8, <2>10
  <2> QED
    BY <2>5, <2>9, <2>10, <2>11
<1>14. ASSUME InState("HEADER"), ~HasLine PROVE ~(n >= L + 5)
  <2> SUFFICES ASSUME n >= L + 5 PROVE FALSE
    OBVIOUS
  <2>1. Colons = rp + L
    BY <1>9
  <2>2. Colons + 1 < buf.wp /\ Colons + 2 = rp + L + 2
    BY <1>1, <2>1
  <2>3. Crlfs(Colons + 2) # {}
    BY <1>11, <2>2 DEF ends
  <2> QED
    BY <1>4, <1>14, <2>2, <2>3 DEF HasLine
<1>15. taken \in Nat
  BY BaseFacts
<1>16. n >= L + 5 <=> taken + Len(h.key) + 5 <= got
  BY <1>1, <1>15
<1>17. ~(n >= L + 5) <=> got < taken + Len(h.key) + 5
  BY <1>1, <1>15
<1> QED
  BY <1>1, <1>4, <1>13, <1>14, <1>16, <1>17

(* What is read from it. *)
BadField(h) == Lowered(h.key) = ContentLength /\ h.value \notin DOMAIN Numbers

NameEnds(h) == h.key # <<>> => LowerByte(Last(h.key)) = Last(h.key)

LEMMA LoweredIs ==
    ASSUME NEW key \in Word
    PROVE  /\ Lowered(key) \in Word /\ Len(Lowered(key)) = Len(key)
           /\ \A i \in 1 .. Len(key) : Lowered(key)[i] = LowerByte(key[i])
<1>1. DOMAIN key = 1 .. Len(key) /\ Len(key) \in Nat /\ \A i \in 1 .. Len(key) : key[i] \in Byte
  BY ElementOfSeq DEF Word
<1>2. \A i \in 1 .. Len(key) : LowerByte(key[i]) \in Byte
  BY <1>1, LowerByteLowers
<1>3. Lowered(key) = [i \in 1 .. Len(key) |-> LowerByte(key[i])]
  BY <1>1 DEF Lowered
<1> QED
  BY <1>1, <1>2, <1>3 DEF Word

LineRead(h, rp, L) ==
    /\ rp = buf.rp /\ L = Len(h.key) /\ taken + (L + 5) <= got
    /\ rp + (L + 5) <= buf.wp /\ buf.wp \in Nat
    /\ LineEnd + 2 - buf.rp = L + 5
    /\ Sound(Low) /\ Low.rp = buf.rp /\ Low.wp = buf.wp
    /\ Key \in Word /\ Len(Key) = L
    /\ \A j \in 1 .. L - 1 : Key[j] = LowerByte(buf.data[rp + j])
    /\ L > 0 => Key[L] = buf.data[rp + L]
    /\ Value = <<buf.data[rp + (L + 3)]>>
    /\ \A p \in rp + (L + 5) + 1 .. buf.wp : Low.data[p] = buf.data[p]

LEMMA LineLow ==
    ASSUME Base, NEW h, LineAt(h), HasLine
    PROVE  \E rp \in Nat, L \in Nat : LineRead(h, rp, L)
<1>1. PICK rp \in Nat, n \in Nat, L \in Nat :
         /\ rp = buf.rp /\ n = got - taken /\ buf.wp = rp + n /\ got = taken + n
         /\ L = Len(h.key)
  BY LineCellsAre
<1>2. /\ taken + L + 5 <= got /\ Colons = rp + L /\ LineEnd = rp + L + 3
  BY <1>1, LineScan
<1>3. n >= L + 5 /\ taken + (L + 5) <= got
  <2>1. taken \in Nat
    BY BaseFacts
  <2> QED
    BY <1>1, <1>2, <2>1
<1>4. LineEnd + 2 - buf.rp = L + 5 /\ rp + (L + 5) <= buf.wp /\ buf.wp \in Nat
  <2>1. (rp + L + 3) + 2 - rp = L + 5 /\ rp + (L + 5) <= rp + n /\ rp + n \in Nat
    BY <1>3
  <2> QED
    BY <1>1, <1>2, <2>1
<1>5. /\ Sound(Low) /\ Low.rp = rp /\ Low.wp = rp + n
      /\ \A i \in 1 .. Len(buf.data) :
            /\ i \notin rp + 1 .. (rp + L) - 1 => Low.data[i] = buf.data[i]
            /\ i \in rp + 1 .. (rp + L) - 1 => Low.data[i] = LowerByte(buf.data[i])
  <2>1. rp \in Int /\ rp + L \in Int /\ Sound(buf)
    BY BaseFacts
  <2>2. LET c == KeyToLower(buf, rp, rp + L)
        IN  /\ Sound(c) /\ c.rp = buf.rp /\ c.wp = buf.wp
            /\ \A i \in 1 .. Len(buf.data) :
                  /\ i \notin rp + 1 .. (rp + L) - 1 => c.data[i] = buf.data[i]
                  /\ i \in rp + 1 .. (rp + L) - 1 => c.data[i] = LowerByte(buf.data[i])
    BY <2>1, LowerTracks
  <2> QED
    BY <1>1, <1>2, <2>2 DEF Low
<1>6. \A i \in 1 .. rp + n : i \in 1 .. Len(buf.data)
  <2>1. rp + n <= Len(buf.data) /\ Len(buf.data) \in Nat
    BY <1>1, BaseFacts, SoundFields
  <2> QED
    BY <2>1
<1>7. /\ Key \in Word /\ Len(Key) = L /\ \A j \in 1 .. L : Key[j] = Low.data[rp + j]
  <2>1. Key = Bytes(Low, rp, L)
    <3>1. (rp + L) - rp = L
      OBVIOUS
    <3> QED
      BY <1>1, <1>2, <3>1 DEF Key
  <2>2. rp + L <= Low.wp
    BY <1>3, <1>5
  <2>3. /\ Bytes(Low, rp, L) \in Word /\ Len(Bytes(Low, rp, L)) = L
        /\ \A j \in 1 .. L : Bytes(Low, rp, L)[j] = Low.data[rp + j]
    BY <1>5, <2>2, BytesAre
  <2> QED
    BY <2>1, <2>3
<1>8. ASSUME NEW j \in 1 .. L - 1 PROVE Key[j] = LowerByte(buf.data[rp + j])
  <2>1. j \in 1 .. L /\ rp + j \in 1 .. rp + n /\ rp + j \in rp + 1 .. (rp + L) - 1
    BY <1>3
  <2> QED
    BY <1>5, <1>6, <1>7, <2>1
<1>9. ASSUME L > 0 PROVE Key[L] = buf.data[rp + L]
  <2>1. L \in 1 .. L /\ rp + L \in 1 .. rp + n /\ rp + L \notin rp + 1 .. (rp + L) - 1
    BY <1>3, <1>9
  <2> QED
    BY <1>5, <1>6, <1>7, <2>1
<1>10. Value = <<buf.data[rp + (L + 3)]>>
  <2> DEFINE q == rp + L + 2
  <2>1. Value = Bytes(Low, q, 1)
    <3>1. (rp + L + 3) - (rp + L) - 2 = 1
      OBVIOUS
    <3> QED
      BY <1>2, <3>1 DEF Value
  <2>2. q \in Nat /\ 1 \in Nat /\ q + 1 <= Low.wp /\ 1 \in 1 .. 1 /\ q + 1 = rp + (L + 3)
    BY <1>3, <1>5
  <2> HIDE DEF q
  <2>3. Bytes(Low, q, 1) = <<Low.data[q + 1]>>
    BY <1>5, <2>2, ByteIs
  <2>4. rp + (L + 3) \in 1 .. rp + n /\ rp + (L + 3) \notin rp + 1 .. (rp + L) - 1
    BY <1>3
  <2>5. Low.data[rp + (L + 3)] = buf.data[rp + (L + 3)]
    BY <1>5, <1>6, <2>4
  <2> QED
    BY <2>1, <2>2, <2>3, <2>5
<1>11. ASSUME NEW p \in rp + (L + 5) + 1 .. buf.wp PROVE Low.data[p] = buf.data[p]
  <2>0. p \in rp + (L + 5) + 1 .. rp + n
    BY <1>1
  <2>1. p \in 1 .. rp + n /\ p \notin rp + 1 .. (rp + L) - 1
    BY ONLY <2>0, rp \in Nat, n \in Nat, L \in Nat
  <2> QED
    BY <1>5, <1>6, <2>1
<1>12. LineRead(h, rp, L)
  BY <1>1, <1>3, <1>4, <1>5, <1>7, <1>8, <1>9, <1>10, <1>11 DEF LineRead
<1> QED
  BY <1>12

(* A bad Content-Length is refused, every time it is looked at. *)
LEMMA BadLine ==
    ASSUME Base, NEW h, LineAt(h), HasLine, BadField(h)
    PROVE  BadLength
<1>a. PICK rp \in Nat, L \in Nat : LineRead(h, rp, L)
  BY LineLow
<1>1. /\ rp = buf.rp /\ L = Len(h.key) /\ taken + (L + 5) <= got
      /\ Key \in Word /\ Len(Key) = L
      /\ \A j \in 1 .. L - 1 : Key[j] = LowerByte(buf.data[rp + j])
      /\ L > 0 => Key[L] = buf.data[rp + L]
      /\ Value = <<buf.data[rp + (L + 3)]>>
  BY <1>a DEF LineRead
<1>2. h.key \in Word
  <2>1. h.key \in Seq(Token) /\ Token \subseteq Byte
    BY DEF LineAt, Header, Token
  <2> QED
    BY <2>1 DEF Word
<1>3. Lowered(h.key) = <<"content-lengt", "h">> /\ h.value \notin DOMAIN Numbers
  BY DEF BadField, ContentLength
<1>4. L = 2 /\ LowerByte(h.key[1]) = "content-lengt" /\ LowerByte(h.key[2]) = "h"
  <2>1. /\ Len(Lowered(h.key)) = Len(h.key)
        /\ \A i \in 1 .. Len(h.key) : Lowered(h.key)[i] = LowerByte(h.key[i])
    BY <1>2, LoweredIs
  <2>2. Len(<<"content-lengt", "h">>) = 2
    OBVIOUS
  <2>3. L = 2
    BY <1>1, <1>3, <2>1, <2>2
  <2>4. 1 \in 1 .. Len(h.key) /\ 2 \in 1 .. Len(h.key)
    BY <1>1, <2>3
  <2> QED
    BY <1>3, <2>1, <2>3, <2>4
<1>5. LowerByte(buf.data[rp + 1]) = LowerByte(stream[taken + 1]) /\ stream[taken + 1] = h.key[1]
  <2>1. 1 \in Nat /\ 1 <= 1 /\ taken + 1 <= got /\ 1 \in 1 .. Len(h.key)
    BY <1>1, <1>4, BaseFacts
  <2> QED
    BY <1>1, <2>1, Cell DEF LineAt
<1>6. LowerByte(buf.data[rp + 2]) = LowerByte(stream[taken + 2]) /\ stream[taken + 2] = h.key[2]
  <2>1. 2 \in Nat /\ 1 <= 2 /\ taken + 2 <= got /\ 2 \in 1 .. Len(h.key)
    BY <1>1, <1>4, BaseFacts
  <2> QED
    BY <1>1, <2>1, Cell DEF LineAt
<1>7. LowerByte(buf.data[rp + (L + 3)]) = LowerByte(stream[taken + (L + 3)])
      /\ stream[taken + (L + 3)] = h.value
  <2>1. L + 3 \in Nat /\ 1 <= L + 3 /\ taken + (L + 3) <= got
    <3>1. PICK t \in Nat, g \in Nat : t = taken /\ g = got
      BY BaseFacts
    <3>2. t + (L + 5) <= g
      BY <1>1, <3>1
    <3>3. L + 3 \in Nat /\ 1 <= L + 3 /\ t + (L + 3) <= g
      BY ONLY <3>2, L \in Nat, t \in Nat, g \in Nat
    <3> QED
      BY <3>1, <3>3
  <2> QED
    BY <1>1, <2>1, Cell DEF LineAt
<1>8. Key[1] = "content-lengt" /\ Key[2] = "h"
  <2>1. buf.data[rp + 2] = "h"
    BY <1>4, <1>6 DEF LowerByte
  <2>2. 1 \in 1 .. L - 1 /\ L > 0
    BY <1>4
  <2> QED
    BY <1>1, <1>4, <1>5, <2>1, <2>2
<1>9. Key = ContentLength
  <2>1. Key \in Seq(Byte) /\ Len(Key) = 2
    BY <1>1, <1>4 DEF Word
  <2>2. Key = <<Key[1], Key[2]>>
    BY <2>1
  <2> QED
    BY <1>8, <2>2 DEF ContentLength
<1>10. buf.data[rp + (L + 3)] \notin DOMAIN Numbers
  <2> DEFINE w == buf.data[rp + (L + 3)]
  <2> SUFFICES ASSUME w \in DOMAIN Numbers PROVE FALSE
    OBVIOUS
  <2> HIDE DEF w
  <2>1. LowerByte(w) = LowerByte(h.value)
    BY <1>7 DEF w
  <2>2. w \notin {"CONTENT-LENGT", "content-lengt", "CONNECTIO", "connectio"}
    BY ParserAssumption
  <2>3. w = h.value
    BY <2>1, <2>2 DEF LowerByte
  <2> QED
    BY <1>3, <2>3
<1>11. ~IsNumber(Value)
  BY <1>1, <1>10, OneWord
<1> QED
  BY <1>9, <1>11 DEF BadLength

(* While the buffer copies the stream, the line is read as it was sent. *)
LEMMA GoodLine ==
    ASSUME Base, NEW h, LineAt(h), HasLine, Copies(buf, got, stream), NameEnds(h)
    PROVE  /\ Key = Lowered(h.key) /\ Value = <<h.value>>
           /\ BadLength <=> BadField(h)
           /\ Copies(UpdateReadPos(Low, LineEnd + 2 - buf.rp), got, stream)
<1>a. PICK rp \in Nat, L \in Nat : LineRead(h, rp, L)
  BY LineLow
<1>1. /\ rp = buf.rp /\ L = Len(h.key) /\ taken + (L + 5) <= got
      /\ rp + (L + 5) <= buf.wp /\ buf.wp \in Nat
      /\ LineEnd + 2 - buf.rp = L + 5
      /\ Sound(Low) /\ Low.rp = buf.rp /\ Low.wp = buf.wp
      /\ Key \in Word /\ Len(Key) = L
      /\ \A j \in 1 .. L - 1 : Key[j] = LowerByte(buf.data[rp + j])
      /\ L > 0 => Key[L] = buf.data[rp + L]
      /\ Value = <<buf.data[rp + (L + 3)]>>
      /\ \A p \in rp + (L + 5) + 1 .. buf.wp : Low.data[p] = buf.data[p]
  BY <1>a DEF LineRead
<1>b. taken \in Nat /\ got \in Nat /\ taken + (L + 5) <= got
  BY <1>1, BaseFacts
<1>2. h.key \in Word
  <2>1. h.key \in Seq(Token) /\ Token \subseteq Byte
    BY DEF LineAt, Header, Token
  <2> QED
    BY <2>1 DEF Word
<1>3. ASSUME NEW j \in 1 .. L PROVE buf.data[rp + j] = h.key[j]
  <2>0. j \in 1 .. L /\ L \in Nat
    OBVIOUS
  <2>1. j \in Nat /\ 1 <= j /\ taken + j <= got
    BY ONLY <1>b, <2>0
  <2>2. buf.data[rp + j] = stream[taken + j]
    BY <1>1, <2>1, Cell
  <2> QED
    BY <1>1, <2>2 DEF LineAt
<1>4. ASSUME NEW j \in 1 .. L PROVE Key[j] = LowerByte(h.key[j])
  <2>1. CASE j < L
    <3>1. j \in 1 .. L - 1
      BY <2>1
    <3> QED
      BY <1>1, <1>3, <3>1
  <2>2. CASE j = L
    <3>1. L > 0 /\ h.key # <<>>
      BY <1>1, <2>2, EmptySeq
    <3>2. LowerByte(h.key[L]) = h.key[L]
      BY <1>1, <3>1 DEF NameEnds, Last
    <3> QED
      BY <1>1, <1>3, <2>2, <3>1, <3>2
  <2> QED
    BY <2>1, <2>2
<1>5. Key = Lowered(h.key)
  <2>1. /\ Lowered(h.key) \in Word /\ Len(Lowered(h.key)) = L
        /\ \A i \in 1 .. L : Lowered(h.key)[i] = LowerByte(h.key[i])
    BY <1>1, <1>2, LoweredIs
  <2>2. \A i \in 1 .. Len(Key) : Key[i] = Lowered(h.key)[i]
    BY <1>1, <1>4, <2>1
  <2>3. Key \in Seq(Byte) /\ Lowered(h.key) \in Seq(Byte) /\ Len(Key) = Len(Lowered(h.key))
    BY <1>1, <2>1 DEF Word
  <2> QED
    BY ONLY <2>2, <2>3, SeqEqual
<1>6. Value = <<h.value>>
  <2>0. L \in Nat
    OBVIOUS
  <2>1. L + 3 \in Nat /\ 1 <= L + 3 /\ taken + (L + 3) <= got
    BY ONLY <1>b, <2>0
  <2>2. buf.data[rp + (L + 3)] = stream[taken + (L + 3)]
    BY <1>1, <2>1, Cell
  <2> QED
    BY <1>1, <2>2 DEF LineAt
<1>7. BadLength <=> BadField(h)
  <2>1. IsNumber(Value) <=> h.value \in DOMAIN Numbers
    <3>1. h.value \in Token
      BY DEF LineAt, Header
    <3> QED
      BY <1>6, <3>1, OneWord
  <2> QED
    BY <1>5, <2>1 DEF BadLength, BadField
<1>8. Copies(UpdateReadPos(Low, L + 5), got, stream)
  <2> DEFINE c == UpdateReadPos(Low, L + 5)
  <2>1. L + 5 \in Nat
    OBVIOUS
  <2>2. /\ Sound(c) /\ c.wp - c.rp = Low.wp - Low.rp - (L + 5)
        /\ \A p \in c.rp + 1 .. c.wp : c.data[p] = Low.data[p + (Low.wp - c.wp)]
    BY <1>1, <2>1, UpdateReadPosShifts
  <2> HIDE DEF c
  <2>3. PICK cr \in Nat, cw \in Nat, wp \in Nat, g \in Nat :
           cr = c.rp /\ cw = c.wp /\ wp = buf.wp /\ g = got
    BY <1>1, <2>2, BaseFacts, SoundFields
  <2>4. cw - cr = wp - rp - (L + 5)
    BY <1>1, <2>2, <2>3
  <2>5. ASSUME NEW p \in c.rp + 1 .. c.wp PROVE c.data[p] = stream[p + (got - c.wp)]
    <3> DEFINE q == p + (wp - cw)
    <3>1. p \in cr + 1 .. cw
      BY <2>3
    <3>2. q \in rp + (L + 5) + 1 .. wp /\ q \in rp + 1 .. wp /\ q + (g - wp) = p + (g - cw)
      BY ONLY <2>4, <3>1, rp \in Nat, wp \in Nat, cr \in Nat, cw \in Nat, L \in Nat, g \in Nat
    <3>3. c.data[p] = Low.data[q]
      BY <1>1, <2>2, <2>3, <3>1
    <3> HIDE DEF q
    <3>4. Low.data[q] = buf.data[q]
      BY <1>1, <2>3, <3>2
    <3>5. buf.data[q] = stream[q + (got - buf.wp)]
      BY <1>1, <2>3, <3>2 DEF Copies
    <3> QED
      BY <2>3, <3>2, <3>3, <3>4, <3>5
  <2> QED
    BY <2>5 DEF Copies, c
<1> QED
  BY <1>1, <1>5, <1>6, <1>7, <1>8

-----------------------------------------------------------------------------
(* What the first headers of a request mean. *)
FirstHeaders(r, k) == [r EXCEPT !.headers = SubSeq(@, 1, k)]

Partial(r, k) == [Meaning(FirstHeaders(r, k)) EXCEPT !.body = <<>>]

KeepOf(r) ==
    IF Named(r, Connection) = {} THEN r.version = VERSION_11
    ELSE LastValue(r, Connection, Close) # Close

HeadersOf(r) == {<<Lowered(r.headers[i].key), <<r.headers[i].value>>>> : i \in Firsts(r)}

LEMMA FirstHeadersAre ==
    ASSUME NEW r \in Request, NEW k \in 0 .. Len(r.headers)
    PROVE  LET a == FirstHeaders(r, k)
           IN  /\ a.headers \in Seq(Header) /\ Len(a.headers) = k /\ DOMAIN a.headers = 1 .. k
               /\ \A j \in 1 .. k : a.headers[j] = r.headers[j]
               /\ a.method = r.method /\ a.url = r.url /\ a.version = r.version /\ a.body = r.body
               /\ k = Len(r.headers) => a = r
<1> DEFINE s == SubSeq(r.headers, 1, k)
           a == FirstHeaders(r, k)
<1>1. r.headers \in Seq(Header) /\ Len(r.headers) \in Nat
  BY FieldsAre
<1>2. s \in Seq(Header) /\ Len(s) = k /\ \A j \in 1 .. k : s[j] = r.headers[j]
  BY <1>1
<1>3. k = Len(r.headers) => s = r.headers
  BY <1>1, SubSeqFull
<1>4. r \in [method : Token, url : Token, version : Token, headers : Seq(Header), body : Seq(Byte)]
  BY DEF Request
<1>5. a = [r EXCEPT !.headers = s]
  BY DEF FirstHeaders
<1> HIDE DEF s, a
<1>6. /\ a.headers = s /\ a.method = r.method /\ a.url = r.url
      /\ a.version = r.version /\ a.body = r.body
  BY <1>4, <1>5
<1>7. s = r.headers => a = r
  BY <1>4, <1>5
<1>8. DOMAIN s = 1 .. k
  BY <1>2
<1> QED
  BY <1>2, <1>3, <1>6, <1>7, <1>8 DEF a

LEMMA MeaningIs ==
    ASSUME NEW r
    PROVE  Meaning(r) = [method |-> <<r.method>>, url |-> <<r.url>>, version |-> <<r.version>>,
                         keep_alive |-> KeepOf(r), content_length |-> Announced(r),
                         headers |-> HeadersOf(r), body |-> r.body]
  BY DEF Meaning, KeepOf, Announced, HeadersOf

LEMMA PartialIs ==
    ASSUME NEW r \in Request, NEW k \in 0 .. Len(r.headers)
    PROVE  LET a == FirstHeaders(r, k)
           IN  Partial(r, k) =
                  [method |-> <<r.method>>, url |-> <<r.url>>, version |-> <<r.version>>,
                   keep_alive |-> KeepOf(a), content_length |-> Announced(a),
                   headers |-> HeadersOf(a), body |-> <<>>]
<1> DEFINE a == FirstHeaders(r, k)
<1>1. a.method = r.method /\ a.url = r.url /\ a.version = r.version
  BY FirstHeadersAre
<1>2. Meaning(a) = [method |-> <<a.method>>, url |-> <<a.url>>, version |-> <<a.version>>,
                    keep_alive |-> KeepOf(a), content_length |-> Announced(a),
                    headers |-> HeadersOf(a), body |-> a.body]
  BY MeaningIs
<1> HIDE DEF a
<1>3. [Meaning(a) EXCEPT !.body = <<>>]
         = [method |-> <<r.method>>, url |-> <<r.url>>, version |-> <<r.version>>,
            keep_alive |-> KeepOf(a), content_length |-> Announced(a),
            headers |-> HeadersOf(a), body |-> <<>>]
  BY <1>1, <1>2
<1> QED
  BY <1>3 DEF Partial, a

(* b is a with one more header. *)
Extends(a, b, k, h) ==
    /\ DOMAIN a.headers = 1 .. k /\ DOMAIN b.headers = 1 .. k + 1
    /\ \A j \in 1 .. k : b.headers[j] = a.headers[j]
    /\ b.headers[k + 1] = h
    /\ b.version = a.version

LEMMA NamedExtends ==
    ASSUME NEW a, NEW b, NEW k \in Nat, NEW h, Extends(a, b, k, h), NEW key
    PROVE  /\ Named(a, key) \subseteq 1 .. k
           /\ Named(b, key) = IF Lowered(h.key) = key THEN Named(a, key) \union {k + 1}
                              ELSE Named(a, key)
<1>1. \A j : j \in 1 .. k + 1 <=> j \in 1 .. k \/ j = k + 1
  OBVIOUS
<1>2. \A j \in 1 .. k : j # k + 1
  OBVIOUS
<1>3. Named(a, key) = {j \in 1 .. k : Lowered(a.headers[j].key) = key}
  BY DEF Named, Extends
<1>4. Named(b, key) = {j \in 1 .. k + 1 : Lowered(b.headers[j].key) = key}
  BY DEF Named, Extends
<1>5. \A j \in 1 .. k : j \in Named(b, key) <=> j \in Named(a, key)
  BY <1>1, <1>3, <1>4 DEF Extends
<1>6. k + 1 \in Named(b, key) <=> Lowered(h.key) = key
  BY <1>1, <1>4 DEF Extends
<1> QED
  BY <1>1, <1>2, <1>3, <1>4, <1>5, <1>6

LEMMA LastExtends ==
    ASSUME NEW a, NEW b, NEW k \in Nat, NEW h, Extends(a, b, k, h), NEW key, NEW d
    PROVE  LastValue(b, key, d) =
              IF Lowered(h.key) = key THEN h.value ELSE LastValue(a, key, d)
<1>1. Named(a, key) \subseteq 1 .. k
      /\ Named(b, key) = IF Lowered(h.key) = key THEN Named(a, key) \union {k + 1}
                         ELSE Named(a, key)
  BY NamedExtends
<1>2. CASE Lowered(h.key) = key
  <2>1. Named(b, key) = Named(a, key) \union {k + 1}
    BY <1>1, <1>2
  <2>2. Named(b, key) \subseteq Int
    BY <1>1, <2>1
  <2>3. k + 1 \in Named(b, key) /\ \A y \in Named(b, key) : k + 1 >= y
    BY <1>1, <2>1
  <2>4. Max(Named(b, key)) = k + 1 /\ Named(b, key) # {}
    BY <2>2, <2>3, MaxIs
  <2>5. b.headers[k + 1] = h
    BY DEF Extends
  <2> QED
    BY <1>2, <2>4, <2>5 DEF LastValue
<1>3. CASE Lowered(h.key) # key
  <2>1. Named(b, key) = Named(a, key)
    BY <1>1, <1>3
  <2>2. CASE Named(a, key) = {}
    BY <1>3, <2>1, <2>2 DEF LastValue
  <2>3. CASE Named(a, key) # {}
    <3>1. Named(a, key) \subseteq 0 .. k
      BY <1>1
    <3>2. Max(Named(a, key)) \in 1 .. k
      BY <1>1, <2>3, <3>1, MaxProperties
    <3>3. b.headers[Max(Named(a, key))] = a.headers[Max(Named(a, key))]
      BY <3>2 DEF Extends
    <3> QED
      BY <1>3, <2>1, <2>3, <3>3 DEF LastValue
  <2> QED
    BY <2>2, <2>3
<1> QED
  BY <1>2, <1>3

LEMMA MalformedExtends ==
    ASSUME NEW a, NEW b, NEW k \in Nat, NEW h, Extends(a, b, k, h)
    PROVE  Malformed(b) <=> Malformed(a) \/ BadField(h)
<1>1. Named(a, ContentLength) \subseteq 1 .. k
      /\ Named(b, ContentLength) =
            IF Lowered(h.key) = ContentLength THEN Named(a, ContentLength) \union {k + 1}
            ELSE Named(a, ContentLength)
  BY NamedExtends
<1>2. \A j \in Named(a, ContentLength) : b.headers[j] = a.headers[j]
  BY <1>1 DEF Extends
<1>3. b.headers[k + 1] = h
  BY DEF Extends
<1> QED
  BY <1>1, <1>2, <1>3 DEF Malformed, BadField

LEMMA HeadersExtend ==
    ASSUME NEW a, NEW b, NEW k \in Nat, NEW h, Extends(a, b, k, h)
    PROVE  HeadersOf(b) =
              IF Lowered(h.key) \in {Connection, ContentLength} THEN HeadersOf(a)
              ELSE Emplace(HeadersOf(a), Lowered(h.key), <<h.value>>)
<1> DEFINE key == Lowered(h.key)
           Pair(r, i) == <<Lowered(r.headers[i].key), <<r.headers[i].value>>>>
<1>0. HeadersOf(a) = {Pair(a, i) : i \in Firsts(a)} /\ HeadersOf(b) = {Pair(b, i) : i \in Firsts(b)}
  BY DEF HeadersOf
<1>1. \A q : Named(a, q) \subseteq 1 .. k
      /\ Named(b, q) = IF key = q THEN Named(a, q) \union {k + 1} ELSE Named(a, q)
  BY NamedExtends
<1>2. \A i \in 1 .. k : b.headers[i] = a.headers[i]
  BY DEF Extends
<1>3. /\ DOMAIN a.headers = 1 .. k /\ DOMAIN b.headers = 1 .. k + 1 /\ b.headers[k + 1] = h
  BY DEF Extends
<1>4. ASSUME NEW i \in 1 .. k PROVE i \in Firsts(b) <=> i \in Firsts(a)
  <2>1. i \in 1 .. k + 1 /\ b.headers[i] = a.headers[i]
    BY <1>2
  <2>2. ASSUME NEW q, NEW j \in 1 .. i - 1 PROVE j \in Named(b, q) <=> j \in Named(a, q)
    <3>1. j # k + 1
      OBVIOUS
    <3> QED
      BY <1>1, <3>1
  <2> QED
    BY <1>3, <2>1, <2>2 DEF Firsts
<1>5. k + 1 \in Firsts(b) <=> key \notin {Connection, ContentLength} /\ Named(a, key) = {}
  <2>1. k + 1 \in 1 .. k + 1 /\ (k + 1) - 1 = k
    OBVIOUS
  <2>2. (\A j \in 1 .. k : j \notin Named(b, key)) <=> Named(a, key) = {}
    <3>1. \A j \in 1 .. k : j # k + 1
      OBVIOUS
    <3> QED
      BY <1>1, <3>1
  <2> QED
    BY <1>3, <2>1, <2>2 DEF Firsts
<1>6. Firsts(a) \subseteq 1 .. k /\ Firsts(b) \subseteq 1 .. k + 1
  BY <1>3 DEF Firsts
<1>7. \A i \in 1 .. k + 1 : i \in 1 .. k \/ i = k + 1
  OBVIOUS
<1>8. \A i \in 1 .. k : Pair(b, i) = Pair(a, i)
  BY <1>2
<1>9. Pair(b, k + 1) = <<key, <<h.value>>>>
  BY <1>3
<1>10. CASE key \in {Connection, ContentLength}
  <2>1. Firsts(b) = Firsts(a)
    BY <1>4, <1>5, <1>6, <1>7, <1>10
  <2> HIDE DEF Pair
  <2> QED
    BY <1>0, <1>6, <1>8, <1>10, <2>1
<1>11. CASE key \notin {Connection, ContentLength} /\ Named(a, key) = {}
  <2>1. Firsts(b) = Firsts(a) \union {k + 1}
    <3>1. k + 1 \in 1 .. k + 1 /\ \A i \in 1 .. k : i \in 1 .. k + 1
      OBVIOUS
    <3> QED
      BY <1>4, <1>5, <1>6, <1>7, <1>11, <3>1
  <2>2. ~\E hh \in HeadersOf(a) : hh[1] = key
    <3> SUFFICES ASSUME NEW i \in Firsts(a), Pair(a, i)[1] = key PROVE FALSE
      BY <1>0
    <3>1. i \in 1 .. k /\ Lowered(a.headers[i].key) = key
      BY <1>6
    <3> QED
      BY <1>3, <1>11, <3>1 DEF Named
  <2>3. Emplace(HeadersOf(a), key, <<h.value>>) = HeadersOf(a) \union {<<key, <<h.value>>>>}
    BY <2>2 DEF Emplace
  <2> HIDE DEF Pair, key
  <2>4. HeadersOf(b) = HeadersOf(a) \union {<<key, <<h.value>>>>}
    BY <1>0, <1>6, <1>8, <1>9, <2>1
  <2> QED
    BY <1>11, <2>3, <2>4 DEF key
<1>12. CASE key \notin {Connection, ContentLength} /\ Named(a, key) # {}
  <2>1. Firsts(b) = Firsts(a)
    <3>1. \A i \in 1 .. k : i \in 1 .. k + 1
      OBVIOUS
    <3> QED
      BY <1>4, <1>5, <1>6, <1>7, <1>12, <3>1
  <2>2. PICK m \in Named(a, key) : \A n \in Named(a, key) : m <= n
    <3>1. Named(a, key) \subseteq Nat
      BY <1>1
    <3> QED
      BY <1>12, <3>1, Least
  <2>3. m \in Firsts(a)
    <3>1. m \in 1 .. k /\ Lowered(a.headers[m].key) = key
      BY <1>1 DEF Named
    <3>2. \A j \in 1 .. m - 1 : j \notin Named(a, key)
      BY <2>2, <3>1
    <3> QED
      BY <1>3, <1>12, <3>1, <3>2 DEF Firsts
  <2>4. Pair(a, m) \in HeadersOf(a) /\ Pair(a, m)[1] = key
    BY <1>0, <2>3 DEF Named
  <2>5. Emplace(HeadersOf(a), key, <<h.value>>) = HeadersOf(a)
    BY <2>4 DEF Emplace
  <2> HIDE DEF Pair, key
  <2>6. HeadersOf(b) = HeadersOf(a)
    BY <1>0, <1>6, <1>8, <2>1
  <2> QED
    BY <1>12, <2>5, <2>6 DEF key
<1> QED
  BY <1>10, <1>11, <1>12

(* One more header: WithHeader leads from what the first k mean to what    *)
(* the first k + 1 do.                                                     *)
LEMMA FirstExtends ==
    ASSUME NEW r \in Request, NEW k \in Nat, k < Len(r.headers)
    PROVE  Extends(FirstHeaders(r, k), FirstHeaders(r, k + 1), k, r.headers[k + 1])
<1>1. Len(r.headers) \in Nat
  BY FieldsAre
<1>2. k \in 0 .. Len(r.headers) /\ k + 1 \in 0 .. Len(r.headers) /\ k + 1 \in 1 .. k + 1
  BY <1>1
<1>3. \A j \in 1 .. k : j \in 1 .. k + 1
  OBVIOUS
<1>4. LET a == FirstHeaders(r, k)
      IN  /\ DOMAIN a.headers = 1 .. k /\ \A j \in 1 .. k : a.headers[j] = r.headers[j]
          /\ a.version = r.version
  BY <1>2, FirstHeadersAre
<1>5. LET b == FirstHeaders(r, k + 1)
      IN  /\ DOMAIN b.headers = 1 .. k + 1 /\ \A j \in 1 .. k + 1 : b.headers[j] = r.headers[j]
          /\ b.version = r.version
  BY <1>2, FirstHeadersAre
<1> QED
  BY <1>2, <1>3, <1>4, <1>5 DEF Extends

LEMMA WithNextHeader ==
    ASSUME NEW r \in Request, NEW k \in Nat, k < Len(r.headers)
    PROVE  /\ Malformed(FirstHeaders(r, k + 1)) <=>
                 Malformed(FirstHeaders(r, k)) \/ BadField(r.headers[k + 1])
           /\ WithHeader(Partial(r, k), Lowered(r.headers[k + 1].key), <<r.headers[k + 1].value>>)
                 = Partial(r, k + 1)
<1> DEFINE a == FirstHeaders(r, k)
           b == FirstHeaders(r, k + 1)
           h == r.headers[k + 1]
           key == Lowered(h.key)
           p == Partial(r, k)
<1>0. Len(r.headers) \in Nat
  BY FieldsAre
<1>1. k \in 0 .. Len(r.headers) /\ k + 1 \in 0 .. Len(r.headers)
  BY <1>0
<1>2. Extends(a, b, k, h)
  BY FirstExtends
<1>3. p = [method |-> <<r.method>>, url |-> <<r.url>>, version |-> <<r.version>>,
           keep_alive |-> KeepOf(a), content_length |-> Announced(a),
           headers |-> HeadersOf(a), body |-> <<>>]
  BY <1>1, PartialIs
<1>4. Partial(r, k + 1) =
          [method |-> <<r.method>>, url |-> <<r.url>>, version |-> <<r.version>>,
           keep_alive |-> KeepOf(b), content_length |-> Announced(b),
           headers |-> HeadersOf(b), body |-> <<>>]
  BY <1>1, PartialIs
<1> HIDE DEF a, b, h, p
<1>5. Malformed(b) <=> Malformed(a) \/ BadField(h)
  BY <1>2, MalformedExtends
<1>6. HeadersOf(b) = IF key \in {Connection, ContentLength} THEN HeadersOf(a)
                     ELSE Emplace(HeadersOf(a), key, <<h.value>>)
  BY <1>2, HeadersExtend
<1>a. h.value \in Token
  <2>1. r.headers \in Seq(Header) /\ k + 1 \in 1 .. Len(r.headers)
    BY <1>0, FieldsAre
  <2>2. h \in Header
    BY <2>1 DEF h
  <2> QED
    BY <2>2 DEF Header
<1>7. Announced(b) = IF key = ContentLength THEN Numbers[h.value] ELSE Announced(a)
  BY <1>2, LastExtends DEF Announced
<1>8. KeepOf(b) = IF key = Connection THEN h.value # Close ELSE KeepOf(a)
  <2>1. Named(b, Connection) = IF key = Connection THEN Named(a, Connection) \union {k + 1}
                               ELSE Named(a, Connection)
    BY <1>2, NamedExtends
  <2>2. LastValue(b, Connection, Close) =
           IF key = Connection THEN h.value ELSE LastValue(a, Connection, Close)
    BY <1>2, LastExtends
  <2>3. b.version = a.version
    BY <1>2 DEF Extends
  <2> QED
    BY <2>1, <2>2, <2>3 DEF KeepOf
<1>9. Connection # ContentLength
  <2>1. Connection[1] = "connectio" /\ ContentLength[1] = "content-lengt"
    BY DEF Connection, ContentLength
  <2>2. "connectio" # "content-lengt"
    OBVIOUS
  <2> QED
    BY <2>1, <2>2
<1>10. <<h.value>>[1] = h.value /\ (<<h.value>> # <<Close>> <=> h.value # Close)
  OBVIOUS
<1> HIDE DEF key
<1>11. CASE key = Connection
  <2>1. WithHeader(p, key, <<h.value>>) = [p EXCEPT !.keep_alive = <<h.value>> # <<Close>>]
    BY <1>11 DEF WithHeader
  <2>2. (<<h.value>> # <<Close>>) = (h.value # Close)
    BY <1>10
  <2>3. /\ KeepOf(b) = (<<h.value>> # <<Close>>) /\ Announced(b) = Announced(a)
        /\ HeadersOf(b) = HeadersOf(a)
    BY <1>6, <1>7, <1>8, <1>9, <1>11, <2>2
  <2> DEFINE v == <<h.value>> # <<Close>>
  <2> HIDE DEF v
  <2>4. [p EXCEPT !.keep_alive = v]
            = [method |-> <<r.method>>, url |-> <<r.url>>, version |-> <<r.version>>,
               keep_alive |-> v, content_length |-> Announced(a),
               headers |-> HeadersOf(a), body |-> <<>>]
    BY <1>3
  <2> QED
    BY <1>4, <1>5, <2>1, <2>3, <2>4 DEF v, a, b, h, key, p
<1>12. CASE key # Connection /\ key = ContentLength
  <2>1. WithHeader(p, key, <<h.value>>) = [p EXCEPT !.content_length = Numbers[h.value]]
    BY <1>a, <1>12, OneWord DEF WithHeader
  <2>2. /\ KeepOf(b) = KeepOf(a) /\ Announced(b) = Numbers[h.value] /\ HeadersOf(b) = HeadersOf(a)
    BY <1>6, <1>7, <1>8, <1>12
  <2>3. [p EXCEPT !.content_length = Numbers[h.value]]
            = [method |-> <<r.method>>, url |-> <<r.url>>, version |-> <<r.version>>,
               keep_alive |-> KeepOf(a), content_length |-> Numbers[h.value],
               headers |-> HeadersOf(a), body |-> <<>>]
    BY <1>3
  <2> QED
    BY <1>4, <1>5, <2>1, <2>2, <2>3 DEF a, b, h, key, p
<1>13. CASE key # Connection /\ key # ContentLength
  <2>1. WithHeader(p, key, <<h.value>>) = [p EXCEPT !.headers = Emplace(p.headers, key, <<h.value>>)]
    BY <1>13 DEF WithHeader
  <2>2. /\ KeepOf(b) = KeepOf(a) /\ Announced(b) = Announced(a)
        /\ HeadersOf(b) = Emplace(HeadersOf(a), key, <<h.value>>)
    BY <1>6, <1>7, <1>8, <1>13
  <2>3. p.headers = HeadersOf(a)
    BY <1>3
  <2> DEFINE v == Emplace(HeadersOf(a), key, <<h.value>>)
  <2> HIDE DEF v
  <2>4. [p EXCEPT !.headers = v]
            = [method |-> <<r.method>>, url |-> <<r.url>>, version |-> <<r.version>>,
               keep_alive |-> KeepOf(a), content_length |-> Announced(a),
               headers |-> v, body |-> <<>>]
    BY <1>3
  <2> QED
    BY <1>4, <1>5, <2>1, <2>2, <2>3, <2>4 DEF v, a, b, h, key, p
<1> QED
  BY <1>11, <1>12, <1>13

(* Before the first header, and after the last. *)
LEMMA PartialEnds ==
    ASSUME NEW r \in Request
    PROVE  /\ Partial(r, 0) =
                 [NewContent EXCEPT !.method = <<r.method>>, !.url = <<r.url>>,
                                    !.version = <<r.version>>,
                                    !.keep_alive = r.version = VERSION_11]
           /\ ~Malformed(FirstHeaders(r, 0))
           /\ FirstHeaders(r, Len(r.headers)) = r
           /\ Meaning(r) = [Partial(r, Len(r.headers)) EXCEPT !.body = r.body]
<1> DEFINE a == FirstHeaders(r, 0)
<1>0. Len(r.headers) \in Nat /\ 0 \in 0 .. Len(r.headers)
      /\ Len(r.headers) \in 0 .. Len(r.headers)
  BY FieldsAre
<1>1. DOMAIN a.headers = {} /\ a.version = r.version
  <2>1. DOMAIN a.headers = 1 .. 0 /\ a.version = r.version
    BY <1>0, FirstHeadersAre
  <2> QED
    BY <2>1
<1>2. Partial(r, 0) =
         [method |-> <<r.method>>, url |-> <<r.url>>, version |-> <<r.version>>,
          keep_alive |-> KeepOf(a), content_length |-> Announced(a),
          headers |-> HeadersOf(a), body |-> <<>>]
  BY <1>0, PartialIs
<1> HIDE DEF a
<1>3. \A key : Named(a, key) = {}
  BY <1>1 DEF Named
<1>4. KeepOf(a) = (r.version = VERSION_11)
  BY <1>1, <1>3 DEF KeepOf
<1>5. Announced(a) = 0
  <2>1. LastValue(a, ContentLength, "0") = "0"
    BY <1>3 DEF LastValue
  <2> QED
    BY <2>1, ParserAssumption DEF Announced
<1>6. HeadersOf(a) = {}
  BY <1>1 DEF HeadersOf, Firsts
<1>7. ~Malformed(a)
  BY <1>3 DEF Malformed
<1>8. FirstHeaders(r, Len(r.headers)) = r
  BY <1>0, FirstHeadersAre
<1>9. Meaning(r) = [Partial(r, Len(r.headers)) EXCEPT !.body = r.body]
  <2>1. Partial(r, Len(r.headers)) =
           [method |-> <<r.method>>, url |-> <<r.url>>, version |-> <<r.version>>,
            keep_alive |-> KeepOf(r), content_length |-> Announced(r),
            headers |-> HeadersOf(r), body |-> <<>>]
    BY <1>0, <1>8, PartialIs
  <2>2. Meaning(r) =
           [method |-> <<r.method>>, url |-> <<r.url>>, version |-> <<r.version>>,
            keep_alive |-> KeepOf(r), content_length |-> Announced(r),
            headers |-> HeadersOf(r), body |-> r.body]
    BY MeaningIs
  <2> DEFINE p == Partial(r, Len(r.headers))
  <2>3. p = [method |-> <<r.method>>, url |-> <<r.url>>, version |-> <<r.version>>,
             keep_alive |-> KeepOf(r), content_length |-> Announced(r),
             headers |-> HeadersOf(r), body |-> <<>>]
    BY <2>1
  <2> HIDE DEF p
  <2>4. [p EXCEPT !.body = r.body] =
           [method |-> <<r.method>>, url |-> <<r.url>>, version |-> <<r.version>>,
            keep_alive |-> KeepOf(r), content_length |-> Announced(r),
            headers |-> HeadersOf(r), body |-> r.body]
    BY ONLY <2>3
  <2> QED
    BY <2>2, <2>4 DEF p
<1>10. Partial(r, 0) =
          [NewContent EXCEPT !.method = <<r.method>>, !.url = <<r.url>>,
                             !.version = <<r.version>>, !.keep_alive = r.version = VERSION_11]
  <2> DEFINE v == r.version = VERSION_11
  <2> HIDE DEF v
  <2>1. [NewContent EXCEPT !.method = <<r.method>>, !.url = <<r.url>>,
                           !.version = <<r.version>>, !.keep_alive = v]
           = [method |-> <<r.method>>, url |-> <<r.url>>, version |-> <<r.version>>,
              keep_alive |-> v, content_length |-> 0, headers |-> {}, body |-> <<>>]
    <3> DEFINE m == <<r.method>>
               u == <<r.url>>
               w == <<r.version>>
               e == <<>>
               f == FALSE
               z == 0
               o == {}
               nc == NewContent
               n1 == [nc EXCEPT !.method = m]
               n2 == [n1 EXCEPT !.url = u]
               n3 == [n2 EXCEPT !.version = w]
               n4 == [n3 EXCEPT !.keep_alive = v]
    <3>1. nc = [method |-> e, url |-> e, version |-> e, keep_alive |-> f,
                content_length |-> z, headers |-> o, body |-> e]
      BY DEF NewContent
    <3>2. [nc EXCEPT !.method = m, !.url = u, !.version = w, !.keep_alive = v] = n4
      OBVIOUS
    <3> HIDE DEF m, u, w, nc, e, f, z, o
    <3>3. n1 = [method |-> m, url |-> e, version |-> e, keep_alive |-> f,
                content_length |-> z, headers |-> o, body |-> e]
      BY ONLY <3>1
    <3> HIDE DEF n1
    <3>4. n2 = [method |-> m, url |-> u, version |-> e, keep_alive |-> f,
                content_length |-> z, headers |-> o, body |-> e]
      BY ONLY <3>3
    <3> HIDE DEF n2
    <3>5. n3 = [method |-> m, url |-> u, version |-> w, keep_alive |-> f,
                content_length |-> z, headers |-> o, body |-> e]
      BY ONLY <3>4
    <3> HIDE DEF n3
    <3>7. n4 = [method |-> m, url |-> u, version |-> w, keep_alive |-> v,
                content_length |-> z, headers |-> o, body |-> e]
      BY ONLY <3>5
    <3> HIDE DEF n4
    <3>6. [nc EXCEPT !.method = m, !.url = u, !.version = w, !.keep_alive = v]
             = [method |-> m, url |-> u, version |-> w,
                keep_alive |-> v, content_length |-> 0, headers |-> {}, body |-> <<>>]
      BY <3>2, <3>7 DEF z, o, e
    <3> QED
      BY <3>6 DEF m, u, w, nc
  <2> QED
    BY <1>2, <1>4, <1>5, <1>6, <2>1 DEF v
<1> QED
  BY <1>7, <1>8, <1>9, <1>10 DEF a

-----------------------------------------------------------------------------
(* Where the parser stands while no body has been cut: in request i, its   *)
(* contents the ones of the bytes consumed.                                *)
Before(i) == \A j \in 1 .. i - 1 : ~Malformed(script[j]) /\ out[j] = Meaning(script[j])

Between(i) ==
    /\ packet.state \in {"START", "METHOD"} /\ packet.content = NewContent
    /\ taken = EndOf(i - 1) /\ Len(out) = i - 1

InPath(r, i) ==
    /\ packet = [state |-> "PATH", content |-> [NewContent EXCEPT !.method = <<r.method>>]]
    /\ taken = EndOf(i - 1) + 2 /\ Len(out) = i - 1

InVersion(r, i) ==
    /\ packet = [state |-> "VERSION",
                 content |-> [NewContent EXCEPT !.method = <<r.method>>, !.url = <<r.url>>]]
    /\ taken = EndOf(i - 1) + 4 /\ Len(out) = i - 1

(* Among the headers, k of them read, or at one that is no number: then a  *)
(* fault has been dispatched for every look at it.                         *)
AtHeader(r, i, k) ==
    /\ packet.state = "HEADER"
    /\ taken = EndOf(i - 1) + 7 + HeadersBefore(r, k)
    /\ ~Malformed(FirstHeaders(r, k))

Reading(r, i, k) ==
    AtHeader(r, i, k) /\ Len(out) = i - 1 /\ packet.content = Partial(r, k)

Stuck(r, i, k) ==
    /\ AtHeader(r, i, k) /\ Len(out) >= i /\ k < Len(r.headers) /\ BadField(r.headers[k + 1])
    /\ \A j \in i .. Len(out) : IsFault(out[j])

InBody(r, i) ==
    /\ packet = [state |-> "BODY", content |-> Partial(r, Len(r.headers))]
    /\ taken = EndOf(i - 1) + 7 + HeadersBefore(r, Len(r.headers))
    /\ ~Malformed(r) /\ Len(out) = i - 1
    /\ taken + 2 <= seen /\ pc = "parse"

AtEnd(r, i) ==
    /\ packet = [state |-> "END", content |-> Meaning(r)]
    /\ taken = EndOf(i) /\ ~Malformed(r) /\ Len(out) = i - 1

InRequest(r, i) ==
    \/ InPath(r, i) \/ InVersion(r, i)
    \/ \E k \in 0 .. Len(r.headers) : Reading(r, i, k) \/ Stuck(r, i, k)
    \/ InBody(r, i) \/ AtEnd(r, i)

Place(i) == Between(i) \/ (i <= Len(script) /\ InRequest(script[i], i))

Stands(i) ==
    /\ pc # "aborted" /\ taken <= seen
    /\ pc = "undefined" => i <= Len(script) /\ Nameless(script[i]) /\ Len(out) = i - 1
    /\ pc = "parse" => seen = got /\ ~MidBody(seen)
    /\ Before(i) /\ Place(i)
    /\ Len(out) < i => Copies(buf, got, stream)
    /\ pc = "read" /\ i \in Good => seen < EndOf(i)

InStep == ~cut => \E i \in 1 .. Len(script) + 1 : Stands(i)

(* What does not change while the script does not. *)
LEMMA ScriptKept ==
    ASSUME UNCHANGED script
    PROVE  /\ \A i : EndOf(i)' = EndOf(i)
           /\ Good' = Good
           /\ \A n : MidBody(n)' = MidBody(n)
           /\ \A r : Short(r)' = Short(r)
<1>1. \A i : EndOf(i)' = EndOf(i)
  BY DEF EndOf
<1>2. \A i : BodyOf(i)' = BodyOf(i)
  BY <1>1 DEF BodyOf
<1> QED
  BY <1>1, <1>2 DEF Good, MidBody

LEMMA BeforeKept ==
    ASSUME UNCHANGED <<script, out>>, NEW i, Before(i)
    PROVE  Before(i)'
BY DEF Before

(* A handler that goes on, and one that waits for more. *)
LEMMA GoesOn ==
    ASSUME Base, NEW i \in 1 .. Len(script) + 1, Stands(i), pc = "parse",
           UNCHANGED <<script, stream, got, pc, out, seen, cut>>,
           taken' <= got, Len(out) < i => Copies(buf', got, stream), Place(i)'
    PROVE  Stands(i)'
<1>1. Before(i)'
  BY BeforeKept DEF Stands
<1>2. MidBody(seen)' = MidBody(seen)
  <2> DEFINE s == seen
  <2>1. MidBody(s)' = MidBody(s)
    BY ScriptKept
  <2> QED
    BY ScriptKept DEF MidBody, BodyOf
<1>3. Copies(buf, got, stream)' = Copies(buf', got, stream)
  BY DEF Copies
<1>4. seen = got /\ ~MidBody(seen) /\ pc' = "parse"
  BY DEF Stands
<1> QED
  BY <1>1, <1>2, <1>3, <1>4 DEF Stands

LEMMA Waits ==
    ASSUME Base, NEW i \in 1 .. Len(script) + 1, Stands(i), pc = "parse", Incomplete,
           Place(i)', i <= Len(script) => seen < EndOf(i)
    PROVE  Stands(i)'
<1>1. Before(i)' /\ Good' = Good /\ EndOf(i)' = EndOf(i)
  BY BeforeKept, ScriptKept DEF Stands, Incomplete
<1>2. Copies(buf, got, stream)' = Copies(buf, got, stream)
  BY DEF Copies, Incomplete
<1>3. i \in Good => i <= Len(script)
  BY BaseFacts DEF Good
<1> QED
  BY <1>1, <1>2, <1>3 DEF Stands, Incomplete

LEMMA PlaceIs ==
    ASSUME NEW i, Place(i)
    PROVE  /\ packet.state \in {"START", "METHOD"} => Between(i)
           /\ packet.state = "PATH" => i <= Len(script) /\ InPath(script[i], i)
           /\ packet.state = "VERSION" => i <= Len(script) /\ InVersion(script[i], i)
           /\ packet.state = "HEADER" =>
                 /\ i <= Len(script)
                 /\ \E k \in 0 .. Len(script[i].headers) :
                       Reading(script[i], i, k) \/ Stuck(script[i], i, k)
           /\ packet.state = "BODY" => i <= Len(script) /\ InBody(script[i], i)
           /\ packet.state = "END" => i <= Len(script) /\ AtEnd(script[i], i)
<1>1. CASE Between(i)
  BY <1>1 DEF Between
<1>2. CASE i <= Len(script) /\ InRequest(script[i], i)
  <2> DEFINE r == script[i]
  <2> HIDE DEF r
  <2>0. i <= Len(script) /\ InRequest(r, i)
    BY <1>2 DEF r
  <2>1. CASE InPath(r, i)
    BY <2>0, <2>1 DEF InPath, r
  <2>2. CASE InVersion(r, i)
    BY <2>0, <2>2 DEF InVersion, r
  <2>3. CASE \E k \in 0 .. Len(r.headers) : Reading(r, i, k) \/ Stuck(r, i, k)
    <3>1. packet.state = "HEADER"
      BY <2>3 DEF Reading, Stuck, AtHeader
    <3> QED
      BY <2>0, <2>3, <3>1 DEF r
  <2>4. CASE InBody(r, i)
    BY <2>0, <2>4 DEF InBody, r
  <2>5. CASE AtEnd(r, i)
    BY <2>0, <2>5 DEF AtEnd, r
  <2> QED
    BY <2>0, <2>1, <2>2, <2>3, <2>4, <2>5 DEF InRequest
<1> QED
  BY <1>1, <1>2 DEF Place

LEMMA PlaceFrom ==
    ASSUME UNCHANGED script, NEW i, i <= Len(script), NEW r, r = script[i]
    PROVE  /\ InPath(r, i)' => Place(i)'
           /\ InVersion(r, i)' => Place(i)'
           /\ \A k \in 0 .. Len(r.headers) : Reading(r, i, k)' \/ Stuck(r, i, k)' => Place(i)'
           /\ InBody(r, i)' => Place(i)'
           /\ AtEnd(r, i)' => Place(i)'
BY DEF Place, InRequest

LEMMA StepStart ==
    ASSUME Base, NEW i \in 1 .. Len(script) + 1, Stands(i), ParseStart
    PROVE  Stands(i)'
<1>1. Between(i)
  BY PlaceIs DEF Stands, ParseStart, InState
<1>2. packet' = [state |-> "METHOD", content |-> packet.content]
  <2> DEFINE p == packet
  <2>1. p = [state |-> p.state, content |-> p.content]
    BY BaseFacts
  <2> HIDE DEF p
  <2>2. [p EXCEPT !.state = "METHOD"] = [state |-> "METHOD", content |-> p.content]
    BY ONLY <2>1
  <2> QED
    BY <2>2 DEF p, ParseStart
<1>3. Place(i)'
  BY <1>1, <1>2, ScriptKept DEF Between, Place, ParseStart
<1>4. UNCHANGED <<script, stream, got, buf, pc, out, taken, seen, cut>> /\ pc = "parse"
  BY DEF ParseStart, InState
<1>5. taken' <= got /\ (Len(out) < i => Copies(buf', got, stream))
  BY <1>4 DEF Stands
<1> QED
  BY <1>3, <1>4, <1>5, GoesOn

(* What Consume leaves of the buffer. *)
LEMMA ConsumeKeeps ==
    ASSUME Base, NEW n \in Nat, NEW s, NEW content, Consume(n, s, content),
           Copies(buf, got, stream)
    PROVE  Copies(buf', got, stream)
BY BaseFacts, ConsumeTracks DEF Consume

(* Request i, where it begins and ends, and how long its parts are. *)
RequestAt(i, r, E, F, H, B) ==
    /\ r = script[i] /\ r \in Request
    /\ E = EndOf(i - 1) /\ F = EndOf(i)
    /\ H = HeadersBefore(r, Len(r.headers)) /\ B = Len(r.body)
    /\ F = E + (H + 9 + B) /\ F <= Len(stream) /\ BodyOf(i) = E + H + 9

LEMMA Placed ==
    ASSUME Base, NEW i \in 1 .. Len(script)
    PROVE  \E r \in Request, E \in Nat, F \in Nat, H \in Nat, B \in Nat : RequestAt(i, r, E, F, H, B)
<1> DEFINE r == script[i]
           E == EndOf(i - 1)
           F == EndOf(i)
           H == HeadersBefore(r, Len(r.headers))
           B == Len(r.body)
<1>1. r \in Request /\ E \in Nat /\ F \in Nat /\ H \in Nat /\ B \in Nat
  BY EndsAre, RequestCells
<1>2. RequestAt(i, r, E, F, H, B)
  BY RequestCells DEF RequestAt
<1> QED
  BY <1>1, <1>2

LEMMA StepMethod ==
    ASSUME Base, NEW i \in 1 .. Len(script) + 1, Stands(i), ParseMethod
    PROVE  Stands(i)'
<1>0. pc = "parse" /\ packet.state = "METHOD" /\ taken <= got /\ seen = got
  BY DEF Stands, ParseMethod, InState
<1>1. Between(i)
  BY <1>0, PlaceIs DEF Stands
<1>2. taken = EndOf(i - 1) /\ Len(out) = i - 1 /\ packet.content = NewContent
  BY <1>1 DEF Between
<1>3. Copies(buf, got, stream)
  BY <1>2 DEF Stands
<1>4. CASE i <= Len(script)
  <2>0. i \in 1 .. Len(script)
    BY <1>4
  <2>p. PICK r \in Request, E \in Nat, F \in Nat, H \in Nat, B \in Nat : RequestAt(i, r, E, F, H, B)
    BY <2>0, Placed
  <2>1. /\ r = script[i] /\ r \in Request /\ E = EndOf(i - 1) /\ E + 9 <= F
        /\ F = EndOf(i) /\ F <= Len(stream)
    <3>1. F = E + (H + 9 + B)
      BY <2>p DEF RequestAt
    <3>2. E + 9 <= F
      BY ONLY <3>1, E \in Nat, F \in Nat, H \in Nat, B \in Nat
    <3> QED
      BY <2>p, <3>2 DEF RequestAt
  <2>q. stream[E + 1] = r.method /\ stream[E + 2] = SP
    BY <2>0, <2>1, RequestCells
  <2>2. r.method \in Token
    BY <2>1 DEF Request
  <2>3. taken + 2 <= Len(stream) /\ stream[taken + 1] = r.method /\ stream[taken + 2] = SP
    <3>1. Len(stream) \in Nat /\ E + 9 <= F /\ F <= Len(stream) /\ taken = E
      BY <1>2, <2>1, BaseFacts
    <3>2. E + 2 <= Len(stream)
      BY ONLY <3>1, E \in Nat, F \in Nat
    <3> QED
      BY <2>q, <3>1, <3>2
  <2>4. /\ Spaces = {} => got < taken + 2
        /\ Spaces # {} => /\ taken + 2 <= got /\ Min(Spaces) + 1 - buf.rp = 2
                          /\ Text(buf.rp, Min(Spaces)) = <<r.method>>
    BY <1>0, <1>3, <2>2, <2>3, WordScan
  <2>5. CASE Spaces = {}
    <3>1. Incomplete
      BY <2>5 DEF ParseMethod
    <3>2. seen < EndOf(i)
      BY <1>0, <1>2, <2>1, <2>4, <2>5, BaseFacts
    <3>3. Place(i)'
      BY <1>1, <3>1, ScriptKept DEF Place, Between, Incomplete
    <3> QED
      BY <1>0, <3>1, <3>2, <3>3, Waits
  <2>6. CASE Spaces # {}
    <3>1. Consume(2, "PATH", [NewContent EXCEPT !.method = <<r.method>>])
      BY <1>2, <2>4, <2>6 DEF ParseMethod
    <3>2. InPath(r, i)'
      BY <1>2, <3>1, ScriptKept DEF InPath, Consume
    <3>3. Place(i)'
      BY <1>4, <2>1, <3>1, <3>2, PlaceFrom DEF Consume
    <3>4. Copies(buf', got, stream)
      BY <1>3, <3>1, ConsumeKeeps
    <3>5. taken' <= got
      BY <2>4, <2>6, <3>1 DEF Consume
    <3>6. UNCHANGED <<script, stream, got, pc, out, seen, cut>>
      BY <3>1 DEF Consume
    <3> QED
      BY <1>0, <3>3, <3>4, <3>5, <3>6, GoesOn
  <2> QED
    BY <2>5, <2>6
<1>5. CASE i = Len(script) + 1
  <2>1. taken = Len(stream) /\ got = taken
    <3>1. i - 1 = Len(script)
      BY <1>5, BaseFacts
    <3> QED
      BY <1>0, <1>2, <3>1, EndOfLast, BaseFacts
  <2>2. Spaces = {}
    BY <2>1, Unread, BaseFacts DEF Spaces
  <2>3. Incomplete
    BY <2>2 DEF ParseMethod
  <2>4. Place(i)'
    BY <1>1, <2>3, ScriptKept DEF Place, Between, Incomplete
  <2>5. ~(i <= Len(script))
    BY <1>5, BaseFacts
  <2> QED
    BY <1>0, <2>3, <2>4, <2>5, Waits
<1> QED
  BY <1>4, <1>5

LEMMA StepUrl ==
    ASSUME Base, NEW i \in 1 .. Len(script) + 1, Stands(i), ParseUrl
    PROVE  Stands(i)'
<1>0. pc = "parse" /\ packet.state = "PATH" /\ taken <= got /\ seen = got
  BY DEF Stands, ParseUrl, InState
<1>1. i \in 1 .. Len(script) /\ InPath(script[i], i)
  BY <1>0, PlaceIs DEF Stands
<1>p. PICK r \in Request, E \in Nat, F \in Nat, H \in Nat, B \in Nat : RequestAt(i, r, E, F, H, B)
  BY <1>1, Placed
<1>4. /\ r = script[i] /\ r \in Request /\ E = EndOf(i - 1) /\ E + 9 <= F
      /\ F = EndOf(i) /\ F <= Len(stream)
  <2>1. F = E + (H + 9 + B)
    BY <1>p DEF RequestAt
  <2>2. E + 9 <= F
    BY ONLY <2>1, E \in Nat, F \in Nat, H \in Nat, B \in Nat
  <2> QED
    BY <1>p, <2>2 DEF RequestAt
<1>2. /\ taken = E + 2 /\ Len(out) = i - 1
      /\ packet.content = [NewContent EXCEPT !.method = <<r.method>>]
  BY <1>1, <1>4 DEF InPath
<1>3. Copies(buf, got, stream)
  BY <1>2 DEF Stands
<1>q. stream[E + 3] = r.url /\ stream[E + 4] = SP
  BY <1>1, <1>4, RequestCells
<1>5. r.url \in Token
  BY <1>4 DEF Request
<1>6. taken + 2 <= Len(stream) /\ stream[taken + 1] = r.url /\ stream[taken + 2] = SP
  <2>1. taken + 1 = E + 3 /\ taken + 2 = E + 4
    BY <1>2, <1>4
  <2> QED
    <3>1. taken + 2 <= Len(stream)
      <4>1. Len(stream) \in Nat /\ taken \in Nat
        BY BaseFacts
      <4>2. E + 9 <= F /\ F <= Len(stream) /\ taken + 2 = E + 4
        BY <1>4, <2>1
      <4> QED
        BY ONLY <4>1, <4>2, E \in Nat, F \in Nat
    <3> QED
      BY <1>q, <2>1, <3>1
<1>7. /\ Spaces = {} => got < taken + 2
      /\ Spaces # {} => /\ taken + 2 <= got /\ Min(Spaces) + 1 - buf.rp = 2
                        /\ Text(buf.rp, Min(Spaces)) = <<r.url>>
  BY <1>0, <1>3, <1>5, <1>6, WordScan
<1>8. CASE Spaces = {}
  <2>1. Incomplete
    BY <1>8 DEF ParseUrl
  <2>2. seen < EndOf(i)
    <3>1. seen \in Nat /\ seen < taken + 2
      BY <1>0, <1>7, <1>8, BaseFacts
    <3>2. taken + 2 <= F
      <4>1. taken = E + 2 /\ E + 9 <= F
        BY <1>2, <1>4
      <4> QED
        BY ONLY <4>1, E \in Nat, F \in Nat
    <3> QED
      BY <1>4, <3>1, <3>2, BaseFacts
  <2>3. InPath(r, i)'
    BY <1>1, <1>4, <2>1, ScriptKept DEF InPath, Incomplete
  <2>4. Place(i)'
    BY <1>1, <2>1, <2>3, <1>4, PlaceFrom DEF Incomplete
  <2> QED
    BY <1>0, <2>1, <2>2, <2>4, Waits
<1>9. CASE Spaces # {}
  <2>1. Consume(2, "VERSION", [packet.content EXCEPT !.url = <<r.url>>])
    BY <1>7, <1>9 DEF ParseUrl
  <2>2. [packet.content EXCEPT !.url = <<r.url>>]
           = [NewContent EXCEPT !.method = <<r.method>>, !.url = <<r.url>>]
    BY <1>2
  <2>3. InVersion(r, i)'
    <3>1. taken' = E + 4 /\ EndOf(i - 1)' = E /\ Len(out') = i - 1
      BY <1>2, <1>4, <2>1, ScriptKept DEF Consume
    <3>2. packet' = [state |-> "VERSION", content |-> [packet.content EXCEPT !.url = <<r.url>>]]
      BY <2>1 DEF Consume
    <3> QED
      BY <2>2, <3>1, <3>2 DEF InVersion
  <2>4. Place(i)'
    BY <1>1, <2>1, <2>3, <1>4, PlaceFrom DEF Consume
  <2>5. Copies(buf', got, stream)
    BY <1>3, <2>1, ConsumeKeeps
  <2>6. taken' <= got
    BY <1>7, <1>9, <2>1 DEF Consume
  <2>7. UNCHANGED <<script, stream, got, pc, out, seen, cut>>
    BY <2>1 DEF Consume
  <2> QED
    BY <1>0, <2>4, <2>5, <2>6, <2>7, GoesOn
<1> QED
  BY <1>8, <1>9

LEMMA StepVersion ==
    ASSUME Base, NEW i \in 1 .. Len(script) + 1, Stands(i), ParseVersion
    PROVE  Stands(i)'
<1>0. pc = "parse" /\ packet.state = "VERSION" /\ taken <= got /\ seen = got
  BY DEF Stands, ParseVersion, InState
<1>1. i \in 1 .. Len(script) /\ InVersion(script[i], i)
  BY <1>0, PlaceIs DEF Stands
<1>p. PICK r \in Request, E \in Nat, F \in Nat, H \in Nat, B \in Nat : RequestAt(i, r, E, F, H, B)
  BY <1>1, Placed
<1>4. /\ r = script[i] /\ r \in Request /\ E = EndOf(i - 1) /\ E + 9 <= F
      /\ F = EndOf(i) /\ F <= Len(stream)
  <2>1. F = E + (H + 9 + B)
    BY <1>p DEF RequestAt
  <2>2. E + 9 <= F
    BY ONLY <2>1, E \in Nat, F \in Nat, H \in Nat, B \in Nat
  <2> QED
    BY <1>p, <2>2 DEF RequestAt
<1>2. /\ taken = E + 4 /\ Len(out) = i - 1
      /\ packet.content = [NewContent EXCEPT !.method = <<r.method>>, !.url = <<r.url>>]
  BY <1>1, <1>4 DEF InVersion
<1>3. Copies(buf, got, stream)
  BY <1>2 DEF Stands
<1>5. r.version \in Token
  BY <1>4 DEF Request
<1>6. /\ taken + 3 <= Len(stream) /\ taken + 3 <= F
      /\ stream[taken + 1] = r.version /\ stream[taken + 2] = CR /\ stream[taken + 3] = LF
  <2>0. stream[E + 5] = r.version /\ stream[E + 6] = CR /\ stream[E + 7] = LF
    BY <1>1, <1>4, RequestCells
  <2>1. taken + 1 = E + 5 /\ taken + 2 = E + 6 /\ taken + 3 = E + 7
    <3>1. taken = E + 4
      BY <1>2
    <3> QED
      BY ONLY <3>1, E \in Nat
  <2>2. Len(stream) \in Nat /\ E + 9 <= F /\ F <= Len(stream)
    BY <1>4, BaseFacts
  <2>3. taken + 3 <= Len(stream) /\ taken + 3 <= F
    BY ONLY <2>1, <2>2, E \in Nat, F \in Nat
  <2> QED
    BY <2>0, <2>1, <2>3
<1>7. /\ Crlfs(buf.rp) = {} => got < taken + 3
      /\ Crlfs(buf.rp) # {} => /\ taken + 3 <= got /\ Min(Crlfs(buf.rp)) + 2 - buf.rp = 3
                               /\ Text(buf.rp, Min(Crlfs(buf.rp))) = <<r.version>>
  BY <1>0, <1>3, <1>5, <1>6, VersionScan
<1>8. CASE Crlfs(buf.rp) = {}
  <2>1. Incomplete
    BY <1>8 DEF ParseVersion
  <2>2. seen < EndOf(i)
    <3>1. seen < taken + 3 /\ taken + 3 <= F /\ F = EndOf(i)
      BY <1>0, <1>4, <1>6, <1>7, <1>8
    <3>2. seen \in Nat /\ taken \in Nat
      BY BaseFacts
    <3> QED
      BY <3>1, <3>2
  <2>3. InVersion(r, i)'
    BY <1>1, <1>4, <2>1, ScriptKept DEF InVersion, Incomplete
  <2>4. Place(i)'
    BY <1>1, <1>4, <2>1, <2>3, PlaceFrom DEF Incomplete
  <2> QED
    BY <1>0, <2>1, <2>2, <2>4, Waits
<1>9. CASE Crlfs(buf.rp) # {}
  <2> DEFINE c == [packet.content EXCEPT !.version = <<r.version>>,
                     !.keep_alive = @ \/ <<r.version>> = <<VERSION_11>>]
  <2>1. Consume(3, "HEADER", c)
    BY <1>7, <1>9 DEF ParseVersion
  <2>2. c = Partial(r, 0)
    <3>1. ~packet.content.keep_alive
      BY <1>2 DEF NewContent
    <3>2. (<<r.version>> = <<VERSION_11>>) = (r.version = VERSION_11)
      OBVIOUS
    <3>3. c = [packet.content EXCEPT !.version = <<r.version>>,
                 !.keep_alive = r.version = VERSION_11]
      BY <3>1, <3>2
    <3> QED
      BY <1>2, <1>4, <3>3, PartialEnds
  <2> HIDE DEF c
  <2>3. /\ HeadersBefore(r, 0) = 0 /\ 0 \in 0 .. Len(r.headers)
        /\ ~Malformed(FirstHeaders(r, 0))
    <3>1. 0 \in 0 .. Len(r.headers)
      BY <1>4, FieldsAre
    <3> QED
      BY <1>4, <3>1, HeadersBeforeStep, PartialEnds
  <2>4. taken' = E + 7 /\ EndOf(i - 1)' = E /\ Len(out') = i - 1
    BY <1>2, <1>4, <2>1, ScriptKept DEF Consume
  <2>5. packet' = [state |-> "HEADER", content |-> Partial(r, 0)]
    BY <2>1, <2>2 DEF Consume
  <2>6. Reading(r, i, 0)'
    <3>1. taken' = E + 7 + HeadersBefore(r, 0)
      BY <2>3, <2>4
    <3> QED
      BY <2>3, <2>4, <2>5, <3>1 DEF Reading, AtHeader
  <2>7. Place(i)'
    BY <1>1, <1>4, <2>1, <2>3, <2>6, PlaceFrom DEF Consume
  <2>8. Copies(buf', got, stream)
    BY <1>3, <2>1, ConsumeKeeps
  <2>9. taken' <= got
    BY <1>7, <1>9, <2>1 DEF Consume
  <2>10. UNCHANGED <<script, stream, got, pc, out, seen, cut>>
    BY <2>1 DEF Consume
  <2> QED
    BY <1>0, <2>7, <2>8, <2>9, <2>10, GoesOn
<1> QED
  BY <1>8, <1>9

(* What the client never does: names, lengths and streams as              *)
(* ClientAssumption has them.                                              *)
LEMMA ClientKeeps ==
    ASSUME Base, NEW i \in 1 .. Len(script)
    PROVE  /\ \A k \in 1 .. Len(script[i].headers) : NameEnds(script[i].headers[k])
           /\ ~Malformed(script[i]) => Len(script[i].body) <= Announced(script[i])
           /\ Len(stream) < SizeMod
<1> DEFINE r == script[i]
<1>1. script \in Scripts /\ i \in DOMAIN script
  BY BaseFacts
<1>2. /\ \A h \in Range(r.headers) : h.key # <<>> => LowerByte(Last(h.key)) = Last(h.key)
      /\ ~Malformed(r) => Len(r.body) <= Announced(r)
      /\ Len(StreamOf(script)) < SizeMod
  BY <1>1, ClientAssumption
<1>3. r \in Request
  BY BaseFacts
<1>4. r.headers \in Seq(Header)
  BY <1>3, FieldsAre
<1> HIDE DEF r
<1>5. \A k \in 1 .. Len(r.headers) : r.headers[k] \in Range(r.headers)
  BY <1>4 DEF Range
<1> QED
  BY <1>2, <1>5 DEF NameEnds, Base, r

(* In state HEADER: at the empty line, or at the line of header k + 1.     *)
AtEmptyLine(i, r) ==
    /\ Reading(r, i, Len(r.headers))
    /\ stream[taken + 1] = CR /\ stream[taken + 2] = LF
    /\ taken + 2 <= EndOf(i)

AtLine(i, r, k, h) ==
    /\ k < Len(r.headers) /\ h = r.headers[k + 1]
    /\ Reading(r, i, k) \/ Stuck(r, i, k)
    /\ LineAt(h) /\ NameEnds(h)
    /\ taken + Len(h.key) + 5 <= EndOf(i)
    /\ taken + Len(h.key) + 5 = EndOf(i - 1) + 7 + HeadersBefore(r, k + 1)

InHeader(i, r) == AtEmptyLine(i, r) \/ \E k \in Nat, h \in Header : AtLine(i, r, k, h)

LEMMA HeaderPlace ==
    ASSUME Base, NEW i \in 1 .. Len(script) + 1, Stands(i), InState("HEADER")
    PROVE  /\ i \in 1 .. Len(script) /\ pc = "parse" /\ packet.state = "HEADER"
           /\ taken <= got /\ seen = got /\ EndOf(i) \in Nat
           /\ \E r \in Request : r = script[i] /\ InHeader(i, r)
<1>0. pc = "parse" /\ packet.state = "HEADER" /\ taken <= got /\ seen = got
  BY DEF Stands, InState
<1>1. i \in 1 .. Len(script)
      /\ \E k \in 0 .. Len(script[i].headers) :
            Reading(script[i], i, k) \/ Stuck(script[i], i, k)
  BY <1>0, PlaceIs DEF Stands
<1>p. PICK r \in Request, E \in Nat, F \in Nat, H \in Nat, B \in Nat : RequestAt(i, r, E, F, H, B)
  BY <1>1, Placed
<1>2. /\ r = script[i] /\ E = EndOf(i - 1) /\ F = EndOf(i)
      /\ H = HeadersBefore(r, Len(r.headers)) /\ F = E + (H + 9 + B)
  BY <1>p DEF RequestAt
<1>3. PICK k \in 0 .. Len(r.headers) : Reading(r, i, k) \/ Stuck(r, i, k)
  BY <1>1, <1>2
<1>4. taken = E + 7 + HeadersBefore(r, k)
  BY <1>2, <1>3 DEF Reading, Stuck, AtHeader
<1>5. CASE k = Len(r.headers)
  <2>1. taken = E + 7 + H
    BY <1>2, <1>4, <1>5
  <2>2. stream[E + (H + 8)] = CR /\ stream[E + (H + 9)] = LF
    BY <1>1, <1>2, RequestCells
  <2>3. taken + 1 = E + (H + 8) /\ taken + 2 = E + (H + 9) /\ taken + 2 <= F
    <3>1. F = E + (H + 9 + B)
      BY <1>2
    <3> QED
      BY ONLY <3>1, <2>1, E \in Nat, F \in Nat, H \in Nat, B \in Nat
  <2>4. ~Stuck(r, i, k)
    BY <1>5, FieldsAre DEF Stuck
  <2>5. AtEmptyLine(i, r)
    BY <1>2, <1>3, <1>5, <2>2, <2>3, <2>4 DEF AtEmptyLine
  <2> QED
    BY <1>0, <1>1, <1>2, <2>5 DEF InHeader
<1>6. CASE k < Len(r.headers)
  <2>0. k \in Nat
    OBVIOUS
  <2> DEFINE h == r.headers[k + 1]
             L == Len(h.key)
  <2>1. /\ h \in Header /\ L \in Nat /\ k + 1 \in 1 .. Len(r.headers)
        /\ taken + L + 5 = E + 7 + HeadersBefore(r, k + 1)
        /\ taken + L + 5 <= F
        /\ \A j \in 1 .. L : stream[taken + j] = h.key[j]
        /\ stream[taken + (L + 1)] = COLON /\ stream[taken + (L + 2)] = SP
        /\ stream[taken + (L + 3)] = h.value
        /\ stream[taken + (L + 4)] = CR /\ stream[taken + (L + 5)] = LF
    <3> DEFINE T == E + 7 + HeadersBefore(r, k)
    <3>1. /\ h \in Header /\ L \in Nat /\ k + 1 \in 1 .. Len(r.headers)
          /\ T + L + 5 = E + 7 + HeadersBefore(r, k + 1)
          /\ T + L + 5 <= F
          /\ \A j \in 1 .. L : stream[T + j] = h.key[j]
          /\ stream[T + (L + 1)] = COLON /\ stream[T + (L + 2)] = SP
          /\ stream[T + (L + 3)] = h.value
          /\ stream[T + (L + 4)] = CR /\ stream[T + (L + 5)] = LF
      <4>1. k < Len(script[i].headers)
        BY <1>2, <1>6
      <4>2. LET r0 == script[i]
                h0 == r0.headers[k + 1]
                T0 == EndOf(i - 1) + 7 + HeadersBefore(r0, k)
                L0 == Len(h0.key)
            IN  /\ h0 \in Header /\ L0 \in Nat /\ T0 \in Nat /\ k + 1 \in 1 .. Len(r0.headers)
                /\ T0 + L0 + 5 = EndOf(i - 1) + 7 + HeadersBefore(r0, k + 1)
                /\ T0 + L0 + 5 <= EndOf(i) /\ EndOf(i) <= Len(stream)
                /\ \A j \in 1 .. L0 : stream[T0 + j] = h0.key[j]
                /\ stream[T0 + (L0 + 1)] = COLON /\ stream[T0 + (L0 + 2)] = SP
                /\ stream[T0 + (L0 + 3)] = h0.value
                /\ stream[T0 + (L0 + 4)] = CR /\ stream[T0 + (L0 + 5)] = LF
        BY <1>1, <2>0, <4>1, HeaderCells
      <4> QED
        BY <1>2, <4>2
    <3>2. T = taken
      BY <1>4
    <3> HIDE DEF T, h, L
    <3> QED
      BY <3>1, <3>2
  <2>2. NameEnds(h)
    BY <1>1, <1>2, <2>1, ClientKeeps
  <2> HIDE DEF h
  <2>3. LineAt(h)
    BY <1>0, <2>1 DEF LineAt
  <2>4. AtLine(i, r, k, h)
    BY <1>2, <1>3, <1>6, <2>1, <2>2, <2>3 DEF AtLine, h
  <2> QED
    BY <1>0, <1>1, <1>2, <2>0, <2>1, <2>4 DEF InHeader
<1> QED
  <2>1. k = Len(r.headers) \/ k < Len(r.headers)
    BY FieldsAre
  <2> QED
    BY <1>5, <1>6, <2>1

LEMMA StepHeadersEnd ==
    ASSUME Base, NEW i \in 1 .. Len(script) + 1, Stands(i), HeadersEnd
    PROVE  Stands(i)'
<1>0. InState("HEADER") /\ buf.rp \in Crlfs(buf.rp)
  BY DEF HeadersEnd
<1>1. /\ i \in 1 .. Len(script) /\ pc = "parse" /\ packet.state = "HEADER"
      /\ taken <= got /\ seen = got /\ EndOf(i) \in Nat
      /\ \E r \in Request : r = script[i] /\ InHeader(i, r)
  BY <1>0, HeaderPlace
<1>2. PICK r \in Request : r = script[i] /\ InHeader(i, r)
  BY <1>1
<1>3. AtEmptyLine(i, r)
  <2>1. SUFFICES ASSUME NEW k \in Nat, NEW h \in Header, AtLine(i, r, k, h)
                 PROVE  FALSE
    BY <1>2 DEF InHeader
  <2>2. LineAt(h)
    BY <2>1 DEF AtLine
  <2> QED
    BY <1>0, <2>2, LineScan
<1>4. taken + 2 <= got
  BY <1>0, <1>1, <1>3, EmptyLineScan DEF AtEmptyLine
<1>5. /\ packet.content = Partial(r, Len(r.headers)) /\ Len(out) = i - 1
      /\ taken = EndOf(i - 1) + 7 + HeadersBefore(r, Len(r.headers))
      /\ ~Malformed(FirstHeaders(r, Len(r.headers)))
  BY <1>3 DEF AtEmptyLine, Reading, AtHeader
<1>6. ~Malformed(r)
  BY <1>5, PartialEnds
<1>7. packet' = [state |-> "BODY", content |-> packet.content]
  <2> DEFINE p == packet
  <2>1. p = [state |-> p.state, content |-> p.content]
    BY BaseFacts
  <2> HIDE DEF p
  <2>2. [p EXCEPT !.state = "BODY"] = [state |-> "BODY", content |-> p.content]
    BY ONLY <2>1
  <2> QED
    BY <2>2 DEF p, HeadersEnd
<1>8. UNCHANGED <<script, stream, got, buf, pc, out, taken, seen, cut>>
  BY DEF HeadersEnd
<1>9. InBody(r, i)'
  BY <1>1, <1>4, <1>5, <1>6, <1>7, <1>8, ScriptKept DEF InBody
<1>10. Place(i)'
  BY <1>1, <1>2, <1>8, <1>9, PlaceFrom
<1>11. taken' <= got /\ (Len(out) < i => Copies(buf', got, stream))
  BY <1>1, <1>8 DEF Stands
<1> QED
  BY <1>1, <1>8, <1>10, <1>11, GoesOn

(* The place among the headers is kept by a handler that moves nothing.    *)
LEMMA HeaderKept ==
    ASSUME NEW i, NEW r, NEW k, UNCHANGED <<script, packet, out, taken>>
    PROVE  (Reading(r, i, k) => Reading(r, i, k)') /\ (Stuck(r, i, k) => Stuck(r, i, k)')
BY ScriptKept DEF Reading, Stuck, AtHeader

LEMMA StepHeaderIncomplete ==
    ASSUME Base, NEW i \in 1 .. Len(script) + 1, Stands(i), HeaderIncomplete
    PROVE  Stands(i)'
<1>0. InState("HEADER") /\ buf.rp \notin Crlfs(buf.rp) /\ ~HasLine /\ Incomplete
  <2>1. ~HasLine
    <3>1. CASE Colons + 1 >= buf.wp
      <4>1. buf.wp \in Nat
        BY BaseFacts, SoundFields
      <4>2. SUFFICES ASSUME HasLine PROVE FALSE
        OBVIOUS
      <4>3. Colons \in Nat /\ Colons + 1 < buf.wp
        BY <4>2, LineIs, BaseFacts DEF HasLine
      <4> QED
        BY <3>1, <4>1, <4>3
    <3>2. CASE Crlfs(Colons + 2) = {}
      BY <3>2 DEF HasLine
    <3> QED
      BY <3>1, <3>2 DEF HeaderIncomplete
  <2> QED
    BY <2>1 DEF HeaderIncomplete
<1>1. /\ i \in 1 .. Len(script) /\ pc = "parse" /\ packet.state = "HEADER"
      /\ taken <= got /\ seen = got /\ EndOf(i) \in Nat
      /\ \E r \in Request : r = script[i] /\ InHeader(i, r)
  BY <1>0, HeaderPlace
<1>2. PICK r \in Request : r = script[i] /\ InHeader(i, r)
  BY <1>1
<1>3. UNCHANGED <<script, packet, out, taken>>
  BY <1>0 DEF Incomplete
<1>4. CASE AtEmptyLine(i, r)
  <2>1. got < taken + 2
    <3>1. ~(taken + 2 <= got)
      BY <1>0, <1>1, <1>4, EmptyLineScan DEF AtEmptyLine
    <3> QED
      BY <3>1, BaseFacts
  <2>2. seen < EndOf(i)
    <3>1. taken + 2 <= EndOf(i)
      BY <1>4 DEF AtEmptyLine
    <3> QED
      BY <1>1, <2>1, <3>1, BaseFacts
  <2>3. Len(r.headers) \in 0 .. Len(r.headers)
    BY FieldsAre
  <2>4. Place(i)'
    BY <1>1, <1>2, <1>3, <1>4, <2>3, HeaderKept, PlaceFrom DEF AtEmptyLine
  <2> QED
    BY <1>0, <1>1, <2>2, <2>4, Waits
<1>5. CASE \E k \in Nat, h \in Header : AtLine(i, r, k, h)
  <2>1. PICK k \in Nat, h \in Header : AtLine(i, r, k, h)
    BY <1>5
  <2>2. LineAt(h) /\ taken + Len(h.key) + 5 <= EndOf(i) /\ k < Len(r.headers)
    BY <2>1 DEF AtLine
  <2>3. got < taken + Len(h.key) + 5
    BY <1>0, <2>2, LineScan
  <2>4. seen < EndOf(i)
    <3>1. Len(h.key) \in Nat
      BY HeaderBytesAre
    <3> QED
      BY <1>1, <2>2, <2>3, <3>1, BaseFacts
  <2>5. k \in 0 .. Len(r.headers)
    BY <2>2, FieldsAre
  <2>6. Place(i)'
    BY <1>1, <1>2, <1>3, <2>1, <2>5, HeaderKept, PlaceFrom DEF AtLine
  <2> QED
    BY <1>0, <1>1, <2>4, <2>6, Waits
<1> QED
  BY <1>2, <1>4, <1>5 DEF InHeader

LEMMA StepHeader ==
    ASSUME Base, NEW i \in 1 .. Len(script) + 1, Stands(i), ParseHeader
    PROVE  Stands(i)'
<1>0. InState("HEADER") /\ HasLine /\ ~BadLength
  BY DEF ParseHeader, HasLine
<1>1. /\ i \in 1 .. Len(script) /\ pc = "parse" /\ packet.state = "HEADER"
      /\ taken <= got /\ seen = got /\ EndOf(i) \in Nat
      /\ \E r \in Request : r = script[i] /\ InHeader(i, r)
  BY <1>0, HeaderPlace
<1>2. PICK r \in Request : r = script[i] /\ InHeader(i, r)
  BY <1>1
<1>3. ~AtEmptyLine(i, r)
  <2>1. SUFFICES ASSUME AtEmptyLine(i, r) PROVE FALSE
    OBVIOUS
  <2>2. /\ buf.rp \in Crlfs(buf.rp) <=> taken + 2 <= got
        /\ taken + 4 <= got
    BY <1>0, <1>1, <2>1, EmptyLineScan DEF AtEmptyLine
  <2>3. taken + 2 <= got
    BY <2>2, BaseFacts
  <2> QED
    BY <1>0, <2>2, <2>3 DEF HasLine
<1>4. PICK k \in Nat, h \in Header : AtLine(i, r, k, h)
  BY <1>2, <1>3 DEF InHeader
<1>5. /\ k < Len(r.headers) /\ h = r.headers[k + 1] /\ LineAt(h) /\ NameEnds(h)
      /\ Reading(r, i, k) \/ Stuck(r, i, k)
      /\ taken + Len(h.key) + 5 = EndOf(i - 1) + 7 + HeadersBefore(r, k + 1)
  BY <1>4 DEF AtLine
<1>6. Reading(r, i, k)
  BY <1>0, <1>5, BadLine DEF Stuck
<1>7. /\ Len(out) = i - 1 /\ packet.content = Partial(r, k)
      /\ ~Malformed(FirstHeaders(r, k))
  BY <1>6 DEF Reading, AtHeader
<1>8. Copies(buf, got, stream)
  BY <1>1, <1>7 DEF Stands
<1>9. /\ Key = Lowered(h.key) /\ Value = <<h.value>> /\ ~BadField(h)
      /\ Copies(UpdateReadPos(Low, LineEnd + 2 - buf.rp), got, stream)
  BY <1>0, <1>5, <1>8, GoodLine
<1>10. /\ LineEnd + 2 - buf.rp = Len(h.key) + 5
       /\ taken + (Len(h.key) + 5) = EndOf(i - 1) + 7 + HeadersBefore(r, k + 1)
       /\ taken + (Len(h.key) + 5) <= got
  <2>1. taken + Len(h.key) + 5 <= got /\ LineEnd = buf.rp + Len(h.key) + 3
    BY <1>0, <1>5, LineScan
  <2>2. Len(h.key) \in Nat /\ buf.rp \in Nat /\ LineEnd \in Nat /\ taken \in Nat
    BY <1>0, HeaderBytesAre, LineIs, BaseFacts
  <2>3. PICK L \in Nat, rp \in Nat, le \in Nat, t \in Nat :
            L = Len(h.key) /\ rp = buf.rp /\ le = LineEnd /\ t = taken
    BY <2>2
  <2>4. le + 2 - rp = L + 5 /\ t + (L + 5) = t + L + 5
    <3>1. le = rp + L + 3
      BY <2>1, <2>3
    <3> QED
      BY ONLY <3>1, L \in Nat, rp \in Nat, le \in Nat, t \in Nat
  <2> QED
    BY <1>5, <2>1, <2>3, <2>4
<1>11. /\ UNCHANGED <<script, stream, got, pc, out, seen, cut>>
       /\ buf' = UpdateReadPos(Low, LineEnd + 2 - buf.rp)
       /\ taken' = taken + (Len(h.key) + 5)
  BY <1>10 DEF ParseHeader
<1>12. packet'.state = "HEADER" /\ packet'.content = Partial(r, k + 1)
  <2> DEFINE p == packet
             w == WithHeader(p.content, Key, Value)
  <2>1. p = [state |-> p.state, content |-> p.content] /\ p.state = "HEADER"
    BY <1>1, BaseFacts
  <2>2. packet' = [p EXCEPT !.content = w]
    BY DEF ParseHeader
  <2>3. w = Partial(r, k + 1)
    BY <1>5, <1>7, <1>9, WithNextHeader
  <2> HIDE DEF p, w
  <2>4. packet'.state = "HEADER" /\ packet'.content = w
    BY <2>1, <2>2
  <2> QED
    BY <2>3, <2>4
<1>13. ~Malformed(FirstHeaders(r, k + 1))
  BY <1>5, <1>7, <1>9, WithNextHeader
<1>14. Reading(r, i, k + 1)'
  BY <1>7, <1>10, <1>11, <1>12, <1>13, ScriptKept DEF Reading, AtHeader
<1>15. k + 1 \in 0 .. Len(r.headers)
  BY <1>5, FieldsAre
<1>16. Place(i)'
  BY <1>1, <1>2, <1>11, <1>14, <1>15, PlaceFrom
<1> QED
  BY <1>1, <1>9, <1>10, <1>11, <1>16, GoesOn

LEMMA StepHeaderUndefined ==
    ASSUME Base, NEW i \in 1 .. Len(script) + 1, Stands(i), ParseHeaderUndefined
    PROVE  Stands(i)'
<1>0. InState("HEADER") /\ HasLine /\ Colons = buf.rp
  BY DEF ParseHeaderUndefined, HasLine
<1>1. /\ i \in 1 .. Len(script) /\ pc = "parse" /\ packet.state = "HEADER"
      /\ taken <= got /\ seen = got /\ EndOf(i) \in Nat
      /\ \E r \in Request : r = script[i] /\ InHeader(i, r)
  BY <1>0, HeaderPlace
<1>2. PICK r \in Request : r = script[i] /\ InHeader(i, r)
  BY <1>1
<1>3. ~AtEmptyLine(i, r)
  <2>1. SUFFICES ASSUME AtEmptyLine(i, r) PROVE FALSE
    OBVIOUS
  <2>2. /\ buf.rp \in Crlfs(buf.rp) <=> taken + 2 <= got
        /\ taken + 4 <= got
    BY <1>0, <1>1, <2>1, EmptyLineScan DEF AtEmptyLine
  <2>3. taken + 2 <= got
    BY <2>2, BaseFacts
  <2> QED
    BY <1>0, <2>2, <2>3 DEF HasLine
<1>4. PICK k \in Nat, h \in Header : AtLine(i, r, k, h)
  BY <1>2, <1>3 DEF InHeader
<1>5. /\ k < Len(r.headers) /\ h = r.headers[k + 1] /\ LineAt(h)
      /\ Reading(r, i, k) \/ Stuck(r, i, k)
  BY <1>4 DEF AtLine
<1>6. h.key = <<>>
  <2>1. Colons = buf.rp + Len(h.key)
    BY <1>0, <1>5, LineScan
  <2>2. h.key \in Seq(Token) /\ Len(h.key) \in Nat
    BY DEF Header
  <2>3. buf.rp \in Nat
    BY BaseFacts, SoundFields
  <2>4. Len(h.key) = 0
    BY <1>0, <2>1, <2>2, <2>3
  <2> QED
    BY <2>2, <2>4
<1>7. ~BadField(h)
  <2>1. Lowered(h.key) = <<>>
    BY <1>6 DEF Lowered
  <2> QED
    BY <2>1 DEF BadField, ContentLength
<1>8. Reading(r, i, k)
  BY <1>5, <1>7 DEF Stuck
<1>9. Len(out) = i - 1 /\ Nameless(r)
  <2>1. k + 1 \in DOMAIN r.headers
    BY <1>5, FieldsAre
  <2> QED
    BY <1>5, <1>6, <1>8, <2>1 DEF Reading, Nameless
<1>10. /\ UNCHANGED <<script, stream, got, buf, packet, out, taken, seen, cut>>
       /\ pc' = "undefined"
  BY DEF ParseHeaderUndefined
<1>11. k \in 0 .. Len(r.headers)
  BY <1>5, FieldsAre
<1>12. Place(i)'
  BY <1>1, <1>2, <1>8, <1>10, <1>11, HeaderKept, PlaceFrom
<1>13. Before(i)'
  BY <1>10, BeforeKept DEF Stands
<1>14. Copies(buf, got, stream)' = Copies(buf, got, stream)
  BY <1>10 DEF Copies
<1>15. Nameless(r)'
  BY <1>9, <1>10 DEF Nameless
<1> QED
  BY <1>1, <1>2, <1>9, <1>10, <1>12, <1>13, <1>14 DEF Stands, Nameless

LEMMA StepHeaderFails ==
    ASSUME Base, NEW i \in 1 .. Len(script) + 1, Stands(i), ParseHeaderFails
    PROVE  Stands(i)'
<1>0. InState("HEADER") /\ HasLine /\ BadLength
  BY DEF ParseHeaderFails, HasLine
<1>1. /\ i \in 1 .. Len(script) /\ pc = "parse" /\ packet.state = "HEADER"
      /\ taken <= got /\ seen = got /\ EndOf(i) \in Nat
      /\ \E r \in Request : r = script[i] /\ InHeader(i, r)
  BY <1>0, HeaderPlace
<1>2. PICK r \in Request : r = script[i] /\ InHeader(i, r)
  BY <1>1
<1>3. ~AtEmptyLine(i, r)
  <2>1. SUFFICES ASSUME AtEmptyLine(i, r) PROVE FALSE
    OBVIOUS
  <2>2. /\ buf.rp \in Crlfs(buf.rp) <=> taken + 2 <= got
        /\ taken + 4 <= got
    BY <1>0, <1>1, <2>1, EmptyLineScan DEF AtEmptyLine
  <2>3. taken + 2 <= got
    BY <2>2, BaseFacts
  <2> QED
    BY <1>0, <2>2, <2>3 DEF HasLine
<1>4. PICK k \in Nat, h \in Header : AtLine(i, r, k, h)
  BY <1>2, <1>3 DEF InHeader
<1>5. /\ k < Len(r.headers) /\ h = r.headers[k + 1] /\ LineAt(h) /\ NameEnds(h)
      /\ Reading(r, i, k) \/ Stuck(r, i, k)
  BY <1>4 DEF AtLine
<1>6. BadField(h)
  <2>1. CASE Stuck(r, i, k)
    BY <1>5, <2>1 DEF Stuck
  <2>2. CASE Reading(r, i, k)
    <3>1. Copies(buf, got, stream)
      BY <1>1, <2>2 DEF Stands, Reading
    <3> QED
      BY <1>0, <1>5, <3>1, GoodLine
  <2> QED
    BY <1>5, <2>1, <2>2
<1>7. AtHeader(r, i, k) /\ Len(out) >= i - 1 /\ \A j \in i .. Len(out) : IsFault(out[j])
  BY <1>1, <1>5, BaseFacts DEF Reading, Stuck
<1>8. /\ UNCHANGED <<script, stream, got, taken, seen, cut>> /\ pc' = "read"
      /\ out' = Append(out, Fault(packet.content))
      /\ packet' = [packet EXCEPT !.content = NewContent]
  BY DEF ParseHeaderFails
<1>9. out \in Seq(ContentType) /\ Fault(packet.content) \in ContentType
      /\ IsFault(Fault(packet.content))
  <2>1. packet.content \in ContentType /\ out \in Seq(ContentType)
    BY BaseFacts
  <2>2. IsFault(Fault(packet.content))
    BY <2>1 DEF IsFault, Fault, ContentType
  <2> QED
    BY <2>1, <2>2, Contents
<1>10. /\ Len(out') = Len(out) + 1 /\ Len(out) \in Nat
       /\ \A j \in 1 .. Len(out) : out'[j] = out[j]
       /\ out'[Len(out) + 1] = Fault(packet.content)
  BY <1>8, <1>9
<1>11. \A j \in i .. Len(out') : IsFault(out'[j])
  <2>1. SUFFICES ASSUME NEW j \in i .. Len(out') PROVE IsFault(out'[j])
    OBVIOUS
  <2>2. j \in Int /\ i \in Nat /\ i <= j /\ j <= Len(out) + 1
    BY <1>10, <2>1
  <2>3. CASE j = Len(out) + 1
    BY <1>9, <1>10, <2>3
  <2>4. CASE j # Len(out) + 1
    <3>1. j \in i .. Len(out) /\ j \in 1 .. Len(out)
      BY <1>10, <2>2, <2>4
    <3> QED
      BY <1>7, <1>10, <3>1
  <2> QED
    BY <2>3, <2>4
<1>12. packet'.state = "HEADER"
  BY <1>1, <1>8, BaseFacts
<1>13. Stuck(r, i, k)'
  <2>1. AtHeader(r, i, k)'
    BY <1>7, <1>8, <1>12, ScriptKept DEF AtHeader
  <2>2. Len(out') >= i
    BY <1>7, <1>10
  <2> QED
    BY <1>5, <1>6, <1>11, <2>1, <2>2 DEF Stuck
<1>14. k \in 0 .. Len(r.headers)
  BY <1>5, FieldsAre
<1>15. Place(i)'
  BY <1>1, <1>2, <1>8, <1>13, <1>14, PlaceFrom
<1>16. Before(i)'
  <2>1. \A j \in 1 .. i - 1 : j \in 1 .. Len(out)
    BY <1>7, <1>10
  <2> QED
    BY <1>8, <1>10, <2>1 DEF Before, Stands
<1>17. i \notin Good
  <2>1. k + 1 \in 1 .. Len(r.headers) /\ DOMAIN r.headers = 1 .. Len(r.headers)
    BY <1>5, FieldsAre
  <2>2. Malformed(r)
    BY <1>5, <1>6, <2>1 DEF Malformed, Named, BadField
  <2> QED
    BY <1>2, <2>2 DEF Good
<1>18. ~(Len(out') < i)
  BY <1>7, <1>10
<1> QED
  BY <1>1, <1>8, <1>15, <1>16, <1>17, <1>18, ScriptKept DEF Stands

(* In state BODY: the whole body has come, because none was cut. *)
AtBody(i, r, t, B, g) ==
    /\ r = script[i] /\ t = taken /\ B = Len(r.body) /\ g = got
    /\ EndOf(i) = t + 2 + B /\ t + 2 + B <= g
    /\ packet.content = Partial(r, Len(r.headers)) /\ BodyLength = B
    /\ ~Malformed(r) /\ Len(out) = i - 1
    /\ \A j \in 1 .. B : stream[t + 2 + j] = r.body[j]

LEMMA PartialLast ==
    ASSUME NEW r \in Request
    PROVE  Partial(r, Len(r.headers)) =
              [method |-> <<r.method>>, url |-> <<r.url>>, version |-> <<r.version>>,
               keep_alive |-> KeepOf(r), content_length |-> Announced(r),
               headers |-> HeadersOf(r), body |-> <<>>]
<1>1. Len(r.headers) \in 0 .. Len(r.headers)
  BY FieldsAre
<1> QED
  BY <1>1, PartialIs, PartialEnds

LEMMA BodyPlace ==
    ASSUME Base, NEW i \in 1 .. Len(script) + 1, Stands(i), InState("BODY")
    PROVE  /\ i \in 1 .. Len(script) /\ pc = "parse" /\ taken <= got /\ seen = got
           /\ Copies(buf, got, stream)
           /\ \E r \in Request, t \in Nat, B \in Nat, g \in Nat : AtBody(i, r, t, B, g)
<1>0. pc = "parse" /\ packet.state = "BODY" /\ taken <= got /\ seen = got /\ ~MidBody(seen)
  BY DEF Stands, InState
<1>1. i \in 1 .. Len(script) /\ InBody(script[i], i)
  BY <1>0, PlaceIs DEF Stands
<1>p. PICK r \in Request, E \in Nat, F \in Nat, H \in Nat, B \in Nat : RequestAt(i, r, E, F, H, B)
  BY <1>1, Placed
<1>2. /\ r = script[i] /\ E = EndOf(i - 1) /\ F = EndOf(i)
      /\ H = HeadersBefore(r, Len(r.headers)) /\ B = Len(r.body)
      /\ F = E + (H + 9 + B) /\ BodyOf(i) = E + H + 9
  BY <1>p DEF RequestAt
<1>3. /\ packet.content = Partial(r, Len(r.headers))
      /\ taken = E + 7 + H /\ ~Malformed(r) /\ Len(out) = i - 1 /\ taken + 2 <= seen
  BY <1>1, <1>2 DEF InBody
<1>4. Copies(buf, got, stream)
  BY <1>1, <1>3 DEF Stands
<1>5. PICK t \in Nat, g \in Nat : t = taken /\ g = got
  BY BaseFacts
<1>6. F = t + 2 + B /\ E + H + 9 = t + 2 /\ t + 2 <= g
  <2>1. F = E + (H + 9 + B) /\ t = E + 7 + H /\ t + 2 <= g
    BY <1>0, <1>2, <1>3, <1>5
  <2> QED
    BY ONLY <2>1, E \in Nat, F \in Nat, H \in Nat, B \in Nat, t \in Nat, g \in Nat
<1>7. F <= g /\ ~Short(r)
  <2>1. ~(BodyOf(i) <= g /\ (g < F \/ Short(r)))
    <3>1. i \in DOMAIN script
      BY <1>1, BaseFacts
    <3> QED
      BY <1>0, <1>2, <1>5, <3>1 DEF MidBody
  <2>2. BodyOf(i) <= g
    BY <1>2, <1>6
  <2> QED
    BY <2>1, <2>2
<1>8. BodyLength = B
  <2>2. Partial(r, Len(r.headers)).content_length = Announced(r)
    <3> DEFINE p == Partial(r, Len(r.headers))
               m == <<r.method>>
               u == <<r.url>>
               w == <<r.version>>
               l == Announced(r)
    <3>1. p = [method |-> m, url |-> u, version |-> w, keep_alive |-> KeepOf(r),
               content_length |-> l, headers |-> HeadersOf(r), body |-> <<>>]
      BY PartialLast
    <3> HIDE DEF p, m, u, w, l
    <3>2. p.content_length = l
      BY ONLY <3>1
    <3> QED
      BY <3>2 DEF p, l
  <2>3. Announced(r) \in Nat
    BY <1>3, <2>2, BaseFacts DEF ContentType
  <2>4. Announced(r) = B
    <3>1. B <= Announced(r)
      BY <1>1, <1>2, <1>3, ClientKeeps
    <3>2. ~(B < Announced(r))
      BY <1>2, <1>3, <1>7 DEF Short
    <3> QED
      BY <2>3, <3>1, <3>2
  <2> QED
    BY <1>3, <2>2, <2>4 DEF BodyLength
<1>9. \A j \in 1 .. B : stream[t + 2 + j] = r.body[j]
  <2>1. \A j \in 1 .. B : stream[E + ((H + 9) + j)] = r.body[j]
    BY <1>1, <1>2, RequestCells
  <2>2. \A j \in 1 .. B : E + ((H + 9) + j) = t + 2 + j
    <3>1. E + H + 9 = t + 2
      BY <1>6
    <3> QED
      BY ONLY <3>1, E \in Nat, H \in Nat, t \in Nat, B \in Nat
  <2> QED
    BY <2>1, <2>2
<1>10. AtBody(i, r, t, B, g)
  BY <1>2, <1>3, <1>5, <1>6, <1>7, <1>8, <1>9 DEF AtBody
<1> QED
  BY <1>0, <1>1, <1>4, <1>10

(* What is left of a request is its end, whichever way the body was taken. *)
LEMMA TakesBody ==
    ASSUME Base, NEW i \in 1 .. Len(script) + 1, Stands(i), InState("BODY"),
           UNCHANGED <<script, stream, got, pc, out, seen, cut>>,
           NEW r \in Request, NEW t \in Nat, NEW B \in Nat, NEW g \in Nat,
           AtBody(i, r, t, B, g), taken' = t + 2 + B,
           packet' = [state |-> "END", content |-> Meaning(r)],
           Copies(buf', got, stream)
    PROVE  Stands(i)'
<1>1. i \in 1 .. Len(script) /\ pc = "parse"
  BY BodyPlace
<1>2. AtEnd(r, i)'
  BY <1>1, ScriptKept DEF AtEnd, AtBody
<1>3. Place(i)'
  BY <1>1, <1>2, PlaceFrom DEF AtBody
<1>4. taken' <= got
  BY DEF AtBody
<1> QED
  BY <1>1, <1>3, <1>4, GoesOn

LEMMA StepBody ==
    ASSUME Base, NEW i \in 1 .. Len(script) + 1, Stands(i),
           BodyNone \/ BodyIncomplete \/ BodyWhole \/ BodyAborts
    PROVE  Stands(i)'
<1>0. InState("BODY")
  BY DEF BodyNone, BodyIncomplete, BodyWhole, BodyAborts
<1>1. /\ i \in 1 .. Len(script) /\ pc = "parse" /\ taken <= got /\ seen = got
      /\ Copies(buf, got, stream)
      /\ \E r \in Request, t \in Nat, B \in Nat, g \in Nat : AtBody(i, r, t, B, g)
  BY <1>0, BodyPlace
<1>2. PICK r \in Request, t \in Nat, B \in Nat, g \in Nat : AtBody(i, r, t, B, g)
  BY <1>1
<1>3. /\ t = taken /\ g = got /\ B = Len(r.body) /\ BodyLength = B /\ t + 2 + B <= g
      /\ packet.content = Partial(r, Len(r.headers))
      /\ \A j \in 1 .. B : stream[t + 2 + j] = r.body[j]
  BY <1>2 DEF AtBody
<1>4. Meaning(r) = [Partial(r, Len(r.headers)) EXCEPT !.body = r.body]
  BY PartialEnds
<1>5. /\ Sound(BodyBuffer) /\ Tracks(BodyBuffer, t + 2, g, stream)
      /\ Copies(BodyBuffer, g, stream)
  <2>1. Sound(buf) /\ Tracks(buf, t, g, stream) /\ Copies(buf, g, stream)
    BY <1>1, <1>3, BaseFacts
  <2>2. PICK n \in Nat : n = 2
    OBVIOUS
  <2>3. /\ Sound(UpdateReadPos(buf, n)) /\ Tracks(UpdateReadPos(buf, n), t + n, g, stream)
        /\ Copies(UpdateReadPos(buf, n), g, stream)
    BY <2>1, ConsumeTracks
  <2> QED
    BY <2>2, <2>3 DEF BodyBuffer
<1>a. BodyBuffer.rp <= t + 2
  <2>1. 2 \in Nat /\ Sound(buf) /\ buf.rp <= t
    BY <1>3, BaseFacts
  <2> QED
    BY <2>1, ConsumeBound DEF BodyBuffer
<1>6. PICK rp \in Nat, wp \in Nat : /\ rp = BodyBuffer.rp /\ wp = BodyBuffer.wp
                                    /\ t + 2 - rp = g - wp /\ rp <= t + 2
  BY <1>5, <1>a, SoundFields DEF Tracks
<1>7. rp + B <= wp
  <2>1. t + 2 + B <= g /\ t + 2 - rp = g - wp
    BY <1>3, <1>6
  <2> QED
    BY ONLY <2>1, t \in Nat, B \in Nat, g \in Nat, rp \in Nat, wp \in Nat
<1>b. ~BodyWraps /\ BodyEnd = rp + B
  <2>1. g <= Len(stream) /\ Len(stream) < SizeMod /\ Len(stream) \in Nat
    BY <1>1, <1>3, BaseFacts, ClientKeeps
  <2>2. SizeMod \in Nat
    BY ParserAssumption
  <2>3. rp + B \in Nat /\ ~(rp + B >= SizeMod)
    <3>1. PICK n \in Nat, z \in Nat : n = Len(stream) /\ z = SizeMod
      BY <2>1, <2>2
    <3>2. rp <= t + 2 /\ t + 2 + B <= g /\ g <= n /\ n < z
      BY <1>3, <1>6, <2>1, <3>1
    <3>3. rp + B \in Nat /\ ~(rp + B >= z)
      BY ONLY <3>2, rp \in Nat, B \in Nat, t \in Nat, g \in Nat, n \in Nat, z \in Nat
    <3> QED
      BY <3>1, <3>3
  <2>4. (rp + B) % SizeMod = rp + B
    BY <2>3, NoWrap
  <2> QED
    BY <1>3, <1>6, <2>3, <2>4 DEF BodyWraps, BodyEnd
<1>8. CASE BodyNone
  <2>1. B = 0 /\ Consume(2, "END", packet.content)
    BY <1>3, <1>8 DEF BodyNone
  <2>2. packet.content = Meaning(r)
    <3>1. r.body = <<>>
      <4>1. r.body \in Seq(Byte) /\ Len(r.body) = 0
        BY <1>3, <2>1 DEF Request
      <4> QED
        BY <4>1
    <3>3. Partial(r, Len(r.headers)) =
             [method |-> <<r.method>>, url |-> <<r.url>>, version |-> <<r.version>>,
              keep_alive |-> KeepOf(r), content_length |-> Announced(r),
              headers |-> HeadersOf(r), body |-> <<>>]
      BY PartialLast
    <3>4. Meaning(r) =
             [method |-> <<r.method>>, url |-> <<r.url>>, version |-> <<r.version>>,
              keep_alive |-> KeepOf(r), content_length |-> Announced(r),
              headers |-> HeadersOf(r), body |-> <<>>]
      BY <3>1, MeaningIs
    <3> QED
      BY <1>3, <3>3, <3>4
  <2>3. /\ UNCHANGED <<script, stream, got, pc, out, seen, cut>>
        /\ taken' = t + 2 + B /\ packet' = [state |-> "END", content |-> Meaning(r)]
    <3>1. taken' = taken + 2 /\ t + 2 + B = t + 2
      BY <2>1 DEF Consume
    <3> QED
      BY <1>3, <2>1, <2>2, <3>1 DEF Consume
  <2>4. Copies(buf', got, stream)
    BY <1>1, <2>1, ConsumeKeeps
  <2> QED
    BY <1>0, <1>2, <2>3, <2>4, TakesBody
<1>9. CASE BodyIncomplete
  <2>1. rp + B > wp
    BY <1>b, <1>6, <1>9 DEF BodyIncomplete
  <2> QED
    BY <1>7, <2>1
<1>c. ~BodyAborts
  BY <1>b DEF BodyAborts
<1>10. CASE BodyWhole
  <2> DEFINE b == Bytes(BodyBuffer, BodyBuffer.rp, BodyLength)
  <2>1. /\ b \in Word /\ Len(b) = B
        /\ \A j \in 1 .. B : b[j] = BodyBuffer.data[rp + j]
    <3>1. /\ BodyBuffer.rp \in Nat /\ BodyLength \in Nat
          /\ BodyBuffer.rp + BodyLength <= BodyBuffer.wp
      BY <1>3, <1>6, <1>7
    <3>2. /\ b \in Word /\ Len(b) = BodyLength
          /\ \A j \in 1 .. BodyLength : b[j] = BodyBuffer.data[BodyBuffer.rp + j]
      BY <1>5, <3>1, BytesAre
    <3> HIDE DEF b
    <3> QED
      BY <1>3, <1>6, <3>2
  <2>2. \A j \in 1 .. B : b[j] = r.body[j]
    <3>1. SUFFICES ASSUME NEW j \in 1 .. B PROVE b[j] = r.body[j]
      OBVIOUS
    <3>2. rp + j \in rp + 1 .. wp /\ (rp + j) + (g - wp) = t + 2 + j
      <4>1. t + 2 - rp = g - wp /\ rp + B <= wp
        BY <1>6, <1>7
      <4> QED
        BY ONLY <4>1, t \in Nat, B \in Nat, g \in Nat, j \in 1 .. B, rp \in Nat, wp \in Nat
    <3>3. BodyBuffer.data[rp + j] = stream[(rp + j) + (g - wp)]
      BY <1>5, <1>6, <3>2 DEF Copies
    <3> QED
      BY <1>3, <2>1, <3>2, <3>3
  <2>3. b = r.body
    <3>1. r.body \in Seq(Byte) /\ b \in Seq(Byte)
      BY <2>1 DEF Request, Word
    <3> HIDE DEF b
    <3> QED
      BY <1>3, <2>1, <2>2, <3>1, SeqEqual
  <2> HIDE DEF b
  <2>4. /\ UNCHANGED <<script, stream, got, pc, out, seen, cut>>
        /\ taken' = taken + 2 + BodyLength
        /\ packet' = [state |-> "END", content |-> [packet.content EXCEPT !.body = b]]
        /\ buf' = UpdateReadPos(BodyBuffer, BodyLength)
    BY <1>10 DEF BodyWhole, b
  <2>5. taken' = t + 2 + B /\ packet' = [state |-> "END", content |-> Meaning(r)]
    BY <1>3, <1>4, <2>3, <2>4
  <2>6. Copies(buf', got, stream)
    <3>1. Copies(UpdateReadPos(BodyBuffer, B), g, stream)
      BY <1>5, ConsumeTracks
    <3> QED
      BY <1>3, <2>4, <3>1
  <2> QED
    BY <1>0, <1>2, <2>4, <2>5, <2>6, TakesBody
<1> QED
  BY <1>8, <1>9, <1>10, <1>c

LEMMA StepOver ==
    ASSUME Base, NEW i \in 1 .. Len(script) + 1, Stands(i), FsmOver
    PROVE  i + 1 \in 1 .. Len(script) + 1 /\ Stands(i + 1)'
<1>0. pc = "parse" /\ packet.state = "END" /\ taken <= seen /\ seen = got /\ ~MidBody(seen)
      /\ Before(i)
  BY DEF Stands, FsmOver, InState
<1>1. i \in 1 .. Len(script) /\ AtEnd(script[i], i)
  BY <1>0, PlaceIs DEF Stands
<1>2. /\ packet.content = Meaning(script[i]) /\ ~Malformed(script[i])
      /\ taken = EndOf(i) /\ Len(out) = i - 1
  BY <1>1 DEF AtEnd
<1>3. Copies(buf, got, stream)
  BY <1>1, <1>2 DEF Stands
<1>4. /\ UNCHANGED <<script, stream, got, buf, pc, taken, seen, cut>>
      /\ out' = Append(out, Meaning(script[i]))
      /\ packet' = [state |-> "START", content |-> NewContent]
  BY <1>2 DEF FsmOver, NewPacket
<1>5. /\ Len(out') = i /\ out'[i] = Meaning(script[i])
      /\ \A j \in 1 .. i - 1 : out'[j] = out[j]
  BY <1>1, <1>2, <1>4, BaseFacts
<1>6. i + 1 \in 1 .. Len(script) + 1 /\ (i + 1) - 1 = i
  BY <1>1, BaseFacts
<1>7. Before(i + 1)'
  <2>1. SUFFICES ASSUME NEW j \in 1 .. i
                 PROVE  ~Malformed(script[j]) /\ out'[j] = Meaning(script[j])
    BY <1>4, <1>6 DEF Before
  <2>2. CASE j = i
    BY <1>2, <1>5, <2>2
  <2>3. CASE j # i
    <3>1. j \in 1 .. i - 1
      BY <1>1, <2>3
    <3> QED
      BY <1>0, <1>5, <3>1 DEF Before
  <2> QED
    BY <2>2, <2>3
<1>8. Between(i + 1)'
  <2>1. EndOf(i)' = EndOf(i)
    BY <1>4, ScriptKept
  <2> QED
    BY <1>2, <1>4, <1>5, <1>6, <2>1 DEF Between
<1>9. Place(i + 1)'
  BY <1>8 DEF Place
<1>10. MidBody(seen)' = MidBody(seen)
  <2> DEFINE s == seen
  <2>1. MidBody(s)' = MidBody(s)
    BY <1>4, ScriptKept DEF MidBody, BodyOf
  <2> QED
    BY <1>4, <2>1
<1>11. Copies(buf, got, stream)'
  BY <1>3, <1>4 DEF Copies
<1> QED
  BY <1>0, <1>4, <1>6, <1>7, <1>9, <1>10, <1>11 DEF Stands

LEMMA PlaceKept ==
    ASSUME UNCHANGED <<script, packet, out, taken>>, NEW i, Place(i), pc = "read"
    PROVE  Place(i)'
<1>1. CASE Between(i)
  BY <1>1, ScriptKept DEF Place, Between
<1>2. CASE i <= Len(script) /\ InRequest(script[i], i)
  <2>p. PICK r : r = script[i]
    OBVIOUS
  <2>0. InRequest(r, i)
    BY <1>2, <2>p
  <2>1. CASE InPath(r, i)
    BY <1>2, <2>p, <2>1, ScriptKept, PlaceFrom DEF InPath
  <2>2. CASE InVersion(r, i)
    BY <1>2, <2>p, <2>2, ScriptKept, PlaceFrom DEF InVersion
  <2>3. CASE \E k \in 0 .. Len(r.headers) : Reading(r, i, k) \/ Stuck(r, i, k)
    BY <1>2, <2>p, <2>3, HeaderKept, PlaceFrom
  <2>4. ~InBody(r, i)
    BY DEF InBody
  <2>5. CASE AtEnd(r, i)
    BY <1>2, <2>p, <2>5, ScriptKept, PlaceFrom DEF AtEnd
  <2> QED
    BY <2>0, <2>1, <2>2, <2>3, <2>4, <2>5 DEF InRequest
<1> QED
  BY <1>1, <1>2 DEF Place

LEMMA StepReceive ==
    ASSUME Base, NEW i \in 1 .. Len(script) + 1, Stands(i), NEW n \in 1 .. MaxRead, Receive(n)
    PROVE  Stands(i)'
<1>1. /\ UNCHANGED <<script, stream, packet, pc, out, taken, seen, cut>> /\ pc = "read"
      /\ got + n <= Len(stream) /\ got' = got + n
      /\ Writable(buf, SubSeq(stream, got + 1, got + n))
      /\ buf' = Received(buf, SubSeq(stream, got + 1, got + n))
  BY DEF Receive
<1>2. Place(i)' /\ Before(i)'
  BY <1>1, PlaceKept, BeforeKept DEF Stands
<1>3. Copies(buf, got, stream) => Copies(buf', got + n, stream)
  <2>1. n \in Nat
    BY ParserAssumption
  <2> QED
    BY <1>1, <2>1, BaseFacts, ReceiveTracks
<1>4. Copies(buf, got, stream) => Copies(buf, got, stream)'
  BY <1>1, <1>3 DEF Copies
<1>5. Good' = Good /\ EndOf(i)' = EndOf(i)
  BY <1>1, ScriptKept
<1> QED
  BY <1>1, <1>2, <1>4, <1>5 DEF Stands

(* The bytes received always fit: the move of a range that ends before it  *)
(* begins would take a read position beyond the write position.            *)
LEMMA NoUndefined ==
    ASSUME Base, taken <= seen, NEW n
    PROVE  ~ReceiveUndefined(n)
<1>1. taken <= got
  BY BaseFacts
<1>2. buf.rp <= Len(buf.data)
  BY <1>1, Unread
<1> QED
  BY <1>2 DEF ReceiveUndefined, Writable

LEMMA StepReady ==
    ASSUME Base, NEW i \in 1 .. Len(script) + 1, Stands(i), ParseReady, ~cut'
    PROVE  Stands(i)'
<1>1. /\ UNCHANGED <<script, stream, got, buf, packet, out, taken>> /\ pc = "read"
      /\ pc' = "parse" /\ seen' = got /\ ~MidBody(got)
  BY DEF ParseReady
<1>2. Place(i)' /\ Before(i)'
  BY <1>1, PlaceKept, BeforeKept DEF Stands
<1>3. ~MidBody(seen)'
  <2>1. MidBody(got)' = MidBody(got)
    BY <1>1, ScriptKept DEF MidBody, BodyOf
  <2>2. seen' = got'
    BY <1>1
  <2> QED
    BY <1>1, <2>1, <2>2 DEF MidBody
<1>4. taken' <= seen'
  BY <1>1, BaseFacts DEF Stands
<1>5. Copies(buf, got, stream)' = Copies(buf, got, stream)
  BY <1>1 DEF Copies
<1> QED
  BY <1>1, <1>2, <1>3, <1>4, <1>5 DEF Stands

(* However the stream is cut into reads, the parser stands where the bytes *)
(* it has consumed say.                                                    *)
LEMMA InStepInit ==
    ASSUME Init
    PROVE  InStep
<1>1. Base
  BY BaseInit
<1>2. PICK i \in 1 .. Len(script) + 1 : i = 1
  BY <1>1, EndOfLast
<1>3. Between(i)
  BY <1>1, <1>2, EndOfLast DEF Init, NewPacket, Between
<1>4. Place(i) /\ Before(i)
  BY <1>2, <1>3 DEF Place, Before
<1>5. Copies(buf, got, stream)
  BY DEF Init, EmptyBuffer, Copies
<1>6. i \in Good => seen < EndOf(i)
  <2>1. SUFFICES ASSUME i \in Good PROVE seen < EndOf(i)
    OBVIOUS
  <2>2. i \in 1 .. Len(script)
    BY <1>1, <2>1, BaseFacts DEF Good
  <2>3. PICK r \in Request, E \in Nat, F \in Nat, H \in Nat, B \in Nat : RequestAt(i, r, E, F, H, B)
    BY <1>1, <2>2, Placed
  <2>4. F = EndOf(i) /\ F = E + (H + 9 + B)
    BY <2>3 DEF RequestAt
  <2> QED
    BY <2>4 DEF Init
<1> QED
  BY <1>3, <1>4, <1>5, <1>6 DEF InStep, Stands, Init

LEMMA InStepStep ==
    ASSUME Base, InStep, ParserNext
    PROVE  InStep'
<1>1. SUFFICES ASSUME ~cut' PROVE \E i \in 1 .. Len(script') + 1 : Stands(i)'
  BY DEF InStep
<1>2. script' = script /\ ~cut
  <2>1. CASE \E n \in 1 .. MaxRead : Receive(n) \/ ReceiveUndefined(n)
    BY <1>1, <2>1 DEF Receive, ReceiveUndefined
  <2>2. CASE ParseReady
    BY <1>1, <2>2, BaseFacts DEF ParseReady
  <2>3. CASE \/ ParseStart \/ HeadersEnd \/ FsmOver
             \/ ParseHeaderUndefined \/ ParseHeader \/ ParseHeaderFails
    BY <1>1, <2>3 DEF ParseStart, HeadersEnd, FsmOver, ParseHeaderUndefined, ParseHeader,
                      ParseHeaderFails
  <2>4. CASE ParseMethod \/ ParseUrl \/ ParseVersion
    BY <1>1, <2>4 DEF ParseMethod, ParseUrl, ParseVersion, Incomplete, Consume
  <2>5. CASE HeaderIncomplete \/ BodyNone \/ BodyIncomplete \/ BodyWhole \/ BodyAborts
    BY <1>1, <2>5 DEF HeaderIncomplete, BodyNone, BodyIncomplete, BodyWhole, BodyAborts,
                      Incomplete, Consume
  <2> QED
    BY <2>1, <2>2, <2>3, <2>4, <2>5 DEF ParserNext, Parse
<1>3. PICK i \in 1 .. Len(script) + 1 : Stands(i)
  BY <1>2 DEF InStep
<1>4. CASE \E n \in 1 .. MaxRead : Receive(n)
  BY <1>2, <1>3, <1>4, StepReceive
<1>5. CASE \E n \in 1 .. MaxRead : ReceiveUndefined(n)
  BY <1>3, <1>5, NoUndefined DEF Stands
<1>6. CASE ParseReady
  BY <1>1, <1>2, <1>3, <1>6, StepReady
<1>7. CASE Parse
  <2>1. CASE ParseStart
    BY <1>2, <1>3, <2>1, StepStart
  <2>2. CASE ParseMethod
    BY <1>2, <1>3, <2>2, StepMethod
  <2>3. CASE ParseUrl
    BY <1>2, <1>3, <2>3, StepUrl
  <2>4. CASE ParseVersion
    BY <1>2, <1>3, <2>4, StepVersion
  <2>5. CASE HeadersEnd
    BY <1>2, <1>3, <2>5, StepHeadersEnd
  <2>6. CASE HeaderIncomplete
    BY <1>2, <1>3, <2>6, StepHeaderIncomplete
  <2>7. CASE ParseHeader
    BY <1>2, <1>3, <2>7, StepHeader
  <2>8. CASE ParseHeaderFails
    BY <1>2, <1>3, <2>8, StepHeaderFails
  <2>9. CASE BodyNone \/ BodyIncomplete \/ BodyWhole \/ BodyAborts
    BY <1>2, <1>3, <2>9, StepBody
  <2>10. CASE FsmOver
    BY <1>2, <1>3, <2>10, StepOver
  <2>11. CASE ParseHeaderUndefined
    BY <1>2, <1>3, <2>11, StepHeaderUndefined
  <2> QED
    BY <1>7, <2>1, <2>2, <2>3, <2>4, <2>5, <2>6, <2>7, <2>8, <2>9, <2>10, <2>11 DEF Parse
<1> QED
  BY <1>4, <1>5, <1>6, <1>7 DEF ParserNext

-----------------------------------------------------------------------------
(* What the place says of what has been dispatched. *)
LEMMA PlaceOut ==
    ASSUME Base, NEW i \in 1 .. Len(script) + 1, Place(i)
    PROVE  /\ EndOf(i - 1) \in Nat /\ EndOf(i - 1) <= taken /\ Len(out) >= i - 1
           /\ Len(out) >= i => /\ i \in 1 .. Len(script) /\ i \notin Good
                               /\ \A m \in i .. Len(out) : IsFault(out[m])
<1>0. /\ i \in Nat /\ Len(script) \in Nat /\ i - 1 \in 0 .. Len(script)
      /\ EndOf(i - 1) \in Nat /\ taken \in Nat /\ Len(out) \in Nat
  <2>1. Len(script) \in Nat /\ taken \in Nat /\ Len(out) \in Nat
    BY BaseFacts
  <2>2. i - 1 \in 0 .. Len(script)
    BY <2>1
  <2> QED
    BY <2>1, <2>2, EndOfMonotone
<1>1. CASE Between(i)
  BY <1>0, <1>1 DEF Between
<1>2. CASE i <= Len(script) /\ InRequest(script[i], i)
  <2>1. i \in 1 .. Len(script)
    BY <1>0, <1>2
  <2>p. PICK r \in Request, E \in Nat, F \in Nat, H \in Nat, B \in Nat : RequestAt(i, r, E, F, H, B)
    BY <2>1, Placed
  <2>2. r = script[i] /\ E = EndOf(i - 1) /\ F = EndOf(i) /\ F = E + (H + 9 + B)
    BY <2>p DEF RequestAt
  <2>3. E <= F
    <3>1. F = E + (H + 9 + B)
      BY <2>2
    <3> QED
      BY ONLY <3>1, E \in Nat, F \in Nat, H \in Nat, B \in Nat
  <2>4. InRequest(r, i)
    BY <1>2, <2>2
  <2>5. CASE InPath(r, i) \/ InVersion(r, i) \/ AtEnd(r, i)
    <3>1. Len(out) = i - 1 /\ (taken = E + 2 \/ taken = E + 4 \/ taken = F)
      BY <2>2, <2>5 DEF InPath, InVersion, AtEnd
    <3>2. E <= taken
      BY <2>3, <3>1
    <3>3. ~(Len(out) >= i)
      BY <1>0, <3>1
    <3> QED
      BY <1>0, <2>2, <3>1, <3>2, <3>3
  <2>6. CASE InBody(r, i)
    <3>1. Len(r.headers) \in 0 .. Len(r.headers)
      BY FieldsAre
    <3>2. HeadersBefore(r, Len(r.headers)) \in Nat
      BY <3>1, HeadersBeforeStep
    <3> QED
      <4>1. taken = E + 7 + HeadersBefore(r, Len(r.headers)) /\ Len(out) = i - 1
        BY <2>2, <2>6 DEF InBody
      <4>2. E <= taken
        BY <3>2, <4>1
      <4>3. ~(Len(out) >= i)
        BY <1>0, <4>1
      <4> QED
        BY <1>0, <2>2, <4>1, <4>2, <4>3
  <2>7. CASE \E k \in 0 .. Len(r.headers) : Reading(r, i, k) \/ Stuck(r, i, k)
    <3>1. PICK k \in 0 .. Len(r.headers) : Reading(r, i, k) \/ Stuck(r, i, k)
      BY <2>7
    <3>2. HeadersBefore(r, k) \in Nat
      BY HeadersBeforeStep
    <3>3. EndOf(i - 1) <= taken
      BY <1>0, <3>1, <3>2 DEF Reading, Stuck, AtHeader
    <3>4. CASE Reading(r, i, k)
      BY <1>0, <3>3, <3>4 DEF Reading
    <3>5. CASE Stuck(r, i, k)
      <4>1. /\ Len(out) >= i /\ k < Len(r.headers) /\ BadField(r.headers[k + 1])
            /\ \A m \in i .. Len(out) : IsFault(out[m])
        BY <3>5 DEF Stuck
      <4>2. k + 1 \in DOMAIN r.headers
        BY <4>1, FieldsAre
      <4>3. Malformed(r)
        BY <4>1, <4>2 DEF Malformed, Named, BadField
      <4>4. i \notin Good
        BY <1>0, <2>2, <4>3 DEF Good
      <4> QED
        BY <1>0, <2>1, <3>3, <4>1, <4>4
    <3> QED
      BY <3>1, <3>4, <3>5
  <2> QED
    BY <2>4, <2>5, <2>6, <2>7 DEF InRequest
<1> QED
  BY <1>1, <1>2 DEF Place

(* The requests before the place were well formed, and are dispatched.     *)
LEMMA BeforeGood ==
    ASSUME Base, NEW i \in 1 .. Len(script) + 1, Before(i)
    PROVE  \A m \in 1 .. i - 1 : m \in Good
<1>1. SUFFICES ASSUME NEW m \in 1 .. i - 1 PROVE m \in Good
  OBVIOUS
<1>2. m \in DOMAIN script
  BY BaseFacts
<1>3. \A j \in 1 .. m : j \in 1 .. i - 1
  OBVIOUS
<1> QED
  BY <1>2, <1>3 DEF Good, Before

LEMMA OnlyFaults ==
    ASSUME Base, InStep
    PROVE  NothingAfterMalformed
<1>1. SUFFICES ASSUME ~cut, NEW m \in DOMAIN out, m \notin Good
               PROVE  IsFault(out[m])
  BY DEF NothingAfterMalformed
<1>2. PICK i \in 1 .. Len(script) + 1 : Stands(i)
  BY <1>1 DEF InStep
<1>3. m \in Nat /\ 1 <= m /\ m <= Len(out) /\ Len(out) \in Nat /\ i \in Nat
  BY <1>1, BaseFacts
<1>4. ~(m < i)
  <2>1. SUFFICES ASSUME m < i PROVE FALSE
    OBVIOUS
  <2>2. m \in 1 .. i - 1
    BY <1>3, <2>1
  <2> QED
    BY <1>1, <1>2, <2>2, BeforeGood DEF Stands
<1>5. Len(out) >= i /\ m \in i .. Len(out)
  BY <1>3, <1>4
<1> QED
  BY <1>2, <1>5, PlaceOut DEF Stands

LEMMA WholeIs ==
    ASSUME Base, NEW i \in 1 .. Len(script) + 1, Stands(i), pc = "read"
    PROVE  Whole(seen) = 1 .. i - 1
<1>0. i \in Nat /\ Len(script) \in Nat /\ DOMAIN script = 1 .. Len(script) /\ seen \in Nat
  BY BaseFacts
<1>1. \A m \in 1 .. i - 1 : m \in Whole(seen)
  <2>1. SUFFICES ASSUME NEW m \in 1 .. i - 1 PROVE m \in Whole(seen)
    OBVIOUS
  <2>2. m \in Good
    BY BeforeGood DEF Stands
  <2>3. EndOf(m) <= EndOf(i - 1) /\ EndOf(m) \in Nat
    <3>1. m \in 0 .. Len(script) /\ i - 1 \in 0 .. Len(script) /\ m <= i - 1
      BY <1>0
    <3> QED
      BY <3>1, EndOfMonotone
  <2>4. EndOf(i - 1) <= taken /\ EndOf(i - 1) \in Nat /\ taken <= seen /\ taken \in Nat
    BY PlaceOut, BaseFacts DEF Stands
  <2>5. EndOf(m) <= seen
    BY <1>0, <2>3, <2>4
  <2> QED
    BY <2>2, <2>5 DEF Whole
<1>2. \A m \in Whole(seen) : m \in 1 .. i - 1
  <2>1. SUFFICES ASSUME NEW m \in Whole(seen) PROVE m \in 1 .. i - 1
    OBVIOUS
  <2>2. m \in Good /\ EndOf(m) <= seen
    BY <2>1 DEF Whole
  <2>3. m \in 1 .. Len(script)
    BY <1>0, <2>2 DEF Good
  <2>4. m < i
    <3>1. SUFFICES ASSUME i <= m PROVE FALSE
      BY <1>0, <2>3
    <3>2. i \in 1 .. Len(script) /\ \A j \in 1 .. i : j \in 1 .. m
      BY <1>0, <2>3, <3>1
    <3>3. i \in Good
      BY <1>0, <2>2, <3>2 DEF Good
    <3>4. seen < EndOf(i)
      BY <3>3 DEF Stands
    <3>5. EndOf(i) <= EndOf(m) /\ EndOf(i) \in Nat /\ EndOf(m) \in Nat
      <4>1. m \in 0 .. Len(script) /\ i \in 0 .. Len(script)
        BY <1>0, <2>3, <3>2
      <4> QED
        BY <3>1, <4>1, EndOfMonotone
    <3> QED
      BY <1>0, <2>2, <3>4, <3>5
  <2> QED
    BY <1>0, <2>3, <2>4
<1> QED
  BY <1>1, <1>2

LEMMA CutsDoNotMatter ==
    ASSUME Base, InStep
    PROVE  FragmentsDoNotMatter
<1>1. SUFFICES ASSUME ~cut
               PROVE  /\ pc = "read" =>
                            /\ Len(out) >= Cardinality(Whole(seen))
                            /\ Good = DOMAIN script => Len(out) = Cardinality(Whole(seen))
                            /\ \A m \in Whole(seen) : out[m] = Meaning(script[m])
                      /\ pc = "undefined" =>
                            \E m \in DOMAIN script :
                               /\ Nameless(script[m])
                               /\ 1 .. m - 1 \subseteq Good /\ Len(out) = m - 1
                               /\ \A j \in 1 .. m - 1 : out[j] = Meaning(script[j])
                      /\ pc # "aborted"
  BY DEF FragmentsDoNotMatter
<1>2. PICK i \in 1 .. Len(script) + 1 : Stands(i)
  BY <1>1 DEF InStep
<1>3. pc = "read" => Whole(seen) = 1 .. i - 1
  BY <1>1, <1>2, WholeIs
<1>4. Cardinality(1 .. i - 1) = i - 1
  <2>1. i \in Nat /\ i >= 1 /\ i - 1 \in Int
    BY BaseFacts
  <2>2. Cardinality(1 .. i - 1) = IF 1 > i - 1 THEN 0 ELSE (i - 1) - 1 + 1
    BY <2>1, FS_Interval
  <2> QED
    BY <2>1, <2>2
<1>5. /\ Len(out) >= i - 1 /\ Len(out) \in Nat /\ i \in Nat
      /\ Len(out) >= i => i \in 1 .. Len(script) /\ i \notin Good
  BY <1>2, PlaceOut, BaseFacts DEF Stands
<1>6. Good = DOMAIN script => Len(out) = i - 1
  BY <1>5, BaseFacts
<1>7. \A m \in 1 .. i - 1 : out[m] = Meaning(script[m])
  BY <1>2 DEF Stands, Before
<1>8. ASSUME pc = "undefined"
      PROVE  /\ i \in DOMAIN script /\ Nameless(script[i])
             /\ 1 .. i - 1 \subseteq Good /\ Len(out) = i - 1
  <2>1. i <= Len(script) /\ Nameless(script[i]) /\ Len(out) = i - 1
    BY <1>2, <1>8 DEF Stands
  <2>2. i \in DOMAIN script
    BY <2>1, BaseFacts
  <2> QED
    BY <1>2, <2>1, <2>2, BeforeGood DEF Stands
<1>9. pc # "aborted"
  BY <1>2 DEF Stands
<1> QED
  BY <1>3, <1>4, <1>5, <1>6, <1>7, <1>8, <1>9

-----------------------------------------------------------------------------
(* A step that changes nothing. *)
LEMMA BaseStutter == ASSUME Base, UNCHANGED vars PROVE Base'
<1>1. UNCHANGED <<script, stream, got, buf, packet, pc, out, taken, seen, cut>>
  BY DEF vars
<1>2. packet \in [state : States, content : ContentType] /\ seen \in 0 .. got /\ cut \in BOOLEAN
      /\ pc \in {"read", "parse", "undefined", "aborted"} /\ out \in Seq(ContentType)
  BY DEF Base, ParserTypeOK
<1> QED
  BY <1>1, <1>2, BaseIdle

LEMMA InStepStutter == ASSUME InStep, UNCHANGED vars PROVE InStep'
<1>1. UNCHANGED <<script, stream, got, buf, packet, pc, out, taken, seen, cut>>
  BY DEF vars
<1>2. ASSUME NEW i, Place(i) PROVE Place(i)'
  <2>1. CASE Between(i)
    BY <1>1, <2>1, ScriptKept DEF Place, Between
  <2>2. CASE i <= Len(script) /\ InRequest(script[i], i)
    <3>p. PICK r : r = script[i]
      OBVIOUS
    <3>0. InRequest(r, i)
      BY <2>2, <3>p
    <3>1. CASE InPath(r, i) \/ InVersion(r, i) \/ InBody(r, i) \/ AtEnd(r, i)
      BY <1>1, <2>2, <3>p, <3>1, ScriptKept, PlaceFrom DEF InPath, InVersion, InBody, AtEnd
    <3>2. CASE \E k \in 0 .. Len(r.headers) : Reading(r, i, k) \/ Stuck(r, i, k)
      BY <1>1, <2>2, <3>p, <3>2, HeaderKept, PlaceFrom
    <3> QED
      BY <3>0, <3>1, <3>2 DEF InRequest
  <2> QED
    BY <1>2, <2>1, <2>2 DEF Place
<1>3. MidBody(seen)' = MidBody(seen)
  BY <1>1, ScriptKept DEF MidBody, BodyOf
<1>4. Copies(buf, got, stream)' = Copies(buf, got, stream)
  BY <1>1 DEF Copies
<1>5. ASSUME NEW i, Stands(i) PROVE Stands(i)'
  BY <1>1, <1>2, <1>3, <1>4, <1>5, BeforeKept, ScriptKept DEF Stands
<1> QED
  BY <1>1, <1>5 DEF InStep

(* However the client's bytes are cut into reads and whatever the buffer   *)
(* does to make room for them, the parser keeps the stream and stands      *)
(* where the bytes it has consumed say.                                    *)
THEOREM ParserStands == Init /\ [][ParserNext]_vars => [](Base /\ InStep)
<1>1. Init => Base /\ InStep
  BY BaseInit, InStepInit
<1>2. Base /\ InStep /\ [ParserNext]_vars => (Base /\ InStep)'
  BY BaseStep, InStepStep, BaseStutter, InStepStutter
<1> QED
  BY <1>1, <1>2, PTL

=============================================================================
