--------------------------- MODULE AsyncLogProofs ---------------------------
(***************************************************************************)
(* Proofs about AsyncLog for every number and size of blocks. The records  *)
(* are numbered in the order of the pushes, so that "in order and none     *)
(* lost" is a chain: what was handed to the file, the block being written, *)
(* the flushing queue and the block being filled continue one another.     *)
(***************************************************************************)
EXTENDS AsyncLog, SequenceLemmas

(* The block b holds the records from + 1, from + 2, ... *)
Continues(b, from) == \A j \in 1 .. Len(b) : b[j] = from + j

(* The last record of a block that is not empty. *)
Upto(b) == b[1] + Len(b) - 1

Writing == IF pc = "write" THEN held[1] ELSE <<>>

Filling == IF available = <<>> THEN <<>> ELSE available[1]

(* The last record that has left the flushing queue, and the last one that *)
(* has entered it.                                                         *)
Left == Len(handed) + Len(Writing)

Swapped == IF flushing = <<>> THEN Left ELSE Upto(flushing[Len(flushing)])

Chain ==
    /\ Continues(handed, 0)
    /\ Continues(Writing, Len(handed))
    /\ pc = "write" => held[1] # <<>>
    /\ \A i \in 1 .. Len(flushing) : Continues(flushing[i], flushing[i][1] - 1)
    /\ flushing # <<>> => flushing[1][1] = Left + 1
    /\ \A i \in 1 .. Len(flushing) - 1 : flushing[i + 1][1] = Upto(flushing[i]) + 1
    /\ \A i \in 1 .. Len(flushing) : Upto(flushing[i]) <= Swapped
    /\ Continues(Filling, Swapped)
    /\ accepted = Swapped + Len(Filling)

(* The flusher ends only after it has closed the block being filled, and   *)
(* the destructor only after the flusher.                                  *)
Closing ==
    /\ enable <=> owner = "running"
    /\ state = "CLOSE" => ~enable /\ Filling = <<>>
    /\ pc = "exited" => state = "CLOSE" /\ flushing = <<>>
    /\ owner = "joined" => pc = "exited"

IInv == TypeOK /\ PoolIntact /\ NoMissedWakeup /\ Chain /\ Closing

-----------------------------------------------------------------------------

LEMMA InitEstablishes == Init => IInv
<1> SUFFICES ASSUME Init PROVE IInv
  OBVIOUS
<1> USE LogAssumption DEF Init
<1>1. \A i \in 1 .. Blocks : available[i] = <<>>
  OBVIOUS
<1>2. available \in Seq(Block) /\ Len(available) = Blocks
  BY DEF Block
<1>3. Len(<<>>) = 0
  OBVIOUS
<1>4. TypeOK
  <2>1. <<>> \in Seq(Block) /\ <<>> \in Seq(Nat)
    OBVIOUS
  <2> QED
    <3>1. available \in Seq(Block) /\ flushing \in Seq(Block) /\ held \in Seq(Block) /\ handed \in Seq(Nat)
      BY <1>2, <2>1
    <3>2. Len(held) = IF pc \in {"write", "recycle"} THEN 1 ELSE 0
      BY <1>3
    <3> QED
      BY <3>1, <3>2 DEF TypeOK
<1>7. PoolIntact
  BY <1>1, <1>2, <1>3 DEF PoolIntact
<1>8. NoMissedWakeup
  BY DEF NoMissedWakeup
<1>5. Filling = <<>> /\ Writing = <<>> /\ Left = 0 /\ Swapped = 0
  BY <1>1, <1>2, <1>3 DEF Filling, Writing, Left, Swapped
<1>6. Chain /\ Closing
  BY <1>3, <1>5 DEF Chain, Closing, Continues
<1> QED
  BY <1>4, <1>6, <1>7, <1>8 DEF IInv

(* The block at the front of the pool, when it has room. *)
LEMMA FrontBlock ==
  ASSUME TypeOK, available # <<>>
  PROVE  /\ available[1] = Head(available) /\ available[1] \in Seq(Nat)
         /\ Filling = Head(available) /\ Len(available) \in Nat \ {0}
         /\ Tail(available) \in Seq(Block) /\ Len(Tail(available)) = Len(available) - 1
         /\ \A i \in 1 .. Len(available) - 1 : Tail(available)[i] = available[i + 1]
<1>1. available \in Seq(Block)
  BY DEF TypeOK
<1>2. Len(available) \in Nat \ {0} /\ available[1] \in Block
  BY <1>1, EmptySeq, ElementOfSeq, LenProperties
<1> QED
  BY <1>1, <1>2, HeadTailProperties DEF Block, Filling

(* Sizes are natural numbers. *)
LEMMA Lengths ==
  ASSUME TypeOK
  PROVE  /\ Len(handed) \in Nat /\ Len(available) \in Nat /\ Len(flushing) \in Nat
         /\ Filling \in Seq(Nat) /\ Writing \in Seq(Nat) /\ Left \in Nat
         /\ \A i \in 1 .. Len(flushing) : flushing[i] \in Seq(Nat)
         /\ (pc = "write" => Len(held) = 1 /\ held[1] \in Seq(Nat) /\ Head(held) = held[1])
<1>1. handed \in Seq(Nat) /\ available \in Seq(Block) /\ flushing \in Seq(Block) /\ held \in Seq(Block)
  BY DEF TypeOK
<1>2. Len(handed) \in Nat /\ Len(available) \in Nat /\ Len(flushing) \in Nat
  BY <1>1, LenProperties
<1>3. Filling \in Seq(Nat)
  BY FrontBlock DEF Filling
<1>4. pc = "write" => Len(held) = 1 /\ held[1] \in Seq(Nat) /\ Head(held) = held[1]
  <2> SUFFICES ASSUME pc = "write" PROVE Len(held) = 1 /\ held[1] \in Seq(Nat) /\ Head(held) = held[1]
    OBVIOUS
  <2>1. Len(held) = 1
    BY DEF TypeOK
  <2>2. held[1] \in Block
    <3>1. 1 \in 1 .. Len(held)
      BY <2>1
    <3> QED
      BY <1>1, <3>1, ElementOfSeq
  <2>3. Head(held) = held[1]
    BY <1>1, <2>1
  <2> QED
    BY <2>1, <2>2, <2>3 DEF Block
<1>5. Writing \in Seq(Nat)
  BY <1>4 DEF Writing
<1>6. \A i \in 1 .. Len(flushing) : flushing[i] \in Seq(Nat)
  BY <1>1, ElementOfSeq DEF Block
<1> QED
  BY <1>2, <1>3, <1>4, <1>5, <1>6, LenProperties DEF Left

LEMMA SwappedType ==
  ASSUME TypeOK, PoolIntact, Chain
  PROVE  Swapped \in Nat
<1>1. CASE flushing = <<>>
  BY <1>1, Lengths DEF Swapped
<1>2. CASE flushing # <<>>
  <2> DEFINE n == Len(flushing)
  <2>1. n \in Nat \ {0} /\ flushing[n] \in Seq(Nat) /\ flushing[n] # <<>>
    BY <1>2, Lengths, EmptySeq DEF TypeOK, PoolIntact
  <2>2. flushing[n][1] \in Nat /\ Len(flushing[n]) \in Nat \ {0}
    BY <2>1, ElementOfSeq, LenProperties, EmptySeq
  <2> QED
    BY <1>2, <2>1, <2>2 DEF Swapped, Upto
<1> QED
  BY <1>1, <1>2

(* A block that continues what was swapped leaves the front of the pool    *)
(* for the flushing queue: in push() and in force_swap_buffer_locked.      *)
LEMMA MovePreserves ==
  ASSUME TypeOK, PoolIntact, Chain, available # <<>>,
         NEW block \in Seq(Nat), block # <<>>, Continues(block, Swapped),
         available' = Tail(available), flushing' = Append(flushing, block),
         handed' = handed, held' = held, Writing' = Writing, pc' = "write" <=> pc = "write",
         accepted' = Swapped + Len(block)
  PROVE  /\ Chain' /\ PoolIntact' /\ Filling' = <<>>
         /\ available' \in Seq(Block) /\ flushing' \in Seq(Block)
<1> DEFINE n == Len(flushing)
<1>1. flushing \in Seq(Block) /\ n \in Nat /\ Left \in Nat /\ Swapped \in Nat
  BY Lengths, SwappedType DEF TypeOK
<1>2. /\ flushing' \in Seq(Block) /\ Len(flushing') = n + 1 /\ flushing'[n + 1] = block
      /\ \A i \in 1 .. n : flushing'[i] = flushing[i]
  BY <1>1, AppendProperties DEF Block
<1>3. available' \in Seq(Block) /\ Len(available') = Len(available) - 1 /\ Len(available) \in Nat \ {0}
  BY FrontBlock
<1>4. \A i \in 1 .. Len(available') : available'[i] = <<>>
  <2> TAKE i \in 1 .. Len(available')
  <2>1. i + 1 \in 1 .. Len(available) /\ i + 1 > 1
    BY <1>3
  <2> QED
    BY <1>3, <2>1, FrontBlock DEF PoolIntact
<1>5. Filling' = <<>>
  <2>1. available' # <<>> => 1 \in 1 .. Len(available')
    BY <1>3, SMTT(30)
  <2> QED
    BY <1>4, <2>1 DEF Filling
<1>6. Len(block) \in Nat \ {0} /\ block[1] = Swapped + 1
  <2>1. Len(block) \in Nat \ {0}
    BY LenProperties, EmptySeq
  <2> QED
    BY <2>1 DEF Continues
<1>7. PoolIntact'
  <2>1. Len(available') + Len(flushing') + Len(held') = Blocks
    <3>1. Len(held) \in Nat
      BY LenProperties DEF TypeOK
    <3> QED
      BY <1>1, <1>2, <1>3, <3>1 DEF PoolIntact
  <2>2. \A i \in 1 .. Len(flushing') : flushing'[i] # <<>>
    <3> TAKE i \in 1 .. Len(flushing')
    <3>1. i \in 1 .. n \/ i = n + 1
      BY <1>1, <1>2
    <3> QED
      BY <1>1, <1>2, <3>1 DEF PoolIntact
  <2>3. \A i \in 1 .. Len(available') : Len(available'[i]) < BlockCap /\ (i > 1 => available'[i] = <<>>)
    <3>1. Len(<<>>) = 0
      OBVIOUS
    <3> QED
      BY <1>4, <3>1, LogAssumption
  <2> QED
    BY <2>1, <2>2, <2>3 DEF PoolIntact
<1>8. Left' = Left
  BY DEF Left
<1>9. Swapped' = Swapped + Len(block)
  <2>1. flushing' # <<>>
    BY <1>1, <1>2, SMTT(30)
  <2>2. Swapped' = Upto(block)
    BY <1>2, <2>1 DEF Swapped
  <2> QED
    BY <1>1, <1>6, <2>2 DEF Upto
<1>10. \A i \in 1 .. Len(flushing') : Continues(flushing'[i], flushing'[i][1] - 1)
  <2> TAKE i \in 1 .. Len(flushing')
  <2>1. i \in 1 .. n \/ i = n + 1
    BY <1>1, <1>2
  <2>2. block[1] - 1 = Swapped
    BY <1>1, <1>6
  <2> QED
    BY <1>2, <2>1, <2>2 DEF Chain
<1>11. flushing'[1][1] = Left + 1
  <2>1. CASE flushing = <<>>
    <3>1. n = 0 /\ Swapped = Left
      BY <2>1 DEF Swapped
    <3> QED
      BY <1>2, <1>6, <3>1
  <2>2. CASE flushing # <<>>
    <3>1. 1 \in 1 .. n
      BY <1>1, <2>2, EmptySeq
    <3> QED
      BY <1>2, <2>2, <3>1 DEF Chain
  <2> QED
    BY <2>1, <2>2
<1>12. \A i \in 1 .. Len(flushing') - 1 : flushing'[i + 1][1] = Upto(flushing'[i]) + 1
  <2> TAKE i \in 1 .. Len(flushing') - 1
  <2>1. i \in 1 .. n
    BY <1>1, <1>2
  <2>2. CASE i < n
    <3>1. i \in 1 .. n - 1 /\ i + 1 \in 1 .. n
      BY <1>1, <2>1, <2>2
    <3> QED
      BY <1>2, <2>1, <3>1 DEF Chain
  <2>3. CASE i = n
    <3>1. flushing # <<>>
      BY <1>1, <2>1, <2>3
    <3>2. Swapped = Upto(flushing[n])
      BY <3>1 DEF Swapped
    <3> QED
      BY <1>2, <1>6, <2>1, <2>3, <3>2
  <2> QED
    BY <1>1, <2>1, <2>2, <2>3
<1>13. Continues(Filling', Swapped') /\ accepted' = Swapped' + Len(Filling')
  <2>1. Len(<<>>) = 0
    OBVIOUS
  <2>2. Swapped' \in Nat
    BY <1>1, <1>6, <1>9
  <2> QED
    BY <1>5, <1>9, <2>1, <2>2 DEF Continues
<1>15. \A i \in 1 .. Len(flushing') : Upto(flushing'[i]) <= Swapped'
  <2> TAKE i \in 1 .. Len(flushing')
  <2>1. CASE i \in 1 .. n
    <3>1. flushing[i] \in Seq(Nat) /\ flushing[i] # <<>>
      BY <2>1, Lengths DEF PoolIntact
    <3>2. flushing[i][1] \in Nat /\ Len(flushing[i]) \in Nat
      BY <3>1, ElementOfSeq, LenProperties, EmptySeq
    <3>3. Upto(flushing[i]) \in Int /\ Upto(flushing[i]) <= Swapped
      BY <2>1, <3>2, SMTT(30) DEF Chain, Upto
    <3> QED
      BY <1>1, <1>2, <1>6, <1>9, <2>1, <3>3
  <2>2. CASE i = n + 1
    BY <1>1, <1>2, <1>6, <1>9, <2>2 DEF Upto
  <2> QED
    BY <1>1, <1>2, <2>1, <2>2, SMTT(30)
<1>14. Chain'
  BY <1>8, <1>10, <1>11, <1>12, <1>13, <1>15 DEF Chain
<1> QED
  BY <1>2, <1>3, <1>5, <1>7, <1>14


(* A record that leaves room in the block at the front of the pool. *)
LEMMA FillPreserves ==
  ASSUME TypeOK, PoolIntact, Chain, available # <<>>, NEW block \in Seq(Nat),
         block = Append(Head(available), accepted + 1), Len(block) < BlockCap,
         available' = <<block>> \o Tail(available), flushing' = flushing,
         handed' = handed, held' = held, pc' = pc, accepted' = accepted + 1
  PROVE  Chain' /\ PoolIntact' /\ available' \in Seq(Block)
<1>1. /\ Len(available) \in Nat \ {0} /\ Tail(available) \in Seq(Block)
      /\ Len(Tail(available)) = Len(available) - 1
      /\ \A i \in 1 .. Len(available) - 1 : Tail(available)[i] = available[i + 1]
  BY FrontBlock
<1>2. <<block>> \in Seq(Block) /\ Len(<<block>>) = 1 /\ <<block>>[1] = block
  BY DEF Block
<1>3. /\ available' \in Seq(Block) /\ Len(available') = Len(available) /\ available'[1] = block
      /\ \A i \in 2 .. Len(available) : available'[i] = available[i]
  BY <1>1, <1>2, ConcatProperties
<1>4. PoolIntact'
  BY <1>1, <1>3 DEF PoolIntact
<1>5. Filling' = block /\ Filling = Head(available)
  BY <1>1, <1>3, EmptySeq, FrontBlock DEF Filling
<1>6. Left' = Left /\ Writing' = Writing /\ Swapped' = Swapped /\ Swapped \in Nat
  BY SwappedType DEF Left, Writing, Swapped
<1>7. /\ Head(available) \in Seq(Nat) /\ Len(Head(available)) \in Nat
      /\ Len(block) = Len(Head(available)) + 1 /\ block[Len(block)] = accepted + 1
      /\ \A j \in 1 .. Len(Head(available)) : block[j] = Head(available)[j]
  <2>1. Head(available) \in Seq(Nat) /\ accepted + 1 \in Nat
    BY FrontBlock DEF TypeOK
  <2> QED
    BY <2>1, AppendProperties, LenProperties
<1>8. Continues(block, Swapped)
  <2>1. accepted = Swapped + Len(Head(available)) /\ Continues(Head(available), Swapped)
    BY <1>5 DEF Chain
  <2> SUFFICES ASSUME NEW j \in 1 .. Len(block) PROVE block[j] = Swapped + j
    BY DEF Continues
  <2>2. CASE j \in 1 .. Len(Head(available))
    BY <1>7, <2>1, <2>2 DEF Continues
  <2>3. CASE j = Len(block)
    BY <1>6, <1>7, <2>1, <2>3
  <2> QED
    BY <1>7, <2>2, <2>3
<1>9. accepted' = Swapped + Len(block)
  BY <1>5, <1>6, <1>7 DEF Chain
<1> QED
  BY <1>3, <1>4, <1>5, <1>6, <1>8, <1>9 DEF Chain

LEMMA PushPreserves == IInv /\ Push => IInv'
<1> SUFFICES ASSUME IInv, Push PROVE IInv'
  OBVIOUS
<1> DEFINE block == Append(Head(available), accepted + 1)
<1>1. TypeOK /\ PoolIntact /\ Chain /\ available # <<>> /\ enable
  BY DEF IInv, Push
<1>2. Head(available) \in Seq(Nat) /\ Filling = Head(available) /\ accepted \in Nat
  BY <1>1, FrontBlock DEF TypeOK
<1>3. block \in Seq(Nat) /\ block # <<>> /\ Len(block) = Len(Filling) + 1
  BY <1>2, AppendProperties
<1>4. /\ handed' = handed /\ held' = held /\ pc' = pc /\ state' = state /\ owner' = owner
      /\ enable' = enable /\ accepted' = accepted + 1
  BY DEF Push
<1>5. CASE Len(block) < BlockCap
  <2>1. available' = <<block>> \o Tail(available) /\ flushing' = flushing /\ signalled' = signalled
    BY <1>4, <1>5 DEF Push
  <2> HIDE DEF block
  <2>2. Chain' /\ PoolIntact' /\ available' \in Seq(Block)
    BY <1>1, <1>3, <1>4, <1>5, <2>1, FillPreserves DEF block
  <2>3. TypeOK'
    BY <1>1, <1>4, <2>1, <2>2 DEF TypeOK
  <2>4. NoMissedWakeup' /\ Closing'
    BY <1>1, <1>4, <2>1 DEF IInv, NoMissedWakeup, Wanted, Closing
  <2> QED
    BY <2>2, <2>3, <2>4 DEF IInv
<1>6. CASE ~(Len(block) < BlockCap)
  <2>1. available' = Tail(available) /\ flushing' = Append(flushing, block) /\ Notify
    BY <1>4, <1>6 DEF Push
  <2>2. Continues(block, Swapped) /\ accepted' = Swapped + Len(block)
    <3>1. accepted = Swapped + Len(Filling) /\ Continues(Filling, Swapped)
      BY <1>1 DEF Chain
    <3>2. Swapped \in Nat /\ Len(Filling) \in Nat
      BY <1>1, <1>2, SwappedType, LenProperties
    <3>3. \A j \in 1 .. Len(Filling) : block[j] = Filling[j]
      BY <1>2, AppendProperties
    <3>4. block[Len(Filling) + 1] = accepted + 1
      BY <1>2, AppendProperties
    <3> HIDE DEF block
    <3>5. Continues(block, Swapped)
      <4> SUFFICES ASSUME NEW j \in 1 .. Len(block) PROVE block[j] = Swapped + j
        BY DEF Continues
      <4>1. j \in 1 .. Len(Filling) \/ j = Len(Filling) + 1
        BY <1>3, <3>2
      <4>2. CASE j \in 1 .. Len(Filling)
        BY <3>1, <3>3, <4>2 DEF Continues
      <4>3. CASE j = Len(Filling) + 1
        BY <3>1, <3>2, <3>4, <4>3
      <4> QED
        BY <4>1, <4>2, <4>3
    <3> QED
      BY <1>3, <1>4, <3>1, <3>2, <3>5
  <2> HIDE DEF block
  <2>3. Writing' = Writing
    BY <1>4 DEF Writing
  <2>4. /\ Chain' /\ PoolIntact' /\ available' \in Seq(Block) /\ flushing' \in Seq(Block)
    BY <1>1, <1>3, <1>4, <2>1, <2>2, <2>3, MovePreserves
  <2>5. signalled' \in BOOLEAN /\ (pc = "asleep" => signalled')
    BY <1>1, <2>1 DEF Notify, TypeOK
  <2>6. TypeOK'
    BY <1>1, <1>4, <2>4, <2>5 DEF TypeOK
  <2>7. NoMissedWakeup' /\ Closing'
    BY <1>1, <1>4, <2>5 DEF IInv, NoMissedWakeup, Closing
  <2> QED
    BY <2>4, <2>6, <2>7 DEF IInv
<1> QED
  BY <1>5, <1>6


(* force_swap_buffer_locked, by the flusher while it holds no block. *)
LEMMA ForceSwapPreserves ==
  ASSUME TypeOK, PoolIntact, Chain, ForceSwap, pc # "write", pc' # "write",
         handed' = handed, held' = held, accepted' = accepted
  PROVE  /\ Chain' /\ PoolIntact' /\ Filling' = <<>>
         /\ available' \in Seq(Block) /\ flushing' \in Seq(Block)
<1>1. Writing = <<>> /\ Writing' = <<>>
  BY DEF Writing
<1>2. CASE available = <<>> \/ Head(available) = <<>>
  <2>1. available' = available /\ flushing' = flushing
    BY <1>2 DEF ForceSwap
  <2>2. Filling = <<>> /\ Filling' = <<>>
    BY <1>2, <2>1, FrontBlock DEF Filling
  <2>3. Left' = Left /\ Swapped' = Swapped
    BY <1>1, <2>1 DEF Left, Swapped
  <2>4. Chain' /\ PoolIntact'
    BY <1>1, <2>1, <2>2, <2>3 DEF Chain, PoolIntact
  <2> QED
    BY <2>1, <2>2, <2>4 DEF TypeOK
<1>3. CASE available # <<>> /\ Head(available) # <<>>
  <2>1. available' = Tail(available) /\ flushing' = Append(flushing, Head(available))
    BY <1>3 DEF ForceSwap
  <2>2. Head(available) = Filling /\ Filling \in Seq(Nat)
    BY <1>3, FrontBlock
  <2>3. Continues(Head(available), Swapped) /\ accepted' = Swapped + Len(Head(available))
    BY <2>2 DEF Chain
  <2> QED
    BY <1>1, <1>3, <2>1, <2>2, <2>3, MovePreserves
<1> QED
  BY <1>2, <1>3

LEMMA WakesPreserves == IInv /\ pc \in {"wait", "asleep"} /\ Wakes => IInv'
<1> SUFFICES ASSUME IInv, pc \in {"wait", "asleep"}, Wakes PROVE IInv'
  OBVIOUS
<1>1. /\ pc' = "take" /\ signalled' = FALSE /\ held' = held /\ enable' = enable
      /\ owner' = owner /\ accepted' = accepted /\ handed' = handed
      /\ state' \in {"FLUSH", "TIME_OUT", "CLOSE"}
      /\ pc # "write" /\ pc # "exited" /\ TypeOK /\ PoolIntact /\ Chain
  BY DEF IInv, Wakes
<1>2. CASE ForceSwap
  <2>1. /\ Chain' /\ PoolIntact' /\ Filling' = <<>>
        /\ available' \in Seq(Block) /\ flushing' \in Seq(Block)
    BY <1>1, <1>2, ForceSwapPreserves
  <2>2. state' = "CLOSE" => ~enable
    BY DEF Wakes
  <2>3. TypeOK'
    BY <1>1, <2>1 DEF TypeOK
  <2>4. NoMissedWakeup' /\ Closing'
    BY <1>1, <2>1, <2>2 DEF IInv, NoMissedWakeup, Closing
  <2> QED
    BY <2>1, <2>3, <2>4 DEF IInv
<1>3. CASE ~ForceSwap
  <2>1. enable /\ available' = available /\ flushing' = flushing /\ state' = "FLUSH"
    BY <1>3 DEF Wakes
  <2>2. Writing' = Writing /\ Filling' = Filling /\ Left' = Left /\ Swapped' = Swapped
    BY <1>1, <2>1 DEF Writing, Filling, Left, Swapped
  <2>3. Chain' /\ PoolIntact' /\ TypeOK'
    BY <1>1, <2>1, <2>2 DEF Chain, PoolIntact, TypeOK
  <2>4. NoMissedWakeup' /\ Closing'
    BY <1>1, <2>1 DEF IInv, NoMissedWakeup, Closing
  <2> QED
    BY <2>3, <2>4 DEF IInv
<1> QED
  BY <1>2, <1>3

(* Steps that touch no block. *)
LEMMA IdlePreserves == IInv /\ (Stop \/ Join \/ Sleep \/ UNCHANGED vars) => IInv'
<1> SUFFICES ASSUME IInv, Stop \/ Join \/ Sleep \/ UNCHANGED vars PROVE IInv'
  OBVIOUS
<1>1. /\ available' = available /\ flushing' = flushing /\ held' = held /\ handed' = handed
      /\ accepted' = accepted /\ state' = state /\ (pc' = "write" <=> pc = "write")
      /\ (pc' \in {"write", "recycle"} <=> pc \in {"write", "recycle"})
  BY DEF Stop, Join, Sleep, buffers, vars
<1>2. Writing' = Writing /\ Filling' = Filling /\ Left' = Left /\ Swapped' = Swapped
  BY <1>1 DEF Writing, Filling, Left, Swapped
<1>3. Chain' /\ PoolIntact'
  BY <1>1, <1>2 DEF IInv, Chain, PoolIntact
<1>4. TypeOK'
  BY <1>1 DEF IInv, TypeOK, Stop, Join, Sleep, Notify, vars
<1>5. NoMissedWakeup'
  BY <1>1 DEF IInv, NoMissedWakeup, TypeOK, Wanted, Stop, Join, Sleep, Notify, vars
<1>6. Closing'
  BY <1>1, <1>2 DEF IInv, Closing, Stop, Join, Sleep, vars
<1> QED
  BY <1>3, <1>4, <1>5, <1>6 DEF IInv


(* get_flushing_buffer: the oldest block leaves the queue. *)
LEMMA TakePreserves == IInv /\ Take => IInv'
<1> SUFFICES ASSUME IInv, Take PROVE IInv'
  OBVIOUS
<1> DEFINE f == flushing[1]
           n == Len(flushing)
<1>1. /\ TypeOK /\ PoolIntact /\ Chain /\ Closing /\ pc = "take"
      /\ available' = available /\ enable' = enable /\ signalled' = signalled /\ state' = state
      /\ owner' = owner /\ accepted' = accepted /\ handed' = handed
  BY DEF IInv, Take
<1>2. /\ Writing = <<>> /\ Left = Len(handed) /\ Len(handed) \in Nat /\ n \in Nat
      /\ Filling' = Filling
  <2>1. Len(<<>>) = 0
    OBVIOUS
  <2> QED
    BY <1>1, <2>1, Lengths DEF Writing, Left, Filling
<1>3. CASE flushing = <<>>
  <2>1. held' = held /\ flushing' = flushing /\ pc' \in {"wait", "exited"} /\ (pc' = "exited" => state = "CLOSE")
    BY <1>3 DEF Take
  <2>2. Writing' = Writing /\ Left' = Left /\ Swapped' = Swapped
    BY <1>1, <1>2, <2>1 DEF Writing, Left, Swapped
  <2>3. Chain' /\ PoolIntact' /\ TypeOK'
    BY <1>1, <1>2, <2>1, <2>2 DEF Chain, PoolIntact, TypeOK
  <2>4. NoMissedWakeup' /\ Closing'
    BY <1>1, <1>2, <1>3, <2>1 DEF NoMissedWakeup, Closing
  <2> QED
    BY <2>3, <2>4 DEF IInv
<1>4. CASE flushing # <<>>
  <2>1. held' = <<Head(flushing)>> /\ flushing' = Tail(flushing) /\ pc' = "write"
    BY <1>4 DEF Take
  <2>2. n \in Nat \ {0} /\ f \in Seq(Nat) /\ f # <<>> /\ Head(flushing) = f
    <3>1. flushing \in Seq(Block)
      BY <1>1 DEF TypeOK
    <3>2. 1 \in 1 .. n
      BY <1>4, <3>1, EmptySeq, LenProperties
    <3> QED
      BY <1>1, <1>2, <1>4, <3>1, <3>2, Lengths DEF PoolIntact
  <2>3. /\ flushing' \in Seq(Block) /\ Len(flushing') = n - 1
        /\ \A i \in 1 .. n - 1 : flushing'[i] = flushing[i + 1]
    BY <1>1, <1>4, <2>1, HeadTailProperties DEF TypeOK
  <2>4. /\ held' \in Seq(Block) /\ Len(held') = 1 /\ held'[1] = f /\ Writing' = f
    BY <2>1, <2>2 DEF Writing, Block
  <2>5. /\ Len(f) \in Nat \ {0} /\ f[1] = Left + 1 /\ Upto(f) = Left + Len(f)
        /\ Continues(f, Len(handed)) /\ Left' = Upto(f)
    <3>1. Len(f) \in Nat \ {0}
      BY <2>2, LenProperties, EmptySeq
    <3>2. f[1] = Left + 1 /\ Continues(f, f[1] - 1)
      BY <1>1, <1>4, <2>2 DEF Chain
    <3>3. Left' = Len(handed) + Len(f)
      BY <1>1, <2>4 DEF Left
    <3>4. f[1] - 1 = Len(handed)
      BY <1>2, <3>2
    <3> HIDE DEF f
    <3> QED
      BY <1>2, <3>1, <3>2, <3>3, <3>4 DEF Upto
  <2>6. Swapped' = Swapped
    <3>1. CASE n = 1
      <4>1. flushing' = <<>>
        BY <2>3, <3>1, EmptySeq
      <4> QED
        BY <1>4, <2>5, <3>1, <4>1 DEF Swapped
    <3>2. CASE n # 1
      <4>1. flushing' # <<>> /\ n - 1 \in 1 .. n - 1
        BY <2>2, <2>3, <3>2
      <4>2. flushing'[Len(flushing')] = flushing[n]
        BY <2>2, <2>3, <4>1
      <4> QED
        BY <1>4, <4>1, <4>2 DEF Swapped
    <3> QED
      BY <3>1, <3>2
  <2>7. PoolIntact'
    <3>1. Len(held) = 0 /\ Len(available) \in Nat
      BY <1>1, Lengths DEF TypeOK
    <3>2. Len(available') + Len(flushing') + Len(held') = Blocks
      BY <1>1, <2>2, <2>3, <2>4, <3>1 DEF PoolIntact
    <3>3. \A i \in 1 .. Len(flushing') : flushing'[i] # <<>>
      <4> TAKE i \in 1 .. Len(flushing')
      <4>1. i + 1 \in 1 .. n /\ i \in 1 .. n - 1
        BY <2>2, <2>3
      <4> QED
        BY <1>1, <2>3, <4>1 DEF PoolIntact
    <3> QED
      BY <1>1, <3>2, <3>3 DEF PoolIntact
  <2>8. \A i \in 1 .. Len(flushing') : Continues(flushing'[i], flushing'[i][1] - 1) /\ Upto(flushing'[i]) <= Swapped'
    <3> TAKE i \in 1 .. Len(flushing')
    <3>1. i + 1 \in 1 .. n /\ i \in 1 .. n - 1
      BY <2>2, <2>3
    <3> QED
      BY <1>1, <2>3, <2>6, <3>1 DEF Chain
  <2>9. flushing' # <<>> => flushing'[1][1] = Left' + 1
    <3> SUFFICES ASSUME flushing' # <<>> PROVE flushing'[1][1] = Left' + 1
      OBVIOUS
    <3>1. 1 \in 1 .. n - 1
      BY <2>2, <2>3, EmptySeq
    <3>2. flushing'[1] = flushing[2] /\ flushing[2][1] = Upto(f) + 1
      BY <1>1, <2>3, <3>1 DEF Chain
    <3> QED
      BY <2>5, <3>2
  <2>10. \A i \in 1 .. Len(flushing') - 1 : flushing'[i + 1][1] = Upto(flushing'[i]) + 1
    <3> TAKE i \in 1 .. Len(flushing') - 1
    <3>1. i + 1 \in 1 .. n - 1 /\ i \in 1 .. n - 1 /\ (i + 1) + 1 = i + 2
      BY <2>2, <2>3
    <3>2. flushing[(i + 1) + 1][1] = Upto(flushing[i + 1]) + 1
      BY <1>1, <3>1 DEF Chain
    <3> QED
      BY <2>3, <3>1, <3>2
  <2>11. Chain'
    BY <1>1, <1>2, <2>2, <2>4, <2>5, <2>6, <2>8, <2>9, <2>10 DEF Chain
  <2>12. TypeOK'
    BY <1>1, <2>1, <2>3, <2>4 DEF TypeOK
  <2>13. NoMissedWakeup' /\ Closing'
    BY <1>1, <1>2, <2>1 DEF NoMissedWakeup, Closing
  <2> QED
    BY <2>7, <2>11, <2>12, <2>13 DEF IInv
<1> QED
  BY <1>3, <1>4

(* write_log has been called with the block the flusher holds. *)
LEMMA WriteLogPreserves == IInv /\ WriteLog => IInv'
<1> SUFFICES ASSUME IInv, WriteLog PROVE IInv'
  OBVIOUS
<1> DEFINE b == held[1]
<1>1. /\ TypeOK /\ PoolIntact /\ Chain /\ Closing /\ pc = "write" /\ pc' = "recycle"
      /\ available' = available /\ flushing' = flushing /\ held' = held
      /\ enable' = enable /\ signalled' = signalled /\ state' = state
      /\ owner' = owner /\ accepted' = accepted /\ handed' = handed \o Head(held)
  BY DEF IInv, WriteLog, buffers
<1>2. /\ handed \in Seq(Nat) /\ b \in Seq(Nat) /\ Head(held) = b /\ Writing = b
      /\ Len(handed) \in Nat /\ Len(b) \in Nat /\ Len(held) = 1
  BY <1>1, Lengths, LenProperties DEF TypeOK, Writing
<1>3. /\ handed' \in Seq(Nat) /\ Len(handed') = Len(handed) + Len(b)
      /\ \A i \in 1 .. Len(handed) : handed'[i] = handed[i]
      /\ \A i \in Len(handed) + 1 .. Len(handed) + Len(b) : handed'[i] = b[i - Len(handed)]
  BY <1>1, <1>2, ConcatProperties
<1>4. Continues(handed', 0)
  <2>1. Continues(handed, 0) /\ Continues(b, Len(handed))
    BY <1>1, <1>2 DEF Chain
  <2> SUFFICES ASSUME NEW j \in 1 .. Len(handed') PROVE handed'[j] = 0 + j
    BY DEF Continues
  <2>2. CASE j \in 1 .. Len(handed)
    BY <1>3, <2>1, <2>2 DEF Continues
  <2>3. CASE j \in Len(handed) + 1 .. Len(handed) + Len(b)
    <3>1. j - Len(handed) \in 1 .. Len(b)
      BY <1>2, <2>3
    <3>2. handed'[j] = Len(handed) + (j - Len(handed))
      BY <1>3, <2>1, <2>3, <3>1 DEF Continues
    <3> QED
      BY <1>2, <3>2
  <2> QED
    BY <1>2, <1>3, <2>2, <2>3
<1>5. Writing' = <<>> /\ Filling' = Filling /\ Left' = Left /\ Swapped' = Swapped
  <2>1. Len(<<>>) = 0
    OBVIOUS
  <2>2. Writing' = <<>> /\ Filling' = Filling
    BY <1>1 DEF Writing, Filling
  <2>3. Left' = Left
    BY <1>2, <1>3, <2>1, <2>2 DEF Left
  <2> QED
    BY <1>1, <2>2, <2>3 DEF Swapped
<1>6. Chain'
  <2>1. Continues(Writing', Len(handed'))
    BY <1>5 DEF Continues
  <2> QED
    BY <1>1, <1>4, <1>5, <2>1 DEF Chain
<1>7. TypeOK' /\ PoolIntact' /\ NoMissedWakeup' /\ Closing'
  BY <1>1, <1>2, <1>3, <1>5 DEF TypeOK, PoolIntact, NoMissedWakeup, Closing
<1> QED
  BY <1>6, <1>7 DEF IInv

(* recycle_buffer: an empty block joins the pool behind the others. *)
LEMMA RecyclePreserves == IInv /\ Recycle => IInv'
<1> SUFFICES ASSUME IInv, Recycle PROVE IInv'
  OBVIOUS
<1> DEFINE n == Len(available)
<1>1. /\ TypeOK /\ PoolIntact /\ Chain /\ Closing /\ pc = "recycle" /\ pc' = "take"
      /\ available' = Append(available, <<>>) /\ held' = <<>> /\ flushing' = flushing
      /\ enable' = enable /\ signalled' = signalled /\ state' = state
      /\ owner' = owner /\ accepted' = accepted /\ handed' = handed
  BY DEF IInv, Recycle
<1>2. Len(<<>>) = 0 /\ <<>> \in Block /\ <<>> \in Seq(Block)
  BY DEF Block
<1>3. /\ available' \in Seq(Block) /\ Len(available') = n + 1 /\ available'[n + 1] = <<>>
      /\ \A i \in 1 .. n : available'[i] = available[i]
      /\ n \in Nat /\ Len(flushing) \in Nat /\ Len(held) = 1
  BY <1>1, <1>2, AppendProperties, Lengths DEF TypeOK
<1>4. Filling' = Filling
  <2>1. available' # <<>>
    BY <1>2, <1>3
  <2>2. CASE available = <<>>
    BY <1>2, <1>3, <2>1, <2>2 DEF Filling
  <2>3. CASE available # <<>>
    <3>1. 1 \in 1 .. n
      BY <1>1, <2>3, FrontBlock
    <3> QED
      BY <1>3, <2>1, <2>3, <3>1 DEF Filling
  <2> QED
    BY <2>2, <2>3
<1>5. Writing' = <<>> /\ Writing = <<>> /\ Left' = Left /\ Swapped' = Swapped
  BY <1>1 DEF Writing, Left, Swapped
<1>6. Chain'
  BY <1>1, <1>4, <1>5 DEF Chain
<1>7. PoolIntact'
  <2>1. Len(available') + Len(flushing') + Len(held') = Blocks
    BY <1>1, <1>2, <1>3 DEF PoolIntact
  <2>2. \A i \in 1 .. Len(available') : Len(available'[i]) < BlockCap /\ (i > 1 => available'[i] = <<>>)
    <3> TAKE i \in 1 .. Len(available')
    <3>1. i \in 1 .. n \/ i = n + 1
      BY <1>3
    <3> QED
      BY <1>1, <1>2, <1>3, <3>1, LogAssumption DEF PoolIntact
  <2> QED
    BY <1>1, <2>1, <2>2 DEF PoolIntact
<1>8. TypeOK' /\ NoMissedWakeup' /\ Closing'
  BY <1>1, <1>2, <1>3, <1>4 DEF TypeOK, NoMissedWakeup, Closing
<1> QED
  BY <1>6, <1>7, <1>8 DEF IInv

LEMMA NextPreserves == IInv /\ [Next]_vars => IInv'
<1> SUFFICES ASSUME IInv, [Next]_vars PROVE IInv'
  OBVIOUS
<1>1. CASE Push
  BY <1>1, PushPreserves
<1>2. CASE Stop \/ Join \/ Sleep \/ UNCHANGED vars
  BY <1>2, IdlePreserves
<1>3. CASE WaitPasses \/ WakeUp \/ TimeOut
  BY <1>3, WakesPreserves DEF WaitPasses, WakeUp, TimeOut
<1>4. CASE Take
  BY <1>4, TakePreserves
<1>5. CASE WriteLog
  BY <1>5, WriteLogPreserves
<1>6. CASE Recycle
  BY <1>6, RecyclePreserves
<1> QED
  BY <1>1, <1>2, <1>3, <1>4, <1>5, <1>6 DEF Next, Flusher


(* The inductive invariant holds of every behaviour of the log.            *)
THEOREM LogInductive == Spec => []IInv
BY InitEstablishes, NextPreserves, PTL DEF Spec

-----------------------------------------------------------------------------

(* The variables of the buffer and the flusher are what they are meant to  *)
(* be.                                                                     *)
THEOREM TypeCorrect == Spec => []TypeOK
<1>1. IInv => TypeOK
  BY DEF IInv
<1> QED
  BY <1>1, LogInductive, PTL

(* The blocks of the pool are conserved, and only its front has records.   *)
THEOREM PoolStaysIntact == Spec => []PoolIntact
<1>1. IInv => PoolIntact
  BY DEF IInv
<1> QED
  BY <1>1, LogInductive, PTL

(* The flusher never sleeps through a full block or a stop.                *)
THEOREM WakeupsAreNotMissed == Spec => []NoMissedWakeup
<1>1. IInv => NoMissedWakeup
  BY DEF IInv
<1> QED
  BY <1>1, LogInductive, PTL

(* Two blocks that continue one another are one that does. *)
LEMMA ConcatContinues ==
  ASSUME NEW a \in Seq(Nat), NEW b \in Seq(Nat), NEW from \in Nat,
         Continues(a, from), Continues(b, from + Len(a))
  PROVE  /\ a \o b \in Seq(Nat) /\ Len(a \o b) = Len(a) + Len(b)
         /\ Continues(a \o b, from)
<1>1. /\ a \o b \in Seq(Nat) /\ Len(a \o b) = Len(a) + Len(b)
      /\ Len(a) \in Nat /\ Len(b) \in Nat
  BY ConcatProperties
<1>2. ASSUME NEW j \in 1 .. Len(a) + Len(b) PROVE (a \o b)[j] = from + j
  <2>1. CASE j <= Len(a)
    <3>1. j \in 1 .. Len(a) /\ (a \o b)[j] = a[j]
      BY <1>1, <2>1, ConcatProperties
    <3> QED
      BY <3>1 DEF Continues
  <2>2. CASE ~(j <= Len(a))
    <3>1. j - Len(a) \in 1 .. Len(b) /\ (a \o b)[j] = b[j - Len(a)]
      BY <1>1, <2>2, ConcatProperties
    <3>2. b[j - Len(a)] = (from + Len(a)) + (j - Len(a))
      BY <3>1 DEF Continues
    <3> QED
      BY <1>1, <3>1, <3>2
  <2> QED
    BY <2>1, <2>2
<1> QED
  BY <1>1, <1>2 DEF Continues

(* The flushing queue, block after block, continues what has left it.      *)
LEMMA QueueContinues ==
  ASSUME IInv
  PROVE  /\ FlattenSeq(flushing) \in Seq(Nat)
         /\ Continues(FlattenSeq(flushing), Left)
         /\ Left + Len(FlattenSeq(flushing)) = Swapped
<1> DEFINE N == Len(flushing)
           End(n) == IF n = 0 THEN Left ELSE Upto(flushing[n])
           Good(n) == /\ Continues(FlatTo(flushing, n), Left)
                      /\ Left + Len(FlatTo(flushing, n)) = End(n)
           T == {n \in 0 .. N : Good(n)}
<1>0. TypeOK /\ PoolIntact /\ Chain
  BY DEF IInv
<1>1. /\ N \in Nat /\ Left \in Nat /\ flushing \in Seq(Seq(Nat))
      /\ \A i \in 1 .. N : flushing[i] \in Seq(Nat) /\ Len(flushing[i]) \in Nat \ {0}
                           /\ flushing[i][1] \in Nat
  <2>1. N \in Nat /\ Left \in Nat /\ \A i \in 1 .. N : flushing[i] \in Seq(Nat)
    BY <1>0, Lengths
  <2>2. flushing \in Seq(Seq(Nat))
    BY <1>0 DEF TypeOK, Block
  <2>3. ASSUME NEW i \in 1 .. N PROVE Len(flushing[i]) \in Nat \ {0} /\ flushing[i][1] \in Nat
    <3>1. flushing[i] \in Seq(Nat) /\ flushing[i] # <<>>
      BY <1>0, <2>1 DEF PoolIntact
    <3>2. Len(flushing[i]) \in Nat \ {0}
      BY <3>1, EmptySeq
    <3> QED
      BY <3>1, <3>2
  <2> QED
    BY <2>1, <2>2, <2>3
<1>2. 0 \in T
  <2>1. FlatTo(flushing, 0) = <<>>
    BY FlatToZero
  <2>2. Good(0)
    BY <1>1, <2>1 DEF Continues
  <2> QED
    BY <1>1, <2>2
<1>3. ASSUME NEW n \in 0 .. N - 1, n \in T PROVE n + 1 \in T
  <2>1. n + 1 \in 1 .. N /\ (n + 1) - 1 = n /\ n \in 0 .. N /\ n + 1 \in 0 .. N /\ n + 1 # 0
    BY <1>1
  <2> DEFINE b == flushing[n + 1]
             p == FlatTo(flushing, n)
  <2>2. FlatTo(flushing, n + 1) = p \o b
    BY <1>1, <2>1, FlatToStep
  <2>3. p \in Seq(Nat) /\ b \in Seq(Nat) /\ Len(b) \in Nat \ {0} /\ b[1] \in Nat
    BY <1>1, <2>1, FlatToType
  <2>4. Continues(p, Left) /\ Left + Len(p) = End(n)
    BY <1>3
  <2>5. b[1] = End(n) + 1
    <3>1. CASE n = 0
      <4>1. flushing # <<>>
        BY <1>1, <2>1
      <4> QED
        BY <1>0, <3>1, <4>1 DEF Chain
    <3>2. CASE n # 0
      <4>1. n \in 1 .. N - 1
        BY <1>1, <2>1, <3>2
      <4> QED
        BY <1>0, <3>2, <4>1 DEF Chain
    <3> QED
      BY <3>1, <3>2
  <2>6. Continues(b, Left + Len(p))
    <3>1. Continues(b, b[1] - 1)
      BY <1>0, <2>1 DEF Chain
    <3>2. Len(p) \in Nat /\ b[1] - 1 = Left + Len(p)
      BY <1>1, <2>3, <2>4, <2>5
    <3> QED
      BY <3>1, <3>2
  <2> HIDE DEF p, b
  <2>7. Len(p \o b) = Len(p) + Len(b) /\ Continues(p \o b, Left)
    BY <1>1, <2>3, <2>4, <2>6, ConcatContinues
  <2>8. Left + Len(p \o b) = Upto(b)
    <3>1. Len(p) \in Nat /\ Left \in Nat
      BY <1>1, <2>3
    <3>2. b[1] = (Left + Len(p)) + 1
      BY <2>4, <2>5
    <3> QED
      BY <2>3, <2>7, <3>1, <3>2 DEF Upto
  <2>9. Good(n + 1)
    BY <2>1, <2>2, <2>7, <2>8 DEF b
  <2> HIDE DEF Good
  <2> QED
    BY <2>1, <2>9
<1>4. N \in T
  <2>1. \A n \in 0 .. N : n \in T
    <3> HIDE DEF T
    <3> QED
      BY <1>1, <1>2, <1>3, Induction
  <2>2. N \in 0 .. N
    BY <1>1
  <2> HIDE DEF T
  <2> QED
    BY <2>1, <2>2
<1>5. FlatTo(flushing, N) = FlattenSeq(flushing)
  BY <1>1, FlatToAll
<1>6. End(N) = Swapped
  BY <1>1 DEF Swapped
<1> QED
  BY <1>1, <1>4, <1>5, <1>6, FlattenType

(* Every record push() returned OK for has been given to the file or is in *)
(* exactly one block, in the order of the pushes: the parts of the chain,  *)
(* put together, are the numbers from 1 to accepted.                       *)
THEOREM NothingIsLost == Spec => []NothingLost
<1>1. IInv => NothingLost
  <2> SUFFICES ASSUME IInv PROVE NothingLost
    OBVIOUS
  <2> DEFINE q == FlattenSeq(flushing)
             hw == handed \o Writing
             hwq == hw \o q
             all == hwq \o Filling
  <2>1. /\ TypeOK /\ Chain /\ handed \in Seq(Nat) /\ Writing \in Seq(Nat) /\ Filling \in Seq(Nat)
        /\ Len(handed) \in Nat /\ accepted \in Nat
    BY Lengths DEF IInv, TypeOK
  <2>2. q \in Seq(Nat) /\ Continues(q, Left) /\ Left + Len(q) = Swapped
    BY QueueContinues
  <2> HIDE DEF q
  <2>3. hw \in Seq(Nat) /\ Len(hw) = Left /\ Continues(hw, 0)
    <3>1. Continues(handed, 0) /\ Continues(Writing, 0 + Len(handed))
      BY <2>1 DEF Chain
    <3> QED
      BY <2>1, <3>1, ConcatContinues DEF Left
  <2> HIDE DEF hw
  <2>4. hwq \in Seq(Nat) /\ Len(hwq) = Swapped /\ Continues(hwq, 0)
    <3>1. Continues(q, 0 + Len(hw))
      <4>1. 0 + Len(hw) = Left
        BY <2>3
      <4> QED
        BY <2>2, <4>1
    <3> QED
      BY <2>2, <2>3, <3>1, ConcatContinues
  <2> HIDE DEF hwq
  <2>5. all \in Seq(Nat) /\ Len(all) = accepted /\ Continues(all, 0)
    <3>1. Continues(Filling, 0 + Len(hwq)) /\ accepted = Len(hwq) + Len(Filling)
      <4>1. 0 + Len(hwq) = Swapped
        BY <2>4
      <4> QED
        BY <2>1, <2>4, <4>1 DEF Chain
    <3> QED
      BY <2>1, <2>4, <3>1, ConcatContinues
  <2> HIDE DEF all
  <2>6. all = [i \in 1 .. accepted |-> i]
    BY <2>1, <2>5 DEF Continues
  <2>7. /\ Writing = IF pc = "write" THEN Head(held) ELSE <<>>
        /\ Filling = IF available = <<>> THEN <<>> ELSE Head(available)
    BY <2>1, Lengths, FrontBlock DEF Writing, Filling
  <2> QED
    BY <2>6, <2>7 DEF NothingLost, all, hwq, hw, q
<1> QED
  BY <1>1, LogInductive, PTL

(* No record is in a block behind the ones that were swapped before it.    *)
LEMMA LeftIsBehind ==
  ASSUME TypeOK, PoolIntact, Chain
  PROVE  Left <= accepted /\ Left \in Nat
<1>1. Left \in Nat /\ Swapped \in Nat /\ Len(Filling) \in Nat
  BY Lengths, SwappedType, LenProperties
<1>2. Left <= Swapped
  <2>1. CASE flushing = <<>>
    BY <1>1, <2>1 DEF Swapped
  <2>2. CASE flushing # <<>>
    <3> DEFINE l == Len(flushing[1])
               u == Upto(flushing[1])
    <3>1. 1 \in 1 .. Len(flushing)
      <4>1. flushing \in Seq(Block)
        BY DEF TypeOK
      <4>2. Len(flushing) \in Nat
        BY Lengths
      <4>3. Len(flushing) # 0
        BY <2>2, <4>1
      <4> QED
        BY <4>2, <4>3
    <3>2. flushing[1] \in Seq(Nat) /\ flushing[1] # <<>>
      BY <3>1, Lengths DEF PoolIntact
    <3>3. l \in Nat \ {0}
      BY <3>2, LenProperties, EmptySeq
    <3>4. flushing[1][1] = Left + 1
      BY <2>2 DEF Chain
    <3>5. u = (Left + 1) + l - 1
      BY <3>4 DEF Upto
    <3>6. u <= Swapped
      BY <3>1 DEF Chain
    <3> HIDE DEF l, u
    <3> QED
      BY <1>1, <3>3, <3>5, <3>6
  <2> QED
    BY <2>1, <2>2
<1> QED
  BY <1>1, <1>2 DEF Chain

(* What write_log is called with are the next records. *)
LEMMA WriteLogHands ==
  ASSUME IInv, WriteLog
  PROVE  \E n \in 1 .. accepted : Promise!Hand(n)
<1> DEFINE b == held[1]
           n == Len(b)
<1>1. TypeOK /\ PoolIntact /\ Chain /\ pc = "write"
  BY DEF IInv, WriteLog
<1>2. /\ Head(held) = b /\ b \in Seq(Nat) /\ Len(handed) \in Nat /\ b # <<>>
      /\ Continues(b, Len(handed)) /\ Left = Len(handed) + n
  BY <1>1, Lengths DEF Chain, Writing, Left
<1>3. n \in Nat \ {0}
  BY <1>2, LenProperties, EmptySeq
<1>4. n \in 1 .. accepted /\ Len(handed) + n <= accepted
  BY <1>1, <1>2, <1>3, LeftIsBehind DEF TypeOK
<1>5. b = [i \in 1 .. n |-> Len(handed) + i]
  <2>1. b = [i \in 1 .. n |-> b[i]]
    BY <1>2, LenProperties
  <2>2. \A i \in 1 .. n : b[i] = Len(handed) + i
    BY <1>2 DEF Continues
  <2> QED
    BY <2>1, <2>2
<1>6. handed' = handed \o [i \in 1 .. n |-> Len(handed) + i]
  BY <1>2, <1>5 DEF WriteLog
<1>7. accepted' = accepted /\ enable' = enable /\ owner' = owner
  BY DEF WriteLog
<1> HIDE DEF b, n
<1>8. Promise!Hand(n)
  BY <1>3, <1>4, <1>6, <1>7 DEF Promise!Hand
<1> QED
  BY <1>4, <1>8

(* The destructor returns when nothing is left. *)
LEMMA JoinFinishes ==
  ASSUME IInv, Join
  PROVE  Promise!Finish
<1>1. /\ TypeOK /\ Chain /\ owner = "joining" /\ pc = "exited" /\ ~enable
      /\ flushing = <<>> /\ Filling = <<>>
  BY DEF IInv, Join, Closing
<1>2. Len(<<>>) = 0
  OBVIOUS
<1>3. Len(handed) = accepted
  BY <1>1, <1>2, Lengths DEF Chain, Swapped, Left, Writing
<1>4. owner' = "joined" /\ UNCHANGED <<accepted, handed, enable>>
  BY DEF Join
<1> QED
  BY <1>1, <1>3, <1>4 DEF Promise!Finish

LEMMA StepsKeepPromise == IInv /\ [Next]_vars => [Promise!Next]_Promise!vars
<1> SUFFICES ASSUME IInv, [Next]_vars PROVE [Promise!Next]_Promise!vars
  OBVIOUS
<1>1. CASE Push
  BY <1>1 DEF Push, Promise!Next, Promise!Accept
<1>2. CASE Stop
  <2>1. owner = "running" /\ enable
    BY <1>2 DEF IInv, Closing, Stop
  <2> QED
    BY <1>2, <2>1 DEF Stop, Promise!Next, Promise!Close
<1>3. CASE Join
  BY <1>3, JoinFinishes DEF Promise!Next
<1>4. CASE WriteLog
  BY <1>4, WriteLogHands DEF Promise!Next
<1>5. CASE WaitPasses \/ Sleep \/ WakeUp \/ TimeOut \/ Take \/ Recycle \/ UNCHANGED vars
  BY <1>5 DEF WaitPasses, Sleep, WakeUp, TimeOut, Wakes, Take, Recycle, vars, Promise!vars
<1> QED
  BY <1>1, <1>2, <1>3, <1>4, <1>5 DEF Next, Flusher

(* The buffer and the flusher implement FifoLog: records reach the file in *)
(* the order of the pushes, each once, and ~Logger returns only when every *)
(* record push() returned OK for has been handed over.                     *)
THEOREM LogKeepsPromise == Spec => KeepsPromise
<1>1. Init => Promise!Init
  BY DEF Init, Promise!Init
<1> QED
  BY <1>1, StepsKeepPromise, LogInductive, PTL DEF Spec, KeepsPromise, Promise!Spec

=============================================================================
