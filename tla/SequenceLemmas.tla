--------------------------- MODULE SequenceLemmas ---------------------------
(***************************************************************************)
(* Facts that the proofs about data share: induction in the form of a set  *)
(* of numbers that is closed under successor, and what FlattenSeq makes of *)
(* a sequence of sequences.                                                *)
(***************************************************************************)
EXTENDS Integers, SequencesExt, SequenceTheorems, WellFoundedInduction, TLAPS

LEMMA Least ==
    ASSUME NEW T, T \subseteq Nat, T # {}
    PROVE  \E n \in T : \A m \in T : n <= m
<1> DEFINE R == OpToRel(<, Nat)
<1>1. IsWellFoundedOn(R, Nat)
  BY NatLessThanWellFounded, Zenon
<1>2. \A x, y \in Nat : y < x => <<y, x>> \in R
  BY DEF OpToRel
<1> HIDE DEF R
<1>3. PICK n \in T : \A m \in T : ~ (<<m, n>> \in R)
  BY <1>1, WFMin
<1>4. \A m \in T : n <= m
  <2> SUFFICES ASSUME NEW m \in T PROVE n <= m
    OBVIOUS
  <2>1. ~(m < n)
    BY <1>2, <1>3
  <2> QED
    BY <2>1
<1> QED
  BY <1>4

(* Induction: a set with 0 and the successors, below N, of its members.    *)
LEMMA Induction ==
    ASSUME NEW N \in Nat, NEW T, 0 \in T,
           \A n \in 0 .. N - 1 : n \in T => n + 1 \in T
    PROVE  \A n \in 0 .. N : n \in T
<1> DEFINE Bad == {n \in 0 .. N : n \notin T}
<1>1. CASE Bad = {}
  BY <1>1
<1>2. CASE Bad # {}
  <2>1. Bad \subseteq Nat
    OBVIOUS
  <2>2. PICK n \in Bad : \A m \in Bad : n <= m
    <3> HIDE DEF Bad
    <3> QED
      BY <1>2, <2>1, Least
  <2>3. n \in 0 .. N /\ n \notin T /\ n # 0
    BY <2>2
  <2>4. n - 1 \in 0 .. N - 1 /\ n - 1 \notin Bad
    BY <2>2, <2>3
  <2>5. (n - 1) + 1 \in T
    BY <2>4
  <2> QED
    BY <2>3, <2>5
<1> QED
  BY <1>1, <1>2

-----------------------------------------------------------------------------
(* w is s, of length m, and then t, of length n. *)
Joins(w, s, m, t, n) ==
    /\ Len(w) = m + n
    /\ \A i \in 1 .. m : w[i] = s[i]
    /\ \A j \in 1 .. n : w[m + j] = t[j]

LEMMA ConcatCells ==
    ASSUME NEW S, NEW s \in Seq(S), NEW t \in Seq(S), NEW m, NEW n, Len(s) = m, Len(t) = n
    PROVE  /\ m \in Nat /\ n \in Nat
           /\ s \o t \in Seq(S) /\ Joins(s \o t, s, m, t, n)
<1>1. /\ s \o t \in Seq(S) /\ Len(s \o t) = Len(s) + Len(t)
      /\ \A i \in 1 .. Len(s) + Len(t) : (s \o t)[i] = IF i <= Len(s) THEN s[i] ELSE t[i - Len(s)]
  BY ConcatProperties
<1>2. m \in Nat /\ n \in Nat
  OBVIOUS
<1>3. ASSUME NEW i \in 1 .. m PROVE (s \o t)[i] = s[i]
  <2>1. i \in 1 .. Len(s) + Len(t) /\ i <= Len(s)
    BY <1>2
  <2> QED
    BY <1>1, <2>1
<1>4. ASSUME NEW j \in 1 .. n PROVE (s \o t)[m + j] = t[j]
  <2>1. m + j \in 1 .. Len(s) + Len(t) /\ ~(m + j <= Len(s)) /\ (m + j) - Len(s) = j
    BY <1>2
  <2> QED
    BY <1>1, <2>1
<1> QED
  BY <1>1, <1>2, <1>3, <1>4 DEF Joins

(* f[i] is the flattened prefix of ss of length i. *)
Step(f, ss, i) == f[i] = IF i = 1 THEN ss[i] ELSE f[i - 1] \o ss[i]

Flattens(f, ss) ==
    f = [i \in 1 .. Len(ss) |-> IF i = 1 THEN ss[i] ELSE f[i - 1] \o ss[i]]

LEMMA FlattensExists ==
    ASSUME NEW S, NEW ss \in Seq(Seq(S))
    PROVE  \E f \in [1 .. Len(ss) -> Seq(S)] : Flattens(f, ss)
<1> DEFINE Has(n) == \E f \in [1 .. n -> Seq(S)] : \A i \in 1 .. n : Step(f, ss, i)
           T == {n \in 0 .. Len(ss) : Has(n)}
<1>0. Len(ss) \in Nat /\ \A i \in 1 .. Len(ss) : ss[i] \in Seq(S)
  OBVIOUS
<1>1. Has(0)
  <2>1. <<>> \in [1 .. 0 -> Seq(S)] /\ \A i \in 1 .. 0 : Step(<<>>, ss, i)
    OBVIOUS
  <2> QED
    BY <2>1
<1>2. ASSUME NEW n \in 0 .. Len(ss) - 1, Has(n) PROVE Has(n + 1)
  <2>1. PICK f \in [1 .. n -> Seq(S)] : \A i \in 1 .. n : Step(f, ss, i)
    BY <1>2
  <2> DEFINE last == IF n = 0 THEN ss[n + 1] ELSE f[n] \o ss[n + 1]
             g == [i \in 1 .. n + 1 |-> IF i = n + 1 THEN last ELSE f[i]]
  <2>2. n \in Nat /\ n + 1 \in 1 .. Len(ss)
    BY <1>0
  <2>3. last \in Seq(S)
    BY <1>0, <2>2, ConcatProperties
  <2>4. g \in [1 .. n + 1 -> Seq(S)]
    BY <2>2, <2>3
  <2>5. ASSUME NEW i \in 1 .. n + 1 PROVE Step(g, ss, i)
    <3>1. CASE i = n + 1
      BY <2>2, <3>1 DEF Step
    <3>2. CASE i # n + 1
      <4>1. i \in 1 .. n /\ g[i] = f[i] /\ (i # 1 => g[i - 1] = f[i - 1])
        BY <2>2, <3>2
      <4> QED
        BY <2>1, <4>1 DEF Step
    <3> QED
      BY <3>1, <3>2
  <2> QED
    BY <2>4, <2>5
<1>3. Has(Len(ss))
  <2>1. 0 \in T /\ \A n \in 0 .. Len(ss) - 1 : n \in T => n + 1 \in T
    <3> HIDE DEF Has
    <3> QED
      BY <1>0, <1>1, <1>2
  <2>2. \A n \in 0 .. Len(ss) : n \in T
    <3> HIDE DEF T
    <3> QED
      BY <1>0, <2>1, Induction
  <2> HIDE DEF Has
  <2> QED
    BY <1>0, <2>2
<1>4. PICK f \in [1 .. Len(ss) -> Seq(S)] : \A i \in 1 .. Len(ss) : Step(f, ss, i)
  BY <1>3
<1>5. Flattens(f, ss)
  BY <1>0, <1>4 DEF Flattens, Step
<1> QED
  BY <1>5

(* Steps of the same sequences give the same prefixes. *)
Steps(f, ss, n) == \A i \in 1 .. n : Step(f, ss, i)

LEMMA FlattensUnique ==
    ASSUME NEW N \in Nat, NEW ss, NEW f, NEW g, Steps(f, ss, N), Steps(g, ss, N)
    PROVE  \A i \in 1 .. N : f[i] = g[i]
<1> DEFINE T == {n \in 0 .. N : \A i \in 1 .. n : f[i] = g[i]}
<1>0. \A i \in 1 .. N : Step(f, ss, i) /\ Step(g, ss, i)
  BY DEF Steps
<1>1. 0 \in T
  OBVIOUS
<1>2. ASSUME NEW n \in 0 .. N - 1, n \in T PROVE n + 1 \in T
  <2>1. n + 1 \in 1 .. N /\ n \in Nat
    OBVIOUS
  <2>2. f[n + 1] = g[n + 1]
    <3>1. CASE n = 0
      BY <1>0, <2>1, <3>1 DEF Step
    <3>2. CASE n # 0
      <4>1. n \in 1 .. n /\ n + 1 # 1 /\ (n + 1) - 1 = n
        BY <2>1, <3>2
      <4>2. f[n] = g[n]
        BY <1>2, <4>1
      <4> QED
        BY <1>0, <2>1, <4>1, <4>2 DEF Step
    <3> QED
      BY <3>1, <3>2
  <2> QED
    BY <1>2, <2>1, <2>2
<1>3. \A n \in 0 .. N : n \in T
  <2> HIDE DEF T
  <2> QED
    BY <1>1, <1>2, Induction
<1> QED
  BY <1>3

LEMMA FlattenDef ==
    ASSUME NEW S, NEW ss \in Seq(Seq(S)), ss # <<>>
    PROVE  \E f \in [1 .. Len(ss) -> Seq(S)] :
               FlattenSeq(ss) = f[Len(ss)] /\ Steps(f, ss, Len(ss))
<1> DEFINE f == CHOOSE g : Flattens(g, ss)
<1>1. Flattens(f, ss)
  BY FlattensExists, Zenon
<1>2. FlattenSeq(ss) = f[Len(ss)]
  BY EmptySeq, Zenon DEF FlattenSeq, Flattens
<1> HIDE DEF f
<1>0. PICK n \in Nat : n = Len(ss)
  OBVIOUS
<1>3. PICK g \in [1 .. Len(ss) -> Seq(S)] : Flattens(g, ss)
  BY FlattensExists
<1>4. n \in 1 .. n
  BY <1>0, EmptySeq
<1>5. Steps(f, ss, n)
  BY <1>0, <1>1, Zenon DEF Flattens, Step, Steps
<1>6. Steps(g, ss, n)
  BY <1>0, <1>3, Zenon DEF Flattens, Step, Steps
<1>7. f[n] = g[n]
  BY <1>4, <1>5, <1>6, FlattensUnique
<1> QED
  BY <1>0, <1>2, <1>3, <1>6, <1>7

LEMMA FlattenEmpty == FlattenSeq(<<>>) = <<>>
  BY EmptySeq DEF FlattenSeq

LEMMA FlattenType ==
    ASSUME NEW S, NEW ss \in Seq(Seq(S))
    PROVE  FlattenSeq(ss) \in Seq(S)
<1>1. CASE ss = <<>>
  BY <1>1, FlattenEmpty, EmptySeq
<1>2. CASE ss # <<>>
  <2>1. PICK f \in [1 .. Len(ss) -> Seq(S)] : FlattenSeq(ss) = f[Len(ss)]
    BY <1>2, FlattenDef
  <2>2. Len(ss) \in 1 .. Len(ss)
    BY <1>2, EmptySeq
  <2> QED
    BY <2>1, <2>2
<1> QED
  BY <1>1, <1>2

LEMMA FlattenAppend ==
    ASSUME NEW S, NEW ss \in Seq(Seq(S)), NEW s \in Seq(S)
    PROVE  FlattenSeq(Append(ss, s)) = FlattenSeq(ss) \o s
<1> DEFINE tt == Append(ss, s)
           n == Len(ss)
<1>1. /\ tt \in Seq(Seq(S)) /\ tt # <<>> /\ Len(tt) = n + 1 /\ n \in Nat
      /\ \A i \in 1 .. n : tt[i] = ss[i]
      /\ tt[n + 1] = s
  BY AppendProperties
<1> HIDE DEF tt
<1>2. PICK g \in [1 .. Len(tt) -> Seq(S)] :
        FlattenSeq(tt) = g[Len(tt)] /\ Steps(g, tt, Len(tt))
  BY <1>1, FlattenDef
<1>3. CASE ss = <<>>
  <2>1. n = 0
    BY <1>3, EmptySeq
  <2>2. FlattenSeq(tt) = s
    BY <1>1, <1>2, <2>1 DEF Step, Steps
  <2>3. FlattenSeq(ss) \o s = s
    BY <1>3, FlattenEmpty, ConcatEmptySeq
  <2> QED
    BY <2>2, <2>3 DEF tt
<1>4. CASE ss # <<>>
  <2>1. n \in 1 .. n
    BY <1>4, EmptySeq
  <2>2. PICK f \in [1 .. n -> Seq(S)] : FlattenSeq(ss) = f[n] /\ Steps(f, ss, n)
    BY <1>4, FlattenDef
  <2>3. Steps(g, ss, n)
    <3>1. ASSUME NEW i \in 1 .. n PROVE Step(g, ss, i)
      <4>1. i \in 1 .. Len(tt) /\ tt[i] = ss[i]
        BY <1>1
      <4> QED
        BY <1>2, <4>1 DEF Step, Steps
    <3> QED
      BY <3>1 DEF Steps
  <2>4. f[n] = g[n]
    BY <1>1, <2>1, <2>2, <2>3, FlattensUnique
  <2>5. FlattenSeq(tt) = g[n] \o s
    <3>1. n + 1 \in 1 .. Len(tt) /\ n + 1 # 1 /\ (n + 1) - 1 = n
      BY <1>1, <2>1
    <3> QED
      BY <1>1, <1>2, <3>1 DEF Step, Steps
  <2> QED
    BY <2>2, <2>4, <2>5 DEF tt
<1> QED
  BY <1>3, <1>4

-----------------------------------------------------------------------------
(* The prefixes of a flattened sequence. *)
FlatTo(ss, n) == FlattenSeq(SubSeq(ss, 1, n))

(* One more element is appended to what was flattened before. *)
LEMMA FlatToStep ==
    ASSUME NEW S, NEW ss \in Seq(Seq(S)), NEW n \in 1 .. Len(ss)
    PROVE  FlatTo(ss, n) = FlatTo(ss, n - 1) \o ss[n]
<1> DEFINE front == SubSeq(ss, 1, n - 1)
<1>1. front \in Seq(Seq(S)) /\ ss[n] \in Seq(S) /\ n \in 1 .. Len(ss) /\ 1 \in 1 .. Len(ss) /\ n \in 1 .. Len(ss)
  OBVIOUS
<1>2. SubSeq(ss, 1, n) = Append(front, ss[n])
  <2>1. SubSeq(ss, 1, n) = front \o <<ss[n]>>
    BY <1>1, SubSeqRecursiveSecond
  <2> QED
    BY <1>1, <2>1, AppendIsConcat
<1> HIDE DEF front
<1>3. FlattenSeq(Append(front, ss[n])) = FlattenSeq(front) \o ss[n]
  BY <1>1, FlattenAppend
<1> QED
  BY <1>2, <1>3 DEF FlatTo, front

LEMMA FlatToZero == \A ss : FlatTo(ss, 0) = <<>>
<1> SUFFICES ASSUME NEW ss PROVE FlatTo(ss, 0) = <<>>
  OBVIOUS
<1>1. SubSeq(ss, 1, 0) = <<>>
  BY SubSeqEmpty
<1> QED
  BY <1>1, FlattenEmpty DEF FlatTo

LEMMA FlatToAll ==
    ASSUME NEW S, NEW ss \in Seq(Seq(S))
    PROVE  FlatTo(ss, Len(ss)) = FlattenSeq(ss)
  BY SubSeqFull DEF FlatTo

LEMMA FlatToType ==
    ASSUME NEW S, NEW ss \in Seq(Seq(S)), NEW n \in 0 .. Len(ss)
    PROVE  FlatTo(ss, n) \in Seq(S)
<1>1. SubSeq(ss, 1, n) \in Seq(Seq(S))
  OBVIOUS
<1> QED
  BY <1>1, FlattenType DEF FlatTo

(* A prefix is a prefix of every longer one. *)
LEMMA FlatToPrefix ==
    ASSUME NEW S, NEW ss \in Seq(Seq(S)),
           NEW m \in 0 .. Len(ss), NEW n \in 0 .. Len(ss), m <= n
    PROVE  /\ Len(FlatTo(ss, m)) <= Len(FlatTo(ss, n))
           /\ \A j \in 1 .. Len(FlatTo(ss, m)) : FlatTo(ss, n)[j] = FlatTo(ss, m)[j]
<1> DEFINE Holds(k) == /\ Len(FlatTo(ss, m)) <= Len(FlatTo(ss, m + k))
                       /\ \A j \in 1 .. Len(FlatTo(ss, m)) : FlatTo(ss, m + k)[j] = FlatTo(ss, m)[j]
           T == {k \in 0 .. n - m : Holds(k)}
<1>1. 0 \in T /\ n - m \in Nat
  <2>1. m + 0 = m /\ FlatTo(ss, m) \in Seq(S)
    BY FlatToType
  <2>2. Len(FlatTo(ss, m)) \in Nat
    BY <2>1
  <2> QED
    BY <2>1, <2>2
<1>2. ASSUME NEW k \in 0 .. (n - m) - 1, k \in T PROVE k + 1 \in T
  <2>1. m + k \in 0 .. Len(ss) /\ m + k + 1 \in 1 .. Len(ss) /\ (m + k + 1) - 1 = m + k
        /\ m + (k + 1) = m + k + 1
    OBVIOUS
  <2>2. FlatTo(ss, m + k + 1) = FlatTo(ss, m + k) \o ss[m + k + 1]
    BY <2>1, FlatToStep
  <2>3. FlatTo(ss, m) \in Seq(S) /\ FlatTo(ss, m + k) \in Seq(S) /\ ss[m + k + 1] \in Seq(S)
    BY <2>1, FlatToType
  <2>4. Holds(k)
    BY <1>2
  <2> DEFINE p == FlatTo(ss, m)
             q == FlatTo(ss, m + k)
             r == ss[m + k + 1]
  <2>5. p \in Seq(S) /\ q \in Seq(S) /\ r \in Seq(S) /\ Len(p) <= Len(q)
        /\ (\A j \in 1 .. Len(p) : q[j] = p[j]) /\ FlatTo(ss, m + (k + 1)) = q \o r
    BY <2>1, <2>2, <2>3, <2>4
  <2> HIDE DEF q, r
  <2>6. Len(p) <= Len(q \o r) /\ \A j \in 1 .. Len(p) : (q \o r)[j] = p[j]
    <3> HIDE DEF p
    <3>1. Len(p) \in Nat /\ Len(q) \in Nat /\ Len(r) \in Nat /\ Len(q \o r) = Len(q) + Len(r)
      BY <2>5, ConcatProperties
    <3>2. ASSUME NEW j \in 1 .. Len(p) PROVE (q \o r)[j] = p[j]
      <4>1. j \in 1 .. Len(q) + Len(r) /\ j <= Len(q)
        BY <2>5, <3>1
      <4>2. (q \o r)[j] = q[j]
        BY <2>5, <4>1, ConcatProperties
      <4> QED
        BY <2>5, <4>2
    <3>3. Len(p) <= Len(q)
      BY <2>5
    <3>4. Len(p) <= Len(q \o r)
      BY ONLY <3>1, <3>3
    <3> QED
      BY <3>2, <3>4
  <2>7. Holds(k + 1)
    BY <2>5, <2>6
  <2>8. k + 1 \in 0 .. n - m
    OBVIOUS
  <2> HIDE DEF Holds
  <2> QED
    BY <2>7, <2>8
<1>3. \A k \in 0 .. n - m : k \in T
  <2> HIDE DEF T
  <2> QED
    BY <1>1, <1>2, Induction
<1>4. n - m \in 0 .. n - m /\ m + (n - m) = n
  OBVIOUS
<1>5. Holds(n - m)
  <2> HIDE DEF Holds
  <2> QED
    BY <1>3, <1>4
<1> QED
  BY <1>4, <1>5

(* t is found in w, after its first n elements. *)
Found(w, n, t) == \A j \in 1 .. Len(t) : w[n + j] = t[j]

(* Where the elements of the i-th sequence are found. *)
LEMMA FlattenCells ==
    ASSUME NEW S, NEW ss \in Seq(Seq(S)), NEW i \in 1 .. Len(ss)
    PROVE  /\ Len(FlatTo(ss, i)) = Len(FlatTo(ss, i - 1)) + Len(ss[i])
           /\ Len(FlatTo(ss, i)) <= Len(FlattenSeq(ss))
           /\ Found(FlattenSeq(ss), Len(FlatTo(ss, i - 1)), ss[i])
<1>1. i \in 0 .. Len(ss) /\ i - 1 \in 0 .. Len(ss) /\ Len(ss) \in 0 .. Len(ss) /\ i <= Len(ss)
  OBVIOUS
<1>2. FlatTo(ss, i - 1) \in Seq(S) /\ FlatTo(ss, i) \in Seq(S) /\ ss[i] \in Seq(S)
  BY <1>1, FlatToType
<1>3. FlatTo(ss, i) = FlatTo(ss, i - 1) \o ss[i]
  BY FlatToStep
<1>4. /\ Len(FlatTo(ss, i)) <= Len(FlattenSeq(ss))
      /\ \A j \in 1 .. Len(FlatTo(ss, i)) : FlattenSeq(ss)[j] = FlatTo(ss, i)[j]
  <2>1. /\ Len(FlatTo(ss, i)) <= Len(FlatTo(ss, Len(ss)))
        /\ \A j \in 1 .. Len(FlatTo(ss, i)) : FlatTo(ss, Len(ss))[j] = FlatTo(ss, i)[j]
    BY <1>1, FlatToPrefix
  <2> QED
    BY <2>1, FlatToAll
<1>5. \A j \in 1 .. Len(ss[i]) :
        /\ Len(FlatTo(ss, i - 1)) + j \in 1 .. Len(FlatTo(ss, i))
        /\ FlatTo(ss, i)[Len(FlatTo(ss, i - 1)) + j] = ss[i][j]
  BY <1>2, <1>3
<1>6. Len(FlatTo(ss, i)) = Len(FlatTo(ss, i - 1)) + Len(ss[i])
  BY <1>2, <1>3, ConcatProperties
<1> QED
  BY <1>4, <1>5, <1>6 DEF Found

(* The first sequence, and what the others make. *)
LEMMA FlattenHead ==
    ASSUME NEW S, NEW ss \in Seq(Seq(S)), ss # <<>>
    PROVE  FlattenSeq(ss) = Head(ss) \o FlattenSeq(Tail(ss))
<1> DEFINE tt == Tail(ss)
           T == {n \in 0 .. Len(tt) : FlatTo(ss, n + 1) = ss[1] \o FlatTo(tt, n)}
<1>1. /\ tt \in Seq(Seq(S)) /\ Len(tt) = Len(ss) - 1 /\ Len(tt) \in Nat
      /\ \A i \in 1 .. Len(tt) : tt[i] = ss[i + 1]
      /\ ss[1] \in Seq(S) /\ Head(ss) = ss[1] /\ 1 \in 1 .. Len(ss)
  BY EmptySeq, HeadTailProperties
<1> HIDE DEF tt
<1>2. 0 \in T
  <2>1. FlatTo(ss, 1) = FlatTo(ss, 1 - 1) \o ss[1]
    BY <1>1, FlatToStep
  <2>2. FlatTo(ss, 0) = <<>> /\ FlatTo(tt, 0) = <<>>
    BY FlatToZero
  <2>3. <<>> \o ss[1] = ss[1] /\ ss[1] \o <<>> = ss[1]
    BY <1>1, ConcatEmptySeq
  <2> QED
    BY <1>1, <2>1, <2>2, <2>3
<1>3. ASSUME NEW n \in 0 .. Len(tt) - 1, n \in T PROVE n + 1 \in T
  <2>1. /\ n + 1 \in 1 .. Len(tt) /\ (n + 1) - 1 = n /\ n \in 0 .. Len(tt)
        /\ n + 2 \in 1 .. Len(ss) /\ (n + 2) - 1 = n + 1 /\ (n + 1) + 1 = n + 2
    BY <1>1
  <2>2. FlatTo(tt, n + 1) = FlatTo(tt, n) \o tt[n + 1]
    BY <1>1, <2>1, FlatToStep
  <2>3. FlatTo(ss, n + 2) = FlatTo(ss, n + 1) \o ss[n + 2]
    BY <2>1, FlatToStep
  <2>4. tt[n + 1] = ss[n + 2] /\ ss[n + 2] \in Seq(S)
    BY <1>1, <2>1
  <2>5. FlatTo(tt, n) \in Seq(S)
    BY <1>1, <2>1, FlatToType
  <2>6. (ss[1] \o FlatTo(tt, n)) \o ss[n + 2] = ss[1] \o (FlatTo(tt, n) \o ss[n + 2])
    <3>1. ss[1] \in Seq(S) /\ ss[n + 2] \in Seq(S)
      BY <1>1, <2>4
    <3> DEFINE a == ss[1]
               b == FlatTo(tt, n)
               c == ss[n + 2]
    <3>2. a \in Seq(S) /\ b \in Seq(S) /\ c \in Seq(S)
      BY <2>5, <3>1
    <3> HIDE DEF a, b, c
    <3>3. (a \o b) \o c = a \o (b \o c)
      BY ONLY <3>2, ConcatAssociative
    <3> QED
      BY <3>3 DEF a, b, c
  <2>7. FlatTo(ss, n + 2) = ss[1] \o FlatTo(tt, n + 1)
    BY <1>3, <2>2, <2>3, <2>4, <2>6
  <2>8. n + 1 \in 0 .. Len(tt)
    BY <2>1
  <2> QED
    BY <2>1, <2>7, <2>8
<1>4. \A n \in 0 .. Len(tt) : n \in T
  <2> HIDE DEF T
  <2> QED
    BY <1>1, <1>2, <1>3, Induction
<1>5. Len(tt) \in T
  <2>1. Len(tt) \in 0 .. Len(tt)
    BY <1>1
  <2> HIDE DEF T
  <2> QED
    BY <1>4, <2>1
<1>6. FlatTo(ss, Len(tt) + 1) = ss[1] \o FlatTo(tt, Len(tt))
  BY <1>5
<1>7. Len(tt) + 1 = Len(ss)
  BY <1>1
<1>8. FlatTo(ss, Len(ss)) = FlattenSeq(ss) /\ FlatTo(tt, Len(tt)) = FlattenSeq(tt)
  BY <1>1, FlatToAll
<1> QED
  BY <1>1, <1>6, <1>7, <1>8 DEF tt

-----------------------------------------------------------------------------
(* What Min and Max choose. *)
LEMMA MinProperties ==
    ASSUME NEW T, T \subseteq Nat, T # {}
    PROVE  Min(T) \in T /\ \A m \in T : Min(T) <= m
<1>1. \E x \in T : \A y \in T : x <= y
  BY Least
<1> QED
  BY <1>1 DEF Min

LEMMA MinIs ==
    ASSUME NEW T, T \subseteq Nat, NEW x \in T, \A y \in T : x <= y
    PROVE  Min(T) = x
<1>1. Min(T) \in T /\ Min(T) <= x
  BY MinProperties
<1>2. Min(T) \in Nat /\ x \in Nat /\ x <= Min(T)
  BY <1>1
<1> QED
  BY <1>1, <1>2

LEMMA MaxProperties ==
    ASSUME NEW N \in Nat, NEW T, T \subseteq 0 .. N, T # {}
    PROVE  Max(T) \in T /\ \A m \in T : Max(T) >= m
<1> DEFINE U == {N - x : x \in T}
<1>0. \A x \in T : x \in 0 .. N
  OBVIOUS
<1>1. U \subseteq Nat /\ U # {}
  <2>1. PICK x \in T : TRUE
    OBVIOUS
  <2>2. N - x \in U
    BY <2>1
  <2>3. \A x_1 \in T : N - x_1 \in Nat
    BY <1>0
  <2> QED
    BY <2>2, <2>3
<1>2. PICK u \in U : \A m \in U : u <= m
  <2> HIDE DEF U
  <2> QED
    BY <1>1, Least
<1>3. PICK x \in T : u = N - x
  BY <1>2
<1>4. ASSUME NEW y \in T PROVE x >= y
  <2>1. N - y \in U /\ x \in 0 .. N /\ y \in 0 .. N
    BY <1>0
  <2>2. N - x <= N - y
    BY <1>2, <1>3, <2>1
  <2> QED
    BY <2>1, <2>2
<1> QED
  BY <1>4 DEF Max

LEMMA MaxIs ==
    ASSUME NEW T, T \subseteq Int, NEW x \in T, \A y \in T : x >= y
    PROVE  Max(T) = x
<1>1. Max(T) \in T /\ Max(T) >= x
  BY DEF Max
<1>2. Max(T) \in Int /\ x \in Int /\ x >= Max(T)
  BY <1>1
<1> QED
  BY <1>1, <1>2
=============================================================================
