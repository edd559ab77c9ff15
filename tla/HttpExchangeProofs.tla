------------------------- MODULE HttpExchangeProofs -------------------------
(***************************************************************************)
(* Proofs about HttpExchange. The parser's part is that of                 *)
(* HttpParserProofs, since every step is a parser's step or changes        *)
(* nothing of the parser.                                                  *)
(***************************************************************************)
EXTENDS HttpExchange, HttpParserProofs

(* The exchange runs the parser. *)
LEMMA RunsParser == Spec => Init /\ [][ParserNext]_vars
<1>1. ExchangeInit => Init
  BY DEF ExchangeInit
<1>2. [Next]_allVars => [ParserNext]_vars
  <2>1. ASSUME Next PROVE [ParserNext]_vars
    BY <2>1 DEF Next, Answer, Write
  <2>2. ASSUME UNCHANGED allVars PROVE UNCHANGED vars
    BY <2>2 DEF allVars
  <2> QED
    BY <2>1, <2>2
<1> QED
  BY <1>1, <1>2, PTL DEF Spec

LEMMA Standing == Spec => [](Base /\ InStep)
BY RunsParser, ParserStands, PTL

(* StreamKept: nothing the read buffer does to make room, move, shrink or  *)
(* reset its positions loses, repeats or moves a byte that was not         *)
(* consumed.                                                               *)
THEOREM StreamIsKept == Spec => []StreamKept
<1>1. Base => StreamKept
  BY DEF Base
<1> QED
  BY <1>1, Standing, PTL

(* FragmentsDoNotMatter: whatever the cut of the stream into reads, the    *)
(* parser has dispatched exactly the whole requests it was shown, each     *)
(* with its meaning and in order, unless a body was cut.                   *)
THEOREM FragmentsJoin == Spec => []FragmentsDoNotMatter
<1>1. Base /\ InStep => FragmentsDoNotMatter
  BY CutsDoNotMatter
<1> QED
  BY <1>1, Standing, PTL

(* NothingAfterMalformed: once a request was refused, the bytes after it   *)
(* are never taken for a request.                                          *)
THEOREM FaultsOnly == Spec => []NothingAfterMalformed
<1>1. Base /\ InStep => NothingAfterMalformed
  BY OnlyFaults
<1> QED
  BY <1>1, Standing, PTL

-----------------------------------------------------------------------------
(* Paths. *)

(* FoldLeft's function from sets of indices to stacks, up to index n.      *)
Iterates(f, p, n) ==
    f = [s \in SUBSET (1 .. n) |->
            IF s = {} THEN <<>> ELSE PathStep(f[s \ {Max(s)}], p[Max(s)])]

LEMMA IteratesExists ==
    ASSUME NEW p, NEW N \in Nat
    PROVE  \E f : Iterates(f, p, N)
<1> DEFINE T == {n \in 0 .. N : \E f : Iterates(f, p, n)}
<1>1. 0 \in T
  <2>1. PICK f : f = [s \in SUBSET (1 .. 0) |-> <<>>]
    OBVIOUS
  <2>2. \A s \in SUBSET (1 .. 0) : s = {}
    OBVIOUS
  <2>3. Iterates(f, p, 0)
    BY <2>1, <2>2 DEF Iterates
  <2> QED
    BY <2>3
<1>2. ASSUME NEW n \in 0 .. N - 1, n \in T PROVE n + 1 \in T
  <2>1. PICK f : Iterates(f, p, n)
    BY <1>2
  <2>2. PICK m \in Nat : m = n + 1
    OBVIOUS
  <2>3. PICK g : g = [s \in SUBSET (1 .. m) |->
                        IF s \subseteq 1 .. n THEN f[s] ELSE PathStep(f[s \ {m}], p[m])]
    OBVIOUS
  <2>4. ASSUME NEW s \in SUBSET (1 .. m), s \subseteq 1 .. n
        PROVE  g[s] = IF s = {} THEN <<>> ELSE PathStep(g[s \ {Max(s)}], p[Max(s)])
    <3>1. s \in SUBSET (1 .. n)
      BY <2>4
    <3>2. f[s] = IF s = {} THEN <<>> ELSE PathStep(f[s \ {Max(s)}], p[Max(s)])
      BY <2>1, <3>1 DEF Iterates
    <3>3. g[s] = f[s]
      BY <2>3, <2>4
    <3>4. PICK r : r = s \ {Max(s)}
      OBVIOUS
    <3>5. r \in SUBSET (1 .. m) /\ r \subseteq 1 .. n
      BY <2>4, <3>4
    <3>6. g[r] = f[r]
      BY <2>3, <3>5
    <3> QED
      BY <3>2, <3>3, <3>4, <3>6
  <2>5. ASSUME NEW s \in SUBSET (1 .. m), ~(s \subseteq 1 .. n)
        PROVE  g[s] = IF s = {} THEN <<>> ELSE PathStep(g[s \ {Max(s)}], p[Max(s)])
    <3>1. m \in s
      <4>1. \A i \in 1 .. m : i # m => i \in 1 .. n
        BY <2>2
      <4> QED
        BY <2>5, <4>1
    <3>2. Max(s) = m
      <4>1. s \subseteq Int /\ \A y \in s : m >= y
        OBVIOUS
      <4> QED
        BY <3>1, <4>1, MaxIs
    <3>3. PICK r : r = s \ {m}
      OBVIOUS
    <3>4. r \in SUBSET (1 .. m) /\ r \subseteq 1 .. n
      <4>1. \A i \in 1 .. m : i # m => i \in 1 .. n
        BY <2>2
      <4> QED
        BY <3>3, <4>1
    <3>5. g[r] = f[r]
      BY <2>3, <3>4
    <3>6. g[s] = PathStep(f[r], p[m])
      BY <2>3, <2>5, <3>3
    <3> QED
      BY <3>1, <3>2, <3>3, <3>5, <3>6
  <2>6. \A s \in SUBSET (1 .. m) :
            g[s] = IF s = {} THEN <<>> ELSE PathStep(g[s \ {Max(s)}], p[Max(s)])
    BY <2>4, <2>5
  <2>7. Iterates(g, p, m)
    BY <2>3, <2>6, Zenon DEF Iterates
  <2>8. n + 1 \in 0 .. N
    OBVIOUS
  <2> QED
    BY <2>2, <2>7, <2>8
<1> HIDE DEF T
<1>3. \A n \in 0 .. N : n \in T
  BY <1>1, <1>2, Induction
<1>4. N \in T
  BY <1>3
<1> QED
  BY <1>4 DEF T

(* The stacks of validate_static_path, part by part.                       *)
Walk(g, p, N) ==
    /\ g[0] = <<>>
    /\ \A n \in 0 .. N - 1 : g[n + 1] = PathStep(g[n], p[n + 1])

LEMMA FoldWalks ==
    ASSUME NEW S, NEW p \in Seq(S)
    PROVE  \E g : Walk(g, p, Len(p)) /\ FoldLeft(PathStep, <<>>, p) = g[Len(p)]
<1>1. PICK N \in Nat : N = Len(p)
  OBVIOUS
<1>2. DOMAIN p = 1 .. N
  BY <1>1
<1> DEFINE f == CHOOSE h : Iterates(h, p, N)
<1>3. Iterates(f, p, N)
  BY IteratesExists, Zenon
<1>4. FoldLeft(PathStep, <<>>, p) = f[1 .. N]
  BY <1>2, Zenon DEF FoldLeft, MapThenFoldSet, Iterates
<1> HIDE DEF f
<1>5. PICK g : g = [n \in 0 .. N |-> f[1 .. n]]
  OBVIOUS
<1>6. g[0] = <<>>
  <2>1. f[{}] = <<>>
    BY <1>3 DEF Iterates
  <2>2. 1 .. 0 = {}
    OBVIOUS
  <2> QED
    BY <1>5, <2>1, <2>2
<1>7. ASSUME NEW n \in 0 .. N - 1 PROVE g[n + 1] = PathStep(g[n], p[n + 1])
  <2>1. PICK m \in 1 .. N : m = n + 1
    OBVIOUS
  <2>2. 1 .. m \in SUBSET (1 .. N) /\ 1 .. m # {} /\ m \in 0 .. N /\ n \in 0 .. N
    <3>1. m \in 1 .. m /\ m \in 0 .. N /\ n \in 0 .. N
      BY <2>1
    <3>2. \A i \in 1 .. m : i \in 1 .. N
      OBVIOUS
    <3> QED
      BY <3>1, <3>2
  <2>3. Max(1 .. m) = m
    <3>1. 1 .. m \subseteq Int /\ m \in 1 .. m /\ \A y \in 1 .. m : m >= y
      OBVIOUS
    <3> QED
      BY <3>1, MaxIs
  <2>4. (1 .. m) \ {m} = 1 .. n
    BY <2>1
  <2>5. f[1 .. m] = PathStep(f[1 .. n], p[m])
    BY <1>3, <2>2, <2>3, <2>4 DEF Iterates
  <2> QED
    BY <1>5, <2>1, <2>2, <2>5
<1>8. Walk(g, p, N) /\ g[N] = f[1 .. N]
  <2>1. Walk(g, p, N)
    BY <1>6, <1>7 DEF Walk
  <2>2. N \in 0 .. N
    OBVIOUS
  <2> QED
    BY <1>5, <2>1, <2>2
<1> QED
  BY <1>1, <1>4, <1>8

-----------------------------------------------------------------------------
(* How far down the parts i to j lead: below zero, above where they began. *)
Name(part) == part \notin {"", ".", ".."}

Dot(part) == part = "" \/ part = "."

Height(p, i, j) == Downs(p, i, j) - Ups(p, i, j)

LEMMA CountStep ==
    ASSUME NEW X, NEW i \in Nat, NEW j \in Nat, i <= j + 1
    PROVE  /\ Cardinality({k \in i .. j : k \in X}) \in Nat
           /\ Cardinality({k \in i .. j + 1 : k \in X}) =
                 Cardinality({k \in i .. j : k \in X}) + (IF j + 1 \in X THEN 1 ELSE 0)
<1> DEFINE A == {k \in i .. j : k \in X}
           B == {k \in i .. j + 1 : k \in X}
<1>1. IsFiniteSet(A)
  <2>1. IsFiniteSet(i .. j)
    BY FS_Interval
  <2>2. A \in SUBSET (i .. j)
    OBVIOUS
  <2> QED
    BY <2>1, <2>2, FS_Subset
<1>2. Cardinality(A) \in Nat
  BY <1>1, FS_CardinalityType
<1>3. j + 1 \notin A
  OBVIOUS
<1>4. \A k : k \in i .. j + 1 <=> k \in i .. j \/ k = j + 1
  OBVIOUS
<1>5. CASE j + 1 \in X
  <2>1. B = A \union {j + 1}
    BY <1>4, <1>5
  <2> HIDE DEF A, B
  <2>2. Cardinality(A \union {j + 1}) = Cardinality(A) + 1
    BY <1>1, <1>3, FS_AddElement
  <2>3. Cardinality(B) = Cardinality(A) + (IF j + 1 \in X THEN 1 ELSE 0)
    BY <1>5, <2>1, <2>2
  <2> QED
    BY <1>2, <2>3 DEF A, B
<1>6. CASE j + 1 \notin X
  <2>1. B = A
    BY <1>4, <1>6
  <2> HIDE DEF A, B
  <2>2. Cardinality(B) = Cardinality(A) + (IF j + 1 \in X THEN 1 ELSE 0)
    BY <1>2, <1>6, <2>1
  <2> QED
    BY <1>2, <2>2 DEF A, B
<1> QED
  BY <1>5, <1>6

LEMMA UpsStep ==
    ASSUME NEW p, NEW i \in Nat, NEW j \in Nat, i <= j + 1
    PROVE  /\ Ups(p, i, j) \in Nat
           /\ Ups(p, i, j + 1) = Ups(p, i, j) + (IF p[j + 1] = ".." THEN 1 ELSE 0)
<1>1. PICK X : X = {k \in Nat : p[k] = ".."}
  OBVIOUS
<1>2. {k \in i .. j : p[k] = ".."} = {k \in i .. j : k \in X}
  BY <1>1
<1>3. {k \in i .. j + 1 : p[k] = ".."} = {k \in i .. j + 1 : k \in X}
  BY <1>1
<1>4. j + 1 \in X <=> p[j + 1] = ".."
  BY <1>1
<1> QED
  BY <1>2, <1>3, <1>4, CountStep DEF Ups

LEMMA DownsStep ==
    ASSUME NEW p, NEW i \in Nat, NEW j \in Nat, i <= j + 1
    PROVE  /\ Downs(p, i, j) \in Nat
           /\ Downs(p, i, j + 1) = Downs(p, i, j) + (IF Name(p[j + 1]) THEN 1 ELSE 0)
<1>1. PICK X : X = {k \in Nat : Name(p[k])}
  OBVIOUS
<1>2. Downs(p, i, j) = Cardinality({k \in i .. j : Name(p[k])})
  BY DEF Downs, Name
<1>3. Downs(p, i, j + 1) = Cardinality({k \in i .. j + 1 : Name(p[k])})
  BY DEF Downs, Name
<1>4. {k \in i .. j : Name(p[k])} = {k \in i .. j : k \in X}
  BY <1>1
<1>5. {k \in i .. j + 1 : Name(p[k])} = {k \in i .. j + 1 : k \in X}
  BY <1>1
<1>6. j + 1 \in X <=> Name(p[j + 1])
  BY <1>1
<1> QED
  BY <1>2, <1>3, <1>4, <1>5, <1>6, CountStep

LEMMA HeightStep ==
    ASSUME NEW p, NEW i \in Nat, NEW j \in Nat, i <= j + 1, NEW k, k = j + 1
    PROVE  /\ Height(p, i, j) \in Int
           /\ Name(p[k]) => Height(p, i, k) = Height(p, i, j) + 1
           /\ p[k] = ".." => Height(p, i, k) = Height(p, i, j) - 1
           /\ Dot(p[k]) => Height(p, i, k) = Height(p, i, j)
<1>1. PICK u \in Nat : u = Ups(p, i, j)
  BY UpsStep
<1>2. PICK d \in Nat : d = Downs(p, i, j)
  BY DownsStep
<1>3. PICK a : a = IF p[k] = ".." THEN 1 ELSE 0
  OBVIOUS
<1>4. PICK b : b = IF Name(p[k]) THEN 1 ELSE 0
  OBVIOUS
<1>5. Ups(p, i, k) = u + a
  BY <1>1, <1>3, UpsStep
<1>6. Downs(p, i, k) = d + b
  BY <1>2, <1>4, DownsStep
<1>7. Height(p, i, j) = d - u /\ Height(p, i, k) = (d + b) - (u + a)
  BY <1>1, <1>2, <1>5, <1>6 DEF Height
<1>8. Name(p[k]) => b = 1 /\ a = 0
  BY <1>3, <1>4 DEF Name
<1>9. p[k] = ".." => b = 0 /\ a = 1
  BY <1>3, <1>4 DEF Name
<1>10. Dot(p[k]) => b = 0 /\ a = 0
  BY <1>3, <1>4 DEF Name, Dot
<1>11. /\ b = 1 /\ a = 0 => (d + b) - (u + a) = (d - u) + 1
       /\ b = 0 /\ a = 1 => (d + b) - (u + a) = (d - u) - 1
       /\ b = 0 /\ a = 0 => (d + b) - (u + a) = d - u
  OBVIOUS
<1>12. Name(p[k]) => Height(p, i, k) = Height(p, i, j) + 1
  BY <1>7, <1>8, <1>11
<1>13. p[k] = ".." => Height(p, i, k) = Height(p, i, j) - 1
  BY <1>7, <1>9, <1>11
<1>14. Dot(p[k]) => Height(p, i, k) = Height(p, i, j)
  BY <1>7, <1>10, <1>11
<1>15. Height(p, i, j) \in Int
  BY <1>7
<1> QED
  BY <1>12, <1>13, <1>14, <1>15

Climbs(p, n, m) ==
    \A i \in 1 .. m :
        /\ Height(p, i, n) \in Int
        /\ Name(p[m]) => Height(p, i, m) = Height(p, i, n) + 1
        /\ p[m] = ".." => Height(p, i, m) = Height(p, i, n) - 1
        /\ Dot(p[m]) => Height(p, i, m) = Height(p, i, n)

LEMMA HeightsMove ==
    ASSUME NEW p, NEW n \in Nat, NEW m, m = n + 1
    PROVE  Climbs(p, n, m)
<1> SUFFICES ASSUME NEW i \in 1 .. m
             PROVE  /\ Height(p, i, n) \in Int
                    /\ Name(p[m]) => Height(p, i, m) = Height(p, i, n) + 1
                    /\ p[m] = ".." => Height(p, i, m) = Height(p, i, n) - 1
                    /\ Dot(p[m]) => Height(p, i, m) = Height(p, i, n)
  BY DEF Climbs
<1>1. i \in Nat /\ i <= n + 1
  OBVIOUS
<1> QED
  BY <1>1, HeightStep

LEMMA HeightNone ==
    ASSUME NEW p, NEW i \in Nat, NEW j \in Nat, i = j + 1
    PROVE  Height(p, i, j) = 0
<1>1. i .. j = {}
  OBVIOUS
<1>2. Ups(p, i, j) = Cardinality({}) /\ Downs(p, i, j) = Cardinality({})
  BY <1>1 DEF Ups, Downs
<1> QED
  BY <1>2, FS_EmptySet DEF Height

-----------------------------------------------------------------------------
(* The stack after n parts holds the names that no ".." has taken back.    *)
KeptTo(p, n) == {i \in 1 .. n : Name(p[i]) /\ \A j \in i .. n : Height(p, i, j) > 0}

Fell(p, n) == \E m \in 1 .. n : Height(p, 1, m) < 0

Tracked(st, e, p, n, L) ==
    /\ st \in Seq(STRING) /\ Len(st) = L
    /\ e \in [1 .. L -> 1 .. n]
    /\ \A q \in 1 .. L : /\ st[q] = p[e[q]] /\ Name(st[q])
                         /\ Height(p, e[q], n) = L - q + 1
    /\ \A q, r \in 1 .. L : q < r => e[q] < e[r]
    /\ \A i \in 1 .. n : i \in KeptTo(p, n) <=> \E q \in 1 .. L : i = e[q]
    /\ Height(p, 1, n) = L

LEMMA KeptStep ==
    ASSUME NEW p, NEW n \in Nat, NEW m, m = n + 1
    PROVE  /\ \A i \in 1 .. n : i \in KeptTo(p, m) <=> i \in KeptTo(p, n) /\ Height(p, i, m) > 0
           /\ m \in KeptTo(p, m) <=> Name(p[m])
           /\ \A i \in 1 .. n : i \in KeptTo(p, n) => Height(p, i, n) > 0
<1>1. ASSUME NEW i \in 1 .. n
      PROVE  i \in KeptTo(p, m) <=> i \in KeptTo(p, n) /\ Height(p, i, m) > 0
  <2>1. \A j : j \in i .. m <=> j \in i .. n \/ j = m
    OBVIOUS
  <2>2. i \in 1 .. m
    OBVIOUS
  <2> QED
    BY <2>1, <2>2 DEF KeptTo
<1>2. m \in KeptTo(p, m) <=> Name(p[m])
  <2>1. Height(p, m, n) = 0
    BY HeightNone
  <2>2. Name(p[m]) => Height(p, m, m) = 0 + 1
    <3>1. m \in Nat /\ m <= n + 1
      OBVIOUS
    <3>2. Name(p[m]) => Height(p, m, m) = Height(p, m, n) + 1
      BY <3>1, HeightStep
    <3> QED
      BY <2>1, <3>2
  <2>3. \A j : j \in m .. m <=> j = m
    OBVIOUS
  <2>4. m \in 1 .. m /\ 0 + 1 > 0
    OBVIOUS
  <2> QED
    BY <2>2, <2>3, <2>4 DEF KeptTo
<1>3. ASSUME NEW i \in 1 .. n, i \in KeptTo(p, n) PROVE Height(p, i, n) > 0
  <2>1. n \in i .. n
    OBVIOUS
  <2> QED
    BY <1>3, <2>1 DEF KeptTo
<1> QED
  BY <1>1, <1>2, <1>3

(* A name is pushed. *)
LEMMA NamePushes ==
    ASSUME NEW p, NEW n \in Nat, NEW m, m = n + 1, NEW L \in Nat, NEW st, NEW e,
           Tracked(st, e, p, n, L), Name(p[m]), p[m] \in STRING
    PROVE  \E f : Tracked(Append(st, p[m]), f, p, m, L + 1)
<1>0. m \in Nat /\ 1 <= n + 1 /\ m \in 1 .. m
  OBVIOUS
<1>1. /\ st \in Seq(STRING) /\ Len(st) = L /\ e \in [1 .. L -> 1 .. n]
      /\ \A q \in 1 .. L : st[q] = p[e[q]] /\ Name(st[q]) /\ Height(p, e[q], n) = L - q + 1
      /\ \A q, r \in 1 .. L : q < r => e[q] < e[r]
      /\ \A i \in 1 .. n : i \in KeptTo(p, n) <=> \E q \in 1 .. L : i = e[q]
      /\ Height(p, 1, n) = L
  BY DEF Tracked
<1>2. PICK K \in Nat : K = L + 1
  OBVIOUS
<1>3. PICK f : f = [q \in 1 .. K |-> IF q <= L THEN e[q] ELSE m]
  OBVIOUS
<1>4. PICK t : t = Append(st, p[m])
  OBVIOUS
<1>5. t \in Seq(STRING) /\ Len(t) = K /\ t[K] = p[m] /\ \A q \in 1 .. L : t[q] = st[q]
  BY <1>1, <1>2, <1>4, AppendProperties
<1>6. \A q \in 1 .. K : q \in 1 .. L \/ q = K
  BY <1>2
<1>7. f[K] = m /\ \A q \in 1 .. L : f[q] = e[q]
  BY <1>2, <1>3
<1>8. f \in [1 .. K -> 1 .. m]
  <2>1. \A q \in 1 .. L : e[q] \in 1 .. m
    BY <1>1
  <2> QED
    BY <1>0, <1>2, <1>3, <2>1
<1>9. Height(p, m, m) = 1
  <2>1. Height(p, m, n) = 0
    BY HeightNone
  <2>2. Height(p, m, m) = Height(p, m, n) + 1
    BY <1>0, HeightsMove DEF Climbs
  <2> QED
    BY <2>1, <2>2
<1>10. \A i \in 1 .. n : Height(p, i, m) = Height(p, i, n) + 1
  <2>1. Climbs(p, n, m)
    BY HeightsMove
  <2> QED
    BY <2>1 DEF Climbs
<1>11. ASSUME NEW q \in 1 .. K
       PROVE  t[q] = p[f[q]] /\ Name(t[q]) /\ Height(p, f[q], m) = K - q + 1
  <2>1. CASE q \in 1 .. L
    <3>1. e[q] \in 1 .. n /\ Height(p, e[q], n) = L - q + 1
      BY <1>1, <2>1
    <3>2. Height(p, e[q], m) = Height(p, e[q], n) + 1
      BY <1>10, <3>1
    <3>3. (L - q + 1) + 1 = K - q + 1
      BY <1>2
    <3> QED
      BY <1>1, <1>5, <1>7, <2>1, <3>1, <3>2, <3>3
  <2>2. CASE q = K
    <3>1. K - K + 1 = 1
      OBVIOUS
    <3> QED
      BY <1>5, <1>7, <1>9, <2>2, <3>1
  <2> QED
    BY <1>6, <2>1, <2>2
<1>12. ASSUME NEW q \in 1 .. K, NEW r \in 1 .. K, q < r PROVE f[q] < f[r]
  <2>1. q \in 1 .. L
    BY <1>2, <1>12
  <2>2. e[q] \in 1 .. n
    BY <1>1, <2>1
  <2>3. CASE r \in 1 .. L
    BY <1>1, <1>7, <1>12, <2>1, <2>3
  <2>4. CASE r = K
    BY <1>7, <2>1, <2>2, <2>4
  <2> QED
    BY <1>6, <2>3, <2>4
<1>13. ASSUME NEW i \in 1 .. m PROVE i \in KeptTo(p, m) <=> \E q \in 1 .. K : i = f[q]
  <2>1. CASE i = m
    <3>1. m \in KeptTo(p, m)
      BY KeptStep
    <3>2. K \in 1 .. K
      BY <1>2
    <3> QED
      BY <1>7, <2>1, <3>1, <3>2
  <2>2. CASE i \in 1 .. n
    <3>1. i \in KeptTo(p, m) <=> i \in KeptTo(p, n) /\ Height(p, i, m) > 0
      BY <2>2, KeptStep
    <3>2. i \in KeptTo(p, n) => Height(p, i, m) > 0
      <4>1. i \in KeptTo(p, n) => Height(p, i, n) > 0
        BY <2>2, KeptStep
      <4>2. PICK h \in Int : h = Height(p, i, n)
        BY <2>2, HeightsMove DEF Climbs
      <4>3. Height(p, i, m) = h + 1
        BY <1>10, <2>2, <4>2
      <4> QED
        BY <4>1, <4>2, <4>3
    <3>3. (\E q \in 1 .. L : i = e[q]) <=> \E q \in 1 .. K : i = f[q]
      <4>1. i # m
        BY <2>2
      <4>2. \A q \in 1 .. L : q \in 1 .. K
        BY <1>2
      <4> QED
        BY <1>6, <1>7, <4>1, <4>2
    <3> QED
      BY <1>1, <2>2, <3>1, <3>2, <3>3
  <2>3. i = m \/ i \in 1 .. n
    OBVIOUS
  <2> QED
    BY <2>1, <2>2, <2>3
<1>14. Height(p, 1, m) = K
  <2>1. PICK one \in 1 .. m : one = 1
    OBVIOUS
  <2>2. Height(p, one, m) = Height(p, one, n) + 1
    BY <1>0, <2>1, HeightsMove DEF Climbs
  <2> QED
    BY <1>1, <1>2, <2>1, <2>2
<1>15. Tracked(t, f, p, m, K)
  BY <1>5, <1>8, <1>11, <1>12, <1>13, <1>14 DEF Tracked
<1> QED
  BY <1>2, <1>4, <1>15

(* A ".." takes the last name back. *)
LEMMA UpPops ==
    ASSUME NEW p, NEW n \in Nat, NEW m, m = n + 1, NEW L \in Nat, L > 0, NEW st, NEW e,
           Tracked(st, e, p, n, L), p[m] = ".."
    PROVE  \E f : Tracked(Front(st), f, p, m, L - 1)
<1>0. m \in Nat /\ 1 <= n + 1 /\ m \in 1 .. m
  OBVIOUS
<1>1. /\ st \in Seq(STRING) /\ Len(st) = L /\ e \in [1 .. L -> 1 .. n]
      /\ \A q \in 1 .. L : st[q] = p[e[q]] /\ Name(st[q]) /\ Height(p, e[q], n) = L - q + 1
      /\ \A q, r \in 1 .. L : q < r => e[q] < e[r]
      /\ \A i \in 1 .. n : i \in KeptTo(p, n) <=> \E q \in 1 .. L : i = e[q]
      /\ Height(p, 1, n) = L
  BY DEF Tracked
<1>2. PICK K \in Nat : K = L - 1
  OBVIOUS
<1>3. PICK f : f = [q \in 1 .. K |-> e[q]]
  OBVIOUS
<1>4. PICK t : t = Front(st)
  OBVIOUS
<1>5. t \in Seq(STRING) /\ Len(t) = K /\ \A q \in 1 .. K : t[q] = st[q]
  <2>1. t = SubSeq(st, 1, K)
    BY <1>1, <1>2, <1>4 DEF Front
  <2>2. \A q \in 1 .. K : st[q] \in STRING
    BY <1>1, <1>2
  <2>3. PICK one \in Int : one = 1
    OBVIOUS
  <2>4. K \in Int /\ \A q \in one .. K : st[q] \in STRING
    BY <2>2, <2>3
  <2>5. /\ SubSeq(st, one, K) \in Seq(STRING)
        /\ Len(SubSeq(st, one, K)) = IF one <= K THEN K - one + 1 ELSE 0
        /\ \A q \in 1 .. K - one + 1 : SubSeq(st, one, K)[q] = st[one + q - 1]
    BY <2>4, SubSeqProperties
  <2>6. Len(t) = K
    BY <2>1, <2>3, <2>5
  <2>7. \A q \in 1 .. K : one + q - 1 = q /\ q \in 1 .. K - one + 1
    BY <2>3
  <2> QED
    BY <2>1, <2>3, <2>5, <2>6, <2>7
<1>6. \A q \in 1 .. K : q \in 1 .. L
  BY <1>2
<1>7. \A q \in 1 .. K : f[q] = e[q]
  BY <1>3
<1>8. f \in [1 .. K -> 1 .. m]
  <2>1. \A q \in 1 .. L : e[q] \in 1 .. m
    BY <1>1
  <2> QED
    BY <1>3, <1>6, <2>1
<1>10. \A i \in 1 .. n : Height(p, i, m) = Height(p, i, n) - 1
  <2>1. Climbs(p, n, m)
    BY HeightsMove
  <2> QED
    BY <2>1 DEF Climbs
<1>11. ASSUME NEW q \in 1 .. K
       PROVE  t[q] = p[f[q]] /\ Name(t[q]) /\ Height(p, f[q], m) = K - q + 1
  <2>1. q \in 1 .. L
    BY <1>6
  <2>2. e[q] \in 1 .. n /\ Height(p, e[q], n) = L - q + 1
    BY <1>1, <2>1
  <2>3. Height(p, e[q], m) = Height(p, e[q], n) - 1
    BY <1>10, <2>2
  <2>4. (L - q + 1) - 1 = K - q + 1
    BY <1>2
  <2> QED
    BY <1>1, <1>5, <1>7, <2>1, <2>2, <2>3, <2>4
<1>12. ASSUME NEW q \in 1 .. K, NEW r \in 1 .. K, q < r PROVE f[q] < f[r]
  BY <1>1, <1>6, <1>7, <1>12
<1>13. ASSUME NEW i \in 1 .. m PROVE i \in KeptTo(p, m) <=> \E q \in 1 .. K : i = f[q]
  <2>1. CASE i = m
    <3>1. m \notin KeptTo(p, m)
      <4>1. ~Name(p[m])
        BY DEF Name
      <4> QED
        BY <4>1, KeptStep
    <3>2. ASSUME NEW q \in 1 .. K PROVE m # f[q]
      <4>1. f[q] \in 1 .. n
        BY <1>1, <1>6, <1>7
      <4> QED
        BY <4>1
    <3> QED
      BY <2>1, <3>1, <3>2
  <2>2. CASE i \in 1 .. n
    <3>1. i \in KeptTo(p, m) <=> i \in KeptTo(p, n) /\ Height(p, i, m) > 0
      BY <2>2, KeptStep
    <3>2. ASSUME NEW q \in 1 .. L, i = e[q] PROVE Height(p, i, m) > 0 <=> q \in 1 .. K
      <4>1. Height(p, i, n) = L - q + 1
        BY <1>1, <3>2
      <4>2. Height(p, i, m) = (L - q + 1) - 1
        BY <1>10, <2>2, <4>1
      <4>3. (L - q + 1) - 1 > 0 <=> q \in 1 .. K
        BY <1>2
      <4> QED
        BY <4>2, <4>3
    <3>3. i \in KeptTo(p, n) <=> \E q \in 1 .. L : i = e[q]
      BY <1>1, <2>2
    <3>4. (\E q \in 1 .. K : i = f[q]) <=> \E q \in 1 .. K : i = e[q]
      BY <1>7
    <3> QED
      BY <1>6, <3>1, <3>2, <3>3, <3>4
  <2>3. i = m \/ i \in 1 .. n
    OBVIOUS
  <2> QED
    BY <2>1, <2>2, <2>3
<1>14. Height(p, 1, m) = K
  <2>1. PICK one \in 1 .. m : one = 1
    OBVIOUS
  <2>2. Height(p, one, m) = Height(p, one, n) - 1
    BY <1>0, <2>1, HeightsMove DEF Climbs
  <2> QED
    BY <1>1, <1>2, <2>1, <2>2
<1>15. Tracked(t, f, p, m, K)
  BY <1>5, <1>8, <1>11, <1>12, <1>13, <1>14 DEF Tracked
<1> QED
  BY <1>2, <1>4, <1>15

(* An empty part or a "." changes nothing. *)
LEMMA DotStays ==
    ASSUME NEW p, NEW n \in Nat, NEW m, m = n + 1, NEW L \in Nat, NEW st, NEW e,
           Tracked(st, e, p, n, L), Dot(p[m])
    PROVE  Tracked(st, e, p, m, L)
<1>0. m \in Nat /\ 1 <= n + 1 /\ m \in 1 .. m
  OBVIOUS
<1>1. /\ st \in Seq(STRING) /\ Len(st) = L /\ e \in [1 .. L -> 1 .. n]
      /\ \A q \in 1 .. L : st[q] = p[e[q]] /\ Name(st[q]) /\ Height(p, e[q], n) = L - q + 1
      /\ \A q, r \in 1 .. L : q < r => e[q] < e[r]
      /\ \A i \in 1 .. n : i \in KeptTo(p, n) <=> \E q \in 1 .. L : i = e[q]
      /\ Height(p, 1, n) = L
  BY DEF Tracked
<1>2. e \in [1 .. L -> 1 .. m]
  BY <1>1
<1>3. \A i \in 1 .. n : Height(p, i, m) = Height(p, i, n)
  <2>1. Climbs(p, n, m)
    BY HeightsMove
  <2> QED
    BY <2>1 DEF Climbs
<1>4. \A q \in 1 .. L : Height(p, e[q], m) = L - q + 1
  <2>1. \A q \in 1 .. L : e[q] \in 1 .. n
    BY <1>1
  <2> QED
    BY <1>1, <1>3, <2>1
<1>5. ASSUME NEW i \in 1 .. m PROVE i \in KeptTo(p, m) <=> \E q \in 1 .. L : i = e[q]
  <2>1. CASE i = m
    <3>1. m \notin KeptTo(p, m)
      <4>1. ~Name(p[m])
        BY DEF Name, Dot
      <4> QED
        BY <4>1, KeptStep
    <3>2. ASSUME NEW q \in 1 .. L PROVE m # e[q]
      <4>1. e[q] \in 1 .. n
        BY <1>1
      <4> QED
        BY <4>1
    <3> QED
      BY <2>1, <3>1, <3>2
  <2>2. CASE i \in 1 .. n
    <3>1. i \in KeptTo(p, m) <=> i \in KeptTo(p, n) /\ Height(p, i, m) > 0
      BY <2>2, KeptStep
    <3>2. i \in KeptTo(p, n) => Height(p, i, m) > 0
      BY <1>3, <2>2, KeptStep
    <3> QED
      BY <1>1, <2>2, <3>1, <3>2
  <2>3. i = m \/ i \in 1 .. n
    OBVIOUS
  <2> QED
    BY <2>1, <2>2, <2>3
<1>6. Height(p, 1, m) = L
  <2>1. PICK one \in 1 .. m : one = 1
    OBVIOUS
  <2>2. Height(p, one, m) = Height(p, one, n)
    BY <1>0, <2>1, HeightsMove DEF Climbs
  <2> QED
    BY <1>1, <2>1, <2>2
<1> QED
  BY <1>1, <1>2, <1>4, <1>5, <1>6 DEF Tracked

-----------------------------------------------------------------------------
(* The stack of a walk: refused if some prefix of the path is above the    *)
(* root, and else the names kept.                                          *)
Stack(st, p, n) ==
    IF st = Refused THEN Fell(p, n)
    ELSE ~Fell(p, n) /\ \E L \in Nat : \E e : Tracked(st, e, p, n, L)

LEMMA NotRefused ==
    ASSUME NEW p, NEW n, NEW L \in Nat, NEW st, NEW e, Tracked(st, e, p, n, L)
    PROVE  st # Refused
<1> SUFFICES ASSUME st = Refused PROVE FALSE
  OBVIOUS
<1>1. Len(st) = 1 /\ st[1] = ".."
  BY DEF Refused
<1>2. Len(st) = L /\ \A q \in 1 .. L : Name(st[q])
  BY DEF Tracked
<1>3. Name("..")
  BY <1>1, <1>2
<1> QED
  BY <1>3 DEF Name

LEMMA FellStep ==
    ASSUME NEW p, NEW n \in Nat, NEW m, m = n + 1
    PROVE  Fell(p, m) <=> Fell(p, n) \/ Height(p, 1, m) < 0
<1>1. \A k : k \in 1 .. m <=> k \in 1 .. n \/ k = m
  OBVIOUS
<1> QED
  BY <1>1 DEF Fell

LEMMA StackStep ==
    ASSUME NEW p, NEW n \in Nat, NEW m, m = n + 1, p[m] \in STRING,
           NEW st, Stack(st, p, n)
    PROVE  Stack(PathStep(st, p[m]), p, m)
<1>1. PICK part : part = p[m]
  OBVIOUS
<1>2. PICK next : next = PathStep(st, part)
  OBVIOUS
<1>3. CASE st = Refused
  <2>1. next = st
    BY <1>2, <1>3 DEF PathStep
  <2>2. Fell(p, m)
    BY <1>3, FellStep DEF Stack
  <2> QED
    BY <1>1, <1>2, <1>3, <2>1, <2>2 DEF Stack
<1>4. CASE st # Refused
  <2>1. PICK L \in Nat : \E e : Tracked(st, e, p, n, L)
    BY <1>4 DEF Stack
  <2>2. PICK e : Tracked(st, e, p, n, L)
    BY <2>1
  <2>3. ~Fell(p, n)
    BY <1>4 DEF Stack
  <2>4. ASSUME NEW k \in Nat, NEW t, NEW f, Tracked(t, f, p, m, k) PROVE Stack(t, p, m)
    <3>1. t # Refused
      BY <2>4, NotRefused
    <3>2. Height(p, 1, m) = k
      BY <2>4 DEF Tracked
    <3>3. ~(Height(p, 1, m) < 0)
      BY <3>2
    <3>4. ~Fell(p, m)
      BY <2>3, <3>3, FellStep
    <3> QED
      BY <2>4, <3>1, <3>4 DEF Stack
  <2>5. CASE Dot(part)
    <3>1. part \in {"", "."}
      BY <2>5 DEF Dot
    <3>2. next = st
      BY <1>2, <3>1 DEF PathStep
    <3>3. Tracked(st, e, p, m, L)
      BY <1>1, <2>2, <2>5, DotStays
    <3>4. Stack(next, p, m)
      BY <2>4, <3>2, <3>3
    <3> QED
      BY <1>1, <1>2, <3>4
  <2>6. CASE Name(part)
    <3>1. part \notin {"", "."} /\ part # ".."
      BY <2>6 DEF Name
    <3>2. next = Append(st, part)
      BY <1>2, <1>4, <3>1 DEF PathStep
    <3>3. PICK f : Tracked(Append(st, p[m]), f, p, m, L + 1)
      BY <1>1, <2>2, <2>6, NamePushes
    <3>4. PICK k \in Nat : k = L + 1
      OBVIOUS
    <3>5. Tracked(next, f, p, m, k)
      BY <1>1, <3>2, <3>3, <3>4
    <3>6. Stack(next, p, m)
      BY <2>4, <3>5
    <3> QED
      BY <1>1, <1>2, <3>6
  <2>7. CASE part = ".." /\ L > 0
    <3>1. part \notin {"", "."}
      BY <2>7
    <3>2. st # <<>>
      BY <2>2, <2>7 DEF Tracked
    <3>3. next = Front(st)
      BY <1>2, <1>4, <2>7, <3>1, <3>2 DEF PathStep
    <3>4. PICK f : Tracked(Front(st), f, p, m, L - 1)
      BY <1>1, <2>2, <2>7, UpPops
    <3>5. PICK k \in Nat : k = L - 1
      BY <2>7
    <3>6. Tracked(next, f, p, m, k)
      BY <3>3, <3>4, <3>5
    <3>7. Stack(next, p, m)
      BY <2>4, <3>6
    <3> QED
      BY <1>1, <1>2, <3>7
  <2>8. CASE part = ".." /\ ~(L > 0)
    <3>1. part \notin {"", "."}
      BY <2>8
    <3>2. st = <<>>
      <4>1. st \in Seq(STRING) /\ Len(st) = 0
        BY <2>2, <2>8 DEF Tracked
      <4> QED
        BY <4>1
    <3>3. next = Refused
      BY <1>2, <1>4, <2>8, <3>1, <3>2 DEF PathStep
    <3>4. Height(p, 1, m) < 0
      <4>1. PICK one \in 1 .. m : one = 1
        OBVIOUS
      <4>2. Height(p, one, m) = Height(p, one, n) - 1
        <5>1. p[m] = ".." /\ Climbs(p, n, m)
          BY <1>1, <2>8, HeightsMove
        <5> QED
          BY <5>1 DEF Climbs
      <4>3. Height(p, one, n) = 0
        BY <2>2, <2>8, <4>1 DEF Tracked
      <4> QED
        BY <4>1, <4>2, <4>3
    <3>5. Fell(p, m)
      BY <3>4, FellStep
    <3>6. Stack(next, p, m)
      BY <3>3, <3>5 DEF Stack
    <3> QED
      BY <1>1, <1>2, <3>6
  <2>9. Dot(part) \/ Name(part) \/ part = ".."
    BY DEF Dot, Name
  <2> QED
    BY <2>5, <2>6, <2>7, <2>8, <2>9
<1> QED
  BY <1>3, <1>4

LEMMA StackStart == ASSUME NEW p PROVE Stack(<<>>, p, 0)
<1>1. PICK z \in Nat : z = 0
  OBVIOUS
<1>2. PICK e : e = [q \in 1 .. z |-> 1]
  OBVIOUS
<1>3. 1 .. z = {}
  BY <1>1
<1>4. e \in [1 .. z -> 1 .. z]
  BY <1>2, <1>3
<1>5. <<>> \in Seq(STRING) /\ Len(<<>>) = z
  BY <1>1
<1>6. Height(p, 1, z) = z
  <2>1. PICK one \in Nat : one = 1
    OBVIOUS
  <2>2. Height(p, one, z) = 0
    BY <1>1, <2>1, HeightNone
  <2> QED
    BY <1>1, <2>1, <2>2
<1>7. Tracked(<<>>, e, p, z, z)
  BY <1>3, <1>4, <1>5, <1>6 DEF Tracked
<1>8. <<>> # Refused
  BY DEF Refused
<1>9. ~Fell(p, z)
  BY <1>3 DEF Fell
<1>10. Stack(<<>>, p, z)
  BY <1>7, <1>8, <1>9 DEF Stack
<1> QED
  BY <1>1, <1>10

LEMMA FoldStack ==
    ASSUME NEW p \in Seq(STRING)
    PROVE  Stack(FoldLeft(PathStep, <<>>, p), p, Len(p))
<1>1. PICK g : Walk(g, p, Len(p)) /\ FoldLeft(PathStep, <<>>, p) = g[Len(p)]
  BY FoldWalks
<1>2. PICK N \in Nat : N = Len(p)
  OBVIOUS
<1>3. PICK st : st = FoldLeft(PathStep, <<>>, p)
  OBVIOUS
<1>4. st = g[N] /\ Walk(g, p, N)
  BY <1>1, <1>2, <1>3
<1> DEFINE T == {n \in 0 .. N : Stack(g[n], p, n)}
<1>5. 0 \in T
  BY <1>4, StackStart DEF Walk
<1>6. ASSUME NEW n \in 0 .. N - 1, n \in T PROVE n + 1 \in T
  <2>1. PICK m \in 1 .. N : m = n + 1
    OBVIOUS
  <2>2. g[m] = PathStep(g[n], p[m])
    BY <1>4, <2>1 DEF Walk
  <2>3. p[m] \in STRING
    BY <1>2
  <2>4. n \in Nat /\ Stack(g[n], p, n)
    BY <1>6
  <2>5. Stack(PathStep(g[n], p[m]), p, m)
    BY <2>1, <2>3, <2>4, StackStep
  <2>6. m \in 0 .. N
    OBVIOUS
  <2> QED
    BY <2>1, <2>2, <2>5, <2>6
<1> HIDE DEF T
<1>7. \A n \in 0 .. N : n \in T
  BY <1>5, <1>6, Induction
<1>8. Stack(g[N], p, N)
  <2>1. N \in T
    BY <1>7
  <2> QED
    BY <2>1 DEF T
<1> QED
  BY <1>2, <1>3, <1>4, <1>8

-----------------------------------------------------------------------------
(* The reference in terms of heights, and the resolved path.               *)
LEMMA InsideIs ==
    ASSUME NEW p, NEW N \in Nat, DOMAIN p = 1 .. N, Len(p) = N
    PROVE  StaysInside(p) <=> ~Fell(p, N) /\ Height(p, 1, N) > 0
<1>1. PICK one \in Nat : one = 1
  OBVIOUS
<1>2. ASSUME NEW n \in 0 .. N
      PROVE  /\ Ups(p, 1, n) \in Nat /\ Downs(p, 1, n) \in Nat
             /\ Height(p, 1, n) = Downs(p, 1, n) - Ups(p, 1, n)
  <2>1. n \in Nat /\ one <= n + 1
    BY <1>1
  <2> QED
    BY <1>1, <2>1, UpsStep, DownsStep DEF Height
<1>3. ASSUME NEW n \in 0 .. N
      PROVE  /\ Height(p, 1, n) < 0 <=> ~(Ups(p, 1, n) <= Downs(p, 1, n))
             /\ Height(p, 1, n) > 0 <=> Ups(p, 1, n) < Downs(p, 1, n)
  BY <1>2
<1>4. ~Fell(p, N) <=> \A n \in DOMAIN p : Ups(p, 1, n) <= Downs(p, 1, n)
  BY <1>3 DEF Fell
<1>5. Height(p, 1, N) > 0 <=> Ups(p, 1, Len(p)) < Downs(p, 1, Len(p))
  BY <1>3
<1> QED
  BY <1>4, <1>5 DEF StaysInside

LEMMA KeptIs ==
    ASSUME NEW p, NEW N \in Nat, DOMAIN p = 1 .. N, Len(p) = N
    PROVE  Kept(p) = KeptTo(p, N)
<1>1. ASSUME NEW i \in 1 .. N, NEW j \in i .. N
      PROVE  Ups(p, i, j) < Downs(p, i, j) <=> Height(p, i, j) > 0
  <2>1. i \in Nat /\ j \in Nat /\ i <= j + 1
    OBVIOUS
  <2>2. Ups(p, i, j) \in Nat /\ Downs(p, i, j) \in Nat
    BY <2>1, UpsStep, DownsStep
  <2> QED
    BY <2>2 DEF Height
<1>2. Kept(p) = {i \in 1 .. N : /\ Name(p[i])
                               /\ \A j \in i .. N : Ups(p, i, j) < Downs(p, i, j)}
  BY DEF Kept, Name
<1> QED
  BY <1>1, <1>2 DEF KeptTo

(* A set enumerated in increasing order.                                   *)
Enumerates(e, K, L) ==
    /\ \A q \in 1 .. L : e[q] \in Nat
    /\ \A q, r \in 1 .. L : q < r => e[q] < e[r]
    /\ K = {e[q] : q \in 1 .. L}

LEMMA EnumeratedCount ==
    ASSUME NEW e, NEW K, NEW L \in Nat, Enumerates(e, K, L)
    PROVE  IsFiniteSet(K) /\ Cardinality(K) = L
<1> DEFINE f == [q \in 1 .. L |-> e[q]]
<1>1. f \in Bijection(1 .. L, K)
  <2>1. f \in [1 .. L -> K] /\ \A k \in K : \E q \in 1 .. L : f[q] = k
    BY DEF Enumerates
  <2>2. ASSUME NEW q \in 1 .. L, NEW r \in 1 .. L, f[q] = f[r] PROVE q = r
    <3>1. q < r => e[q] < e[r]
      BY DEF Enumerates
    <3>2. r < q => e[r] < e[q]
      BY DEF Enumerates
    <3>3. e[q] \in Nat /\ e[q] = e[r]
      BY <2>2 DEF Enumerates
    <3>4. ~(e[q] < e[r]) /\ ~(e[r] < e[q])
      BY <3>3
    <3> QED
      BY <3>1, <3>2, <3>4
  <2> QED
    BY <2>1, <2>2 DEF Bijection, Injection, Surjection, IsInjective
<1>2. IsFiniteSet(1 .. L) /\ Cardinality(1 .. L) = L
  <2>1. PICK one \in Int : one = 1
    OBVIOUS
  <2>2. IsFiniteSet(one .. L) /\ Cardinality(one .. L) = IF one > L THEN 0 ELSE L - one + 1
    BY <2>1, FS_Interval
  <2>3. (IF one > L THEN 0 ELSE L - one + 1) = L
    BY <2>1
  <2> QED
    BY <2>1, <2>2, <2>3
<1>3. ExistsBijection(1 .. L, K)
  BY <1>1 DEF ExistsBijection
<1> QED
  BY <1>2, <1>3, FS_Bijection

(* The n-th of them is the one with n - 1 below it.                        *)
Rank(K, n) == CHOOSE i \in K : Cardinality({j \in K : j < i}) = n - 1

LEMMA EnumeratedRank ==
    ASSUME NEW e, NEW K, NEW L \in Nat, Enumerates(e, K, L), NEW n \in 1 .. L
    PROVE  Rank(K, n) = e[n]
<1>1. ASSUME NEW q \in 1 .. L
      PROVE  e[q] \in K /\ Cardinality({j \in K : j < e[q]}) = q - 1
  <2>1. PICK k \in Nat : k = q - 1
    OBVIOUS
  <2>2. PICK J : J = {j \in K : j < e[q]}
    OBVIOUS
  <2>3. e[q] \in K
    BY DEF Enumerates
  <2>4. \A r \in 1 .. k : r \in 1 .. L /\ r < q
    BY <2>1
  <2>5. ASSUME NEW r \in 1 .. L PROVE e[r] < e[q] <=> r \in 1 .. k
    <3>1. e[r] \in Nat /\ e[q] \in Nat /\ (r < q => e[r] < e[q]) /\ (q < r => e[q] < e[r])
      BY DEF Enumerates
    <3>2. r \in 1 .. k <=> r < q
      BY <2>1
    <3>3. r < q \/ r = q \/ q < r
      OBVIOUS
    <3>4. CASE r < q
      BY <3>1, <3>2, <3>4
    <3>5. CASE r = q
      <4>1. ~(r < q) /\ ~(e[r] < e[q])
        BY <3>1, <3>5
      <4> QED
        BY <3>2, <4>1
    <3>6. CASE q < r
      <4>1. e[q] < e[r]
        BY <3>1, <3>6
      <4>2. ~(e[r] < e[q]) /\ ~(r < q)
        BY <3>1, <3>6, <4>1
      <4> QED
        BY <3>2, <4>2
    <3> QED
      BY <3>3, <3>4, <3>5, <3>6
  <2>6. J = {e[r] : r \in 1 .. k}
    <3>1. K = {e[r] : r \in 1 .. L}
      BY DEF Enumerates
    <3>2. \A j : j \in J <=> \E r \in 1 .. L : j = e[r] /\ e[r] < e[q]
      BY <2>2, <3>1
    <3>3. \A j : j \in J <=> \E r \in 1 .. k : j = e[r]
      BY <2>4, <2>5, <3>2
    <3> QED
      BY <3>3
  <2>7. Enumerates(e, J, k)
    BY <2>4, <2>6 DEF Enumerates
  <2>8. Cardinality(J) = k
    BY <2>7, EnumeratedCount
  <2> QED
    BY <2>1, <2>2, <2>3, <2>8
<1>2. ASSUME NEW i \in K, Cardinality({j \in K : j < i}) = n - 1 PROVE i = e[n]
  <2>1. PICK q \in 1 .. L : i = e[q]
    BY DEF Enumerates
  <2>2. q - 1 = n - 1
    BY <1>1, <1>2, <2>1
  <2>3. q = n
    BY <2>2
  <2> QED
    BY <2>1, <2>3
<1>3. e[n] \in K /\ Cardinality({j \in K : j < e[n]}) = n - 1
  BY <1>1
<1> QED
  BY <1>2, <1>3 DEF Rank

(* The stack of validate_static_path is the path resolved.                 *)
LEMMA ValidPathIs ==
    ASSUME NEW p \in Seq(STRING)
    PROVE  /\ ValidPath(p) = Resolved(p)
           /\ ValidPath(p) = Refused <=> ~StaysInside(p)
<1>1. PICK N \in Nat : N = Len(p) /\ DOMAIN p = 1 .. N
  OBVIOUS
<1>2. PICK st : st = FoldLeft(PathStep, <<>>, p)
  OBVIOUS
<1>3. Stack(st, p, N)
  BY <1>1, <1>2, FoldStack
<1>4. ValidPath(p) = IF st = <<>> THEN Refused ELSE st
  BY <1>2 DEF ValidPath
<1>5. StaysInside(p) <=> ~Fell(p, N) /\ Height(p, 1, N) > 0
  BY <1>1, InsideIs
<1>6. CASE st = Refused
  <2>1. ~StaysInside(p)
    BY <1>3, <1>5, <1>6 DEF Stack
  <2>2. ValidPath(p) = Refused
    BY <1>4, <1>6
  <2> QED
    BY <2>1, <2>2 DEF Resolved
<1>7. CASE st # Refused
  <2>1. PICK L \in Nat : \E e : Tracked(st, e, p, N, L)
    BY <1>3, <1>7 DEF Stack
  <2>2. PICK e : Tracked(st, e, p, N, L)
    BY <2>1
  <2>3. /\ st \in Seq(STRING) /\ Len(st) = L /\ e \in [1 .. L -> 1 .. N]
        /\ \A q \in 1 .. L : st[q] = p[e[q]]
        /\ \A q, r \in 1 .. L : q < r => e[q] < e[r]
        /\ \A i \in 1 .. N : i \in KeptTo(p, N) <=> \E q \in 1 .. L : i = e[q]
        /\ Height(p, 1, N) = L
    BY <2>2 DEF Tracked
  <2>4. ~Fell(p, N)
    BY <1>3, <1>7 DEF Stack
  <2>5. CASE L = 0
    <3>1. st = <<>>
      BY <2>3, <2>5
    <3>2. ~StaysInside(p)
      BY <1>5, <2>3, <2>5
    <3> QED
      BY <1>4, <3>1, <3>2 DEF Resolved
  <2>6. CASE L # 0
    <3>1. st # <<>> /\ StaysInside(p)
      BY <1>5, <2>3, <2>4, <2>6
    <3>2. PICK K : K = Kept(p)
      OBVIOUS
    <3>3. K = KeptTo(p, N)
      BY <1>1, <3>2, KeptIs
    <3>4. Enumerates(e, K, L)
      <4>1. \A q \in 1 .. L : e[q] \in 1 .. N
        BY <2>3
      <4>2. \A i : i \in K => i \in 1 .. N
        BY <3>3 DEF KeptTo
      <4>3. \A i : i \in K <=> \E q \in 1 .. L : i = e[q]
        BY <2>3, <3>3, <4>1, <4>2
      <4>4. K = {e[q] : q \in 1 .. L}
        BY <4>3
      <4>5. \A q \in 1 .. L : e[q] \in Nat
        BY <4>1
      <4> QED
        BY <2>3, <4>4, <4>5 DEF Enumerates
    <3>5. Cardinality(K) = L
      BY <3>4, EnumeratedCount
    <3>6. Resolved(p) = [n \in 1 .. L |-> p[Rank(K, n)]]
      <4>1. Resolved(p) = [n \in 1 .. Cardinality(Kept(p)) |-> p[Rank(Kept(p), n)]]
        BY <3>1, Zenon DEF Resolved, Rank
      <4> QED
        BY <3>2, <3>5, <4>1
    <3>7. \A n \in 1 .. L : Rank(K, n) = e[n]
      BY <3>4, EnumeratedRank
    <3>8. \A n \in 1 .. L : p[Rank(K, n)] = st[n]
      BY <2>3, <3>7
    <3>9. Resolved(p) = [n \in 1 .. L |-> st[n]]
      BY <3>6, <3>8
    <3>10. st = [n \in 1 .. L |-> st[n]]
      BY <2>3
    <3> QED
      BY <1>4, <1>7, <3>1, <3>9, <3>10
  <2> QED
    BY <2>5, <2>6
<1> QED
  BY <1>6, <1>7

-----------------------------------------------------------------------------
(* Responses. *)
Letter == STRING \union Byte \union {"Not", "Found", "Bad", "Request", "pong"}

Kinds ==
    {"text/html", "application/json", "text/plain"} \union {RespondTypes[s] : s \in DOMAIN RespondTypes}

ResponseType ==
    [status : Nat, type : Kinds, length : Nat, connection : {"keep-alive", "close"},
     body : Seq(Letter), mapped : BOOLEAN]

(* What the head and the body of a response are made of. *)
Piece ==
    [status : Nat, type : Kinds] \union [length : Nat, connection : {"keep-alive", "close"}]
        \union [byte : Letter]

AnswerType ==
    [resp : ResponseType, parts : Seq(STRING), shut : BOOLEAN, wire : Seq(Piece)]

Message(resp) == HeadOf(resp) \o BodyBytes(resp)

(* resp is what its head says, and tells a client that is shut down. *)
Honest(resp, keep) ==
    /\ resp \in ResponseType /\ resp.length = Len(resp.body)
    /\ ~keep => resp.connection = "close"

LEMMA ResponseIs ==
    ASSUME NEW status \in Nat, NEW type \in Kinds, NEW keep \in BOOLEAN, NEW body \in Seq(Letter)
    PROVE  /\ Honest(Response(status, type, keep, body), keep)
           /\ Honest(Response(status, type, FALSE, body), keep)
           /\ Honest([Response(status, type, keep, body) EXCEPT !.mapped = TRUE], keep)
<1>1. ASSUME NEW k \in BOOLEAN
      PROVE  Response(status, type, k, body) =
                [status |-> status, type |-> type, length |-> Len(body),
                 connection |-> IF k THEN "keep-alive" ELSE "close",
                 body |-> body, mapped |-> FALSE]
  BY DEF Response
<1>2. Len(body) \in Nat
  OBVIOUS
<1>3. ASSUME NEW k \in BOOLEAN, NEW m \in BOOLEAN,
             NEW r, r = [status |-> status, type |-> type, length |-> Len(body),
                         connection |-> IF k THEN "keep-alive" ELSE "close",
                         body |-> body, mapped |-> m]
      PROVE  r \in ResponseType /\ r.length = Len(r.body) /\ (~k => r.connection = "close")
  BY <1>2, <1>3 DEF ResponseType
<1>4. ASSUME NEW c, NEW l, NEW f, NEW t
      PROVE  [[status |-> status, type |-> type, length |-> l,
               connection |-> c, body |-> body, mapped |-> f] EXCEPT !.mapped = t] =
             [status |-> status, type |-> type, length |-> l,
              connection |-> c, body |-> body, mapped |-> t]
  OBVIOUS
<1>5. PICK c : c = IF keep THEN "keep-alive" ELSE "close"
  OBVIOUS
<1>6. PICK l : l = Len(body)
  OBVIOUS
<1>7. Response(status, type, keep, body) =
         [status |-> status, type |-> type, length |-> l,
          connection |-> c, body |-> body, mapped |-> FALSE]
  BY <1>1, <1>5, <1>6
<1>8. [Response(status, type, keep, body) EXCEPT !.mapped = TRUE] =
         [status |-> status, type |-> type, length |-> l,
          connection |-> c, body |-> body, mapped |-> TRUE]
  <2>1. PICK f : f = FALSE
    OBVIOUS
  <2>2. PICK t : t = TRUE
    OBVIOUS
  <2>3. Response(status, type, keep, body) =
           [status |-> status, type |-> type, length |-> l,
            connection |-> c, body |-> body, mapped |-> f]
    BY <1>7, <2>1
  <2>4. [Response(status, type, keep, body) EXCEPT !.mapped = t] =
           [status |-> status, type |-> type, length |-> l,
            connection |-> c, body |-> body, mapped |-> t]
    BY <1>4, <2>3
  <2> QED
    BY <2>2, <2>4
<1>9. [Response(status, type, keep, body) EXCEPT !.mapped = TRUE] =
         [status |-> status, type |-> type, length |-> Len(body),
          connection |-> IF keep THEN "keep-alive" ELSE "close",
          body |-> body, mapped |-> TRUE]
  BY <1>5, <1>6, <1>8
<1> QED
  BY <1>1, <1>3, <1>9 DEF Honest

(* The parts of a path, and what the router answers. *)
LEMMA PathsAre ==
    ASSUME NEW req \in ContentType, NEW parts \in Paths(req)
    PROVE  parts \in Seq(STRING)
<1>0. req.url \in Seq(Byte)
  BY DEF ContentType, Word
<1>1. UrlOf(req) \in Byte \union {""}
  <2>1. CASE req.url = <<>>
    BY <2>1 DEF UrlOf
  <2>2. CASE req.url # <<>>
    <3>1. req.url[1] \in Byte
      BY <1>0, <2>2
    <3> QED
      BY <2>2, <3>1 DEF UrlOf
  <2> QED
    BY <2>1, <2>2
<1>2. Components[UrlOf(req)] \subseteq Seq(STRING)
  BY <1>1, ExchangeAssumption, RouterAssumption
<1>3. <<>> \in Seq(STRING)
  OBVIOUS
<1>4. parts \in Components[UrlOf(req)] \/ parts = <<>>
  BY DEF Paths
<1> QED
  BY <1>2, <1>3, <1>4

(* What the senders write. *)
LEMMA BodiesAre ==
    /\ <<"Not", "Found">> \in Seq(Letter) /\ <<"Bad", "Request">> \in Seq(Letter)
    /\ <<"pong">> \in Seq(Letter)
    /\ \A b \in Seq(Byte) : b \in Seq(Letter)
    /\ \A b \in Seq(STRING) : b \in Seq(Letter)
    /\ {"text/html", "application/json", "text/plain"} \subseteq Kinds
    /\ \A s \in DOMAIN RespondTypes : RespondTypes[s] \in Kinds
<1>1. /\ "Not" \in Letter /\ "Found" \in Letter /\ "Bad" \in Letter
      /\ "Request" \in Letter /\ "pong" \in Letter
  BY DEF Letter
<1>2. ASSUME NEW S, NEW a \in S, NEW b \in S PROVE <<a, b>> \in Seq(S) /\ <<a>> \in Seq(S)
  OBVIOUS
<1>3. <<"Not", "Found">> \in Seq(Letter)
  BY <1>1, <1>2
<1>4. <<"Bad", "Request">> \in Seq(Letter)
  BY <1>1, <1>2
<1>5. <<"pong">> \in Seq(Letter)
  BY <1>1, <1>2
<1>6. ASSUME NEW S, NEW T, S \subseteq T, NEW b \in Seq(S) PROVE b \in Seq(T)
  BY <1>6
<1>7. STRING \subseteq Letter /\ Byte \subseteq Letter
  BY DEF Letter
<1>8. \A b \in Seq(Byte) : b \in Seq(Letter)
  BY <1>6, <1>7
<1>9. \A b \in Seq(STRING) : b \in Seq(Letter)
  BY <1>6, <1>7
<1>10. {"text/html", "application/json", "text/plain"} \subseteq Kinds
  BY DEF Kinds
<1>11. \A s \in DOMAIN RespondTypes : RespondTypes[s] \in Kinds
  <2> DEFINE T == RespondTypes
  <2> HIDE DEF T
  <2>1. \A s \in DOMAIN T : T[s] \in {T[t] : t \in DOMAIN T}
    OBVIOUS
  <2> QED
    BY <2>1 DEF Kinds, T
<1> QED
  BY <1>3, <1>4, <1>5, <1>8, <1>9, <1>10, <1>11

LEMMA SimpleResponsesAre ==
    ASSUME NEW req \in ContentType
    PROVE  /\ Honest(NotFoundResponse(req), req.keep_alive)
           /\ Honest(FaultResponse(req), req.keep_alive)
           /\ Honest(PingResponse(req), req.keep_alive)
           /\ Honest(EchoResponse(req), req.keep_alive)
<1>0. req.keep_alive \in BOOLEAN /\ req.body \in Seq(Byte)
  BY DEF ContentType, Word
<1>1. PICK keep \in BOOLEAN : keep = req.keep_alive
  BY <1>0
<1>2. "text/html" \in Kinds /\ "application/json" \in Kinds /\ "text/plain" \in Kinds
  BY BodiesAre
<1>3. ASSUME NEW n \in Nat, NEW t \in Kinds, NEW b \in Seq(Letter)
      PROVE  Honest(Response(n, t, keep, b), keep) /\ Honest(Response(n, t, FALSE, b), keep)
  BY ResponseIs
<1>4. PICK n \in Nat : n = 404
  OBVIOUS
<1>5. PICK m \in Nat : m = 400
  OBVIOUS
<1>6. PICK k \in Nat : k = 200
  OBVIOUS
<1>7. Honest(NotFoundResponse(req), keep)
  <2>1. <<"Not", "Found">> \in Seq(Letter)
    BY BodiesAre
  <2>2. Honest(Response(n, "text/html", keep, <<"Not", "Found">>), keep)
    BY <1>2, <1>3, <2>1
  <2> QED
    BY <1>1, <1>4, <2>2 DEF NotFoundResponse
<1>8. Honest(FaultResponse(req), keep)
  <2>1. <<"Bad", "Request">> \in Seq(Letter)
    BY BodiesAre
  <2>2. Honest(Response(m, "text/plain", FALSE, <<"Bad", "Request">>), keep)
    BY <1>2, <1>3, <2>1
  <2> QED
    BY <1>1, <1>5, <2>2 DEF FaultResponse
<1>9. Honest(PingResponse(req), keep)
  <2>1. <<"pong">> \in Seq(Letter)
    BY BodiesAre
  <2>2. Honest(Response(k, "text/html", keep, <<"pong">>), keep)
    BY <1>2, <1>3, <2>1
  <2> QED
    BY <1>1, <1>6, <2>2 DEF PingResponse
<1>10. Honest(EchoResponse(req), keep)
  <2>1. req.body \in Seq(Letter)
    BY <1>0, BodiesAre
  <2>2. Honest(Response(k, "application/json", keep, req.body), keep)
    BY <1>2, <1>3, <2>1
  <2> QED
    BY <1>1, <1>6, <2>2 DEF EchoResponse
<1> QED
  BY <1>1, <1>7, <1>8, <1>9, <1>10

LEMMA FileResponsesAre ==
    ASSUME NEW req \in ContentType, NEW parts, NEW resp \in FileResponses(req, parts)
    PROVE  /\ Honest(resp, req.keep_alive)
           /\ Suffix[UrlOf(req)] \in DOMAIN RespondTypes =>
                 /\ resp.status = 400 <=> ValidPath(parts) = Refused
                 /\ resp.status = 200 => resp.body = Files[ValidPath(parts)]
<1>0. req.keep_alive \in BOOLEAN
  BY DEF ContentType
<1>1. PICK type : type = Suffix[UrlOf(req)]
  OBVIOUS
<1>2. PICK path : path = ValidPath(parts)
  OBVIOUS
<1>3. FileResponses(req, parts) =
        IF type \notin DOMAIN RespondTypes THEN {NotFoundResponse(req)}
        ELSE IF path = Refused THEN {FaultResponse(req)}
        ELSE {NotFoundResponse(req)} \union
             {FileResponse(req, RespondTypes[type], Files[path]) :
                 p \in {q \in DOMAIN Files : q = path /\ Files[q] # <<>>}}
  BY <1>1, <1>2 DEF FileResponses
<1>4. \/ resp = NotFoundResponse(req) /\ (type \notin DOMAIN RespondTypes \/ path # Refused)
      \/ type \in DOMAIN RespondTypes /\ path = Refused /\ resp = FaultResponse(req)
      \/ /\ type \in DOMAIN RespondTypes /\ path # Refused /\ path \in DOMAIN Files
         /\ resp = FileResponse(req, RespondTypes[type], Files[path])
  <2>1. CASE type \notin DOMAIN RespondTypes
    BY <1>3, <2>1
  <2>2. CASE type \in DOMAIN RespondTypes /\ path = Refused
    BY <1>3, <2>2
  <2>3. CASE type \in DOMAIN RespondTypes /\ path # Refused
    <3> DEFINE F == FileResponse(req, RespondTypes[type], Files[path])
    <3> HIDE DEF F
    <3>1. FileResponses(req, parts) =
            {NotFoundResponse(req)} \union
             {F : p \in {q \in DOMAIN Files : q = path /\ Files[q] # <<>>}}
      BY <1>3, <2>3 DEF F
    <3>2. resp = NotFoundResponse(req) \/ (resp = F /\ path \in DOMAIN Files)
      BY <3>1
    <3> QED
      BY <2>3, <3>2 DEF F
  <2> QED
    BY <2>1, <2>2, <2>3
<1>5. CASE resp = NotFoundResponse(req) /\ (type \notin DOMAIN RespondTypes \/ path # Refused)
  <2>1. resp.status = 404
    BY <1>5 DEF NotFoundResponse, Response
  <2> QED
    BY <1>1, <1>2, <1>5, <2>1, SimpleResponsesAre
<1>6. CASE type \in DOMAIN RespondTypes /\ path = Refused /\ resp = FaultResponse(req)
  <2>1. resp.status = 400
    BY <1>6 DEF FaultResponse, Response
  <2> QED
    BY <1>1, <1>2, <1>6, <2>1, SimpleResponsesAre
<1>7. CASE /\ type \in DOMAIN RespondTypes /\ path # Refused /\ path \in DOMAIN Files
           /\ resp = FileResponse(req, RespondTypes[type], Files[path])
  <2>1. PICK body \in Seq(Letter) : body = Files[path]
    <3>1. Files[path] \in Seq(STRING)
      BY <1>7, RouterAssumption
    <3> QED
      BY <3>1, BodiesAre
  <2>2. PICK kind \in Kinds : kind = RespondTypes[type]
    BY <1>7, BodiesAre
  <2>3. PICK k \in Nat : k = 200
    OBVIOUS
  <2>4. PICK keep \in BOOLEAN : keep = req.keep_alive
    BY <1>0
  <2>5. resp = [Response(k, kind, keep, body) EXCEPT !.mapped = TRUE]
    BY <1>7, <2>1, <2>2, <2>3, <2>4 DEF FileResponse
  <2>6. Honest(resp, keep)
    BY <2>5, ResponseIs
  <2>7. resp.status = k /\ resp.body = body
    BY <2>5 DEF Response
  <2> QED
    BY <1>1, <1>2, <1>7, <2>1, <2>3, <2>4, <2>6, <2>7
<1> QED
  BY <1>4, <1>5, <1>6, <1>7

LEMMA ResponsesAre ==
    ASSUME NEW req \in ContentType, NEW parts, NEW resp \in Responses(req, parts)
    PROVE  /\ Honest(resp, req.keep_alive)
           /\ SenderOf(req) = "file" => resp \in FileResponses(req, parts)
<1>1. PICK sender : sender = SenderOf(req)
  OBVIOUS
<1>2. Responses(req, parts) =
        CASE sender = "ping" -> {PingResponse(req)}
          [] sender = "echo" -> {EchoResponse(req)}
          [] sender = "fault" -> {FaultResponse(req)}
          [] sender = "file" -> FileResponses(req, parts)
          [] OTHER -> {NotFoundResponse(req)}
  BY <1>1 DEF Responses
<1>3. sender = "file" => resp \in FileResponses(req, parts)
  BY <1>2
<1>4. \/ resp \in FileResponses(req, parts)
      \/ resp = PingResponse(req) \/ resp = EchoResponse(req)
      \/ resp = FaultResponse(req) \/ resp = NotFoundResponse(req)
  BY <1>2
<1>5. Honest(resp, req.keep_alive)
  BY <1>4, FileResponsesAre, SimpleResponsesAre
<1> QED
  BY <1>1, <1>3, <1>5

LEMMA MessageIs ==
    ASSUME NEW resp \in ResponseType
    PROVE  /\ HeadOf(resp) \in Seq(Piece) /\ BodyBytes(resp) \in Seq(Piece)
           /\ Len(HeadOf(resp)) = 2 /\ Message(resp) \in Seq(Piece)
<1>1. /\ [status |-> resp.status, type |-> resp.type] \in Piece
      /\ [length |-> resp.length, connection |-> resp.connection] \in Piece
  BY DEF ResponseType, Piece
<1>2. ASSUME NEW a \in Piece, NEW b \in Piece
      PROVE  <<a, b>> \in Seq(Piece) /\ Len(<<a, b>>) = 2
  OBVIOUS
<1>3. HeadOf(resp) \in Seq(Piece) /\ Len(HeadOf(resp)) = 2
  BY <1>1, <1>2 DEF HeadOf
<1>4. resp.body \in Seq(Letter)
  BY DEF ResponseType
<1>5. PICK n \in Nat : n = Len(resp.body)
  BY <1>4
<1>6. DOMAIN resp.body = 1 .. n
  BY <1>4, <1>5
<1>7. ASSUME NEW i \in 1 .. n PROVE [byte |-> resp.body[i]] \in Piece
  <2>1. resp.body[i] \in Letter
    BY <1>4, <1>5
  <2> QED
    BY <2>1 DEF Piece
<1>8. BodyBytes(resp) = [i \in 1 .. n |-> [byte |-> resp.body[i]]]
  BY <1>6 DEF BodyBytes
<1>9. BodyBytes(resp) \in Seq(Piece)
  BY <1>7, <1>8
<1> QED
  BY <1>3, <1>9, ConcatProperties DEF Message

-----------------------------------------------------------------------------
(* A response on its way. *)

(* What is left of the first h bytes, and of the f that follow, once w     *)
(* bytes were taken; a is where the head was left when it was done.        *)
Left(h, f, w, a) ==
    IF w < h THEN <<Iovec(w, h - w), Iovec(0, f)>>
    ELSE <<Iovec(a, 0), Iovec(w - h, f - (w - h))>>

StringSent(data, w) ==
    [kind |-> "string", data |-> data, written |-> w, pending |-> Len(data)]

MMapSent(head, file, iov, w) ==
    [kind |-> "mmap", head |-> head, file |-> file, iov |-> iov,
     written |-> w, pending |-> Len(head) + Len(file)]

(* c is the message head \o file, of which w bytes were taken. *)
Carries(c, head, file, w) ==
    \/ c = StringSent(head \o file, w)
    \/ \E iov : /\ c = MMapSent(head, file, iov, w)
                /\ w < Len(head) + Len(file) =>
                     \E a \in Nat : iov = Left(Len(head), Len(file), w, a)

LEMMA CarriesFields ==
    ASSUME NEW S, NEW head \in Seq(S), NEW file \in Seq(S), NEW w, NEW c, Carries(c, head, file, w)
    PROVE  c.written = w /\ c.pending = Len(head) + Len(file)
<1>1. CASE c = StringSent(head \o file, w)
  <2>1. Len(head \o file) = Len(head) + Len(file)
    BY ConcatProperties
  <2> QED
    BY <1>1, <2>1 DEF StringSent
<1>2. ASSUME NEW iov, c = MMapSent(head, file, iov, w)
      PROVE  c.written = w /\ c.pending = Len(head) + Len(file)
  BY <1>2 DEF MMapSent
<1> QED
  BY <1>1, <1>2 DEF Carries

LEMMA RestCells ==
    ASSUME NEW S, NEW s \in Seq(S), NEW w \in Nat, NEW n \in Nat, w <= n, n <= Len(s)
    PROVE  /\ SubSeq(s, w + 1, n) \in Seq(S) /\ Len(SubSeq(s, w + 1, n)) = n - w
           /\ \A i \in 1 .. n - w : SubSeq(s, w + 1, n)[i] = s[w + i]
<1>1. PICK lo \in Int : lo = w + 1
  OBVIOUS
<1>2. n \in Int
  OBVIOUS
<1>3. \A i \in lo .. n : s[i] \in S
  <2>1. \A i \in 1 .. Len(s) : s[i] \in S
    OBVIOUS
  <2>2. PICK l \in Nat : l = Len(s)
    OBVIOUS
  <2>3. n <= l
    BY <2>2
  <2>4. \A i \in lo .. n : i \in 1 .. l
    BY <1>1, <2>3
  <2> QED
    BY <2>1, <2>2, <2>4
<1>4. /\ SubSeq(s, lo, n) \in Seq(S)
      /\ Len(SubSeq(s, lo, n)) = IF lo <= n THEN n - lo + 1 ELSE 0
      /\ \A i \in 1 .. n - lo + 1 : SubSeq(s, lo, n)[i] = s[lo + i - 1]
  BY <1>2, <1>3, SubSeqProperties
<1>5. PICK t : t = SubSeq(s, lo, n)
  OBVIOUS
<1>6. Len(t) = n - w
  BY <1>1, <1>4, <1>5
<1>7. ASSUME NEW i \in 1 .. n - w PROVE t[i] = s[w + i]
  <2>1. i \in 1 .. n - lo + 1 /\ lo + i - 1 = w + i
    BY <1>1
  <2>2. t[i] = s[lo + i - 1]
    BY <1>4, <1>5, <2>1
  <2> QED
    BY <2>1, <2>2
<1>8. t = SubSeq(s, w + 1, n)
  BY <1>1, <1>5
<1> QED
  BY <1>4, <1>5, <1>6, <1>7, <1>8

(* What is offered is the rest of the message. *)
LEMMA OfferedIs ==
    ASSUME NEW S, NEW head \in Seq(S), NEW file \in Seq(S), NEW w \in Nat,
           w < Len(head) + Len(file), NEW c, Carries(c, head, file, w)
    PROVE  Offered(c) = SubSeq(head \o file, w + 1, Len(head) + Len(file))
<1>1. PICK h \in Nat : h = Len(head)
  OBVIOUS
<1>2. PICK f \in Nat : f = Len(file)
  OBVIOUS
<1>3. PICK m \in Seq(S) : m = head \o file
  BY ConcatProperties
<1>4. /\ Len(m) = h + f
      /\ \A i \in 1 .. h + f : m[i] = IF i <= h THEN head[i] ELSE file[i - h]
  BY <1>1, <1>2, <1>3, ConcatProperties
<1>5. w < h + f
  BY <1>1, <1>2
<1>6. CASE c = StringSent(m, w)
  <2>1. c.kind = "string" /\ c.data = m /\ c.written = w /\ c.pending = Len(m)
    BY <1>6 DEF StringSent
  <2>2. w + (h + f - w) = h + f
    BY <1>5
  <2>3. Offered(c) = Slice(m, Iovec(w, h + f - w))
    BY <1>4, <2>1 DEF Offered
  <2>4. Slice(m, Iovec(w, h + f - w)) = SubSeq(m, w + 1, w + (h + f - w))
    BY DEF Slice, Iovec
  <2> QED
    BY <1>1, <1>2, <1>3, <2>2, <2>3, <2>4
<1>7. ASSUME NEW iov, c = MMapSent(head, file, iov, w), NEW a \in Nat, iov = Left(h, f, w, a)
      PROVE  Offered(c) = SubSeq(m, w + 1, h + f)
  <2>1. c.kind = "mmap" /\ c.head = head /\ c.file = file /\ c.iov = iov
    BY <1>7 DEF MMapSent
  <2>2. Offered(c) = Slice(head, iov[1]) \o Slice(file, iov[2])
    BY <2>1 DEF Offered
  <2>3. ASSUME NEW s, NEW at, NEW len PROVE Slice(s, Iovec(at, len)) = SubSeq(s, at + 1, at + len)
    BY DEF Slice, Iovec
  <2>6. CASE w < h
    <3>1. iov[1] = Iovec(w, h - w) /\ iov[2] = Iovec(0, f)
      BY <1>7, <2>6 DEF Left
    <3>2. w + (h - w) = h /\ 0 + 1 = 1 /\ 0 + f = f
      BY <2>6
    <3>3. Slice(head, iov[1]) = SubSeq(head, w + 1, h) /\ Slice(file, iov[2]) = SubSeq(file, 1, f)
      <4>1. Slice(head, Iovec(w, h - w)) = SubSeq(head, w + 1, w + (h - w))
        BY <2>3
      <4>2. Slice(file, Iovec(0, f)) = SubSeq(file, 0 + 1, 0 + f)
        BY <2>3
      <4> QED
        BY <3>1, <3>2, <4>1, <4>2
    <3>4. SubSeq(file, 1, f) = file
      BY <1>2, SubSeqFull
    <3>5. PICK p \in Seq(S) : p = SubSeq(head, w + 1, h)
      <4>1. w <= h /\ h <= Len(head)
        BY <1>1, <2>6
      <4>2. SubSeq(head, w + 1, h) \in Seq(S)
        BY <4>1, RestCells
      <4> QED
        BY <4>2
    <3>6. Len(p) = h - w /\ \A i \in 1 .. h - w : p[i] = head[w + i]
      BY <1>1, <2>6, <3>5, RestCells
    <3>0. w <= h + f /\ h + f <= Len(m) /\ h + f \in Nat
      BY <1>4, <1>5
    <3>7. PICK q \in Seq(S) : q = SubSeq(m, w + 1, h + f)
      BY <3>0, RestCells
    <3>8. Len(q) = h + f - w /\ \A i \in 1 .. h + f - w : q[i] = m[w + i]
      BY <3>0, <3>7, RestCells
    <3>9. PICK r \in Seq(S) : r = p \o file
      BY ConcatProperties
    <3>10. /\ Len(r) = (h - w) + f
           /\ \A i \in 1 .. (h - w) + f : r[i] = IF i <= h - w THEN p[i] ELSE file[i - (h - w)]
      <4>1. PICK b \in Nat : b = h - w
        BY <2>6
      <4>2. Len(p) = b
        BY <3>6, <4>1
      <4>3. /\ Len(p \o file) = Len(p) + Len(file)
            /\ \A i \in 1 .. Len(p) + Len(file) :
                 (p \o file)[i] = IF i <= Len(p) THEN p[i] ELSE file[i - Len(p)]
        BY ConcatProperties
      <4>4. Len(r) = b + f /\ \A i \in 1 .. b + f : r[i] = IF i <= b THEN p[i] ELSE file[i - b]
        BY <1>2, <3>9, <4>2, <4>3
      <4> QED
        BY <4>1, <4>4
    <3>11. Len(r) = Len(q)
      BY <3>8, <3>10, <2>6
    <3>12. ASSUME NEW i \in 1 .. Len(r) PROVE r[i] = q[i]
      <4>1. i \in 1 .. (h - w) + f /\ i \in 1 .. h + f - w /\ w + i \in 1 .. h + f
        BY <2>6, <3>10
      <4>2. CASE i <= h - w
        <5>1. i \in 1 .. h - w /\ w + i <= h
          BY <2>6, <4>1, <4>2
        <5> QED
          BY <1>4, <3>6, <3>8, <3>10, <4>1, <4>2, <5>1
      <4>3. CASE ~(i <= h - w)
        <5>1. ~(w + i <= h) /\ i - (h - w) = (w + i) - h
          BY <2>6, <4>1, <4>3
        <5> QED
          BY <1>4, <3>8, <3>10, <4>1, <4>3, <5>1
      <4> QED
        BY <4>2, <4>3
    <3>13. r = q
      BY <3>11, <3>12, SeqEqual
    <3> QED
      BY <2>2, <3>3, <3>4, <3>5, <3>7, <3>9, <3>13
  <2>7. CASE ~(w < h)
    <3>1. iov[1] = Iovec(a, 0) /\ iov[2] = Iovec(w - h, f - (w - h))
      BY <1>7, <2>7 DEF Left
    <3>2. PICK d \in Nat : d = w - h
      BY <2>7
    <3>3. d + (f - d) = f /\ a + 0 = a /\ d < f
      BY <1>5, <3>2
    <3>4. Slice(head, iov[1]) = SubSeq(head, a + 1, a) /\ Slice(file, iov[2]) = SubSeq(file, d + 1, f)
      <4>1. Slice(head, Iovec(a, 0)) = SubSeq(head, a + 1, a + 0)
        BY <2>3
      <4>2. Slice(file, Iovec(d, f - d)) = SubSeq(file, d + 1, d + (f - d))
        BY <2>3
      <4> QED
        BY <3>1, <3>2, <3>3, <4>1, <4>2
    <3>5. SubSeq(head, a + 1, a) = <<>>
      BY SubSeqEmpty
    <3>6. PICK p \in Seq(S) : p = SubSeq(file, d + 1, f)
      <4>1. d <= f /\ f <= Len(file)
        BY <1>2, <3>3
      <4>2. SubSeq(file, d + 1, f) \in Seq(S)
        BY <4>1, RestCells
      <4> QED
        BY <4>2
    <3>7. <<>> \o p = p
      BY ConcatEmptySeq
    <3>8. PICK m1 \in h + 1 .. h + f : m1 = w + 1
      BY <1>5, <2>7
    <3>9. PICK n1 \in h + 1 .. h + f : n1 = h + f
      BY <1>5, <2>7
    <3>10. SubSeq(m, m1, n1) = SubSeq(file, m1 - h, n1 - h)
      BY <1>1, <1>2, <1>3, SubSeqOfConcat2
    <3>11. m1 - h = d + 1 /\ n1 - h = f
      BY <3>2, <3>8, <3>9
    <3>12. SubSeq(m, m1, n1) = p
      BY <3>6, <3>10, <3>11
    <3> QED
      BY <2>2, <3>4, <3>5, <3>6, <3>7, <3>8, <3>9, <3>12
  <2> QED
    BY <2>6, <2>7
<1>8. ASSUME NEW iov, c = MMapSent(head, file, iov, w), \E a \in Nat : iov = Left(h, f, w, a)
      PROVE  Offered(c) = SubSeq(m, w + 1, h + f)
  BY <1>7, <1>8
<1>9. \/ c = StringSent(m, w)
      \/ \E iov : c = MMapSent(head, file, iov, w) /\ \E a \in Nat : iov = Left(h, f, w, a)
  BY <1>1, <1>2, <1>3, <1>5 DEF Carries
<1>10. CASE c = StringSent(m, w)
  BY <1>1, <1>2, <1>3, <1>6, <1>10
<1>11. CASE \E iov : c = MMapSent(head, file, iov, w) /\ \E a \in Nat : iov = Left(h, f, w, a)
  BY <1>1, <1>2, <1>3, <1>8, <1>11
<1> QED
  BY <1>9, <1>10, <1>11

(* The iovecs are moved past what was taken. *)
LEMMA AdvancedIs ==
    ASSUME NEW at1, NEW len1, NEW at2, NEW len2, NEW n
    PROVE  /\ n < len1 =>
                Advanced(<<Iovec(at1, len1), Iovec(at2, len2)>>, n) =
                    <<Iovec(at1 + n, len1 - n), Iovec(at2, len2)>>
           /\ ~(n < len1) =>
                Advanced(<<Iovec(at1, len1), Iovec(at2, len2)>>, n) =
                    <<Iovec(at1, 0), Iovec(at2 + (n - len1), len2 - (n - len1))>>
<1> DEFINE v == Iovec(at1, len1)
           u == Iovec(at2, len2)
<1>1. v.at = at1 /\ v.len = len1 /\ u.at = at2 /\ u.len = len2
  BY DEF Iovec
<1> HIDE DEF v, u
<1>2. PICK iov : iov = <<v, u>>
  OBVIOUS
<1>3. iov[1] = v /\ iov[2] = u
  BY <1>2
<1>4. CASE n < len1
  <2>1. Advanced(iov, n) = <<Iovec(at1 + n, len1 - n), u>>
    BY <1>1, <1>3, <1>4 DEF Advanced
  <2> QED
    BY <1>2, <1>4, <2>1 DEF v, u
<1>5. CASE ~(n < len1)
  <2>1. Advanced(iov, n) = <<Iovec(at1, 0), Iovec(at2 + (n - len1), len2 - (n - len1))>>
    BY <1>1, <1>3, <1>5 DEF Advanced
  <2> QED
    BY <1>2, <1>5, <2>1 DEF v, u
<1> QED
  BY <1>4, <1>5

Advances(h, f, w, a, n) ==
    \E b \in Nat : Advanced(Left(h, f, w, a), n) = Left(h, f, w + n, b)

LEMMA LeftAdvances ==
    ASSUME NEW h \in Nat, NEW f \in Nat, NEW w \in Nat, NEW a \in Nat, NEW n \in Nat
    PROVE  Advances(h, f, w, a, n)
<1>0. SUFFICES \E b \in Nat : Advanced(Left(h, f, w, a), n) = Left(h, f, w + n, b)
  BY DEF Advances
<1>1. CASE w < h
  <2>1. PICK d \in Nat : d = h - w
    BY <1>1
  <2>2. Left(h, f, w, a) = <<Iovec(w, d), Iovec(0, f)>>
    BY <1>1, <2>1 DEF Left
  <2>3. CASE n < d
    <3>1. Advanced(<<Iovec(w, d), Iovec(0, f)>>, n) = <<Iovec(w + n, d - n), Iovec(0, f)>>
      BY <2>3, AdvancedIs
    <3>2. w + n < h /\ d - n = h - (w + n)
      BY <2>1, <2>3
    <3>3. Left(h, f, w + n, a) = <<Iovec(w + n, d - n), Iovec(0, f)>>
      BY <3>2 DEF Left
    <3> QED
      BY <2>2, <3>1, <3>3
  <2>4. CASE ~(n < d)
    <3>1. PICK z \in Nat : z = 0
      OBVIOUS
    <3>2. Advanced(<<Iovec(w, d), Iovec(z, f)>>, n) =
             <<Iovec(w, 0), Iovec(z + (n - d), f - (n - d))>>
      BY <2>4, AdvancedIs
    <3>3. ~(w + n < h) /\ z + (n - d) = w + n - h /\ n - d = w + n - h
      BY <2>1, <2>4, <3>1
    <3>4. Left(h, f, w + n, w) = <<Iovec(w, 0), Iovec(z + (n - d), f - (n - d))>>
      BY <3>3 DEF Left
    <3>5. Advanced(Left(h, f, w, a), n) = Left(h, f, w + n, w)
      BY <2>2, <3>1, <3>2, <3>4
    <3> QED
      BY <3>5
  <2> QED
    BY <2>3, <2>4
<1>2. CASE ~(w < h)
  <2>1. PICK d \in Nat : d = w - h
    BY <1>2
  <2>2. PICK z \in Nat : z = 0
    OBVIOUS
  <2>3. Left(h, f, w, a) = <<Iovec(a, z), Iovec(d, f - d)>>
    BY <1>2, <2>1, <2>2 DEF Left
  <2>4. Advanced(<<Iovec(a, z), Iovec(d, f - d)>>, n) =
           <<Iovec(a, 0), Iovec(d + (n - z), (f - d) - (n - z))>>
    <3>1. ~(n < z)
      BY <2>2
    <3> QED
      BY <3>1, AdvancedIs
  <2>5. ~(w + n < h) /\ d + (n - z) = w + n - h /\ (f - d) - (n - z) = f - (w + n - h)
    BY <1>2, <2>1, <2>2
  <2>6. Left(h, f, w + n, a) = <<Iovec(a, 0), Iovec(d + (n - z), (f - d) - (n - z))>>
    BY <2>5 DEF Left
  <2> QED
    BY <2>3, <2>4, <2>6
<1> QED
  BY <1>1, <1>2

(* A turn of writeToSocket leaves the message with n bytes more taken. *)
LEMMA TookIs ==
    ASSUME NEW S, NEW head \in Seq(S), NEW file \in Seq(S), NEW w \in Nat, NEW n \in Nat,
           w < Len(head) + Len(file), w + n <= Len(head) + Len(file),
           NEW c, Carries(c, head, file, w)
    PROVE  Carries(Took(c, n), head, file, w + n)
<1>1. PICK h \in Nat : h = Len(head)
  OBVIOUS
<1>2. PICK f \in Nat : f = Len(file)
  OBVIOUS
<1>3. PICK m : m = head \o file
  OBVIOUS
<1>4. PICK x \in Nat : x = w + n
  OBVIOUS
<1>5. CASE c = StringSent(m, w)
  <2>1. PICK l : l = Len(m)
    OBVIOUS
  <2>2. c = [kind |-> "string", data |-> m, written |-> w, pending |-> l]
    BY <1>5, <2>1 DEF StringSent
  <2>3. PICK k : k = "string"
    OBVIOUS
  <2>4. c = [kind |-> k, data |-> m, written |-> w, pending |-> l]
    BY <2>2, <2>3
  <2>5. [c EXCEPT !.written = @ + n] = [kind |-> k, data |-> m, written |-> x, pending |-> l]
    BY <1>4, <2>4
  <2>6. c.kind = "string"
    BY <2>3, <2>4
  <2>7. Took(c, n) = [c EXCEPT !.written = @ + n]
    BY <2>6 DEF Took
  <2>8. Took(c, n) = StringSent(m, x)
    BY <2>1, <2>3, <2>5, <2>7 DEF StringSent
  <2> QED
    BY <1>3, <1>4, <2>8 DEF Carries
<1>6. ASSUME NEW iov, c = MMapSent(head, file, iov, w), NEW a \in Nat, iov = Left(h, f, w, a)
      PROVE  Carries(Took(c, n), head, file, x)
  <2>1. PICK p \in Nat : p = h + f
    OBVIOUS
  <2>2. PICK k : k = "mmap"
    OBVIOUS
  <2>3. c = [kind |-> k, head |-> head, file |-> file, iov |-> iov, written |-> w, pending |-> p]
    BY <1>1, <1>2, <1>6, <2>1, <2>2 DEF MMapSent
  <2>4. PICK d : d = [kind |-> k, head |-> head, file |-> file, iov |-> iov,
                      written |-> x, pending |-> p]
    OBVIOUS
  <2>5. [c EXCEPT !.written = @ + n] = d
    BY <1>4, <2>3, <2>4
  <2>6. c.kind = "mmap" /\ c.iov = iov
    BY <2>2, <2>3
  <2>7. Complete(d) <=> x = p
    BY <2>4 DEF Complete
  <2>8. Took(c, n) = IF Complete(d) THEN d ELSE [d EXCEPT !.iov = Advanced(iov, n)]
    BY <2>5, <2>6 DEF Took
  <2>9. CASE x = p
    <3>1. Took(c, n) = MMapSent(head, file, iov, x)
      BY <1>1, <1>2, <2>1, <2>2, <2>4, <2>7, <2>8, <2>9 DEF MMapSent
    <3>2. ~(x < Len(head) + Len(file))
      BY <1>1, <1>2, <2>1, <2>9
    <3> QED
      BY <3>1, <3>2 DEF Carries
  <2>10. CASE x # p
    <3>1. PICK b \in Nat : Advanced(iov, n) = Left(h, f, x, b)
      <4>1. Advances(h, f, w, a, n)
        BY LeftAdvances
      <4> QED
        BY <1>4, <1>6, <4>1 DEF Advances
    <3>2. PICK v : v = Advanced(iov, n)
      OBVIOUS
    <3>3. [d EXCEPT !.iov = v] = [kind |-> k, head |-> head, file |-> file, iov |-> v,
                                  written |-> x, pending |-> p]
      BY ONLY <2>4
    <3>4. Took(c, n) = [d EXCEPT !.iov = v]
      BY <2>7, <2>8, <2>10, <3>2
    <3>5. Took(c, n) = MMapSent(head, file, v, x)
      BY <1>1, <1>2, <2>1, <2>2, <3>3, <3>4 DEF MMapSent
    <3>6. v = Left(Len(head), Len(file), x, b)
      BY <1>1, <1>2, <3>1, <3>2
    <3> QED
      BY <3>5, <3>6 DEF Carries
  <2> QED
    BY <2>9, <2>10
<1>7. w < h + f
  BY <1>1, <1>2
<1>8. \/ c = StringSent(m, w)
      \/ \E iov : c = MMapSent(head, file, iov, w) /\ \E a \in Nat : iov = Left(h, f, w, a)
  BY <1>1, <1>2, <1>3, <1>7 DEF Carries
<1>9. CASE \E iov : c = MMapSent(head, file, iov, w) /\ \E a \in Nat : iov = Left(h, f, w, a)
  BY <1>4, <1>6, <1>9
<1> QED
  BY <1>5, <1>8, <1>9

(* What a fresh chunk carries. *)
LEMMA ChunkCarries ==
    ASSUME NEW resp \in ResponseType
    PROVE  Carries(ChunkOf(resp), HeadOf(resp), BodyBytes(resp), 0)
<1>1. PICK head : head = HeadOf(resp)
  OBVIOUS
<1>2. PICK file : file = BodyBytes(resp)
  OBVIOUS
<1>3. head \in Seq(Piece) /\ Len(head) = 2
  BY <1>1, MessageIs
<1>4. PICK z \in Nat : z = 0
  OBVIOUS
<1>5. CASE resp.mapped
  <2>1. ChunkOf(resp) = MMapFileChunk(head, file)
    BY <1>1, <1>2, <1>5 DEF ChunkOf
  <2>2. PICK iov : iov = <<Iovec(0, Len(head)), Iovec(0, Len(file))>>
    OBVIOUS
  <2>3. MMapFileChunk(head, file) = MMapSent(head, file, iov, z)
    BY <1>4, <2>2 DEF MMapFileChunk, MMapSent
  <2>4. PICK h \in Nat : h = Len(head)
    BY <1>3
  <2>5. z < h /\ h - z = h /\ h > 0
    BY <1>3, <1>4, <2>4
  <2>6. iov = Left(h, Len(file), z, z)
    BY <1>4, <2>2, <2>4, <2>5 DEF Left
  <2> QED
    BY <1>1, <1>2, <1>4, <2>1, <2>3, <2>4, <2>6 DEF Carries
<1>6. CASE ~resp.mapped
  <2>1. ChunkOf(resp) = StringSent(head \o file, z)
    BY <1>1, <1>2, <1>4, <1>6 DEF ChunkOf, StringChunk, StringSent
  <2> QED
    BY <1>1, <1>2, <1>4, <2>1 DEF Carries
<1> QED
  BY <1>5, <1>6

(* What the peer receives in one write. *)
Receives(next, sent, i, s) == next = [sent EXCEPT ![i].wire = @ \o s]

WireGrown(next, sent, i, s) ==
    /\ Len(next) = Len(sent) /\ \A j \in 1 .. Len(sent) : j # i => next[j] = sent[j]
    /\ next[i].resp = sent[i].resp /\ next[i].parts = sent[i].parts
    /\ next[i].shut = sent[i].shut /\ next[i].wire = sent[i].wire \o s

Exchange(S) == [resp : ResponseType, parts : S, shut : BOOLEAN, wire : Seq(Piece)]

LEMMA WireGrows ==
    ASSUME NEW S, NEW sent \in Seq(Exchange(S)), NEW i \in 1 .. Len(sent),
           NEW s \in Seq(Piece), NEW next, Receives(next, sent, i, s)
    PROVE  next \in Seq(Exchange(S)) /\ WireGrown(next, sent, i, s)
<1>0. PICK T : T = [resp : ResponseType, parts : S, shut : BOOLEAN, wire : Seq(Piece)]
  OBVIOUS
<1>T. T = Exchange(S)
  BY <1>0 DEF Exchange
<1>1. sent \in Seq(T)
  BY <1>T
<1>2. PICK a \in T : a = sent[i]
  BY <1>1, ElementOfSeq
<1>3. PICK w \in Seq(Piece) : w = a.wire \o s
  <2>1. a.wire \in Seq(Piece)
    BY <1>0
  <2> QED
    BY <2>1, ConcatProperties
<1>4. PICK b : b = [a EXCEPT !.wire = w]
  OBVIOUS
<1>5. b \in T /\ b.resp = a.resp /\ b.parts = a.parts /\ b.shut = a.shut /\ b.wire = w
  BY <1>0, <1>4
<1>6. next = [sent EXCEPT ![i] = b]
  <2>1. [sent[i] EXCEPT !.wire = @ \o s] = b
    BY <1>2, <1>3, <1>4
  <2> QED
    BY <2>1 DEF Receives
<1>7. /\ next \in Seq(T) /\ Len(next) = Len(sent)
      /\ \A j \in 1 .. Len(sent) : next[j] = IF j = i THEN b ELSE sent[j]
  <2>1. b \in T
    BY <1>5
  <2>2. PICK q : q = [sent EXCEPT ![i] = b]
    OBVIOUS
  <2>3. q \in Seq(T) /\ Len(q) = Len(sent)
    BY <1>1, <2>1, <2>2, ExceptSeq
  <2>4. \A j \in 1 .. Len(sent) : q[j] = IF j = i THEN b ELSE sent[j]
    BY <1>1, <2>1, <2>2, ExceptSeq
  <2> QED
    BY <1>6, <2>2, <2>3, <2>4
<1>8. next[i] = b /\ \A j \in 1 .. Len(sent) : j # i => next[j] = sent[j]
  BY <1>7
<1>9. next \in Seq(Exchange(S))
  BY <1>T, <1>7
<1> QED
  BY <1>2, <1>3, <1>5, <1>7, <1>8, <1>9 DEF WireGrown

-----------------------------------------------------------------------------
(* The exchange's invariant: every answer is one that the router gives the *)
(* request of its place; all but the last are with the peer, and the last  *)
(* is there as far as the chunk was written.                               *)
Answered(req, a) ==
    /\ a.parts \in Paths(req) /\ a.resp \in Responses(req, a.parts)
    /\ a.shut = ~req.keep_alive

Sending(c, a, w) ==
    /\ w <= Len(HeadOf(a.resp)) + Len(BodyBytes(a.resp))
    /\ Carries(c, HeadOf(a.resp), BodyBytes(a.resp), w)
    /\ a.wire = SubSeq(Message(a.resp), 1, w)

Exchanged(o, sent, c) ==
    /\ sent \in Seq(AnswerType) /\ Len(sent) <= Len(o)
    /\ \A i \in 1 .. Len(sent) : Answered(o[i], sent[i])
    /\ \A i \in 1 .. Len(sent) : i # Len(sent) => sent[i].wire = Message(sent[i].resp)
    /\ sent = <<>> => c.written = 0 /\ c.pending = 0
    /\ sent # <<>> => \E w \in Nat : Sending(c, sent[Len(sent)], w)

LEMMA ExchangedInit == ExchangeInit => Exchanged(out, answers, chunk)
<1> SUFFICES ASSUME ExchangeInit PROVE Exchanged(out, answers, chunk)
  OBVIOUS
<1>1. answers = <<>> /\ out = <<>> /\ chunk = StringChunk(<<>>)
  BY DEF ExchangeInit, Init
<1>2. chunk.written = 0 /\ chunk.pending = 0
  BY <1>1 DEF StringChunk
<1>3. answers \in Seq(AnswerType) /\ Len(answers) = 0 /\ Len(out) = 0
  BY <1>1
<1> QED
  BY <1>1, <1>2, <1>3 DEF Exchanged

(* Dispatching only appends. *)
LEMMA OutGrows ==
    ASSUME Base, ParserNext
    PROVE  \/ out' = out
           \/ \E c : out' = Append(out, c)
<1>1. CASE \E n \in 1 .. MaxRead : Receive(n) \/ ReceiveUndefined(n)
  BY <1>1 DEF Receive, ReceiveUndefined
<1>2. CASE ParseReady
  BY <1>2 DEF ParseReady
<1>3. CASE ParseStart
  BY <1>3 DEF ParseStart
<1>4. CASE ParseMethod
  BY <1>4 DEF ParseMethod, Consume, Incomplete
<1>5. CASE ParseUrl
  BY <1>5 DEF ParseUrl, Consume, Incomplete
<1>6. CASE ParseVersion
  BY <1>6 DEF ParseVersion, Consume, Incomplete
<1>7. CASE HeadersEnd \/ HeaderIncomplete
  BY <1>7 DEF HeadersEnd, HeaderIncomplete, Incomplete
<1>8. CASE ParseHeader
  BY <1>8 DEF ParseHeader
<1>9. CASE ParseHeaderFails \/ ParseHeaderUndefined
  BY <1>9 DEF ParseHeaderFails, ParseHeaderUndefined
<1>10. CASE BodyNone \/ BodyIncomplete \/ BodyWhole \/ BodyAborts
  BY <1>10 DEF BodyNone, BodyIncomplete, BodyWhole, BodyAborts, Consume
<1>11. CASE FsmOver
  BY <1>11 DEF FsmOver
<1> QED
  BY <1>1, <1>2, <1>3, <1>4, <1>5, <1>6, <1>7, <1>8, <1>9, <1>10, <1>11 DEF ParserNext, Parse

LEMMA ParsingKeeps ==
    ASSUME Base, ParserNext, NEW sent, NEW c, Exchanged(out, sent, c)
    PROVE  Exchanged(out', sent, c)
<1>1. out \in Seq(ContentType)
  BY BaseFacts
<1>2. CASE out' = out
  BY <1>2
<1>3. ASSUME NEW d, out' = Append(out, d) PROVE Exchanged(out', sent, c)
  <2>1. PICK p : p = out'
    OBVIOUS
  <2>2. PICK n \in Nat : n = Len(out)
    BY <1>1
  <2>3. Len(p) = n + 1 /\ \A i \in 1 .. n : p[i] = out[i]
    BY <1>1, <1>3, <2>1, <2>2
  <2>4. sent \in Seq(AnswerType) /\ Len(sent) <= n
    BY <2>2 DEF Exchanged
  <2>5. PICK l \in Nat : l = Len(sent)
    BY <2>4
  <2>6. l <= n + 1 /\ \A i \in 1 .. l : i \in 1 .. n
    BY <2>4, <2>5
  <2>7. \A i \in 1 .. l : p[i] = out[i]
    BY <2>3, <2>6
  <2>8. Exchanged(p, sent, c)
    BY <2>3, <2>5, <2>6, <2>7 DEF Exchanged
  <2> QED
    BY <2>1, <2>8
<1> QED
  BY <1>2, <1>3, OutGrows

(* What the peer has and what is still offered are the message. *)
LEMMA SendingIs ==
    ASSUME NEW a \in AnswerType, NEW c, NEW w \in Nat, Sending(c, a, w),
           NEW m, m = Message(a.resp), NEW l, l = Len(m)
    PROVE  /\ m \in Seq(Piece) /\ l \in Nat /\ w <= l
           /\ l = Len(HeadOf(a.resp)) + Len(BodyBytes(a.resp))
           /\ c.written = w /\ c.pending = l /\ (Complete(c) <=> w = l)
           /\ a.wire = SubSeq(m, 1, w)
           /\ Complete(c) => a.wire = m
           /\ ~Complete(c) => Offered(c) = SubSeq(m, w + 1, l) /\ a.wire \o Offered(c) = m
<1>0. a.resp \in ResponseType
  BY DEF AnswerType
<1>1. PICK head \in Seq(Piece) : head = HeadOf(a.resp)
  BY <1>0, MessageIs
<1>2. PICK file \in Seq(Piece) : file = BodyBytes(a.resp)
  BY <1>0, MessageIs
<1>3. m = head \o file /\ m \in Seq(Piece) /\ Len(m) = Len(head) + Len(file)
  BY <1>1, <1>2, ConcatProperties DEF Message
<1>4. l \in Nat /\ l = Len(head) + Len(file)
  BY <1>3
<1>5. w <= l /\ Carries(c, head, file, w) /\ a.wire = SubSeq(m, 1, w)
  BY <1>1, <1>2, <1>4 DEF Sending
<1>6. c.written = w /\ c.pending = l
  BY <1>4, <1>5, CarriesFields
<1>7. Complete(c) <=> w = l
  BY <1>6 DEF Complete
<1>8. Complete(c) => a.wire = m
  BY <1>3, <1>5, <1>7, SubSeqFull
<1>9. ASSUME ~Complete(c)
      PROVE  Offered(c) = SubSeq(m, w + 1, l) /\ a.wire \o Offered(c) = m
  <2>1. w < l
    BY <1>4, <1>5, <1>7, <1>9
  <2>2. Offered(c) = SubSeq(m, w + 1, l)
    <3>1. w < Len(head) + Len(file)
      BY <1>4, <2>1
    <3>2. Offered(c) = SubSeq(head \o file, w + 1, Len(head) + Len(file))
      BY <1>5, <3>1, OfferedIs
    <3> QED
      BY <1>3, <1>4, <3>2
  <2>3. PICK one \in 1 .. Len(m) + 1 : one = 1
    BY <1>4
  <2>4. w \in one - 1 .. Len(m) /\ l \in w .. Len(m)
    BY <1>4, <2>1, <2>3
  <2>5. SubSeq(m, one, w) \o SubSeq(m, w + 1, l) = SubSeq(m, one, l)
    BY <1>3, <2>4, ConcatAdjacentSubSeq
  <2>6. SubSeq(m, 1, l) = m
    BY <1>3, SubSeqFull
  <2> QED
    BY <1>5, <2>2, <2>3, <2>5, <2>6
<1> QED
  BY <1>1, <1>2, <1>3, <1>4, <1>5, <1>6, <1>7, <1>8, <1>9

LEMMA AnswerKeeps ==
    ASSUME out \in Seq(ContentType), Exchanged(out, answers, chunk), Answer
    PROVE  Exchanged(out', answers', chunk')
<1>1. out' = out
  BY DEF Answer, vars
<1>2. PICK sent \in Seq(AnswerType) : sent = answers
  BY DEF Exchanged
<1>3. PICK l \in Nat : l = Len(sent)
  BY <1>2
<1>4. /\ l < Len(out) /\ Complete(chunk)
      /\ \E parts \in Paths(out[l + 1]) : \E resp \in Responses(out[l + 1], parts) :
            /\ answers' = Append(sent, [resp |-> resp, parts |-> parts,
                                        shut |-> ~out[l + 1].keep_alive, wire |-> <<>>])
            /\ chunk' = ChunkOf(resp)
  BY <1>2, <1>3 DEF Answer
<1>5. PICK req : req = out[l + 1]
  OBVIOUS
<1>6. req \in ContentType
  BY <1>3, <1>4, <1>5
<1>7. PICK parts \in Paths(req) : \E resp \in Responses(req, parts) :
            /\ answers' = Append(sent, [resp |-> resp, parts |-> parts,
                                        shut |-> ~req.keep_alive, wire |-> <<>>])
            /\ chunk' = ChunkOf(resp)
  BY <1>4, <1>5
<1>8. PICK resp \in Responses(req, parts) :
            /\ answers' = Append(sent, [resp |-> resp, parts |-> parts,
                                        shut |-> ~req.keep_alive, wire |-> <<>>])
            /\ chunk' = ChunkOf(resp)
  BY <1>7
<1>9. PICK a : a = [resp |-> resp, parts |-> parts, shut |-> ~req.keep_alive, wire |-> <<>>]
  OBVIOUS
<1>10. resp \in ResponseType
  BY <1>6, ResponsesAre DEF Honest
<1>11. a \in AnswerType
  <2>1. parts \in Seq(STRING)
    BY <1>6, PathsAre
  <2>2. <<>> \in Seq(Piece)
    OBVIOUS
  <2>3. PICK shut \in BOOLEAN : shut = ~req.keep_alive
    <3>1. req.keep_alive \in BOOLEAN
      BY <1>6 DEF ContentType
    <3> QED
      BY <3>1
  <2>4. a = [resp |-> resp, parts |-> parts, shut |-> shut, wire |-> <<>>]
    BY <1>9, <2>3
  <2> QED
    BY <1>10, <2>1, <2>2, <2>4 DEF AnswerType
<1>12. PICK next : next = Append(sent, a)
  OBVIOUS
<1>13. /\ next \in Seq(AnswerType) /\ Len(next) = l + 1 /\ next[l + 1] = a
       /\ \A i \in 1 .. l : next[i] = sent[i]
  BY <1>3, <1>11, <1>12, AppendProperties
<1>14. answers' = next /\ chunk' = ChunkOf(resp)
  BY <1>8, <1>9, <1>12
<1>15. \A i \in 1 .. l + 1 : Answered(out[i], next[i])
  <2>1. \A i \in 1 .. l : Answered(out[i], sent[i])
    BY <1>2, <1>3 DEF Exchanged
  <2>2. Answered(req, a)
    BY <1>9 DEF Answered
  <2>3. ASSUME NEW i \in 1 .. l + 1 PROVE Answered(out[i], next[i])
    <3>1. i \in 1 .. l \/ i = l + 1
      OBVIOUS
    <3> QED
      BY <1>5, <1>13, <2>1, <2>2, <3>1
  <2> QED
    BY <2>3
<1>16. \A i \in 1 .. l + 1 : i # l + 1 => next[i].wire = Message(next[i].resp)
  <2>1. \A i \in 1 .. l : i # l => sent[i].wire = Message(sent[i].resp)
    BY <1>2, <1>3 DEF Exchanged
  <2>2. ASSUME l # 0 PROVE sent[l].wire = Message(sent[l].resp)
    <3>1. sent # <<>> /\ l \in 1 .. l
      BY <1>3, <2>2
    <3>2. PICK w \in Nat : Sending(chunk, sent[l], w)
      BY <1>2, <1>3, <3>1 DEF Exchanged
    <3>3. sent[l] \in AnswerType
      BY <1>3, <3>1
    <3>4. PICK m : m = Message(sent[l].resp)
      OBVIOUS
    <3>5. PICK e : e = Len(m)
      OBVIOUS
    <3>6. Complete(chunk) => sent[l].wire = m
      BY <3>2, <3>3, <3>4, <3>5, SendingIs
    <3> QED
      BY <1>4, <3>4, <3>6
  <2>3. ASSUME NEW i \in 1 .. l + 1, i # l + 1 PROVE next[i].wire = Message(next[i].resp)
    <3>1. i \in 1 .. l
      BY <2>3
    <3>2. CASE i = l
      <4>1. l # 0
        BY <3>1, <3>2
      <4> QED
        BY <1>13, <2>2, <3>1, <3>2, <4>1
    <3>3. CASE i # l
      BY <1>13, <2>1, <3>1, <3>3
    <3> QED
      BY <3>2, <3>3
  <2> QED
    BY <2>3
<1>17. next # <<>> /\ \E w \in Nat : Sending(chunk', next[l + 1], w)
  <2>1. PICK z \in Nat : z = 0
    OBVIOUS
  <2>2. a.resp = resp /\ a.wire = <<>>
    BY <1>9
  <2>3. Carries(chunk', HeadOf(resp), BodyBytes(resp), z)
    BY <1>10, <1>14, <2>1, ChunkCarries
  <2>4. z <= Len(HeadOf(resp)) + Len(BodyBytes(resp))
    <3>1. HeadOf(resp) \in Seq(Piece) /\ BodyBytes(resp) \in Seq(Piece)
      BY <1>10, MessageIs
    <3> QED
      BY <2>1, <3>1
  <2>5. SubSeq(Message(resp), 1, z) = <<>>
    BY <2>1, SubSeqEmpty
  <2>6. Sending(chunk', a, z)
    BY <2>2, <2>3, <2>4, <2>5 DEF Sending
  <2> QED
    BY <1>13, <2>6
<1>18. l + 1 <= Len(out)
  <2>1. Len(out) \in Nat
    OBVIOUS
  <2> QED
    BY <1>4, <2>1
<1>19. PICK k : k = chunk'
  OBVIOUS
<1>20. Exchanged(out, next, k)
  BY <1>13, <1>15, <1>16, <1>17, <1>18, <1>19 DEF Exchanged
<1> QED
  BY <1>1, <1>14, <1>19, <1>20

LEMMA WriteKeeps ==
    ASSUME Exchanged(out, answers, chunk), NEW n \in 1 .. chunk.pending, Write(n)
    PROVE  Exchanged(out', answers', chunk')
<1>1. out' = out
  BY DEF Write, vars
<1>2. PICK sent \in Seq(AnswerType) : sent = answers
  BY DEF Exchanged
<1>3. PICK l \in Nat : l = Len(sent)
  BY <1>2
<1>4. PICK c : c = chunk
  OBVIOUS
<1>5. /\ ~Complete(c) /\ n <= Len(Offered(c)) /\ chunk' = Took(c, n)
      /\ answers' = [sent EXCEPT ![l].wire = @ \o SubSeq(Offered(c), 1, n)]
  BY <1>2, <1>3, <1>4 DEF Write
<1>6. sent # <<>>
  <2>1. sent = <<>> => c.written = 0 /\ c.pending = 0
    BY <1>2, <1>4 DEF Exchanged
  <2> QED
    BY <1>5, <2>1 DEF Complete
<1>7. l \in 1 .. l
  BY <1>3, <1>6
<1>8. PICK w \in Nat : Sending(c, sent[l], w)
  BY <1>2, <1>3, <1>4, <1>6 DEF Exchanged
<1>9. PICK a \in AnswerType : a = sent[l]
  BY <1>3, <1>7
<1>10. PICK m : m = Message(a.resp)
  OBVIOUS
<1>11. PICK e : e = Len(m)
  OBVIOUS
<1>12. /\ m \in Seq(Piece) /\ e \in Nat /\ w <= e
       /\ e = Len(HeadOf(a.resp)) + Len(BodyBytes(a.resp))
       /\ c.pending = e /\ (Complete(c) <=> w = e)
       /\ a.wire = SubSeq(m, 1, w) /\ Offered(c) = SubSeq(m, w + 1, e)
  <2>1. Sending(c, a, w)
    BY <1>8, <1>9
  <2>2. /\ m \in Seq(Piece) /\ e \in Nat /\ w <= e
        /\ e = Len(HeadOf(a.resp)) + Len(BodyBytes(a.resp))
        /\ c.pending = e /\ (Complete(c) <=> w = e)
        /\ a.wire = SubSeq(m, 1, w)
    BY <1>10, <1>11, <2>1, SendingIs
  <2>3. ~Complete(c) => Offered(c) = SubSeq(m, w + 1, e)
    BY <1>10, <1>11, <2>1, SendingIs
  <2> QED
    BY <1>5, <2>2, <2>3
<1>13. w < e /\ n \in Nat /\ n >= 1
  BY <1>4, <1>5, <1>12
<1>14. w + n <= e
  <2>1. Len(SubSeq(m, w + 1, e)) = e - w
    BY <1>11, <1>12, RestCells
  <2>2. n <= e - w
    BY <1>5, <1>12, <2>1
  <2> QED
    BY <1>12, <1>13, <2>2
<1>15. PICK s : s = SubSeq(Offered(c), 1, n)
  OBVIOUS
<1>16. PICK x \in Nat : x = w + n
  BY <1>13
<1>17. s = SubSeq(m, w + 1, x)
  <2>1. PICK i \in 1 .. Len(m) : i = w + 1
    BY <1>11, <1>12, <1>13
  <2>2. PICK j \in 1 .. Len(m) : j = e
    BY <1>11, <1>12, <1>13
  <2>3. PICK p \in 1 .. j - i + 1 : p = 1
    BY <1>12, <1>13, <1>14, <2>1, <2>2
  <2>4. n \in 1 .. j - i + 1
    BY <1>12, <1>13, <1>14, <2>1, <2>2
  <2>5. SubSeq(SubSeq(m, i, j), p, n) = SubSeq(m, i + p - 1, i + n - 1)
    BY <1>12, <2>4, SubSeqOfSubSeq
  <2>6. i + p - 1 = w + 1 /\ i + n - 1 = x
    BY <1>13, <1>16, <2>1, <2>3
  <2> QED
    BY <1>12, <1>15, <2>1, <2>2, <2>3, <2>5, <2>6
<1>18. s \in Seq(Piece)
  <2>1. w <= x /\ x <= Len(m)
    BY <1>11, <1>12, <1>13, <1>14, <1>16
  <2>2. SubSeq(m, w + 1, x) \in Seq(Piece)
    BY <1>12, <2>1, RestCells
  <2> QED
    BY <1>17, <2>2
<1>19. PICK next : next = [sent EXCEPT ![l].wire = @ \o s]
  OBVIOUS
<1>20. answers' = next
  BY <1>5, <1>15, <1>19
<1>21. /\ next \in Seq(AnswerType) /\ Len(next) = l
       /\ \A j \in 1 .. l : j # l => next[j] = sent[j]
       /\ next[l].resp = a.resp /\ next[l].parts = a.parts /\ next[l].shut = a.shut
       /\ next[l].wire = a.wire \o s
  <2>1. PICK S : S = Seq(STRING)
    OBVIOUS
  <2>2. Exchange(S) = AnswerType
    BY <2>1 DEF AnswerType, Exchange
  <2>3. sent \in Seq(Exchange(S)) /\ l \in 1 .. Len(sent)
    BY <1>3, <1>7, <2>2
  <2>4. Receives(next, sent, l, s)
    BY <1>19 DEF Receives
  <2>5. next \in Seq(Exchange(S)) /\ WireGrown(next, sent, l, s)
    BY <1>18, <2>3, <2>4, WireGrows
  <2> QED
    BY <1>3, <1>9, <2>2, <2>5 DEF WireGrown
<1>22. a.wire \o s = SubSeq(m, 1, x)
  <2>1. PICK one \in 1 .. Len(m) + 1 : one = 1
    BY <1>11, <1>12
  <2>2. w \in one - 1 .. Len(m) /\ x \in w .. Len(m)
    BY <1>11, <1>12, <1>13, <1>14, <1>16, <2>1
  <2>3. SubSeq(m, one, w) \o SubSeq(m, w + 1, x) = SubSeq(m, one, x)
    BY <1>12, <2>2, ConcatAdjacentSubSeq
  <2> QED
    BY <1>12, <1>17, <2>1, <2>3
<1>23. \A i \in 1 .. l : Answered(out[i], next[i])
  <2>1. \A i \in 1 .. l : Answered(out[i], sent[i])
    BY <1>2, <1>3 DEF Exchanged
  <2>2. Answered(out[l], next[l])
    BY <1>7, <1>9, <1>21, <2>1 DEF Answered
  <2> QED
    BY <1>21, <2>1, <2>2
<1>24. \A i \in 1 .. l : i # l => next[i].wire = Message(next[i].resp)
  <2>1. \A i \in 1 .. l : i # l => sent[i].wire = Message(sent[i].resp)
    BY <1>2, <1>3 DEF Exchanged
  <2> QED
    BY <1>21, <2>1
<1>25. PICK k : k = Took(c, n)
  OBVIOUS
<1>26. Sending(k, next[l], x)
  <2>1. a.resp \in ResponseType
    BY DEF AnswerType
  <2>2. PICK head \in Seq(Piece) : head = HeadOf(a.resp)
    BY <2>1, MessageIs
  <2>3. PICK file \in Seq(Piece) : file = BodyBytes(a.resp)
    BY <2>1, MessageIs
  <2>4. w < Len(head) + Len(file) /\ w + n <= Len(head) + Len(file)
    BY <1>12, <1>13, <1>14, <2>2, <2>3
  <2>5. Carries(c, head, file, w)
    BY <1>8, <1>9, <2>2, <2>3 DEF Sending
  <2>6. n \in Nat
    BY <1>13
  <2>7. Carries(Took(c, n), head, file, w + n)
    BY <2>4, <2>5, <2>6, TookIs
  <2> QED
    BY <1>10, <1>16, <1>21, <1>22, <1>25, <2>2, <2>3, <2>4, <2>7 DEF Sending
<1>27. Exchanged(out, next, k)
  <2>1. l <= Len(out)
    BY <1>2, <1>3 DEF Exchanged
  <2>2. next # <<>>
    BY <1>7, <1>21
  <2> QED
    BY <1>16, <1>21, <1>23, <1>24, <1>26, <2>1, <2>2 DEF Exchanged
<1> QED
  BY <1>1, <1>5, <1>20, <1>25, <1>27

-----------------------------------------------------------------------------
LEMMA ExchangedStep ==
    ASSUME Base, Exchanged(out, answers, chunk), [Next]_allVars
    PROVE  Exchanged(out', answers', chunk')
<1>0. out \in Seq(ContentType)
  BY BaseFacts
<1>1. CASE ParserNext /\ UNCHANGED <<answers, chunk>>
  <2>1. PICK sent : sent = answers
    OBVIOUS
  <2>2. PICK c : c = chunk
    OBVIOUS
  <2>3. Exchanged(out', sent, c)
    BY <1>1, <2>1, <2>2, ParsingKeeps
  <2> QED
    BY <1>1, <2>1, <2>2, <2>3
<1>2. CASE Answer
  BY <1>0, <1>2, AnswerKeeps
<1>3. CASE \E n \in 1 .. chunk.pending : Write(n)
  BY <1>3, WriteKeeps
<1>4. CASE UNCHANGED allVars
  BY <1>4 DEF allVars, vars
<1> QED
  BY <1>1, <1>2, <1>3, <1>4 DEF Next

LEMMA Exchanging == Spec => [](Base /\ Exchanged(out, answers, chunk))
<1>1. ExchangeInit => Exchanged(out, answers, chunk)
  BY ExchangedInit
<1>2. Base /\ Exchanged(out, answers, chunk) /\ [Next]_allVars => Exchanged(out, answers, chunk)'
  BY ExchangedStep
<1> QED
  BY <1>1, <1>2, Standing, PTL DEF Spec

(* An answer's request, and the response it is honest about.               *)
LEMMA AnswersAre ==
    ASSUME Base, Exchanged(out, answers, chunk), NEW i \in DOMAIN answers
    PROVE  /\ i \in 1 .. Len(answers) /\ Len(answers) \in Nat
           /\ answers[i] \in AnswerType /\ out[i] \in ContentType
           /\ Answered(out[i], answers[i])
           /\ Honest(answers[i].resp, out[i].keep_alive)
<1>1. answers \in Seq(AnswerType) /\ Len(answers) <= Len(out)
  BY DEF Exchanged
<1>2. Len(answers) \in Nat /\ i \in 1 .. Len(answers) /\ answers[i] \in AnswerType
  BY <1>1
<1>3. Answered(out[i], answers[i])
  BY <1>2 DEF Exchanged
<1>4. out[i] \in ContentType
  <2>1. out \in Seq(ContentType)
    BY BaseFacts
  <2> QED
    BY <1>1, <1>2, <2>1
<1>5. Honest(answers[i].resp, out[i].keep_alive)
  BY <1>3, <1>4, ResponsesAre DEF Answered
<1> QED
  BY <1>2, <1>3, <1>4, <1>5

(* TypeOK: the parser's state is well formed, nothing is answered that was *)
(* not dispatched, and no more of a chunk is written than there is.        *)
THEOREM ExchangeTypes == Spec => []TypeOK
<1>1. ASSUME Base, Exchanged(out, answers, chunk) PROVE TypeOK
  <2>1. ParserTypeOK
    BY <1>1 DEF Base
  <2>2. Len(answers) <= Len(out) /\ answers \in Seq(AnswerType)
    BY <1>1 DEF Exchanged
  <2>3. CASE answers = <<>>
    <3>1. chunk.written = 0 /\ chunk.pending = 0
      BY <1>1, <2>3 DEF Exchanged
    <3> QED
      BY <2>1, <2>2, <3>1 DEF TypeOK
  <2>4. CASE answers # <<>>
    <3>1. PICK w \in Nat : Sending(chunk, answers[Len(answers)], w)
      BY <1>1, <2>4 DEF Exchanged
    <3>2. answers[Len(answers)] \in AnswerType
      BY <2>2, <2>4
    <3>3. PICK a \in AnswerType : a = answers[Len(answers)]
      BY <3>2
    <3>4. PICK m : m = Message(a.resp)
      OBVIOUS
    <3>5. PICK l : l = Len(m)
      OBVIOUS
    <3>6. Sending(chunk, a, w)
      BY <3>1, <3>3
    <3>7. l \in Nat /\ w <= l /\ chunk.written = w /\ chunk.pending = l
      BY <3>4, <3>5, <3>6, SendingIs
    <3>8. chunk.written \in 0 .. chunk.pending
      BY <3>7
    <3> QED
      BY <2>1, <2>2, <3>8 DEF TypeOK
  <2> QED
    BY <2>3, <2>4
<1> QED
  BY <1>1, Exchanging, PTL

(* AnswersArrive: however the kernel cuts the writes, what the peer has    *)
(* received and what is still offered to the kernel are together the       *)
(* response, whole and in order, and the head announces its body's length. *)
THEOREM WholeAnswers == Spec => []AnswersArrive
<1>1. ASSUME Base, Exchanged(out, answers, chunk) PROVE AnswersArrive
  <2> SUFFICES ASSUME NEW i \in DOMAIN answers
               PROVE  /\ answers[i].wire \o (IF i = Len(answers) /\ ~Complete(chunk)
                                             THEN Offered(chunk) ELSE <<>>)
                           = HeadOf(answers[i].resp) \o BodyBytes(answers[i].resp)
                      /\ answers[i].resp.length = Len(answers[i].resp.body)
    BY DEF AnswersArrive
  <2>1. PICK a \in AnswerType : a = answers[i]
    BY <1>1, AnswersAre
  <2>2. i \in 1 .. Len(answers) /\ a.resp.length = Len(a.resp.body)
    BY <1>1, <2>1, AnswersAre DEF Honest
  <2>3. PICK m : m = Message(a.resp)
    OBVIOUS
  <2>4. PICK l : l = Len(m)
    OBVIOUS
  <2>5. m = HeadOf(a.resp) \o BodyBytes(a.resp)
    BY <2>3 DEF Message
  <2>6. m \in Seq(Piece)
    <3>1. a.resp \in ResponseType
      BY DEF AnswerType
    <3> QED
      BY <2>3, <3>1, MessageIs
  <2>7. CASE i # Len(answers)
    <3>1. a.wire = m
      BY <1>1, <2>1, <2>2, <2>3, <2>7 DEF Exchanged
    <3>2. m \o <<>> = m
      BY <2>6, ConcatEmptySeq
    <3> QED
      BY <2>1, <2>2, <2>5, <2>7, <3>1, <3>2
  <2>8. CASE i = Len(answers)
    <3>1. answers # <<>>
      BY <2>2
    <3>2. PICK w \in Nat : Sending(chunk, a, w)
      BY <1>1, <2>1, <2>8, <3>1 DEF Exchanged
    <3>3. /\ Complete(chunk) => a.wire = m
          /\ ~Complete(chunk) => a.wire \o Offered(chunk) = m
      BY <2>3, <2>4, <3>2, SendingIs
    <3>4. m \o <<>> = m
      BY <2>6, ConcatEmptySeq
    <3> QED
      BY <2>1, <2>2, <2>5, <2>8, <3>3, <3>4
  <2> QED
    BY <2>7, <2>8
<1> QED
  BY <1>1, Exchanging, PTL

(* CloseAnnounced: a client whose connection is shut down after a response *)
(* has been told so in that response.                                      *)
THEOREM ClosingIsTold == Spec => []CloseAnnounced
<1>1. ASSUME Base, Exchanged(out, answers, chunk) PROVE CloseAnnounced
  <2> SUFFICES ASSUME NEW i \in DOMAIN answers, answers[i].shut
               PROVE  answers[i].resp.connection = "close"
    BY DEF CloseAnnounced
  <2>1. Answered(out[i], answers[i]) /\ Honest(answers[i].resp, out[i].keep_alive)
    BY <1>1, AnswersAre
  <2> QED
    BY <2>1 DEF Answered, Honest
<1> QED
  BY <1>1, Exchanging, PTL

(* PathsResolved: a file is served only if walking its path never leaves   *)
(* the root, and then it is the file the path means; a path that leaves    *)
(* the root is refused, never clamped to it.                               *)
THEOREM PathsAreResolved == Spec => []PathsResolved
<1>1. ASSUME Base, Exchanged(out, answers, chunk) PROVE PathsResolved
  <2> SUFFICES ASSUME NEW i \in DOMAIN answers, SenderOf(out[i]) = "file",
                      Suffix[UrlOf(out[i])] \in DOMAIN RespondTypes
               PROVE  /\ answers[i].resp.status = 400 <=> ~StaysInside(answers[i].parts)
                      /\ answers[i].resp.status = 200 =>
                            answers[i].resp.body = Files[Resolved(answers[i].parts)]
    BY DEF PathsResolved
  <2>1. PICK req \in ContentType : req = out[i]
    BY <1>1, AnswersAre
  <2>2. PICK a \in AnswerType : a = answers[i]
    BY <1>1, AnswersAre
  <2>3. a.parts \in Paths(req) /\ a.resp \in Responses(req, a.parts)
    BY <1>1, <2>1, <2>2, AnswersAre DEF Answered
  <2>4. PICK parts \in Seq(STRING) : parts = a.parts
    BY <2>3, PathsAre
  <2>5. PICK resp : resp = a.resp
    OBVIOUS
  <2>6. resp \in FileResponses(req, parts)
    BY <2>1, <2>3, <2>4, <2>5, ResponsesAre
  <2>7. /\ resp.status = 400 <=> ValidPath(parts) = Refused
        /\ resp.status = 200 => resp.body = Files[ValidPath(parts)]
    BY <2>1, <2>6, FileResponsesAre
  <2>8. /\ ValidPath(parts) = Resolved(parts)
        /\ ValidPath(parts) = Refused <=> ~StaysInside(parts)
    BY ValidPathIs
  <2> QED
    BY <2>2, <2>4, <2>5, <2>7, <2>8
<1> QED
  BY <1>1, Exchanging, PTL

=============================================================================
