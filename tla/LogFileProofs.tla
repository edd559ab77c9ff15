---------------------------- MODULE LogFileProofs ----------------------------
(***************************************************************************)
(* LogFile's invariants for every file limit, period of the check, set of  *)
(* block sizes, length of a day and bound.                                 *)
(***************************************************************************)
EXTENDS LogFile, SequenceTheorems, TLAPS

(* What one more block may do to a file: the file is below the limit with  *)
(* the block counted in, or it is one of those that were opened again.     *)
BlockFits ==
    block # 0 => file.size + block < FileMax \/ disk[file.fd].reopened

(* Only a removed file has stray blocks. *)
LinkedIsClean == \A i \in 1 .. Len(disk) : disk[i].linked => disk[i].stray = 0

(* The file in use has been without its name for no longer than the count  *)
(* since the last check tells, the block being written included.           *)
StrayCounted ==
    file.fd # 0 =>
        /\ disk[file.fd].stray <= count + 1
        /\ block # 0 => disk[file.fd].stray <= count

IInv ==
    /\ TypeOK
    /\ SizeAccurate /\ LimitKept /\ BlockFits
    /\ LinkedIsClean /\ StrayCounted /\ StrayBounded
    /\ DayKept

-----------------------------------------------------------------------------
(* The arithmetic the proofs need.                                         *)

LEMMA DayIsNat == ASSUME NEW t \in Nat PROVE Day(t) \in Nat
  BY FileAssumption DEF Day

LEMMA CountWraps ==
    ASSUME NEW n \in 0 .. CheckEvery - 1
    PROVE  /\ (n + 1) % CheckEvery \in 0 .. CheckEvery - 1
           /\ (n + 1) % CheckEvery = n + 1 \/ (n + 1) % CheckEvery = 0
  <1>1. CheckEvery \in Nat /\ CheckEvery > 0 /\ n \in Nat /\ n + 1 <= CheckEvery
    BY FileAssumption
  <1>2. CASE n + 1 < CheckEvery
    <2>1. (n + 1) % CheckEvery = n + 1
      BY <1>1, <1>2
    <2> QED BY <1>1, <1>2, <2>1
  <1>3. CASE n + 1 = CheckEvery
    <2>1. (n + 1) % CheckEvery = 0
      BY <1>1, <1>3
    <2> QED BY <1>1, <2>1
  <1> QED BY <1>1, <1>2, <1>3

-----------------------------------------------------------------------------
(* What opening a file does to the disk d: e is d with at most one inode   *)
(* more, a new one, and nothing else changed but what was opened again.    *)
Extends(e, d) ==
    /\ e \in Seq(Inode)
    /\ Len(e) \in {Len(d), Len(d) + 1}
    /\ \A i \in 1 .. Len(d) :
         /\ e[i].bytes = d[i].bytes /\ e[i].linked = d[i].linked /\ e[i].stray = d[i].stray
         /\ d[i].reopened => e[i].reopened
    /\ Len(e) = Len(d) + 1 =>
         /\ e[Len(e)].bytes = 0 /\ e[Len(e)].stray = 0

LEMMA OpenExtends ==
    ASSUME NEW d \in Seq(Inode), NEW path \in Nat
    PROVE  LET o == OpenFile(d, path)
           IN  /\ Extends(o.disk, d)
               /\ o.fd \in 1 .. Len(o.disk)
               /\ o.disk[o.fd].linked
               /\ o.disk[o.fd].bytes = 0 \/ o.disk[o.fd].reopened
  <1>1. CASE Named(d, path) = {}
    <2> DEFINE n == NewInode(path)
    <2>1. n \in Inode /\ n.bytes = 0 /\ n.linked /\ n.stray = 0
      BY DEF NewInode, Inode
    <2>2. OpenFile(d, path) = [fd |-> Len(d) + 1, disk |-> Append(d, n)]
      BY <1>1 DEF OpenFile
    <2> HIDE DEF n
    <2>3. /\ Append(d, n) \in Seq(Inode) /\ Len(Append(d, n)) = Len(d) + 1
          /\ \A i \in 1 .. Len(d) : Append(d, n)[i] = d[i]
          /\ Append(d, n)[Len(d) + 1] = n
      BY <2>1, AppendProperties
    <2>4. Len(d) \in Nat
      BY LenProperties
    <2> QED BY <2>1, <2>2, <2>3, <2>4 DEF Extends
  <1>2. CASE Named(d, path) # {}
    <2> DEFINE i == CHOOSE j \in Named(d, path) : TRUE
               e == [d EXCEPT ![i].reopened = TRUE]
    <2>1. i \in 1 .. Len(d) /\ d[i].linked
      <3>1. i \in Named(d, path)
        BY <1>2
      <3> QED BY <3>1 DEF Named
    <2>2. OpenFile(d, path) = [fd |-> i, disk |-> e]
      BY <1>2 DEF OpenFile
    <2> HIDE DEF i
    <2>3. Len(d) \in Nat /\ \A j \in 1 .. Len(d) : d[j] \in Inode
      BY LenProperties, ElementOfSeq
    <2>4. /\ e \in Seq(Inode) /\ Len(e) = Len(d)
          /\ e[i] = [d[i] EXCEPT !.reopened = TRUE]
          /\ \A j \in 1 .. Len(d) : j # i => e[j] = d[j]
      <3> DEFINE x == [d[i] EXCEPT !.reopened = TRUE]
      <3>1. x \in Inode
        BY <2>1, <2>3 DEF Inode
      <3>2. e = [d EXCEPT ![i] = x]
        OBVIOUS
      <3> HIDE DEF e, x
      <3>3. /\ [d EXCEPT ![i] = x] \in Seq(Inode)
            /\ Len([d EXCEPT ![i] = x]) = Len(d)
            /\ \A j \in 1 .. Len(d) : [d EXCEPT ![i] = x][j] = IF j = i THEN x ELSE d[j]
        BY <2>1, <3>1, ExceptSeq
      <3>4. e \in Seq(Inode) /\ Len(e) = Len(d) /\ e[i] = x
            /\ \A j \in 1 .. Len(d) : j # i => e[j] = d[j]
        BY <2>1, <3>2, <3>3
      <3> QED BY <3>4 DEF x
    <2> HIDE DEF e
    <2>5. /\ e[i].reopened /\ e[i].linked /\ e[i].linked = d[i].linked
          /\ e[i].bytes = d[i].bytes /\ e[i].stray = d[i].stray
      BY <2>1, <2>3, <2>4 DEF Inode
    <2>6. Extends(e, d)
      <3>1. Len(e) # Len(d) + 1
        BY <2>3, <2>4
      <3>2. \A j \in 1 .. Len(d) :
              /\ e[j].bytes = d[j].bytes /\ e[j].linked = d[j].linked /\ e[j].stray = d[j].stray
              /\ d[j].reopened => e[j].reopened
        BY <2>4, <2>5
      <3> QED BY <2>4, <3>1, <3>2 DEF Extends
    <2>7. OpenFile(d, path).fd = i /\ OpenFile(d, path).disk = e
      BY <2>2
    <2> QED BY <2>1, <2>4, <2>5, <2>6, <2>7
  <1> QED BY <1>1, <1>2

(* reset_file_fd leaves no file, or one that has its name, whose size it   *)
(* knows, and which is empty or was there before.                          *)
Opened(r, d, t) ==
    /\ Extends(r.disk, d)
    /\ r.now \in Nat /\ t <= r.now
    /\ r.file \in [fd : 0 .. Len(r.disk), path : Nat, size : Nat, day : Nat]
    /\ r.file.day = Day(t)
    /\ r.file.fd # 0 =>
         /\ r.file.size = r.disk[r.file.fd].bytes
         /\ r.disk[r.file.fd].linked
         /\ r.file.size = 0 \/ r.disk[r.file.fd].reopened

LEMMA ResetsOpen ==
    ASSUME NEW d \in Seq(Inode), NEW t \in Nat, NEW r \in Resets(d, t)
    PROVE  Opened(r, d, t)
  <1>1. PICK u \in {t, t + 1} \cap 0 .. MaxTime :
          LET o == OpenFile(d, u)
              F(fd, size) == [fd |-> fd, path |-> u, size |-> size, day |-> Day(t)]
          IN  r \in {[file |-> F(o.fd, o.disk[o.fd].bytes), disk |-> o.disk, now |-> u],
                     [file |-> F(0, 0), disk |-> o.disk, now |-> u],
                     [file |-> F(0, 0), disk |-> d, now |-> u]}
    BY DEF Resets
  <1> DEFINE o == OpenFile(d, u)
             e == o.disk
             n == o.fd
  <1>2. u \in Nat /\ t <= u
    BY <1>1
  <1>3. /\ Extends(e, d) /\ n \in 1 .. Len(e) /\ e[n].linked
        /\ e[n].bytes = 0 \/ e[n].reopened
    BY <1>2, OpenExtends
  <1>4. \/ r = [file |-> [fd |-> n, path |-> u, size |-> e[n].bytes, day |-> Day(t)],
                disk |-> e, now |-> u]
        \/ r = [file |-> [fd |-> 0, path |-> u, size |-> 0, day |-> Day(t)],
                disk |-> e, now |-> u]
        \/ r = [file |-> [fd |-> 0, path |-> u, size |-> 0, day |-> Day(t)],
                disk |-> d, now |-> u]
    BY <1>1
  <1> HIDE DEF o, e, n
  <1>5. Len(e) \in Nat /\ Len(d) \in Nat /\ e[n].bytes \in Nat /\ Day(t) \in Nat
    <2>1. e \in Seq(Inode) /\ e[n] \in Inode
      BY <1>3, ElementOfSeq DEF Extends
    <2> QED BY <2>1, LenProperties, DayIsNat DEF Inode
  <1>6. Extends(d, d)
    BY <1>5 DEF Extends
  <1>7. CASE r = [file |-> [fd |-> n, path |-> u, size |-> e[n].bytes, day |-> Day(t)],
                  disk |-> e, now |-> u]
    <2>1. /\ r.disk = e /\ r.now = u
          /\ r.file = [fd |-> n, path |-> u, size |-> e[n].bytes, day |-> Day(t)]
      BY <1>7
    <2>2. r.file \in [fd : 0 .. Len(e), path : Nat, size : Nat, day : Nat]
      BY <1>2, <1>3, <1>5, <2>1
    <2> QED BY <1>2, <1>3, <2>1, <2>2 DEF Opened
  <1>8. ASSUME r.file = [fd |-> 0, path |-> u, size |-> 0, day |-> Day(t)],
               r.disk \in {d, e}, r.now = u
        PROVE  Opened(r, d, t)
    <2>1. r.file \in [fd : 0 .. Len(r.disk), path : Nat, size : Nat, day : Nat]
      BY <1>2, <1>5, <1>8
    <2> QED BY <1>2, <1>3, <1>6, <1>8, <2>1 DEF Opened
  <1> DEFINE g == [fd |-> 0, path |-> u, size |-> 0, day |-> Day(t)]
  <1>9. CASE \/ r = [file |-> g, disk |-> e, now |-> u]
             \/ r = [file |-> g, disk |-> d, now |-> u]
    <2>1. r.file = g /\ r.disk \in {d, e} /\ r.now = u
      <3> HIDE DEF g
      <3> QED BY <1>9
    <2> QED BY <1>8, <2>1
  <1> QED BY <1>4, <1>7, <1>9

-----------------------------------------------------------------------------
(* What IInv says of the disk alone.                                       *)
DiskOK(d) ==
    /\ d \in Seq(Inode)
    /\ \A i \in 1 .. Len(d) :
         /\ d[i].bytes < FileMax \/ d[i].reopened
         /\ d[i].linked => d[i].stray = 0
         /\ d[i].stray <= CheckEvery

LEMMA DiskOfIInv == ASSUME IInv PROVE DiskOK(disk)
  BY DEF IInv, TypeOK, LimitKept, LinkedIsClean, StrayBounded, DiskOK

(* Opening a file keeps it so, and a file just opened is clean. *)
LEMMA OpenedOK ==
    ASSUME NEW d, DiskOK(d), NEW t, NEW r, Opened(r, d, t)
    PROVE  /\ DiskOK(r.disk)
           /\ r.file.fd # 0 => r.disk[r.file.fd].stray = 0
  <1> DEFINE e == r.disk
  <1>1. Extends(e, d)
    BY DEF Opened
  <1>2. Len(d) \in Nat /\ Len(e) \in Nat /\ FileMax \in Nat \ {0} /\ CheckEvery \in Nat
    BY <1>1, LenProperties, FileAssumption DEF Extends, DiskOK
  <1>3. ASSUME NEW i \in 1 .. Len(e)
        PROVE  /\ e[i].bytes < FileMax \/ e[i].reopened
               /\ e[i].linked => e[i].stray = 0
               /\ e[i].stray <= CheckEvery
    <2>1. CASE i \in 1 .. Len(d)
      BY <1>1, <2>1 DEF Extends, DiskOK
    <2>2. CASE i \notin 1 .. Len(d)
      <3>1. Len(e) = Len(d) + 1 /\ i = Len(e)
        BY <1>1, <1>2, <2>2 DEF Extends
      <3>2. e[i].bytes = 0 /\ e[i].stray = 0
        BY <1>1, <3>1 DEF Extends
      <3> QED BY <1>2, <3>2
    <2> QED BY <2>1, <2>2
  <1>4. DiskOK(e)
    BY <1>1, <1>3 DEF Extends, DiskOK
  <1>5. ASSUME r.file.fd # 0 PROVE e[r.file.fd].stray = 0
    <2>1. r.file.fd \in 1 .. Len(e) /\ e[r.file.fd].linked
      BY <1>2, <1>5 DEF Opened
    <2> QED BY <1>4, <2>1 DEF DiskOK
  <1> QED BY <1>4, <1>5

(* n more bytes of the block in the file: it is the only one that changes. *)
LEMMA GrownFacts ==
    ASSUME TypeOK, file.fd # 0, NEW n \in Nat
    PROVE  LET g == Grown(n)
               i == file.fd
           IN  /\ i \in 1 .. Len(disk)
               /\ g \in Seq(Inode) /\ Len(g) = Len(disk)
               /\ \A j \in 1 .. Len(disk) : j # i => g[j] = disk[j]
               /\ g[i].bytes = disk[i].bytes + n
               /\ g[i].linked = disk[i].linked /\ g[i].reopened = disk[i].reopened
               /\ disk[i].linked => g[i].stray = disk[i].stray
               /\ ~disk[i].linked => g[i].stray = disk[i].stray + 1
  <1> DEFINE i == file.fd
             x == Longer(disk[i], n)
  <1>1. disk \in Seq(Inode) /\ i \in 1 .. Len(disk) /\ Len(disk) \in Nat
    BY LenProperties DEF TypeOK
  <1>2. disk[i] \in Inode
    BY <1>1, ElementOfSeq
  <1>3. x \in Inode
    BY <1>2 DEF Inode, Longer
  <1>4. Grown(n) = [disk EXCEPT ![i] = x]
    BY DEF Grown
  <1>5. /\ x.bytes = disk[i].bytes + n /\ x.linked = disk[i].linked
        /\ x.reopened = disk[i].reopened
        /\ disk[i].linked => x.stray = disk[i].stray
        /\ ~disk[i].linked => x.stray = disk[i].stray + 1
    BY DEF Longer
  <1> HIDE DEF x
  <1>6. /\ Grown(n) \in Seq(Inode) /\ Len(Grown(n)) = Len(disk) /\ Grown(n)[i] = x
        /\ \A j \in 1 .. Len(disk) : j # i => Grown(n)[j] = disk[j]
    BY <1>1, <1>3, <1>4, ExceptSeq
  <1> QED BY <1>1, <1>5, <1>6

-----------------------------------------------------------------------------
(* The invariant is established, ...                                       *)
LEMMA Established == Init => IInv
  <1> SUFFICES ASSUME Init PROVE IInv
    OBVIOUS
  <1>1. PICK t \in 0 .. DayLen - 1 : \E r \in Resets(<<>>, t) :
          file = r.file /\ disk = r.disk /\ now = r.now /\ checked = r.now
    BY DEF Init
  <1>2. PICK r \in Resets(<<>>, t) :
          file = r.file /\ disk = r.disk /\ now = r.now /\ checked = r.now
    BY <1>1
  <1>3. count = 0 /\ block = 0 /\ calls = 0
    BY DEF Init
  <1>4. t \in Nat /\ <<>> \in Seq(Inode) /\ Len(<<>>) = 0
    BY FileAssumption
  <1>5. Opened(r, <<>>, t)
    BY <1>4, ResetsOpen
  <1>6. DiskOK(<<>>)
    BY <1>4 DEF DiskOK
  <1>7. DiskOK(disk) /\ (file.fd # 0 => disk[file.fd].stray = 0)
    BY <1>2, <1>5, <1>6, OpenedOK
  <1>8. TypeOK
    <2>1. /\ disk \in Seq(Inode) /\ now \in Nat
          /\ file \in [fd : 0 .. Len(disk), path : Nat, size : Nat, day : Nat]
      BY <1>2, <1>5, <1>7 DEF Opened, DiskOK
    <2>2. 0 \in 0 .. CheckEvery - 1 /\ 0 \in 0 .. MaxCalls
      BY FileAssumption
    <2> QED BY <1>2, <1>3, <2>1, <2>2 DEF TypeOK
  <1>9. SizeAccurate
    BY <1>2, <1>5 DEF Opened, SizeAccurate
  <1>10. BlockFits /\ StrayCounted /\ DayKept
    BY <1>3, <1>7 DEF BlockFits, StrayCounted, DayKept
  <1> QED BY <1>7, <1>8, <1>9, <1>10 DEF IInv, DiskOK, LimitKept, LinkedIsClean, StrayBounded

(* ... and kept by every action. *)
LEMMA DropKeeps == ASSUME IInv, Drop PROVE IInv'
  <1>1. calls' \in 0 .. MaxCalls
    BY FileAssumption DEF IInv, TypeOK, Drop
  <1> QED BY <1>1 DEF IInv, TypeOK, SizeAccurate, LimitKept, BlockFits, LinkedIsClean,
             StrayCounted, StrayBounded, DayKept, Drop

(* What a step that opens another file needs: the disk d it found was in   *)
(* order, and a block it goes on to write fits into an empty file.         *)
LEMMA ResetKeeps ==
    ASSUME TypeOK, NEW d, DiskOK(d), NEW r \in Resets(d, now),
           file' = r.file, disk' = r.disk, now' = r.now,
           count' \in 0 .. CheckEvery - 1, calls' \in 0 .. MaxCalls,
           block' \in BlockBytes \union {0}, block' # 0 => file'.fd # 0,
           checked' \in {now, checked}, block' # 0 => checked' = now
    PROVE  IInv'
  <1>1. now \in Nat /\ checked \in Nat /\ checked <= now
    BY DEF TypeOK
  <1>2. Opened(r, d, now)
    BY <1>1, ResetsOpen DEF DiskOK
  <1>3. DiskOK(disk') /\ (file'.fd # 0 => disk'[file'.fd].stray = 0)
    BY <1>2, OpenedOK
  <1>4. TypeOK'
    <2>1. /\ disk' \in Seq(Inode) /\ now' \in Nat /\ now <= now'
          /\ file' \in [fd : 0 .. Len(disk'), path : Nat, size : Nat, day : Nat]
      BY <1>2, <1>3 DEF Opened, DiskOK
    <2>2. checked' \in Nat /\ checked' <= now'
      BY <1>1, <2>1
    <2> QED BY <2>1, <2>2 DEF TypeOK
  <1>5. SizeAccurate'
    BY <1>2 DEF Opened, SizeAccurate
  <1>6. BlockFits'
    <2> SUFFICES ASSUME block' # 0
                 PROVE  file'.size + block' < FileMax \/ disk'[file'.fd].reopened
      BY DEF BlockFits
    <2>1. block' \in Nat /\ block' < FileMax
      BY FileAssumption
    <2>2. file'.size = 0 \/ disk'[file'.fd].reopened
      BY <1>2 DEF Opened
    <2> QED BY <2>1, <2>2
  <1>7. StrayCounted'
    <2>1. count' \in Nat
      BY FileAssumption
    <2> QED BY <1>3, <2>1 DEF StrayCounted
  <1>8. DayKept'
    <2>1. Day(now) \in Nat /\ file'.day = Day(now)
      BY <1>1, <1>2, DayIsNat DEF Opened
    <2>2. block' # 0 => Day(checked') = Day(now)
      OBVIOUS
    <2>3. Day(checked)' = Day(checked')
      BY DEF Day
    <2> QED BY <2>1, <2>2, <2>3 DEF DayKept
  <1> QED BY <1>3, <1>4, <1>5, <1>6, <1>7, <1>8
          DEF IInv, DiskOK, LimitKept, LinkedIsClean, StrayBounded

LEMMA WriteLogKeeps ==
    ASSUME IInv, NEW b \in BlockBytes, WriteLog(b)
    PROVE  IInv'
  <1>1. /\ block = 0 /\ file.fd # 0 /\ checked' = now
        /\ count' = (count + 1) % CheckEvery
    BY DEF WriteLog
  <1>2. b \in Nat \ {0} /\ calls' \in 0 .. MaxCalls
    BY FileAssumption DEF IInv, TypeOK, WriteLog
  <1>3. /\ count \in 0 .. CheckEvery - 1 /\ count' \in 0 .. CheckEvery - 1
        /\ count' = count + 1 \/ count' = 0
    BY <1>1, CountWraps DEF IInv, TypeOK
  <1>4. CASE NeedRoll(b)
    <2>1. PICK r \in Resets(disk, now) :
            /\ file' = r.file /\ disk' = r.disk /\ now' = r.now
            /\ block' = IF r.file.fd = 0 THEN 0 ELSE b
      BY <1>4 DEF WriteLog
    <2> QED BY <1>1, <1>2, <1>3, <2>1, DiskOfIInv, ResetKeeps DEF IInv
  <1>5. CASE ~NeedRoll(b)
    <2>1. block' = b /\ UNCHANGED <<file, disk, now>>
      BY <1>5 DEF WriteLog
    <2>2. TypeOK'
      BY <1>1, <1>2, <1>3, <2>1 DEF IInv, TypeOK
    <2>3. SizeAccurate' /\ LimitKept' /\ LinkedIsClean' /\ StrayBounded'
      BY <2>1 DEF IInv, SizeAccurate, LimitKept, LinkedIsClean, StrayBounded
    <2>4. BlockFits'
      <3>1. file.size \in Nat /\ FileMax \in Nat
        BY FileAssumption DEF IInv, TypeOK
      <3>2. ~(file.size + b >= FileMax)
        BY <1>5 DEF NeedRoll
      <3> QED BY <1>2, <2>1, <3>1, <3>2 DEF BlockFits
    <2>5. StrayCounted'
      <3>1. /\ file.fd \in 1 .. Len(disk) /\ disk[file.fd].stray \in Nat
            /\ disk[file.fd].stray <= count + 1
        <4>1. file.fd \in 1 .. Len(disk)
          BY <1>1, LenProperties DEF IInv, TypeOK
        <4>2. disk[file.fd] \in Inode
          BY <4>1, ElementOfSeq DEF IInv, TypeOK
        <4> QED BY <1>1, <4>1, <4>2 DEF IInv, StrayCounted, Inode
      <3>2. disk[file.fd].stray <= count'
        <4>1. CASE count' = count + 1
          BY <3>1, <4>1
        <4>2. CASE count' = 0
          <5>1. disk[file.fd].linked
            BY <1>1, <1>5, <4>2 DEF NeedRoll, Missing
          <5>2. disk[file.fd].stray = 0
            BY <3>1, <5>1 DEF IInv, LinkedIsClean
          <5> QED BY <4>2, <5>2
        <4> QED BY <1>3, <4>1, <4>2
      <3>3. count' \in Nat
        BY <1>3, FileAssumption
      <3>4. disk[file.fd].stray <= count' + 1
        BY <3>1, <3>2, <3>3
      <3> QED BY <2>1, <3>2, <3>4 DEF StrayCounted
    <2>6. DayKept'
      <3>1. Day(now) \in Nat /\ file.day = Day(now)
        BY <1>5, DayIsNat DEF NeedRoll, IInv, TypeOK
      <3>2. Day(checked)' = Day(now)
        BY <1>1 DEF Day
      <3> QED BY <2>1, <3>1, <3>2 DEF DayKept
    <2> QED BY <2>2, <2>3, <2>4, <2>5, <2>6 DEF IInv
  <1> QED BY <1>4, <1>5

LEMMA WriteSucceedsKeeps == ASSUME IInv, WriteSucceeds PROVE IInv'
  <1> DEFINE i == file.fd
             g == Grown(block)
  <1>1. /\ block # 0 /\ block' = 0 /\ disk' = g
        /\ file' = [file EXCEPT !.size = file.size + block]
        /\ UNCHANGED <<count, checked, now, calls>>
    BY DEF WriteSucceeds
  <1>2. /\ block \in Nat /\ i # 0 /\ file.size \in Nat /\ count \in 0 .. CheckEvery - 1
        /\ CheckEvery \in Nat /\ FileMax \in Nat
    BY <1>1, FileAssumption, SMTT(30) DEF IInv, TypeOK
  <1>3. /\ i \in 1 .. Len(disk)
        /\ g \in Seq(Inode) /\ Len(g) = Len(disk)
        /\ \A j \in 1 .. Len(disk) : j # i => g[j] = disk[j]
        /\ g[i].bytes = disk[i].bytes + block
        /\ g[i].linked = disk[i].linked /\ g[i].reopened = disk[i].reopened
        /\ disk[i].linked => g[i].stray = disk[i].stray
        /\ ~disk[i].linked => g[i].stray = disk[i].stray + 1
    BY <1>2, GrownFacts DEF IInv
  <1>4. /\ disk[i].bytes \in Nat /\ disk[i].stray \in Nat /\ disk[i].linked \in BOOLEAN
        /\ disk[i].bytes = file.size /\ disk[i].stray <= count
        /\ disk[i].linked => disk[i].stray = 0
    <2>1. disk[i] \in Inode
      BY <1>3, ElementOfSeq DEF IInv, TypeOK
    <2> QED BY <1>1, <1>2, <1>3, <2>1
            DEF IInv, Inode, SizeAccurate, StrayCounted, LinkedIsClean
  <1>5. /\ g[i].stray <= count + 1 /\ g[i].stray <= CheckEvery
        /\ g[i].linked => g[i].stray = 0
    <2> HIDE DEF g
    <2>1. CASE disk[i].linked
      BY <1>2, <1>3, <1>4, <2>1
    <2>2. CASE ~disk[i].linked
      BY <1>2, <1>3, <1>4, <2>2
    <2> QED BY <2>1, <2>2
  <1>6. g[i].bytes < FileMax \/ g[i].reopened
    <2>1. file.size + block < FileMax \/ disk[i].reopened
      BY <1>1 DEF IInv, BlockFits
    <2> HIDE DEF g
    <2> QED BY <1>2, <1>3, <1>4, <2>1
  <1>7. DiskOK(disk')
    <2>1. DiskOK(disk)
      BY DiskOfIInv
    <2> HIDE DEF g
    <2> QED BY <1>1, <1>3, <1>5, <1>6, <2>1 DEF DiskOK
  <1>8. /\ file'.fd = i /\ file'.size = file.size + block
        /\ file' \in [fd : 0 .. Len(disk'), path : Nat, size : Nat, day : Nat]
    <2>1. file.size + block \in Nat
      BY <1>2
    <2>2. file \in [fd : 0 .. Len(disk'), path : Nat, size : Nat, day : Nat]
      BY <1>1, <1>3 DEF IInv, TypeOK
    <2> QED BY <1>1, <2>1, <2>2
  <1> HIDE DEF g
  <1>9. TypeOK'
    BY <1>1, <1>7, <1>8 DEF IInv, TypeOK, DiskOK
  <1>10. SizeAccurate'
    BY <1>1, <1>3, <1>4, <1>8 DEF SizeAccurate
  <1>11. BlockFits' /\ StrayCounted' /\ DayKept'
    BY <1>1, <1>5, <1>8 DEF BlockFits, StrayCounted, DayKept
  <1> QED BY <1>7, <1>9, <1>10, <1>11 DEF IInv, DiskOK, LimitKept, LinkedIsClean, StrayBounded

LEMMA WriteFailsKeeps ==
    ASSUME IInv, NEW n \in 0 .. FileMax, WriteFails(n)
    PROVE  IInv'
  <1> DEFINE i == file.fd
             g == Grown(n)
  <1>1. /\ n < block /\ block' = 0 /\ UNCHANGED <<count, checked, calls>>
    BY DEF WriteFails
  <1>2. /\ n \in Nat /\ block \in Nat /\ block # 0 /\ i # 0 /\ file.size \in Nat
        /\ count \in 0 .. CheckEvery - 1 /\ CheckEvery \in Nat /\ FileMax \in Nat
    BY <1>1, FileAssumption DEF IInv, TypeOK
  <1>3. /\ i \in 1 .. Len(disk)
        /\ g \in Seq(Inode) /\ Len(g) = Len(disk)
        /\ \A j \in 1 .. Len(disk) : j # i => g[j] = disk[j]
        /\ g[i].bytes = disk[i].bytes + n
        /\ g[i].linked = disk[i].linked /\ g[i].reopened = disk[i].reopened
        /\ disk[i].linked => g[i].stray = disk[i].stray
        /\ ~disk[i].linked => g[i].stray = disk[i].stray + 1
    BY <1>2, GrownFacts DEF IInv
  <1>4. /\ disk[i].bytes \in Nat /\ disk[i].stray \in Nat /\ disk[i].linked \in BOOLEAN
        /\ disk[i].bytes = file.size /\ disk[i].stray <= count
        /\ disk[i].linked => disk[i].stray = 0
    <2>1. disk[i] \in Inode
      BY <1>3, ElementOfSeq DEF IInv, TypeOK
    <2> QED BY <1>2, <1>3, <2>1
            DEF IInv, Inode, SizeAccurate, StrayCounted, LinkedIsClean
  <1>5. /\ g[i].stray <= CheckEvery
        /\ g[i].linked => g[i].stray = 0
    <2> HIDE DEF g
    <2>1. CASE disk[i].linked
      BY <1>2, <1>3, <1>4, <2>1
    <2>2. CASE ~disk[i].linked
      BY <1>2, <1>3, <1>4, <2>2
    <2> QED BY <2>1, <2>2
  <1>6. g[i].bytes < FileMax \/ g[i].reopened
    <2>1. file.size + block < FileMax \/ disk[i].reopened
      BY <1>2 DEF IInv, BlockFits
    <2> HIDE DEF g
    <2> QED BY <1>1, <1>2, <1>3, <1>4, <2>1
  <1>7. DiskOK(g)
    <2>1. DiskOK(disk)
      BY DiskOfIInv
    <2> HIDE DEF g
    <2> QED BY <1>3, <1>5, <1>6, <2>1 DEF DiskOK
  <1>8. PICK r \in Resets(g, now) : file' = r.file /\ disk' = r.disk /\ now' = r.now
    BY DEF WriteFails
  <1> HIDE DEF g
  <1>9. TypeOK /\ count' \in 0 .. CheckEvery - 1 /\ calls' \in 0 .. MaxCalls
    BY <1>1 DEF IInv, TypeOK
  <1> QED BY <1>1, <1>7, <1>8, <1>9, ResetKeeps

LEMMA TickKeeps == ASSUME IInv, Tick PROVE IInv'
  <1>1. now' = now + 1 /\ UNCHANGED <<file, count, block, checked, disk, calls>>
    BY DEF Tick
  <1>2. TypeOK'
    BY <1>1 DEF IInv, TypeOK
  <1>3. Day(checked)' = Day(checked)
    BY <1>1 DEF Day
  <1> QED BY <1>1, <1>2, <1>3 DEF IInv, SizeAccurate, LimitKept, BlockFits, LinkedIsClean,
             StrayCounted, StrayBounded, DayKept

LEMMA RemoveKeeps == ASSUME IInv, Remove PROVE IInv'
  <1> DEFINE i == file.fd
             x == [disk[i] EXCEPT !.linked = FALSE]
  <1>1. /\ i # 0 /\ disk[i].linked /\ disk' = [disk EXCEPT ![i].linked = FALSE]
        /\ UNCHANGED <<file, count, block, checked, now, calls>>
    BY DEF Remove
  <1>2. disk \in Seq(Inode) /\ i \in 1 .. Len(disk)
    BY <1>1, LenProperties DEF IInv, TypeOK
  <1>3. disk[i] \in Inode
    BY <1>2, ElementOfSeq
  <1>4. /\ x \in Inode /\ ~x.linked /\ x.bytes = disk[i].bytes
        /\ x.reopened = disk[i].reopened /\ x.stray = disk[i].stray
    BY <1>3 DEF Inode
  <1>5. disk' = [disk EXCEPT ![i] = x]
    BY <1>1
  <1> HIDE DEF x
  <1>6. /\ disk' \in Seq(Inode) /\ Len(disk') = Len(disk) /\ disk'[i] = x
        /\ \A j \in 1 .. Len(disk) : j # i => disk'[j] = disk[j]
    <2>1. /\ [disk EXCEPT ![i] = x] \in Seq(Inode) /\ Len([disk EXCEPT ![i] = x]) = Len(disk)
          /\ \A j \in 1 .. Len(disk) :
               [disk EXCEPT ![i] = x][j] = IF j = i THEN x ELSE disk[j]
      BY <1>2, <1>4, ExceptSeq
    <2> QED BY <1>2, <1>5, <2>1
  <1>7. /\ disk'[i].bytes = disk[i].bytes /\ disk'[i].reopened = disk[i].reopened
        /\ disk'[i].stray = disk[i].stray /\ ~disk'[i].linked
    BY <1>4, <1>6
  <1>8. TypeOK'
    BY <1>1, <1>6 DEF IInv, TypeOK
  <1>9. SizeAccurate' /\ BlockFits' /\ StrayCounted'
    BY <1>1, <1>7 DEF IInv, SizeAccurate, BlockFits, StrayCounted
  <1>10. DayKept'
    <2>1. Day(checked)' = Day(checked)
      BY <1>1 DEF Day
    <2> QED BY <1>1, <2>1 DEF IInv, DayKept
  <1>11. LimitKept' /\ LinkedIsClean' /\ StrayBounded'
    <2>1. ASSUME NEW j \in 1 .. Len(disk)
          PROVE  /\ disk'[j].bytes < FileMax \/ disk'[j].reopened
                 /\ disk'[j].linked => disk'[j].stray = 0
                 /\ disk'[j].stray <= CheckEvery
      <3>1. CASE j = i
        BY <1>7, <3>1 DEF IInv, LimitKept, StrayBounded
      <3>2. CASE j # i
        BY <1>6, <3>2 DEF IInv, LimitKept, LinkedIsClean, StrayBounded
      <3> QED BY <3>1, <3>2
    <2> QED BY <1>6, <2>1 DEF LimitKept, LinkedIsClean, StrayBounded
  <1> QED BY <1>8, <1>9, <1>10, <1>11 DEF IInv

LEMMA NextPreserves == IInv /\ [Next]_vars => IInv'
  <1> SUFFICES ASSUME IInv, [Next]_vars PROVE IInv'
    OBVIOUS
  <1>1. CASE Drop
    BY <1>1, DropKeeps
  <1>2. CASE \E b \in BlockBytes : WriteLog(b)
    BY <1>2, WriteLogKeeps
  <1>3. CASE WriteSucceeds
    BY <1>3, WriteSucceedsKeeps
  <1>4. CASE \E n \in 0 .. FileMax : WriteFails(n)
    BY <1>4, WriteFailsKeeps
  <1>5. CASE Tick
    BY <1>5, TickKeeps
  <1>6. CASE Remove
    BY <1>6, RemoveKeeps
  <1>7. CASE UNCHANGED vars
    <2>1. Day(checked)' = Day(checked)
      BY <1>7 DEF vars, Day
    <2> QED BY <1>7, <2>1 DEF vars, IInv, TypeOK, SizeAccurate, LimitKept, BlockFits,
               LinkedIsClean, StrayCounted, StrayBounded, DayKept
  <1> QED BY <1>1, <1>2, <1>3, <1>4, <1>5, <1>6, <1>7 DEF Next

(* The invariant holds in every reachable state. *)
THEOREM Inductive == Spec => []IInv
  BY Established, NextPreserves, PTL DEF Spec

(* The variables are what they are meant to be. *)
THEOREM TypeCorrect == Spec => []TypeOK
  <1>1. IInv => TypeOK
    BY DEF IInv
  <1> QED BY <1>1, Inductive, PTL

(* file_size_ is the size of the file on disk, whatever failed and         *)
(* whatever file was opened again.                                         *)
THEOREM SizeIsAccurate == Spec => []SizeAccurate
  <1>1. IInv => SizeAccurate
    BY DEF IInv
  <1> QED BY <1>1, Inductive, PTL

(* Only a file that was opened again grows to FILE_MAX_SIZE.               *)
THEOREM LimitIsKept == Spec => []LimitKept
  <1>1. IInv => LimitKept
    BY DEF IInv
  <1> QED BY <1>1, Inductive, PTL

(* A removed file gets no more blocks than the period of the check.        *)
THEOREM StrayIsBounded == Spec => []StrayBounded
  <1>1. IInv => StrayBounded
    BY DEF IInv
  <1> QED BY <1>1, Inductive, PTL

(* No block is written to the file of a day that was over when             *)
(* roll_if_need ran.                                                       *)
THEOREM DayIsKept == Spec => []DayKept
  <1>1. IInv => DayKept
    BY DEF IInv
  <1> QED BY <1>1, Inductive, PTL

=============================================================================
