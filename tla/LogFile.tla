------------------------------ MODULE LogFile ------------------------------
(***************************************************************************)
(* asynclog's LogFile.cpp: write_log appends a block to the current file,  *)
(* and opens another one when the file would grow too large, when the date *)
(* has changed, when somebody removed it, or when a write failed. Only the *)
(* flusher thread calls it. The disk and the clock move while it runs.     *)
(***************************************************************************)
EXTENDS Naturals, Sequences

CONSTANTS
    FileMax,      \* FILE_MAX_SIZE
    CheckEvery,   \* is_file_exist is asked once in so many blocks (100)
    BlockBytes,   \* the sizes a block may have
    DayLen,       \* seconds in a day
    MaxTime,      \* bound: seconds the clock runs
    MaxCalls      \* bound: calls of write_log

ASSUME FileAssumption ==
    /\ CheckEvery \in Nat \ {0} /\ DayLen \in Nat \ {0}
    /\ FileMax \in Nat \ {0} /\ BlockBytes \subseteq 1 .. FileMax - 1
    /\ MaxTime \in Nat /\ MaxCalls \in Nat

VARIABLES
    file,     \* fd (an inode, 0 for -1), path (the second in its name),
              \* size (file_size_) and day (current_date_)
    count,    \* write_count_
    block,    \* the size of the block being written, 0 for none
    checked,  \* (history) when roll_if_need last looked at the clock
    disk,     \* the inodes: name, bytes, linked (not removed), reopened
              \* (opened more than once), stray (blocks it got when removed)
    now,      \* the clock, in seconds
    calls     \* calls of write_log

vars == <<file, count, block, checked, disk, now, calls>>

Day(t) == t \div DayLen

NewInode(path) ==
    [name |-> path, bytes |-> 0, linked |-> TRUE, reopened |-> FALSE, stray |-> 0]

(* Linked inodes that have this name (at most one). *)
Named(d, path) == {i \in 1 .. Len(d) : d[i].linked /\ d[i].name = path}

(* open(O_APPEND | O_CREAT) of the file named after the second path: the   *)
(* inode it opens and the disk afterwards.                                 *)
OpenFile(d, path) ==
    IF Named(d, path) = {}
    THEN [fd |-> Len(d) + 1, disk |-> Append(d, NewInode(path))]
    ELSE LET i == CHOOSE i \in Named(d, path) : TRUE
         IN  [fd |-> i, disk |-> [d EXCEPT ![i].reopened = TRUE]]

(* Mutation of Resets: file_size_ starts at 0 whatever was opened. *)
ResetsToZero(d, t) ==
    UNION {LET o == OpenFile(d, u)
               F(fd) == [fd |-> fd, path |-> u, size |-> 0, day |-> Day(t)]
           IN  {[file |-> F(o.fd), disk |-> o.disk, now |-> u],
                [file |-> F(0), disk |-> d, now |-> u]}
           : u \in {t, t + 1} \cap 0 .. MaxTime}

(* reset_file_fd at time t on the disk d: the date is read, then the time  *)
(* the file is named after (a second may pass between them); the open may  *)
(* fail, or the fstat that follows it.                                     *)
Resets(d, t) ==
    UNION {LET o == OpenFile(d, u)
               F(fd, size) == [fd |-> fd, path |-> u, size |-> size, day |-> Day(t)]
           IN  {[file |-> F(o.fd, o.disk[o.fd].bytes), disk |-> o.disk, now |-> u],
                [file |-> F(0, 0), disk |-> o.disk, now |-> u],
                [file |-> F(0, 0), disk |-> d, now |-> u]}
           : u \in {t, t + 1} \cap 0 .. MaxTime}

Init ==
    /\ \E t \in 0 .. DayLen - 1 : \E r \in Resets(<<>>, t) :
         file = r.file /\ disk = r.disk /\ now = r.now /\ checked = r.now
    /\ count = 0 /\ block = 0 /\ calls = 0

(* Mutation of Missing: nobody looks for the file. *)
NeverMissing == FALSE

(* Once in CheckEvery blocks: the file is not where it was. *)
Missing == (count + 1) % CheckEvery = 0 /\ ~disk[file.fd].linked

(* Mutations of NeedRoll: the block is not counted in, or the date is not  *)
(* looked at.                                                              *)
NeedRollLate(b) == file.size >= FileMax \/ file.day # Day(now) \/ Missing

NeedRollDateless(b) == file.size + b >= FileMax \/ Missing

(* The conditions of roll_if_need. *)
NeedRoll(b) == file.size + b >= FileMax \/ file.day # Day(now) \/ Missing

(* write_log on a file that could not be opened drops the block. *)
Drop ==
    /\ block = 0 /\ calls < MaxCalls /\ file.fd = 0
    /\ calls' = calls + 1
    /\ UNCHANGED <<file, count, block, checked, disk, now>>

(* Mutation of WriteLog: write_count_ is not wrapped. *)
WriteLogCounting(b) ==
    /\ block = 0 /\ calls < MaxCalls /\ file.fd # 0
    /\ calls' = calls + 1 /\ checked' = now
    /\ count' = count + 1
    /\ \/ ~NeedRoll(b) /\ block' = b /\ UNCHANGED <<file, disk, now>>
       \/ /\ NeedRoll(b)
          /\ \E r \in Resets(disk, now) :
               /\ file' = r.file /\ disk' = r.disk /\ now' = r.now
               /\ block' = IF r.file.fd = 0 THEN 0 ELSE b

(* write_log up to the first writev: a file that has to be rolled and      *)
(* cannot be opened again drops the block.                                 *)
WriteLog(b) ==
    /\ block = 0 /\ calls < MaxCalls /\ file.fd # 0
    /\ calls' = calls + 1 /\ checked' = now
    /\ count' = (count + 1) % CheckEvery
    /\ \/ ~NeedRoll(b) /\ block' = b /\ UNCHANGED <<file, disk, now>>
       \/ /\ NeedRoll(b)
          /\ \E r \in Resets(disk, now) :
               /\ file' = r.file /\ disk' = r.disk /\ now' = r.now
               /\ block' = IF r.file.fd = 0 THEN 0 ELSE b

(* The file once n more bytes of the block are in it. *)
Longer(f, n) ==
    [name |-> f.name, bytes |-> f.bytes + n, linked |-> f.linked, reopened |-> f.reopened,
     stray |-> IF f.linked THEN f.stray ELSE f.stray + 1]

Grown(n) == [disk EXCEPT ![file.fd] = Longer(disk[file.fd], n)]

(* writev_all succeeds, in one or in several calls of writev, ... *)
WriteSucceeds ==
    /\ block # 0
    /\ disk' = Grown(block)
    /\ file' = [file EXCEPT !.size = @ + block]
    /\ block' = 0
    /\ UNCHANGED <<count, checked, now, calls>>

(* ... or fails when n bytes are written: the rest is dropped and another  *)
(* file is opened.                                                         *)
WriteFails(n) ==
    /\ n < block
    /\ \E r \in Resets(Grown(n), now) : file' = r.file /\ disk' = r.disk /\ now' = r.now
    /\ block' = 0
    /\ UNCHANGED <<count, checked, calls>>

(* Time passes. *)
Tick ==
    /\ now < MaxTime
    /\ now' = now + 1
    /\ UNCHANGED <<file, count, block, checked, disk, calls>>

(* Somebody removes the current log file. (No name of an older one is ever *)
(* opened again, so that it may be removed or not.)                        *)
Remove ==
    /\ file.fd # 0 /\ disk[file.fd].linked
    /\ disk' = [disk EXCEPT ![file.fd].linked = FALSE]
    /\ UNCHANGED <<file, count, block, checked, now, calls>>

Next ==
    \/ Drop
    \/ \E b \in BlockBytes : WriteLog(b)
    \/ WriteSucceeds
    \/ \E n \in 0 .. FileMax : WriteFails(n)
    \/ Tick
    \/ Remove

Spec == Init /\ [][Next]_vars

-----------------------------------------------------------------------------
Inode == [name : Nat, bytes : Nat, linked : BOOLEAN, reopened : BOOLEAN, stray : Nat]

TypeOK ==
    /\ disk \in Seq(Inode)
    /\ file \in [fd : 0 .. Len(disk), path : Nat, size : Nat, day : Nat]
    /\ count \in 0 .. CheckEvery - 1
    /\ block \in BlockBytes \union {0} /\ (block # 0 => file.fd # 0)
    /\ checked \in Nat /\ now \in Nat /\ checked <= now
    /\ calls \in 0 .. MaxCalls

(* file_size_ is the size of the file on disk, through failed writes,      *)
(* removed files and files that are opened twice (reset_file_fd).          *)
SizeAccurate == file.fd # 0 => file.size = disk[file.fd].bytes

(* A file stays below FILE_MAX_SIZE unless it was opened again, which      *)
(* happens when it is rolled in the second it was named after              *)
(* (roll_if_need).                                                         *)
LimitKept == \A i \in 1 .. Len(disk) : disk[i].bytes < FileMax \/ disk[i].reopened

(* A removed file is noticed: it gets no more blocks than the period of    *)
(* the check, counting the one whose check came just before the removal    *)
(* (write_count_).                                                         *)
StrayBounded == \A i \in 1 .. Len(disk) : disk[i].stray <= CheckEvery

(* No block is written to the file of a day that was over when             *)
(* roll_if_need ran.                                                       *)
DayKept == block # 0 => file.day >= Day(checked)

=============================================================================
