------------------------------ MODULE FifoLog ------------------------------
(***************************************************************************)
(* What the asynchronous log promises its callers: the records it accepts  *)
(* (numbered 1, 2, ... in the order push() accepted them) are handed to    *)
(* the log file in that order, each once, and stop() returns only when     *)
(* none is left.                                                           *)
(***************************************************************************)
EXTENDS Naturals, Sequences

VARIABLES
    accepted,   \* how many records push() has accepted
    handed,     \* the records handed to the file, in order
    open,       \* push() still accepts
    finished    \* stop() has returned

vars == <<accepted, handed, open, finished>>

Init == accepted = 0 /\ handed = <<>> /\ open = TRUE /\ finished = FALSE

Accept ==
    /\ open
    /\ accepted' = accepted + 1
    /\ UNCHANGED <<handed, open, finished>>

(* The next n records go to the file. *)
Hand(n) ==
    /\ n > 0 /\ Len(handed) + n <= accepted
    /\ handed' = handed \o [i \in 1 .. n |-> Len(handed) + i]
    /\ UNCHANGED <<accepted, open, finished>>

Close ==
    /\ open /\ open' = FALSE
    /\ UNCHANGED <<accepted, handed, finished>>

Finish ==
    /\ ~open /\ ~finished /\ Len(handed) = accepted
    /\ finished' = TRUE
    /\ UNCHANGED <<accepted, handed, open>>

Next == Accept \/ (\E n \in 1 .. accepted : Hand(n)) \/ Close \/ Finish

Spec == Init /\ [][Next]_vars

=============================================================================
