-------------------------- MODULE OrderedResponder --------------------------
(***************************************************************************)
(* What the server promises one HTTP client: requests are answered in the  *)
(* order they were sent, each once, none skipped, only those that were     *)
(* asked, and nothing is written after the connection is closed. The       *)
(* thread pool, the reorder buffer, partial writes and backpressure are    *)
(* not visible here.                                                       *)
(*                                                                         *)
(*   asked  how many requests the server accepted                          *)
(*   wire   the ids of the answers the socket took in full                 *)
(*   open   the connection has not been closed                             *)
(***************************************************************************)
EXTENDS Integers, Sequences

VARIABLES asked, wire, open

Init == asked = 0 /\ wire = <<>> /\ open = TRUE

(* Some requests arrive; the server may close at once. *)
Ask ==
    /\ open
    /\ asked' \in Nat /\ asked' >= asked
    /\ open' \in BOOLEAN
    /\ UNCHANGED wire

(* The answers up to request n are written; the last one may be followed   *)
(* by a close.                                                             *)
Answer ==
    /\ open
    /\ \E n \in Len(wire) .. asked : wire' = [i \in 1 .. n |-> i]
    /\ open' \in BOOLEAN
    /\ UNCHANGED asked

Next == Ask \/ Answer

Spec == Init /\ [][Next]_<<asked, wire, open>>

=============================================================================
