------------------------------ MODULE MCOutbox ------------------------------
(* Small instances of Outbox for TLC. *)
EXTENDS Outbox, TLC

CONSTANTS p1, p2, r1, r2, r3, r4

PodRowSymmetry == Permutations(Pods) \cup Permutations(Rows)
=============================================================================
