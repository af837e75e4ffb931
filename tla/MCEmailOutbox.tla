--------------------------- MODULE MCEmailOutbox ---------------------------
(* Instances of EmailOutbox for TLC. *)
EXTENDS EmailOutbox, TLC

(* Doubling waits, in units of the first one. *)
MCRetryTicks == [n \in 1..MaxAttempts |-> 2 ^ (n - 1)]

MCSymmetry == Permutations(Daemons)
=============================================================================
