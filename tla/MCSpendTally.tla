---------------------------- MODULE MCSpendTally ----------------------------
(* SpendTally with two threads of one daemon and one of another.             *)
EXTENDS SpendTally, TLC

CONSTANTS t1, t2, other, d1, d2

MCDaemonOf == [t \in Task |-> IF t = other THEN d2 ELSE d1]
Symmetry == Permutations({t1, t2}) \cup Permutations(Account)
=============================================================================
