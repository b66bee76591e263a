--------------------------- MODULE MCQuotaFigures ---------------------------
(* QuotaFigures with two threads of one daemon and one of another.           *)
EXTENDS QuotaFigures, TLC

CONSTANTS t1, t2, other, d1, d2

MCTask == {t1, t2, other}
MCDaemonOf == [t \in MCTask |-> IF t = other THEN d2 ELSE d1]
Symmetry == Permutations({t1, t2}) \cup Permutations(Account)
=============================================================================
