-------------------------- MODULE MCBorrowedGrants --------------------------
(* BorrowedGrants with a sweep of each of two daemons.                       *)
EXTENDS BorrowedGrants

MCDaemonOf == [s \in Sweep |-> IF s = "s1" THEN "d1" ELSE "d2"]

\* Grants that have lapsed: one in a file, its refresh token to lapse next, and
\* one in a keychain, unstated, with a file left behind.
Lapsed == [access |-> 0, refresh |-> 1]
MCKept == {[p \in Profile |->
  IF p = "p" THEN [keychain |-> None, file |-> Lapsed]
  ELSE [keychain |-> [Lapsed EXCEPT !.refresh = Unknown], file |-> Lapsed]]}
=============================================================================
