--------------------------- MODULE MCAccountMoves ---------------------------
(***************************************************************************)
(* Small daemons for AccountMoves: two subscriptions whose profiles may be *)
(* signed in as a third, and a key.                                        *)
(***************************************************************************)
EXTENDS AccountMoves, TLC

CONSTANTS a, b, k, i1, i2, i3, m, w, x, y, follow, s1, s2, s3, t1, t2

MCBoth == {TRUE, FALSE}
MCAnswered == {TRUE}
MCName == {a, b, k}

\* Every account is mapped to the same model and offered it: nothing refuses.
MCShared == [n \in Name \union {None} |-> m]
MCAnyMenu == [i \in Identity |-> {m, w}]

\* b's own mapping names a model nobody is offered, so a switch to b is refused.
MCOwn == [n \in Name \union {None} |-> IF n = b THEN w ELSE m]
MCNarrowMenu == [i \in Identity |-> {m}]

\* The subscriptions are offered m and the key is not.
MCKeyMenu == [i \in Identity |-> IF i = k THEN {} ELSE {m}]

\* Each subscription is offered a model of its own.
MCSplitMenu == [i \in Identity |-> IF i = i1 THEN {m} ELSE {w}]

\* Where every mapping and menu is the same, so are the accounts.
MCSymmetry == Permutations({i1, i2, i3}) \union Permutations({a, b})
                \union Permutations({s1, s2, s3}) \union Permutations({t1, t2})

MCDeclared == {Profile}
MCAnyDeclared == SUBSET Profile
MCOneTaken == {Profile, {b}}
=============================================================================
