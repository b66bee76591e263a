-------------------------- MODULE MCResponseFrames --------------------------
(* ResponseFrames on small sets: any four of three calls, two messages, a  *)
(* thought and a search.                                                    *)
EXTENDS ResponseFrames, TLC

CONSTANTS c1, c2, c3, m1, m2, r1, s1, u1

MCCalls    == {c1, c2, c3}
MCMessages == {m1, m2}
Symmetric  == Permutations(MCCalls) \cup Permutations(MCMessages)
=============================================================================
