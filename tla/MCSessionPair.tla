---------------------------- MODULE MCSessionPair ----------------------------
(***************************************************************************)
(* Two turns of one conversation, whose requests may differ in the fields  *)
(* besides the input, and every kind of answer: with and without           *)
(* reasoning or a search, with and without an item the session cannot      *)
(* hold.                                                                   *)
(***************************************************************************)
EXTENDS SessionTurns

CONSTANTS t1, t2

MCPair == {t1, t2}
MCAnyReply == [kinds : {<<"message">>, <<"reasoning", "message">>,
                        <<"search", "message">>},
               unheld : BOOLEAN]
PairSymmetry == Permutations(MCPair)
=============================================================================
