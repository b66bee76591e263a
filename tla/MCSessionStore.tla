--------------------------- MODULE MCSessionStore ---------------------------
(* SessionStore with three clients that open with the same words, one of    *)
(* them on another tier, and a fourth that opens with others, in a store    *)
(* with room for two of them.                                               *)
EXTENDS SessionStore

MCOpener == [k \in Clients |-> IF k = "k3" THEN "that" ELSE "this"]
MCScope  == [k \in Clients |-> IF k = "k4" THEN "haiku" ELSE "sonnet"]
=============================================================================
