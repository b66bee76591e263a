--------------------------- MODULE MCSessionTurns ---------------------------
(***************************************************************************)
(* Three overlapping turns of one conversation.  Every answer reasons,     *)
(* searches the web and then speaks, so that a replay always differs from  *)
(* the baseline and the baseline from what the backend holds.              *)
(***************************************************************************)
EXTENDS SessionTurns

CONSTANTS t1, t2, t3

MCTurn == {t1, t2, t3}
MCReply == [kinds : {<<"reasoning", "search", "message">>}, unheld : BOOLEAN]
Symmetry == Permutations(MCTurn)

\* What is left to read of a turn that is done: what a later one may replay, the
\* response that may still be continued, and how one ended that a connection still
\* in use names.  What was sent and heard of it no longer changes.
Replays == IF \E t \in Turn : pc[t] = "idle"
           THEN UNION {{input[t], Shown(t)} : t \in Turn} ELSE {}
Continued == {lastResponse} \union {snap[t].response : t \in {o \in Turn : pc[o] # "done"}}
Used == {c \in Turn : c = slot \/ \E t \in Turn : conn[t] = c}
View == <<session, slot, latched, pc, conn, clobbered, Replays,
  [c \in Used |-> <<seen[c], IF seen[c] = None THEN None ELSE ended[seen[c]]>>],
  [t \in Turn |->
     CASE pc[t] # "done" -> <<input[t], fields[t], snap[t], sent[t], reused[t], continues[t],
                              ended[t], gone[t], heard[t], reply[t], unheld[t]>>
       [] pc[t] = "done" /\ t \in Continued -> <<fields[t], heard[t], reply[t], unheld[t]>>
       [] OTHER -> << >>]>>
=============================================================================
