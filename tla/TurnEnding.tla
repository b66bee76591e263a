------------------------------ MODULE TurnEnding ------------------------------
(***************************************************************************)
(* What SessionTurns takes one streamed turn to be, once a response has    *)
(* started: the connection is either handed back after a clean end or      *)
(* dropped, and only then, with the client still there, is the turn closed *)
(* (docs/proxy-behavior.md 4.1 "after a turn", 5.3).  TurnStream is shown  *)
(* to implement this module.                                               *)
(***************************************************************************)
VARIABLES
  stage,   \* where the turn is
  ended,   \* how the response ended, as far as it was passed on
  closed   \* whether the baseline has moved

vars == <<stage, ended, closed>>

Init == stage = "sending" /\ ended = "no" /\ closed = FALSE

\* The response starts, over either transport.
Accept == stage = "sending" /\ stage' = "streaming" /\ UNCHANGED <<ended, closed>>

\* A terminal event other than an error is passed on; over HTTP there is no
\* connection to park.
Terminal ==
  /\ stage \in {"sending", "streaming"}
  /\ ended' \in {"completed", "unfinished"}
  /\ stage' \in {"parking", "done"} \union
                  (IF ended' = "completed" THEN {"closing"} ELSE {})
  /\ UNCHANGED closed

\* An error, a cut, a refusal, or a client that leaves: nothing is kept.
Abandon ==
  /\ stage \in {"sending", "streaming"} /\ stage' = "done"
  /\ UNCHANGED <<ended, closed>>

\* The connection is back in the session before the turn is closed.
Park ==
  /\ stage = "parking"
  /\ stage' \in {"done"} \union (IF ended = "completed" THEN {"closing"} ELSE {})
  /\ UNCHANGED <<ended, closed>>

\* The client leaves a turn that is only still to be closed.
Leave == stage = "closing" /\ stage' = "done" /\ UNCHANGED <<ended, closed>>

Close ==
  /\ stage = "closing" /\ stage' = "done" /\ closed' = TRUE
  /\ UNCHANGED ended

Next == Accept \/ Terminal \/ Abandon \/ Park \/ Leave \/ Close

Spec == Init /\ [][Next]_vars
=============================================================================
