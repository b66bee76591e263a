-------------------------- MODULE MessageProtocol --------------------------
(***************************************************************************)
(* What a client of the Anthropic messages surface is promised of the      *)
(* frames of one answer: one message, its blocks one at a time and         *)
(* numbered in order, every delta in the block that is open and of its     *)
(* kind, a search followed by its results, and either a stop reason and a  *)
(* stop or an error.  ResponseFrames is shown to keep it.                  *)
(***************************************************************************)
EXTENDS Naturals

VARIABLES phase, \* "idle", "begun", "ended", "over": the message as a whole
          open,  \* the kind of the block that is open, or "none"
          index, \* the blocks closed so far
          frame  \* the last frame read

protocol == <<phase, open, index, frame>>

Written == {"text", "thinking", "call"}   \* the blocks that deltas fill
Whole   == {"search", "result"}           \* the blocks that come complete

AwaitingResult == frame.f = "block_stop" /\ frame.kind = "search"

Init == /\ phase = "idle"
        /\ open = "none"
        /\ index = 0
        /\ frame = [f |-> "nothing"]

MessageStart == /\ phase = "idle"
                /\ phase' = "begun"
                /\ frame' = [f |-> "message_start"]
                /\ UNCHANGED <<open, index>>

BlockStart == \E k \in Written \cup Whole :
                 /\ phase = "begun" /\ open = "none"
                 /\ (k = "result") <=> AwaitingResult
                 /\ open' = k
                 /\ frame' = [f |-> "block_start", i |-> index, kind |-> k]
                 /\ UNCHANGED <<phase, index>>

BlockDelta == /\ phase = "begun" /\ open \in Written
              /\ frame' = [f |-> "delta", i |-> index, kind |-> open]
              /\ UNCHANGED <<phase, open, index>>

BlockStop == /\ phase = "begun" /\ open # "none"
             /\ frame' = [f |-> "block_stop", i |-> index, kind |-> open]
             /\ open' = "none"
             /\ index' = index + 1
             /\ UNCHANGED phase

MessageDelta == /\ phase = "begun" /\ open = "none" /\ ~AwaitingResult
                /\ phase' = "ended"
                /\ frame' = [f |-> "message_delta"]
                /\ UNCHANGED <<open, index>>

MessageStop == /\ phase = "ended"
               /\ phase' = "over"
               /\ frame' = [f |-> "message_stop"]
               /\ UNCHANGED <<open, index>>

Error == /\ phase \in {"idle", "begun"}
         /\ phase' = "over"
         /\ frame' = [f |-> "error"]
         /\ UNCHANGED <<open, index>>

Next == \/ MessageStart \/ BlockStart \/ BlockDelta \/ BlockStop
        \/ MessageDelta \/ MessageStop \/ Error

Spec == Init /\ [][Next]_protocol
=============================================================================
