------------------------------ MODULE TurnStream ------------------------------
(***************************************************************************)
(* One turn from the transport to the client: the opening events a         *)
(* connection is judged by (upstream/conduit.rs), the pump that reads it   *)
(* and hands it back (upstream/pool.rs), the HTTP body ended at its        *)
(* terminal event (upstream/http.rs), the peek that decides the status and *)
(* the stream of frames after it (ingress.rs).                             *)
(*                                                                         *)
(* The pump and the request are two tasks joined by a bounded channel; the *)
(* client may leave at any moment and the backend may fall silent or cut   *)
(* the stream at any moment.  An event is read when the backend has sent   *)
(* one, so a backend's next event is a choice made where it is read.       *)
(***************************************************************************)
EXTENDS Naturals, SequencesExt

CONSTANTS
  Peek,        \* OPENING_PEEK and PREAMBLE, four in the code
  PumpBuffer,  \* PUMP_BUFFER
  MaxEvents,   \* bound of a run: events before the one that ends the turn
  Transports   \* the transports a turn starts on

ASSUME BoundsAssumption ==
  /\ Peek \in Nat \ {0} /\ PumpBuffer \in Nat \ {0} /\ MaxEvents \in Nat
  /\ Transports \subseteq {"websocket", "http"}

VARIABLES
  over,    \* the transport in use
  reused,  \* the connection was pooled, not dialled
  pump,    \* where the pump's task is
  hand,    \* the events it has read and not passed on
  chan,    \* the channel to the request's task
  wire,    \* history: what the connection or body in use has yielded
  pc,      \* where the request's task is
  taken,   \* the events it has read
  framed,  \* how many of them have been turned into frames
  late,    \* the peek's wait ran out
  conn,    \* the connection
  status,  \* what the client was answered
  gone,    \* the client has left
  closed   \* the session was closed on this turn

link    == <<over, reused, wire, conn>>
request == <<pc, taken, framed, late, status>>
vars    == <<link, pump, hand, chan, request, gone, closed>>

Preamble == {"codex"}
Clean    == {"completed", "failed", "incomplete"}
Refusal  == {"error"}
Terminal == Clean \union Refusal
Event    == Preamble \union {"part"} \union Terminal
Cut      == "cut"  \* not an event: a failure, or an end before the turn's

Has(events, kinds)  == \E i \in DOMAIN events : events[i] \in kinds
Only(events, kinds) == \A i \in DOMAIN events : events[i] \in kinds

\* The backend's next event, while the run's bound lasts.
Sends(e) == e \in Event /\ (Len(wire) < MaxEvents \/ e \in Terminal)

Alive == ~gone /\ pc \in {"peeking", "peeked", "streaming"}

Init ==
  /\ over \in Transports
  /\ reused \in (IF over = "websocket" THEN BOOLEAN ELSE {FALSE})
  /\ pump = "none" /\ hand = << >> /\ chan = << >> /\ wire = << >>
  /\ pc = "opening" /\ taken = << >> /\ framed = 0 /\ late = FALSE
  /\ conn = "held" /\ status = "none" /\ gone = FALSE /\ closed = FALSE
-----------------------------------------------------------------------------
(***************************************************************************)
(* Opening: Conduit::send and send_over_websocket.                         *)
(***************************************************************************)

\* Mutant: what was read past is left behind.
HandOverLast(events) ==
  /\ chan' = <<Last(events)>>
  /\ pump' = "start"
  /\ pc' = "peeking"

\* The connection is handed to the pump with the opening events in the channel.
HandOver(events) ==
  /\ chan' = events
  /\ pump' = "start"
  /\ pc' = "peeking"

\* Preamble is read past, up to the peek; the first event that speaks, or a
\* connection closed after some preamble, hands the connection over.
OpeningEvent ==
  /\ pc = "opening" /\ over = "websocket" /\ ~gone
  /\ \E e \in Event :
       /\ Sends(e)
       /\ wire' = Append(wire, e)
       /\ IF e \in Preamble /\ Len(wire') < Peek
          THEN UNCHANGED <<pump, chan, pc>>
          ELSE HandOver(wire')
  /\ UNCHANGED <<over, reused, conn, hand, taken, framed, late, status, gone, closed>>

OpeningClosed ==
  /\ pc = "opening" /\ over = "websocket" /\ ~gone /\ wire # << >>
  /\ HandOver(wire)
  /\ UNCHANGED <<link, hand, taken, framed, late, status, gone, closed>>

\* The connection fails, or says that it cannot carry the turn: a pooled one
\* is replaced by a fresh one, a fresh one by HTTP.
OpeningFails ==
  /\ pc = "opening" /\ over = "websocket" /\ ~gone
  /\ reused' = FALSE
  /\ over' = IF reused THEN "websocket" ELSE "http"
  /\ wire' = << >>
  /\ UNCHANGED <<conn, pump, hand, chan, request, gone, closed>>

OpenHttp ==
  /\ pc = "opening" /\ over = "http" /\ ~gone
  /\ pc' = "peeking"
  /\ UNCHANGED <<link, pump, hand, chan, taken, framed, late, status, gone, closed>>

\* A credential refused before a byte is sent, or HTTP's own failure.
OpenRefused ==
  /\ pc = "opening" /\ ~gone /\ wire = << >> /\ ~reused
  /\ pc' = "over" /\ status' = "error" /\ conn' = "dropped"
  /\ UNCHANGED <<over, reused, wire, pump, hand, chan, taken, framed, late, gone,
                 closed>>
-----------------------------------------------------------------------------
(***************************************************************************)
(* pump                                                                    *)
(***************************************************************************)

Stops(fate) == pump' = "done" /\ conn' = fate

\* What the opening already decided: an end in it is not read past.
PumpStarts ==
  /\ pump = "start"
  /\ IF Has(wire, Refusal) THEN Stops("dropped")
     ELSE /\ pump' = IF Has(wire, Clean) THEN "parking" ELSE "reading"
          /\ UNCHANGED conn
  /\ UNCHANGED <<over, reused, wire, hand, chan, request, gone, closed>>

\* The next event, a failure, or the connection's close, which is passed on as
\* a failure.
PumpReads ==
  /\ pump = "reading"
  /\ \E e \in Event \union {Cut} :
       /\ e = Cut \/ Sends(e)
       /\ wire' = Append(wire, e)
       /\ hand' = <<e>>
  /\ pump' = "passing"
  /\ UNCHANGED <<over, reused, conn, chan, request, gone, closed>>

\* Mutant: a client's going away is noticed only where an event is passed on.
PumpWatchesSends ==
  /\ pump = "passing" /\ ~Alive
  /\ Stops("dropped") /\ hand' = << >>
  /\ UNCHANGED <<over, reused, wire, chan, request, gone, closed>>

\* The client's going away is noticed while waiting on either side.
PumpNoticesGone ==
  /\ pump \in {"reading", "passing"} /\ ~Alive
  /\ Stops("dropped") /\ hand' = << >>
  /\ UNCHANGED <<over, reused, wire, chan, request, gone, closed>>

\* Mutants: the turn is over for the channel before the connection is parked, or
\* a cut is passed on as the end of the stream.
PumpPassesDone ==
  /\ pump = "passing" /\ Alive
  /\ Len(chan) < PumpBuffer
  /\ chan' = Append(chan, hand[1]) /\ hand' = << >>
  /\ IF hand[1] \in Terminal \union {Cut}
     THEN pump' = "done" /\ UNCHANGED conn
     ELSE pump' = "reading" /\ UNCHANGED conn
  /\ UNCHANGED <<over, reused, wire, request, gone, closed>>

PumpPassesQuietly ==
  /\ pump = "passing" /\ Alive
  /\ Len(chan) < PumpBuffer
  /\ chan' = (IF hand[1] = Cut THEN chan ELSE Append(chan, hand[1])) /\ hand' = << >>
  /\ IF hand[1] \in Refusal \union {Cut} THEN Stops("dropped")
     ELSE /\ pump' = IF hand[1] \in Clean THEN "parking" ELSE "reading"
          /\ UNCHANGED conn
  /\ UNCHANGED <<over, reused, wire, request, gone, closed>>

\* The event is passed on where the channel has room.
PumpPasses ==
  /\ pump = "passing" /\ Alive
  /\ Len(chan) < PumpBuffer
  /\ chan' = Append(chan, hand[1]) /\ hand' = << >>
  /\ IF hand[1] \in Refusal \union {Cut} THEN Stops("dropped")
     ELSE /\ pump' = IF hand[1] \in Clean THEN "parking" ELSE "reading"
          /\ UNCHANGED conn
  /\ UNCHANGED <<over, reused, wire, request, gone, closed>>

\* The connection is back before the channel is closed.
PumpParks ==
  /\ pump = "parking"
  /\ Stops("parked")
  /\ UNCHANGED <<over, reused, wire, hand, chan, request, gone, closed>>
-----------------------------------------------------------------------------
(***************************************************************************)
(* The request's task: peek_preamble, the status, frame_stream.            *)
(***************************************************************************)

\* The next event of the turn's stream.  Over HTTP the body is read where it
\* is asked for, nothing is read past a terminal event, and a body that ends
\* before one is a failure.
Take(e) ==
  /\ taken' = Append(taken, e)
  /\ IF over = "websocket"
     THEN /\ chan # << >> /\ e = Head(chan)
          /\ chan' = Tail(chan)
          /\ UNCHANGED <<wire, conn>>
     ELSE /\ ~Has(wire, Terminal \union {Cut})
          /\ e = Cut \/ Sends(e)
          /\ wire' = Append(wire, e)
          /\ conn' = IF e \in Terminal \union {Cut} THEN "dropped" ELSE conn
          /\ UNCHANGED chan
  /\ UNCHANGED <<over, reused, pump, hand, gone>>

StreamOver ==
  IF over = "websocket" THEN chan = << >> /\ pump = "done"
  ELSE Has(wire, Terminal \union {Cut})

\* What the peek read decides the status: a refusal or a failure among it, or a
\* stream that ended with no event of the response, is one; anything else is
\* streamed.
Decide(events, isOver) ==
  IF Has(events, Refusal \union {Cut}) \/ (isOver /\ Only(events, Preamble))
  THEN /\ pc' = "over" /\ status' = "error"
       /\ conn' = IF over = "http" THEN "dropped" ELSE conn
  ELSE /\ pc' = "streaming" /\ status' = "ok"
       /\ UNCHANGED conn

\* A failure does not end the preamble; the stream's end after it does.
Peeking ==
  /\ pc = "peeking" /\ ~gone /\ Len(taken) < Peek
  /\ \E e \in Event \union {Cut} : Take(e)
  /\ pc' = IF Last(taken') \in Preamble \union {Cut} THEN "peeking" ELSE "peeked"
  /\ UNCHANGED <<framed, late, status, closed>>

\* The peek is over: at an event that speaks, at its count, at the stream's
\* end, or when its wait runs out.
PeekEnds ==
  /\ ~gone
  /\ \/ /\ pc = "peeked" \/ (pc = "peeking" /\ Len(taken) = Peek)
        /\ late' = FALSE /\ Decide(taken, FALSE)
     \/ /\ pc = "peeking" /\ Len(taken) < Peek /\ StreamOver
        /\ late' = FALSE /\ Decide(taken, TRUE)
     \/ /\ pc = "peeking" /\ Len(taken) < Peek
        /\ late' = TRUE /\ Decide(taken, FALSE)
  /\ UNCHANGED <<over, reused, wire, pump, hand, chan, taken, framed, gone, closed>>

\* An event is read once those before it are framed.
Reading ==
  /\ pc = "streaming" /\ ~gone /\ framed = Len(taken)
  /\ \E e \in Event \union {Cut} : Take(e)
  /\ UNCHANGED <<pc, framed, late, status, closed>>

\* A failure is told as an error frame, and nothing is told after it.
Framing ==
  /\ pc = "streaming" /\ ~gone /\ framed < Len(taken)
  /\ framed' = framed + 1
  /\ pc' = IF taken[framed'] = Cut THEN "over" ELSE pc
  /\ UNCHANGED <<link, pump, hand, chan, taken, late, status, gone, closed>>

\* The stream is over: the turn is closed on a completed response.
StreamEnds ==
  /\ pc = "streaming" /\ ~gone /\ framed = Len(taken) /\ StreamOver
  /\ closed' = Has(taken, {"completed"})
  /\ pc' = "over"
  /\ UNCHANGED <<link, pump, hand, chan, taken, framed, late, status, gone>>

\* The client leaves: the request's task is dropped where it stands, and with
\* it whatever it owns.
ClientLeaves ==
  /\ ~gone /\ pc # "over"
  /\ gone' = TRUE
  /\ conn' = IF pump = "none" THEN "dropped" ELSE conn
  /\ UNCHANGED <<over, reused, wire, pump, hand, chan, request, closed>>

\* Neither task has anything left to do.
Finished ==
  /\ gone \/ pc = "over"
  /\ pump \in {"none", "done"}
  /\ UNCHANGED vars

Next ==
  \/ OpeningEvent \/ OpeningClosed \/ OpeningFails \/ OpenHttp \/ OpenRefused
  \/ PumpStarts \/ PumpReads \/ PumpNoticesGone \/ PumpPasses \/ PumpParks
  \/ Peeking \/ PeekEnds \/ Reading \/ Framing \/ StreamEnds
  \/ ClientLeaves \/ Finished

Spec == Init /\ [][Next]_vars

\* The proxy's own tasks run, its timer fires, and a client that stays reads.
\* Nothing obliges the backend to send, nor a client to stay.
Fairness ==
  /\ WF_vars(OpenHttp) /\ WF_vars(PumpStarts) /\ WF_vars(PumpNoticesGone)
  /\ WF_vars(PumpPasses) /\ WF_vars(PumpParks)
  /\ WF_vars(PeekEnds) /\ WF_vars(Framing) /\ WF_vars(StreamEnds)
  /\ WF_vars(over = "websocket" /\ (Peeking \/ Reading))

FairSpec == Spec /\ Fairness
-----------------------------------------------------------------------------
TypeOK ==
  /\ over \in {"websocket", "http"} /\ reused \in BOOLEAN
  /\ pump \in {"none", "start", "reading", "passing", "parking", "done"}
  /\ \A s \in {hand, chan, wire, taken} : s \in Seq(Event \union {Cut})
  /\ Len(hand) <= 1 /\ (Len(hand) = 1 <=> pump = "passing")
  /\ pc \in {"opening", "peeking", "peeked", "streaming", "over"}
  /\ framed \in 0..Len(taken) /\ late \in BOOLEAN
  /\ conn \in {"held", "parked", "dropped"}
  /\ status \in {"none", "ok", "error"} /\ gone \in BOOLEAN /\ closed \in BOOLEAN

\* Every event the connection yields reaches the turn once, in order, whichever
\* task has it by now: what the opening read is not lost in the hand-over.
NothingLost ==
  over = "websocket" /\ Alive => taken \o chan \o hand = wire

\* A stream a client was promised never just ends: it ends on the event that
\* ends a turn, or on a failure it is told of (proxy-behavior.md 5.1, "a stream
\* that ends without completing is a transport failure").
EndsHonestly ==
  pc = "over" /\ ~gone /\ status = "ok" => Has(taken, Terminal \union {Cut})

\* A connection handed back has nothing more to say of the turn it carried:
\* its last event ended a response, was not an error, and was the first to end
\* anything (pool.rs, park).
ParkedIsQuiet ==
  conn = "parked" =>
    /\ wire # << >> /\ wire[Len(wire)] \in Clean
    /\ \A i \in 1..(Len(wire) - 1) : wire[i] \notin Terminal \union {Cut}

\* A refusal or a cut that is the first thing said of the outcome, among the
\* events the peek reads, is a status and never a 200 (proxy-behavior.md 5.1).
RefusalIsStatus ==
  status = "ok" /\ ~late =>
    ~\E i \in 1..Len(taken) :
       /\ i <= Peek /\ taken[i] \in Refusal \union {Cut}
       /\ \A j \in 1..(i - 1) : taken[j] \in Preamble

\* What is said of how the turn ended is so: to the client by the status and by
\* the stream's end, to the session by the connection handed back.
EndedTruly == EndsHonestly /\ RefusalIsStatus /\ ParkedIsQuiet

\* The turn as SessionTurns sees it.
Ended ==
  LET clean == IF over = "http" THEN Has(taken, Clean)
               ELSE Has(wire, Clean)
                      /\ (pump \in {"start", "parking"} \/ conn = "parked")
  IN  IF ~clean THEN "no"
      ELSE IF Has(wire, {"completed"}) THEN "completed" ELSE "unfinished"

Stage ==
  CASE pc = "opening" /\ ~gone                            -> "sending"
    [] pc # "opening" /\ over = "websocket" /\ conn = "held" ->
         IF Ended = "no" THEN "streaming" ELSE "parking"
    [] Alive /\ Ended = "completed" /\ (over = "http" \/ conn = "parked") ->
         "closing"
    [] Alive /\ over = "http" /\ ~Has(taken, Terminal \union {Cut}) ->
         "streaming"
    [] OTHER                                              -> "done"

Ending == INSTANCE TurnEnding WITH stage <- Stage, ended <- Ended

\* The turn ends as SessionTurns takes it to: in particular it is closed only
\* once its connection is back in the session, so that the next turn, which
\* reads what closing left, finds the connection that can continue it.
EndsAsSessionTurnsTakesIt == Ending!Spec

\* A turn nobody reads any more lets go of its connection, though the backend
\* says nothing further (proxy-behavior.md 5.3).
Released == (gone \/ pc = "over") ~> conn # "held"

\* A stream whose terminal event, or whose cut, has been read is told to its
\* end: a client that stays does not wait on a turn that is over.
EndIsTold == Has(wire, Terminal \union {Cut}) ~> (pc = "over" \/ gone)

\* The peek is bounded in time: a backend that falls silent does not hold the
\* answer once the stream is open (proxy-behavior.md 5.1, PREAMBLE_WAIT).
PeekIsBounded == pc = "peeking" ~> (status # "none" \/ gone)

\* No turn hangs on a client that left, a backend that fell silent, or an end
\* that has come (upstream/pool.rs, pump; ingress.rs, peek_preamble).
NothingHangs == Released /\ EndIsTold /\ PeekIsBounded

\* The same of the whole turn: "a slow backend cannot hold the status open"
\* (proxy-behavior.md 5.1).
StatusIsNotHeld == (wire # << >> /\ status = "none") ~> (status # "none" \/ gone)
=============================================================================
