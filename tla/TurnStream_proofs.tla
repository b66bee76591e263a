-------------------------- MODULE TurnStream_proofs --------------------------
(***************************************************************************)
(* What holds of a turn whatever the size of the peek and of the channel,  *)
(* however long the answer, and over either transport.                     *)
(* Then what holds of the frames made of the answer, however many items    *)
(* the backend writes and however they overlap.                            *)
(***************************************************************************)
EXTENDS TurnStream, ResponseFrames, SequenceTheorems, FiniteSetTheorems, TLAPS

\* What a transport yields, and what of it ends a turn.
Said == Event \union {Cut}
Ends == Terminal \union {Cut}

\* Nothing before the last ends the turn.
OnlyLast(events) == \A i \in 1..(Len(events) - 1) : events[i] \notin Ends

\* While the connection is opened, the pump and the request own nothing, and
\* what was read past was preamble.
OpeningInv ==
  pc = "opening" =>
    /\ pump = "none" /\ conn # "parked" /\ (~gone => conn = "held")
    /\ chan = << >> /\ hand = << >> /\ taken = << >>
    /\ Only(wire, Preamble)

\* Over HTTP there is no pump, and the request reads the body itself.
PlainInv ==
  over = "http" =>
    /\ pump = "none" /\ conn # "parked" /\ chan = << >> /\ hand = << >>
    /\ taken = wire

\* The pump is handed a connection that has said nothing past the turn's end,
\* reads on only while the turn is open, and parks only a clean end.
PumpInv ==
  /\ pc \in {"peeking", "peeked", "streaming"} /\ over = "websocket" => pump # "none"
  /\ pump \in {"start", "reading", "passing", "parking"} => conn = "held"
  /\ pump = "start" => OnlyLast(wire) /\ ~Has(wire, {Cut})
  /\ pump = "reading" => ~Has(wire, Ends)
  /\ pump = "passing" =>
       OnlyLast(wire) /\ wire # << >> /\ hand = <<wire[Len(wire)]>>
  /\ pump = "parking" \/ conn = "parked" =>
       OnlyLast(wire) /\ wire # << >> /\ wire[Len(wire)] \in Clean
  /\ conn = "parked" => pump = "done"
  /\ pump = "done" => conn # "held"
  /\ pump = "done" /\ Alive =>
       Has(wire, Ends) /\ (conn = "dropped" => ~Has(wire, Clean))

\* How far the request is decides what the client was told.
ToldInv ==
  /\ pc \in {"opening", "peeking", "peeked"} => status = "none"
  /\ pc = "streaming" => status = "ok"
  /\ status = "ok" => pc \in {"streaming", "over"}
  /\ pc # "over" => ~closed
  /\ pc = "peeked" =>
       taken # << >> /\ taken[Len(taken)] \notin Preamble \union {Cut}

\* A 200 was answered once the peek was full or something had been said, unless
\* its wait ran out.
JudgedInv ==
  status = "ok" /\ ~late => Len(taken) >= Peek \/ ~Only(taken, Preamble)

IInv ==
  /\ TypeOK /\ OpeningInv /\ PlainInv /\ PumpInv /\ ToldInv /\ JudgedInv
  /\ NothingLost /\ EndsHonestly /\ RefusalIsStatus
-----------------------------------------------------------------------------
\* What appending one event makes of what a sequence has.
LEMMA AppendHas ==
  ASSUME NEW S, NEW s \in Seq(S), NEW e \in S, NEW K
  PROVE  /\ Has(Append(s, e), K) <=> Has(s, K) \/ e \in K
         /\ Only(Append(s, e), K) <=> Only(s, K) /\ e \in K
<1> DEFINE a == Append(s, e)
<1>1. Len(s) \in Nat /\ DOMAIN s = 1..Len(s)  BY LenProperties
<1>2. /\ a \in Seq(S) /\ Len(a) = Len(s) + 1
      /\ \A i \in 1..Len(s) : a[i] = s[i]
      /\ a[Len(s) + 1] = e
  BY AppendProperties
<1>3. DOMAIN a = 1..(Len(s) + 1)  BY <1>2, LenProperties
<1> HIDE DEF a
<1>4. DOMAIN a = DOMAIN s \union {Len(s) + 1}  BY <1>1, <1>3
<1>5. \A i \in DOMAIN s : a[i] = s[i]  BY <1>1, <1>2
<1>6. Has(a, K) <=> Has(s, K) \/ e \in K  BY <1>2, <1>4, <1>5 DEF Has
<1>7. Only(a, K) <=> Only(s, K) /\ e \in K  BY <1>2, <1>4, <1>5 DEF Only
<1>8. QED  BY <1>6, <1>7 DEF a

\* The last of what is appended is the event appended; before it is what was
\* there.
LEMMA AppendLast ==
  ASSUME NEW S, NEW s \in Seq(S), NEW e \in S
  PROVE  /\ Append(s, e) \in Seq(S) /\ Append(s, e) # << >>
         /\ Len(Append(s, e)) = Len(s) + 1
         /\ Append(s, e)[Len(Append(s, e))] = e
         /\ ~Has(s, Ends) => OnlyLast(Append(s, e))
<1>1. Len(s) \in Nat /\ DOMAIN s = 1..Len(s)  BY LenProperties
<1>2. /\ Append(s, e) \in Seq(S) /\ Append(s, e) # << >>
      /\ Len(Append(s, e)) = Len(s) + 1
      /\ \A i \in 1..Len(s) : Append(s, e)[i] = s[i]
      /\ Append(s, e)[Len(s) + 1] = e
  BY AppendProperties
<1>3. ~Has(s, Ends) => OnlyLast(Append(s, e))
  BY <1>1, <1>2 DEF Has, OnlyLast
<1>4. QED  BY <1>2, <1>3

\* A sequence that has nothing has none of anything.
LEMMA EmptyHas ==
  ASSUME NEW K
  PROVE  ~Has(<< >>, K) /\ Only(<< >>, K)
BY DEF Has, Only

\* Taking the head of one sequence onto the end of another leaves the two
\* together as they were.
LEMMA TakeKeeps ==
  ASSUME NEW S, NEW s \in Seq(S), NEW t \in Seq(S), t # << >>
  PROVE  /\ Head(t) \in S /\ Tail(t) \in Seq(S)
         /\ Append(s, Head(t)) \o Tail(t) = s \o t
<1>1. /\ Head(t) \in S /\ Tail(t) \in Seq(S) /\ Head(t) = t[1]
  BY HeadTailProperties, EmptySeq, LenProperties
<1> DEFINE a == Append(s, Head(t))  u == Tail(t)  v == a \o u  w == s \o t
<1>2. Len(s) \in Nat /\ Len(t) \in Nat /\ Len(t) # 0  BY LenProperties, EmptySeq
<1>3. /\ a \in Seq(S) /\ Len(a) = Len(s) + 1
      /\ \A i \in 1..Len(s) : a[i] = s[i]
      /\ a[Len(s) + 1] = t[1]
  BY <1>1, AppendProperties
<1>4. /\ v \in Seq(S) /\ Len(v) = Len(a) + Len(u)
      /\ \A i \in 1..(Len(a) + Len(u)) :
           v[i] = IF i <= Len(a) THEN a[i] ELSE u[i - Len(a)]
  BY <1>1, <1>3, ConcatProperties
<1>5. /\ w \in Seq(S) /\ Len(w) = Len(s) + Len(t)
      /\ \A i \in 1..(Len(s) + Len(t)) :
           w[i] = IF i <= Len(s) THEN s[i] ELSE t[i - Len(s)]
  BY ConcatProperties
<1>6. Len(u) = Len(t) - 1 /\ \A i \in 1..Len(u) : u[i] = t[i + 1]
  BY HeadTailProperties
<1> HIDE DEF a, u, v, w
<1>7. Len(v) = Len(w) /\ Len(w) = Len(s) + Len(t)
  BY <1>2, <1>3, <1>4, <1>5, <1>6
<1>8. ASSUME NEW i \in 1..Len(w)  PROVE v[i] = w[i]
  <2>1. CASE i <= Len(s)
    <3>1. i \in 1..(Len(a) + Len(u)) /\ i <= Len(a)
      BY <2>1, <1>2, <1>3, <1>5, <1>6
    <3>4. v[i] = a[i]  BY <3>1, <1>4
    <3>2. w[i] = s[i]  BY <2>1, <1>2, <1>5
    <3>3. a[i] = s[i]  BY <2>1, <1>2, <1>3, <1>5
    <3>5. QED  BY <3>2, <3>3, <3>4
  <2>2. CASE i = Len(s) + 1
    <3>1. v[i] = t[1]
      <4>1. i \in 1..(Len(a) + Len(u)) /\ i = Len(a)
        BY <2>2, <1>2, <1>3, <1>5, <1>6
      <4>2. v[i] = a[i]  BY <4>1, <1>4
      <4>3. QED  BY <4>2, <2>2, <1>3
    <3>2. w[i] = t[1]
      <4>1. i - Len(s) = 1 /\ ~(i <= Len(s))  BY <2>2, <1>2
      <4>2. QED  BY <4>1, <1>5
    <3>3. QED  BY <3>1, <3>2
  <2>3. CASE i > Len(s) + 1
    <3>1. /\ i - Len(a) \in 1..Len(u) /\ i - Len(s) = (i - Len(a)) + 1
          /\ ~(i <= Len(a)) /\ ~(i <= Len(s))
          /\ i \in 1..(Len(a) + Len(u))
      BY <2>3, <1>2, <1>3, <1>5, <1>6
    <3>2. v[i] = u[i - Len(a)]  BY <3>1, <1>4
    <3>3. w[i] = t[i - Len(s)]  BY <3>1, <1>5
    <3>4. u[i - Len(a)] = t[i - Len(s)]  BY <3>1, <1>6
    <3>5. QED  BY <3>2, <3>3, <3>4
  <2>4. QED  BY <2>1, <2>2, <2>3, <1>2, <1>5
<1>9. v = w  BY <1>4, <1>5, <1>7, <1>8, SeqEqual
<1>10. QED  BY <1>1, <1>9 DEF a, u, v, w

\* An end that nothing before the last can be is the last.
LEMMA EndIsLast ==
  ASSUME NEW S, NEW s \in Seq(S), s # << >>, OnlyLast(s),
         NEW K \in SUBSET Ends
  PROVE  Has(s, K) <=> s[Len(s)] \in K
<1>1. Len(s) \in Nat /\ Len(s) # 0 /\ DOMAIN s = 1..Len(s)
  BY LenProperties, EmptySeq
<1>2. ASSUME Has(s, K)  PROVE s[Len(s)] \in K
  <2>1. PICK i \in 1..Len(s) : s[i] \in K  BY <1>1, <1>2 DEF Has
  <2>2. i \notin 1..(Len(s) - 1)  BY <2>1 DEF OnlyLast
  <2>3. i = Len(s)
    <3>1. Len(s) \in Nat  BY LenProperties
    <3>2. QED  BY <3>1, <2>1, <2>2
  <2>4. QED  BY <2>1, <2>3
<1>3. ASSUME s[Len(s)] \in K  PROVE Has(s, K)
  BY <1>1, <1>3 DEF Has
<1>4. QED  BY <1>2, <1>3
-----------------------------------------------------------------------------
\* The sequences of a turn are sequences of what a transport yields.
LEMMA TypeFacts ==
  ASSUME TypeOK
  PROVE  /\ hand \in Seq(Said) /\ chan \in Seq(Said)
         /\ wire \in Seq(Said) /\ taken \in Seq(Said)
         /\ Len(hand) \in Nat /\ Len(chan) \in Nat
         /\ Len(wire) \in Nat /\ Len(taken) \in Nat
         /\ pump # "passing" => hand = << >>
         /\ pump = "passing" => hand = <<hand[1]>> /\ hand[1] \in Said
<1>1. \A s \in {hand, chan, wire, taken} : s \in Seq(Said)  BY DEF TypeOK, Said
<1>2. /\ hand \in Seq(Said) /\ chan \in Seq(Said)
      /\ wire \in Seq(Said) /\ taken \in Seq(Said)
  BY <1>1
<1>3. /\ Len(hand) \in Nat /\ Len(chan) \in Nat
      /\ Len(wire) \in Nat /\ Len(taken) \in Nat
  BY <1>2, LenProperties
<1>4. Len(hand) <= 1 /\ (Len(hand) = 1 <=> pump = "passing")  BY DEF TypeOK
<1>5. ASSUME pump # "passing"  PROVE hand = << >>
  <2>1. Len(hand) # 1  BY <1>4, <1>5
  <2>2. Len(hand) = 0  BY <2>1, <1>3, <1>4
  <2>3. QED  BY <2>2, <1>2, EmptySeq
<1>6. ASSUME pump = "passing"  PROVE hand = <<hand[1]>> /\ hand[1] \in Said
  <2>1. Len(hand) = 1  BY <1>4, <1>6
  <2>2. hand[1] \in Said  BY <2>1, <1>2, ElementOfSeq
  <2>3. <<hand[1]>> \in Seq(Said) /\ Len(<<hand[1]>>) = 1 /\ <<hand[1]>>[1] = hand[1]
    BY <2>2
  <2>4. QED  BY <2>1, <2>2, <2>3, <1>2, SeqEqual
<1>7. QED  BY <1>2, <1>3, <1>5, <1>6

\* What reading one event does to the sequences of a turn.
LEMMA TakeFacts ==
  ASSUME TypeOK, NEW e \in Said, Take(e)
  PROVE  /\ taken' = Append(taken, e) /\ taken' \in Seq(Said)
         /\ taken' # << >> /\ Len(taken') = Len(taken) + 1
         /\ taken'[Len(taken')] = e
         /\ wire' \in Seq(Said) /\ chan' \in Seq(Said)
         /\ conn' \in {conn, "dropped"}
         /\ UNCHANGED <<over, reused, pump, hand, gone>>
         /\ over = "websocket" => UNCHANGED <<wire, conn>>
         /\ over = "websocket" => taken' \o chan' = taken \o chan
         /\ over # "websocket" =>
              ~Has(wire, Ends) /\ wire' = Append(wire, e) /\ chan' = chan
<1>1. /\ chan \in Seq(Said) /\ wire \in Seq(Said) /\ taken \in Seq(Said)
  BY TypeFacts
<1>2. taken' = Append(taken, e) /\ UNCHANGED <<over, reused, pump, hand, gone>>
  BY DEF Take
<1>3. /\ taken' \in Seq(Said) /\ taken' # << >> /\ Len(taken') = Len(taken) + 1
      /\ taken'[Len(taken')] = e
  BY <1>1, <1>2, AppendLast
<1>4. CASE over = "websocket"
  <2>1. chan # << >> /\ e = Head(chan) /\ chan' = Tail(chan) /\ UNCHANGED <<wire, conn>>
    BY <1>4 DEF Take
  <2>2. chan' \in Seq(Said) /\ taken' \o chan' = taken \o chan
    BY <2>1, <1>1, <1>2, TakeKeeps
  <2>3. QED  BY <2>1, <2>2, <1>1, <1>2, <1>3, <1>4
<1>5. CASE over # "websocket"
  <2>1. /\ ~Has(wire, Ends) /\ wire' = Append(wire, e) /\ chan' = chan
        /\ conn' \in {conn, "dropped"}
    BY <1>5 DEF Take, Ends
  <2>2. wire' \in Seq(Said)  BY <2>1, <1>1, AppendLast
  <2>3. QED  BY <2>1, <2>2, <1>1, <1>2, <1>3, <1>5
<1>6. QED  BY <1>4, <1>5

\* Every action keeps the types.
LEMMA TypeStep ==
  ASSUME TypeOK, OpeningInv, [Next]_vars
  PROVE  TypeOK'
<1>0. /\ hand \in Seq(Said) /\ chan \in Seq(Said)
      /\ wire \in Seq(Said) /\ taken \in Seq(Said)
      /\ Len(taken) \in Nat /\ framed \in 0..Len(taken)
  BY TypeFacts DEF TypeOK
<1>1. << >> \in Seq(Said) /\ Len(<< >>) = 0
  BY EmptySeq
<1>2. (\A e \in Event : e \in Said) /\ Cut \in Said
  BY DEF Said
<1> USE DEF Said
<1>3. CASE OpeningEvent
  <2>1. PICK e \in Event :
          /\ wire' = Append(wire, e)
          /\ IF e \in Preamble /\ Len(wire') < Peek
             THEN UNCHANGED <<pump, chan, pc>>
             ELSE HandOver(wire')
    BY <1>3 DEF OpeningEvent
  <2>2. wire' \in Seq(Said)  BY <1>0, <1>2, <2>1, AppendLast
  <2>3. pump = "none"  BY <1>3 DEF OpeningEvent, OpeningInv
  <2>4. QED
    BY <1>0, <2>1, <2>2, <2>3, <1>3 DEF OpeningEvent, HandOver, TypeOK
<1>4. CASE OpeningClosed
  <2>1. pump = "none"  BY <1>4 DEF OpeningClosed, OpeningInv
  <2>2. QED
    BY <1>0, <1>4, <2>1 DEF OpeningClosed, HandOver, link, TypeOK
<1>5. CASE OpeningFails
  BY <1>0, <1>1, <1>5 DEF OpeningFails, request, TypeOK
<1>6. CASE OpenHttp
  BY <1>0, <1>6 DEF OpenHttp, link, TypeOK
<1>7. CASE OpenRefused
  BY <1>0, <1>7 DEF OpenRefused, TypeOK
<1>8. CASE PumpStarts
  BY <1>0, <1>8 DEF PumpStarts, Stops, request, TypeOK
<1>9. CASE PumpReads
  <2>1. PICK e \in Said : wire' = Append(wire, e) /\ hand' = <<e>>
    BY <1>9 DEF PumpReads
  <2>2. wire' \in Seq(Said)  BY <1>0, <2>1, AppendLast
  <2>3. hand' \in Seq(Said) /\ Len(hand') = 1  BY <2>1
  <2>4. QED  BY <1>0, <1>9, <2>2, <2>3 DEF PumpReads, request, TypeOK
<1>10. CASE PumpNoticesGone
  BY <1>0, <1>1, <1>10 DEF PumpNoticesGone, Stops, request, TypeOK
<1>11. CASE PumpPasses
  <2>1. hand[1] \in Said  BY <1>11, TypeFacts DEF PumpPasses
  <2>2. chan' \in Seq(Said)  BY <1>0, <1>11, <2>1, AppendLast DEF PumpPasses
  <2>3. QED
    BY <1>0, <1>1, <1>11, <2>2 DEF PumpPasses, Stops, request, TypeOK
<1>12. CASE PumpParks
  BY <1>0, <1>12 DEF PumpParks, Stops, request, TypeOK
<1>13. CASE Peeking
  <2>1. PICK e \in Said : Take(e)  BY <1>13 DEF Peeking
  <2>2. /\ taken' \in Seq(Said) /\ Len(taken') = Len(taken) + 1
        /\ wire' \in Seq(Said) /\ chan' \in Seq(Said)
        /\ conn' \in {conn, "dropped"}
        /\ UNCHANGED <<over, reused, pump, hand, gone>>
    BY <2>1, TakeFacts
  <2>3. framed' \in 0..Len(taken')  BY <1>0, <1>13, <2>2 DEF Peeking
  <2>4. QED  BY <1>0, <1>13, <2>2, <2>3 DEF Peeking, TypeOK
<1>14. CASE PeekEnds
  BY <1>0, <1>14 DEF PeekEnds, Decide, TypeOK
<1>15. CASE Reading
  <2>1. PICK e \in Said : Take(e)  BY <1>15 DEF Reading
  <2>2. /\ taken' \in Seq(Said) /\ Len(taken') = Len(taken) + 1
        /\ wire' \in Seq(Said) /\ chan' \in Seq(Said)
        /\ conn' \in {conn, "dropped"}
        /\ UNCHANGED <<over, reused, pump, hand, gone>>
    BY <2>1, TakeFacts
  <2>3. framed' \in 0..Len(taken')  BY <1>0, <1>15, <2>2 DEF Reading
  <2>4. QED  BY <1>0, <1>15, <2>2, <2>3 DEF Reading, TypeOK
<1>16. CASE Framing
  <2>1. framed' \in 0..Len(taken')
    BY <1>0, <1>16 DEF Framing
  <2>2. QED  BY <1>0, <1>16, <2>1 DEF Framing, link, TypeOK
<1>17. CASE StreamEnds
  <2>1. closed' \in BOOLEAN  BY <1>17 DEF StreamEnds, Has
  <2>2. QED  BY <1>0, <1>17, <2>1 DEF StreamEnds, link, TypeOK
<1>18. CASE ClientLeaves
  BY <1>0, <1>18 DEF ClientLeaves, request, TypeOK
<1>19. CASE UNCHANGED vars
  BY <1>19 DEF vars, link, request, TypeOK
<1>20. QED
  BY <1>3, <1>4, <1>5, <1>6, <1>7, <1>8, <1>9, <1>10, <1>11, <1>12, <1>13,
     <1>14, <1>15, <1>16, <1>17, <1>18, <1>19 DEF Next, Finished
-----------------------------------------------------------------------------
\* What a connection being opened owns stays what it owns.
LEMMA OpeningStep ==
  ASSUME TypeOK, OpeningInv, [Next]_vars
  PROVE  OpeningInv'
<1>0. wire \in Seq(Said)  BY TypeFacts
<1>1. Only(<< >>, Preamble)  BY EmptyHas
<1>2. SUFFICES ASSUME pc' = "opening"  PROVE OpeningInv'
  BY DEF OpeningInv
<1>3. pc = "opening"
  BY <1>2 DEF Next, OpeningEvent, OpeningClosed, OpeningFails, OpenHttp, OpenRefused,
     PumpStarts, PumpReads, PumpNoticesGone, PumpPasses, PumpParks, Peeking, PeekEnds,
     Reading, Framing, StreamEnds, ClientLeaves, Finished, HandOver, Decide, link,
     request, vars
<1>4. /\ pump = "none" /\ conn # "parked" /\ (~gone => conn = "held")
      /\ chan = << >> /\ hand = << >> /\ taken = << >> /\ Only(wire, Preamble)
  BY <1>3 DEF OpeningInv
<1>5. \/ OpeningEvent \/ OpeningFails \/ ClientLeaves \/ UNCHANGED vars
  BY <1>2, <1>3, <1>4 DEF Next, OpeningClosed, OpenHttp, OpenRefused,
     PumpStarts, PumpReads, PumpNoticesGone, PumpPasses, PumpParks, Peeking, PeekEnds,
     Reading, Framing, StreamEnds, Finished, HandOver
<1>6. CASE OpeningEvent
  <2>1. PICK e \in Event :
          /\ wire' = Append(wire, e)
          /\ IF e \in Preamble /\ Len(wire') < Peek
             THEN UNCHANGED <<pump, chan, pc>>
             ELSE HandOver(wire')
    BY <1>6 DEF OpeningEvent
  <2>2. e \in Preamble /\ UNCHANGED <<pump, chan, pc>>
    BY <1>2, <2>1 DEF HandOver
  <2>3. Only(wire', Preamble)
    BY <1>0, <1>4, <2>1, <2>2, AppendHas DEF Said
  <2>4. QED  BY <1>4, <1>6, <2>2, <2>3 DEF OpeningEvent, OpeningInv
<1>7. CASE OpeningFails
  BY <1>1, <1>4, <1>7 DEF OpeningFails, OpeningInv, request
<1>8. CASE ClientLeaves
  BY <1>4, <1>8 DEF ClientLeaves, OpeningInv, request, Only
<1>9. CASE UNCHANGED vars
  BY <1>4, <1>9 DEF vars, link, request, OpeningInv, Only
<1>10. QED  BY <1>5, <1>6, <1>7, <1>8, <1>9

\* Over HTTP what was read is what the body has yielded.
LEMMA PlainStep ==
  ASSUME TypeOK, OpeningInv, PlainInv, [Next]_vars
  PROVE  PlainInv'
<1>1. SUFFICES ASSUME over' = "http"  PROVE PlainInv'
  BY DEF PlainInv
<1>2. CASE OpeningFails
  BY <1>1, <1>2 DEF OpeningFails, OpeningInv, PlainInv, request
<1>3. CASE ~OpeningFails
  <2>1. over = "http" \/ Peeking \/ Reading
    BY <1>1, <1>3 DEF Next, OpeningEvent, OpeningClosed, OpenHttp, OpenRefused,
       PumpStarts, PumpReads, PumpNoticesGone, PumpPasses, PumpParks, PeekEnds,
       Framing, StreamEnds, ClientLeaves, Finished, link, vars
  <2>2. CASE Peeking \/ Reading
    <3>1. PICK e \in Said : Take(e)  BY <2>2 DEF Peeking, Reading, Said
    <3>2. /\ taken' = Append(taken, e) /\ conn' \in {conn, "dropped"}
          /\ UNCHANGED <<over, reused, pump, hand, gone>>
      BY <3>1, TakeFacts
    <3>3. over = "http"  BY <1>1, <3>2
    <3>4. wire' = Append(wire, e) /\ chan' = chan
      BY <3>1, <3>3, TakeFacts
    <3>5. QED  BY <3>2, <3>3, <3>4 DEF PlainInv
  <2>3. CASE ~(Peeking \/ Reading)
    <3>1. over = "http"  BY <2>1, <2>3
    <3>2. /\ pump = "none" /\ conn # "parked" /\ chan = << >> /\ hand = << >>
          /\ taken = wire
      BY <3>1 DEF PlainInv
    <3>3. \/ OpenHttp \/ OpenRefused \/ PeekEnds \/ Framing \/ StreamEnds
          \/ ClientLeaves \/ UNCHANGED vars
      BY <1>3, <2>3, <3>1, <3>2 DEF Next, OpeningEvent, OpeningClosed, PumpStarts,
         PumpReads, PumpNoticesGone, PumpPasses, PumpParks, Finished
    <3>4. QED
      BY <3>1, <3>2, <3>3 DEF PlainInv, OpenHttp, OpenRefused, PeekEnds, Decide,
         Framing, StreamEnds, ClientLeaves, link, request, vars
  <2>4. QED  BY <2>2, <2>3
<1>4. QED  BY <1>2, <1>3

\* Preamble is not the end of anything.
LEMMA PreambleEndsNothing ==
  ASSUME NEW s, Only(s, Preamble), NEW K \in SUBSET Ends
  PROVE  ~Has(s, K)
BY DEF Only, Has, Preamble, Ends, Terminal, Clean, Refusal, Cut

\* Where nothing ends the turn, nothing before the last does.
LEMMA QuietIsOnlyLast ==
  ASSUME NEW S, NEW s \in Seq(S), ~Has(s, Ends)
  PROVE  OnlyLast(s)
<1>1. Len(s) \in Nat /\ DOMAIN s = 1..Len(s)  BY LenProperties
<1>2. QED  BY <1>1 DEF Has, OnlyLast

\* What the pump does with a connection.
LEMMA PumpStep ==
  ASSUME TypeOK, OpeningInv, PlainInv, PumpInv, NothingLost, [Next]_vars
  PROVE  PumpInv'
<1>0. /\ wire \in Seq(Said) /\ Len(wire) \in Nat
      /\ Clean \subseteq Ends /\ Refusal \subseteq Ends /\ {Cut} \subseteq Ends
      /\ Ends = Clean \union Refusal \union {Cut} /\ Event \subseteq Said
      /\ Cut \notin Event /\ Cut \in Said
  BY TypeFacts DEF Ends, Terminal, Said, Event, Preamble, Clean, Refusal, Cut
<1>3. CASE OpeningEvent
  <2>1. PICK e \in Event :
          /\ wire' = Append(wire, e)
          /\ IF e \in Preamble /\ Len(wire') < Peek
             THEN UNCHANGED <<pump, chan, pc>>
             ELSE HandOver(wire')
    BY <1>3 DEF OpeningEvent
  <2>2. pump = "none" /\ conn = "held" /\ Only(wire, Preamble)
    BY <1>3 DEF OpeningEvent, OpeningInv
  <2>3. ~Has(wire, Ends) /\ ~Has(wire, {Cut})
    BY <1>0, <2>2, PreambleEndsNothing
  <2>4. OnlyLast(wire') /\ ~Has(wire', {Cut})
    <3>1. OnlyLast(wire')  BY <1>0, <2>1, <2>3, AppendLast
    <3>2. ~Has(wire', {Cut})  BY <1>0, <2>1, <2>3, AppendHas
    <3>3. QED  BY <3>1, <3>2
  <2>5. pump' \in {"none", "start"} /\ conn' = "held" /\ over' = "websocket"
        /\ (pump' = "none" => pc' = "opening")
    BY <1>3, <2>1, <2>2 DEF OpeningEvent, HandOver
  <2>6. QED  BY <2>4, <2>5 DEF PumpInv
<1>4. CASE OpeningClosed
  <2>1. pump = "none" /\ conn = "held" /\ Only(wire, Preamble)
    BY <1>4 DEF OpeningClosed, OpeningInv
  <2>2. ~Has(wire, Ends) /\ ~Has(wire, {Cut})
    BY <1>0, <2>1, PreambleEndsNothing
  <2>3. OnlyLast(wire)  BY <1>0, <2>2, QuietIsOnlyLast
  <2>4. QED
    BY <1>4, <2>1, <2>2, <2>3 DEF OpeningClosed, HandOver, link, PumpInv, Has, OnlyLast
<1>5. CASE OpeningFails
  BY <1>5 DEF OpeningFails, OpeningInv, request, PumpInv
<1>6. CASE OpenHttp
  BY <1>6 DEF OpenHttp, PlainInv, link, PumpInv
<1>7. CASE OpenRefused
  BY <1>7 DEF OpenRefused, OpeningInv, PumpInv
<1>8. CASE PumpStarts
  <2>1. /\ pump = "start" /\ conn = "held" /\ OnlyLast(wire) /\ ~Has(wire, {Cut})
        /\ UNCHANGED <<over, wire, pc, gone, hand>>
    BY <1>8 DEF PumpStarts, PumpInv, request
  <2>2. CASE Has(wire, Refusal)
    <3>1. Has(wire, Ends)  BY <1>0, <2>2 DEF Has
    <3>2. wire # << >>  BY <2>2, EmptyHas
    <3>3. wire[Len(wire)] \in Refusal  BY <1>0, <2>1, <2>2, <3>2, EndIsLast
    <3>4. ~Has(wire, Clean)
      BY <1>0, <2>1, <3>2, <3>3, EndIsLast DEF Refusal, Clean
    <3>5. pump' = "done" /\ conn' = "dropped"
      BY <1>8, <2>2 DEF PumpStarts, Stops
    <3>6. QED  BY <2>1, <3>1, <3>4, <3>5 DEF PumpInv, Has, OnlyLast
  <2>3. CASE ~Has(wire, Refusal) /\ Has(wire, Clean)
    <3>1. wire # << >>  BY <2>3, EmptyHas
    <3>2. wire[Len(wire)] \in Clean  BY <1>0, <2>1, <2>3, <3>1, EndIsLast
    <3>3. pump' = "parking" /\ conn' = conn
      BY <1>8, <2>3 DEF PumpStarts
    <3>4. QED  BY <2>1, <3>1, <3>2, <3>3 DEF PumpInv, Has, OnlyLast
  <2>4. CASE ~Has(wire, Refusal) /\ ~Has(wire, Clean)
    <3>1. ~Has(wire, Ends)  BY <1>0, <2>1, <2>4 DEF Has
    <3>2. pump' = "reading" /\ conn' = conn
      BY <1>8, <2>4 DEF PumpStarts
    <3>3. QED  BY <2>1, <3>1, <3>2 DEF PumpInv, Has
  <2>5. QED  BY <2>2, <2>3, <2>4
<1>9. CASE PumpReads
  <2>1. PICK e \in Said : wire' = Append(wire, e) /\ hand' = <<e>>
    BY <1>9 DEF PumpReads, Said
  <2>2. /\ pump = "reading" /\ conn = "held" /\ ~Has(wire, Ends)
        /\ pump' = "passing" /\ conn' = conn
    BY <1>9 DEF PumpReads, PumpInv
  <2>3. OnlyLast(wire') /\ wire' # << >> /\ wire'[Len(wire')] = e
    BY <1>0, <2>1, <2>2, AppendLast
  <2>4. QED  BY <2>1, <2>2, <2>3 DEF PumpInv
<1>10. CASE PumpNoticesGone
  <2>1. pump' = "done" /\ conn' = "dropped" /\ ~Alive'
    BY <1>10 DEF PumpNoticesGone, Stops, Alive, request
  <2>2. QED  BY <2>1 DEF PumpInv
<1>11. CASE PumpPasses
  <2>1. /\ pump = "passing" /\ conn = "held" /\ OnlyLast(wire) /\ wire # << >>
        /\ hand[1] = wire[Len(wire)] /\ hand[1] \in Said
        /\ UNCHANGED <<over, wire, pc, gone>>
    BY <1>11, TypeFacts DEF PumpPasses, PumpInv, request
  <2>2. /\ Has(wire, Ends) <=> hand[1] \in Ends
        /\ Has(wire, Clean) <=> hand[1] \in Clean
    BY <1>0, <2>1, EndIsLast
  <2>3. CASE hand[1] \in Refusal \union {Cut}
    <3>1. pump' = "done" /\ conn' = "dropped"
      BY <1>11, <2>3 DEF PumpPasses, Stops
    <3>2. Has(wire, Ends) /\ ~Has(wire, Clean)
      BY <1>0, <2>2, <2>3 DEF Refusal, Clean, Cut
    <3>3. QED  BY <2>1, <3>1, <3>2 DEF PumpInv, Has
  <2>4. CASE hand[1] \in Clean
    <3>1. hand[1] \notin Refusal \union {Cut}
      BY <2>4 DEF Refusal, Clean, Cut
    <3>2. pump' = "parking" /\ conn' = conn
      BY <1>11, <2>4, <3>1 DEF PumpPasses
    <3>3. QED  BY <2>1, <2>4, <3>2 DEF PumpInv, OnlyLast
  <2>5. CASE hand[1] \notin Ends
    <3>1. pump' = "reading" /\ conn' = conn
      BY <1>0, <1>11, <2>5 DEF PumpPasses
    <3>2. ~Has(wire, Ends)  BY <2>2, <2>5
    <3>3. QED  BY <2>1, <3>1, <3>2 DEF PumpInv, Has
  <2>6. QED  BY <1>0, <2>3, <2>4, <2>5
<1>12. CASE PumpParks
  <2>1. /\ OnlyLast(wire) /\ wire # << >> /\ wire[Len(wire)] \in Clean
        /\ pump' = "done" /\ conn' = "parked" /\ wire' = wire
    BY <1>12 DEF PumpParks, PumpInv, Stops
  <2>2. Has(wire, Ends)  BY <1>0, <2>1, EndIsLast
  <2>3. QED  BY <2>1, <2>2 DEF PumpInv, OnlyLast, Has
<1>13. CASE Peeking \/ Reading
  <2>1. PICK e \in Said : Take(e)  BY <1>13 DEF Peeking, Reading, Said
  <2>2. /\ conn' \in {conn, "dropped"}
        /\ UNCHANGED <<over, reused, pump, hand, gone>>
        /\ over = "websocket" => UNCHANGED <<wire, conn>>
    BY <2>1, TakeFacts
  <2>3. CASE over = "websocket"
    <3>1. Alive' => Alive  BY <1>13, <2>2 DEF Peeking, Reading, Alive
    <3>2. pc \in {"peeking", "streaming"}  BY <1>13 DEF Peeking, Reading
    <3>3. QED  BY <2>2, <2>3, <3>1, <3>2 DEF PumpInv, Has, OnlyLast
  <2>4. CASE over # "websocket"
    <3>1. over = "http"  BY <2>4 DEF TypeOK
    <3>2. pump = "none" /\ conn # "parked"  BY <3>1 DEF PlainInv
    <3>3. QED  BY <2>2, <3>1, <3>2 DEF PumpInv
  <2>5. QED  BY <2>3, <2>4
<1>14. CASE PeekEnds \/ Framing \/ StreamEnds \/ ClientLeaves
  <2>1. /\ UNCHANGED <<over, wire, pump, hand>>
        /\ Alive' => Alive
        /\ conn' \in {conn, "dropped"}
        /\ pc' \in {"peeking", "peeked", "streaming"} => pc \in {"peeking", "peeked", "streaming"}
        /\ conn' = conn \/ over = "http" \/ pump = "none"
    BY <1>14 DEF PeekEnds, Decide, Framing, StreamEnds, ClientLeaves, Alive, link, request
  <2>2. over = "http" => pump = "none" /\ conn # "parked"
    BY DEF PlainInv
  <2>3. CASE pump = "none"
    <3>1. pump' = "none" /\ conn' # "parked"  BY <2>1, <2>3 DEF PumpInv
    <3>2. ~(pc' \in {"peeking", "peeked", "streaming"} /\ over' = "websocket")
      BY <2>1, <2>3 DEF PumpInv
    <3>3. QED  BY <3>1, <3>2 DEF PumpInv
  <2>4. CASE pump # "none"
    <3>1. conn' = conn  BY <2>1, <2>2, <2>4
    <3>2. QED  BY <2>1, <2>4, <3>1 DEF PumpInv
  <2>5. QED  BY <2>3, <2>4
<1>15. CASE UNCHANGED vars
  BY <1>15 DEF vars, link, request, PumpInv, Alive, Has, OnlyLast
<1>16. QED
  BY <1>3, <1>4, <1>5, <1>6, <1>7, <1>8, <1>9, <1>10, <1>11, <1>12, <1>13,
     <1>14, <1>15 DEF Next, Finished

\* What the connection yields is with one of the two tasks, in order.
LEMMA LostStep ==
  ASSUME TypeOK, OpeningInv, PlainInv, NothingLost, [Next]_vars
  PROVE  NothingLost'
<1>0. /\ hand \in Seq(Said) /\ chan \in Seq(Said)
      /\ wire \in Seq(Said) /\ taken \in Seq(Said)
  BY TypeFacts
<1>1. SUFFICES ASSUME over' = "websocket", Alive'
               PROVE  (taken \o chan \o hand = wire)'
  BY DEF NothingLost
<1>2. CASE OpeningEvent \/ OpeningClosed
  <2>1. taken = << >> /\ hand = << >>
    BY <1>2 DEF OpeningEvent, OpeningClosed, OpeningInv
  <2>2. chan' = wire' /\ UNCHANGED <<taken, hand>>
    BY <1>1, <1>2 DEF OpeningEvent, OpeningClosed, HandOver, Alive, link
  <2>3. wire' \in Seq(Said)
    <3>1. CASE OpeningEvent
      <4>1. PICK e \in Said : wire' = Append(wire, e)
        BY <3>1 DEF OpeningEvent, Said
      <4>2. QED  BY <4>1, <1>0, AppendLast
    <3>2. CASE OpeningClosed  BY <3>2, <1>0 DEF OpeningClosed, link
    <3>3. QED  BY <1>2, <3>1, <3>2
  <2>4. << >> \o wire' = wire' /\ wire' \o << >> = wire'  BY <2>3, ConcatEmptySeq
  <2>5. QED  BY <2>1, <2>2, <2>4
<1>3. CASE ~OpeningEvent /\ ~OpeningClosed
  <2>1. over = "websocket" /\ Alive
    <3>1. ~OpeningFails /\ ~OpenRefused
      BY <1>1 DEF OpeningFails, OpenRefused, Alive, request
    <3>2. ~OpenHttp  BY <1>1 DEF OpenHttp, link
    <3>3. CASE Peeking \/ Reading
      <4>1. PICK e \in Said : Take(e)  BY <3>3 DEF Peeking, Reading, Said
      <4>2. over' = over /\ gone' = gone  BY <4>1, TakeFacts
      <4>3. QED  BY <1>1, <3>3, <4>2 DEF Peeking, Reading, Alive
    <3>4. CASE ~(Peeking \/ Reading)
      BY <1>1, <1>3, <3>1, <3>2, <3>4 DEF Next, PumpStarts, PumpReads,
         PumpNoticesGone, PumpPasses, PumpParks, PeekEnds, Decide, Framing,
         StreamEnds, ClientLeaves, Finished, Alive, link, request, vars
    <3>5. QED  BY <3>3, <3>4
  <2>2. taken \o chan \o hand = wire /\ pc # "opening"
    BY <2>1 DEF NothingLost, Alive
  <2>3. CASE PumpReads
    <3>1. PICK e \in Said : wire' = Append(wire, e) /\ hand' = <<e>>
      BY <2>3 DEF PumpReads, Said
    <3>2. hand = << >> /\ UNCHANGED <<taken, chan>>
      BY <2>3, TypeFacts DEF PumpReads, request
    <3>3. taken \o chan \in Seq(Said)  BY <1>0, ConcatProperties
    <3>4. taken \o chan = wire  BY <2>2, <3>2, <3>3, ConcatEmptySeq
    <3>5. wire \o <<e>> = Append(wire, e)  BY <1>0, AppendIsConcat
    <3>6. QED  BY <3>1, <3>2, <3>4, <3>5
  <2>4. CASE PumpPasses
    <3>1. /\ hand = <<hand[1]>> /\ hand[1] \in Said
          /\ chan' = Append(chan, hand[1]) /\ hand' = << >>
          /\ UNCHANGED <<taken, wire>>
      BY <2>4, TypeFacts DEF PumpPasses, request
    <3>2. chan' = chan \o hand  BY <3>1, <1>0, AppendIsConcat
    <3>3. taken \o chan' = wire
      <4>1. (taken \o chan) \o hand = taken \o (chan \o hand)
        BY <1>0, ConcatAssociative
      <4>2. QED  BY <4>1, <2>2, <3>2
    <3>4. QED  BY <1>0, <3>1, <3>3, ConcatEmptySeq
  <2>5. CASE Peeking \/ Reading
    <3>1. PICK e \in Said : Take(e)  BY <2>5 DEF Peeking, Reading, Said
    <3>2. taken' \o chan' = taken \o chan /\ UNCHANGED <<hand, wire>>
      BY <2>1, <3>1, TakeFacts
    <3>3. QED  BY <2>2, <3>2
  <2>6. CASE ~PumpReads /\ ~PumpPasses /\ ~Peeking /\ ~Reading
    <3>1. ~PumpNoticesGone  BY <2>1 DEF PumpNoticesGone
    <3>2. ~OpeningFails /\ ~OpenRefused /\ ~OpenHttp
      BY <2>2 DEF OpeningFails, OpenRefused, OpenHttp
    <3>3. UNCHANGED <<taken, chan, hand, wire>>
      BY <1>3, <2>6, <3>1, <3>2 DEF Next, PumpStarts, PumpParks, PeekEnds, Framing,
         StreamEnds, ClientLeaves, Finished, link, request, vars
    <3>4. QED  BY <2>2, <3>3
  <2>7. QED  BY <2>3, <2>4, <2>5, <2>6
<1>4. QED  BY <1>2, <1>3

\* What the client was told follows the request's progress.
LEMMA ToldStep ==
  ASSUME TypeOK, ToldInv, [Next]_vars
  PROVE  ToldInv'
<1>1. CASE Peeking
  <2>1. PICK e \in Said : Take(e)  BY <1>1 DEF Peeking, Said
  <2>2. taken' # << >> /\ gone' = gone  BY <2>1, TakeFacts
  <2>3. pc' = "peeked" => taken'[Len(taken')] \notin Preamble \union {Cut}
    BY <1>1 DEF Peeking, Last
  <2>4. QED  BY <1>1, <2>2, <2>3 DEF Peeking, ToldInv
<1>2. CASE Reading
  BY <1>2 DEF Reading, ToldInv
<1>3. CASE PeekEnds
  BY <1>3 DEF PeekEnds, Decide, ToldInv
<1>4. CASE ~Peeking /\ ~Reading /\ ~PeekEnds
  BY <1>4 DEF Next, OpeningEvent, OpeningClosed, OpeningFails, OpenHttp, OpenRefused,
     PumpStarts, PumpReads, PumpNoticesGone, PumpPasses, PumpParks, Framing,
     StreamEnds, ClientLeaves, Finished, HandOver, link, request, vars, ToldInv
<1>5. QED  BY <1>1, <1>2, <1>3, <1>4

\* What a 200 was judged by.
LEMMA JudgedStep ==
  ASSUME TypeOK, ToldInv, JudgedInv, RefusalIsStatus, [Next]_vars
  PROVE  JudgedInv' /\ RefusalIsStatus'
<1>0. taken \in Seq(Said) /\ Len(taken) \in Nat /\ DOMAIN taken = 1..Len(taken)
  BY TypeFacts, LenProperties
<1>1. SUFFICES ASSUME status' = "ok", ~late'
               PROVE  JudgedInv' /\ RefusalIsStatus'
  BY DEF JudgedInv, RefusalIsStatus
<1>2. CASE PeekEnds
  <2>1. PICK isOver \in BOOLEAN :
          /\ Decide(taken, isOver) /\ taken' = taken
          /\ pc = "peeked" \/ Len(taken) = Peek \/ isOver
    BY <1>1, <1>2 DEF PeekEnds
  <2>2. ~Has(taken, Refusal \union {Cut}) /\ ~(isOver /\ Only(taken, Preamble))
    BY <1>1, <2>1 DEF Decide
  <2>3. Len(taken) >= Peek \/ ~Only(taken, Preamble)
    <3>1. CASE pc = "peeked"
      <4>1. taken # << >> /\ taken[Len(taken)] \notin Preamble
        BY <3>1 DEF ToldInv
      <4>2. Len(taken) # 0  BY <4>1, <1>0, EmptySeq
      <4>3. Len(taken) \in DOMAIN taken  BY <4>2, <1>0
      <4>4. QED  BY <4>1, <4>3 DEF Only
    <3>2. CASE Len(taken) = Peek  BY <3>2, <1>0, BoundsAssumption
    <3>3. CASE isOver  BY <3>3, <2>2
    <3>4. QED  BY <2>1, <3>1, <3>2, <3>3
  <2>4. \A i \in 1..Len(taken) : taken[i] \notin Refusal \union {Cut}
    BY <1>0, <2>2 DEF Has
  <2>5. JudgedInv'  BY <2>1, <2>3 DEF JudgedInv
  <2>6. RefusalIsStatus'  BY <2>1, <2>4 DEF RefusalIsStatus
  <2>7. QED  BY <2>5, <2>6
<1>3. CASE Reading
  <2>1. PICK e \in Said : Take(e)  BY <1>3 DEF Reading, Said
  <2>2. status = "ok" /\ ~late  BY <1>1, <1>3 DEF Reading
  <2>3. /\ taken' = Append(taken, e) /\ Len(taken') = Len(taken) + 1
        /\ \A i \in 1..Len(taken) : taken'[i] = taken[i]
    <3>1. taken' = Append(taken, e) /\ Len(taken') = Len(taken) + 1
      BY <2>1, TakeFacts
    <3>2. \A i \in 1..Len(taken) : Append(taken, e)[i] = taken[i]
      BY <1>0, AppendProperties
    <3>3. QED  BY <3>1, <3>2
  <2>4. Len(taken) >= Peek \/ ~Only(taken, Preamble)
    BY <2>2 DEF JudgedInv
  <2>5. JudgedInv'
    <3>1. Only(taken', Preamble) => Only(taken, Preamble)
      BY <1>0, <2>3, AppendHas
    <3>2. Len(taken) >= Peek => Len(taken') >= Peek
      BY <1>0, <2>3, BoundsAssumption
    <3>3. QED  BY <2>4, <3>1, <3>2 DEF JudgedInv
  <2>6. ASSUME NEW i \in 1..Len(taken'), i <= Peek,
               taken'[i] \in Refusal \union {Cut},
               \A j \in 1..(i - 1) : taken'[j] \in Preamble
        PROVE  FALSE
    <3>1. CASE i <= Len(taken)
      <4>1. i \in 1..Len(taken)  BY <1>0, <2>3, <3>1
      <4>2. taken[i] \in Refusal \union {Cut}  BY <2>3, <2>6, <4>1
      <4>3. \A j \in 1..(i - 1) : j \in 1..Len(taken)  BY <1>0, <4>1
      <4>4. \A j \in 1..(i - 1) : taken[j] \in Preamble  BY <2>3, <2>6, <4>3
      <4>5. QED  BY <2>2, <2>6, <4>1, <4>2, <4>4 DEF RefusalIsStatus
    <3>2. CASE i > Len(taken)
      <4>1. i - 1 = Len(taken)  BY <1>0, <2>3, <3>2
      <4>2. ~(Len(taken) >= Peek)  BY <1>0, <2>6, <3>2, BoundsAssumption
      <4>3. PICK j \in 1..Len(taken) : taken[j] \notin Preamble
        BY <1>0, <2>4, <4>2 DEF Only
      <4>4. QED  BY <2>3, <2>6, <4>1, <4>3
    <3>3. QED  BY <1>0, <2>3, <3>1, <3>2
  <2>7. QED  BY <2>5, <2>6 DEF RefusalIsStatus
<1>4. CASE Peeking
  BY <1>1, <1>4 DEF Peeking, ToldInv
<1>5. CASE ~PeekEnds /\ ~Reading /\ ~Peeking
  <2>1. UNCHANGED <<status, late, taken>>
    BY <1>1, <1>5 DEF Next, OpeningEvent, OpeningClosed, OpeningFails, OpenHttp,
       OpenRefused, PumpStarts, PumpReads, PumpNoticesGone, PumpPasses, PumpParks,
       Framing, StreamEnds, ClientLeaves, Finished, link, request, vars
  <2>2. QED  BY <2>1 DEF JudgedInv, RefusalIsStatus, Only
<1>6. QED  BY <1>2, <1>3, <1>4, <1>5

\* When a stream that is read is over, it was read whole, and it has its end.
LEMMA OverIsWhole ==
  ASSUME TypeOK, PlainInv, PumpInv, NothingLost, Alive, pc = "streaming", StreamOver
  PROVE  taken = wire /\ Has(wire, Ends)
<1>0. hand \in Seq(Said) /\ taken \in Seq(Said)  BY TypeFacts
<1>1. CASE over = "websocket"
  <2>1. chan = << >> /\ pump = "done"  BY <1>1 DEF StreamOver
  <2>2. hand = << >>  BY <2>1, TypeFacts
  <2>3. taken \o << >> \o << >> = wire  BY <1>1, <2>1, <2>2 DEF NothingLost
  <2>4. taken = wire  BY <1>0, <2>3, ConcatEmptySeq
  <2>5. Has(wire, Ends)  BY <2>1 DEF PumpInv
  <2>6. QED  BY <2>4, <2>5
<1>2. CASE over = "http"
  BY <1>2 DEF StreamOver, PlainInv, Ends
<1>3. QED  BY <1>1, <1>2 DEF TypeOK

\* A stream that was promised is told its end.
LEMMA HonestStep ==
  ASSUME TypeOK, PlainInv, PumpInv, ToldInv, NothingLost, EndsHonestly, [Next]_vars
  PROVE  EndsHonestly'
<1>0. taken \in Seq(Said) /\ Len(taken) \in Nat /\ DOMAIN taken = 1..Len(taken)
  BY TypeFacts, LenProperties
<1>1. SUFFICES ASSUME pc' = "over", ~gone', status' = "ok"
               PROVE  Has(taken', Ends)
  BY DEF EndsHonestly, Ends
<1>2. CASE Framing
  <2>1. framed' \in DOMAIN taken /\ taken[framed'] = Cut /\ taken' = taken
    BY <1>0, <1>1, <1>2 DEF Framing, TypeOK
  <2>2. QED  BY <2>1 DEF Has, Ends
<1>3. CASE StreamEnds
  <2>1. Alive /\ pc = "streaming" /\ StreamOver /\ taken' = taken
    BY <1>3 DEF StreamEnds, Alive
  <2>2. QED  BY <2>1, OverIsWhole
<1>4. CASE ~Framing /\ ~StreamEnds
  <2>1. ~Peeking /\ ~Reading /\ ~PeekEnds /\ ~OpenRefused
    BY <1>1 DEF Peeking, Reading, PeekEnds, Decide, OpenRefused
  <2>2. pc = "over" /\ ~gone /\ status = "ok" /\ taken' = taken
    BY <1>1, <1>4, <2>1 DEF Next, OpeningEvent, OpeningClosed, OpeningFails, OpenHttp,
       PumpStarts, PumpReads, PumpNoticesGone, PumpPasses, PumpParks, ClientLeaves,
       Finished, HandOver, ToldInv, link, request, vars
  <2>3. QED  BY <2>2 DEF EndsHonestly, Ends
<1>5. QED  BY <1>2, <1>3, <1>4
-----------------------------------------------------------------------------
\* The invariant holds of the turn's start.
LEMMA InvInit == Init => IInv
<1> SUFFICES ASSUME Init  PROVE IInv
  OBVIOUS
<1>1. /\ over \in {"websocket", "http"} /\ reused \in BOOLEAN
      /\ pump = "none" /\ hand = << >> /\ chan = << >> /\ wire = << >>
      /\ pc = "opening" /\ taken = << >> /\ framed = 0 /\ late = FALSE
      /\ conn = "held" /\ status = "none" /\ gone = FALSE /\ closed = FALSE
  BY BoundsAssumption DEF Init
<1>2. << >> \in Seq(Event \union {Cut}) /\ Len(<< >>) = 0  BY EmptySeq
<1>3. Only(wire, Preamble)  BY <1>1, EmptyHas
<1>4. TypeOK
  <2>1. \A s \in {hand, chan, wire, taken} : s \in Seq(Event \union {Cut})
    BY <1>1, <1>2
  <2>2. Len(hand) = 0 /\ framed \in 0..Len(taken)  BY <1>1, <1>2
  <2>3. Len(hand) <= 1 /\ (Len(hand) = 1 <=> pump = "passing")  BY <1>1, <2>2
  <2>4. QED  BY <1>1, <2>1, <2>2, <2>3 DEF TypeOK
<1>5. OpeningInv /\ PlainInv /\ PumpInv  BY <1>1, <1>3 DEF OpeningInv, PlainInv, PumpInv
<1>6. ToldInv /\ JudgedInv  BY <1>1 DEF ToldInv, JudgedInv
<1>7. NothingLost /\ EndsHonestly /\ RefusalIsStatus
  BY <1>1 DEF NothingLost, EndsHonestly, RefusalIsStatus, Alive
<1>8. QED  BY <1>4, <1>5, <1>6, <1>7 DEF IInv

\* Every step keeps the invariant.
LEMMA InvStep == IInv /\ [Next]_vars => IInv'
<1> SUFFICES ASSUME IInv, [Next]_vars  PROVE IInv'
  OBVIOUS
<1>1. TypeOK'  BY TypeStep DEF IInv
<1>2. OpeningInv'  BY OpeningStep DEF IInv
<1>3. PlainInv'  BY PlainStep DEF IInv
<1>4. PumpInv'  BY PumpStep DEF IInv
<1>5. ToldInv'  BY ToldStep DEF IInv
<1>6. JudgedInv' /\ RefusalIsStatus'  BY JudgedStep DEF IInv
<1>7. NothingLost'  BY LostStep DEF IInv
<1>8. EndsHonestly'  BY HonestStep DEF IInv
<1>9. QED  BY <1>1, <1>2, <1>3, <1>4, <1>5, <1>6, <1>7, <1>8 DEF IInv

\* What holds of every state of a turn.
THEOREM StreamInv == Spec => []IInv
BY InvInit, InvStep, PTL DEF Spec

\* A connection handed back was quiet, from the pump's invariant.
LEMMA ParkedFromPump == IInv => ParkedIsQuiet
<1> SUFFICES ASSUME IInv, conn = "parked"  PROVE
      /\ wire # << >> /\ wire[Len(wire)] \in Clean
      /\ \A i \in 1..(Len(wire) - 1) : wire[i] \notin Terminal \union {Cut}
  BY DEF ParkedIsQuiet
<1>1. OnlyLast(wire) /\ wire # << >> /\ wire[Len(wire)] \in Clean
  BY DEF IInv, PumpInv
<1>2. QED  BY <1>1 DEF OnlyLast, Ends

\* Nothing the connection yields is lost between the opening, the pump and the
\* request, whatever the size of the channel and the length of the answer.
THEOREM NothingIsLost == Spec => []NothingLost
BY StreamInv, PTL DEF IInv

\* How the turn ended is told truly to the client, by the status and by the
\* stream's end, and to the session, by the connection handed back.
THEOREM EndIsTrue == Spec => []EndedTruly
<1>1. IInv => EndedTruly  BY ParkedFromPump DEF IInv, EndedTruly
<1>2. QED  BY <1>1, StreamInv, PTL
-----------------------------------------------------------------------------
(***************************************************************************)
(* A turn implements what SessionTurns takes it to be.                     *)
(***************************************************************************)

\* Stage, with its cases in order.
Staged ==
  IF pc = "opening" THEN IF gone THEN "done" ELSE "sending"
  ELSE IF over = "websocket" /\ conn = "held"
       THEN IF Ended = "no" THEN "streaming" ELSE "parking"
  ELSE IF ~Alive THEN "done"
  ELSE IF Ended = "completed" /\ (over = "http" \/ conn = "parked") THEN "closing"
  ELSE IF over = "http" /\ ~Has(taken, Ends) THEN "streaming"
  ELSE "done"

\* The cases of Stage exclude each other.
LEMMA StageIsStaged == Stage = Staged
<1>1. over = "http" /\ Ended = "completed" => Has(taken, Ends)
  BY DEF Ended, Has, Ends, Terminal
<1>2. CASE pc = "opening" /\ ~gone  BY <1>2 DEF Stage, Staged, Alive
<1>3. CASE pc = "opening" /\ gone  BY <1>3 DEF Stage, Staged, Alive
<1>4. CASE pc # "opening" /\ over = "websocket" /\ conn = "held"
  BY <1>4 DEF Stage, Staged
<1>5. CASE pc # "opening" /\ ~(over = "websocket" /\ conn = "held")
  <2>1. CASE ~Alive  BY <1>5, <2>1 DEF Stage, Staged
  <2>2. CASE Alive /\ Ended = "completed" /\ (over = "http" \/ conn = "parked")
    BY <1>1, <1>5, <2>2 DEF Stage, Staged, Ends
  <2>3. CASE Alive /\ ~(Ended = "completed" /\ (over = "http" \/ conn = "parked"))
    BY <1>5, <2>3 DEF Stage, Staged, Ends
  <2>4. QED  BY <2>1, <2>2, <2>3
<1>6. QED  BY <1>2, <1>3, <1>4, <1>5

\* The same of the state a step leads to.
LEMMA StageIsStagedNext == Stage' = Staged'
<1>1. (Stage = Staged)'  BY StageIsStaged, PTL
<1>2. QED  BY <1>1

\* A step of the pump: the turn is sent, and over a connection.
LEMMA PumpStages ==
  ASSUME IInv, pump # "none"
  PROVE  over = "websocket" /\ pc # "opening"
BY DEF IInv, TypeOK, OpeningInv, PlainInv

\* The opening of the connection is the turn being sent; a response that starts
\* is one that has ended already, or one that has not.
LEMMA OpeningRefines ==
  ASSUME IInv, OpeningEvent \/ OpeningClosed \/ OpeningFails \/ OpenHttp \/ OpenRefused
  PROVE  [Ending!Next]_(Ending!vars)
<1>0. OpeningInv /\ TypeOK  BY DEF IInv
<1>1. /\ pc = "opening" /\ ~gone /\ pump = "none" /\ conn = "held" /\ taken = << >>
      /\ closed' = closed /\ gone' = gone
  BY <1>0 DEF OpeningEvent, OpeningClosed, OpeningFails, OpenHttp, OpenRefused,
     OpeningInv
<1>2. ~Has(<< >>, Clean) /\ ~Has(<< >>, Ends)  BY EmptyHas
<1>3. Stage = "sending"  BY <1>1, StageIsStaged DEF Staged
<1>4. Ended = "no"  BY <1>1, <1>2 DEF Ended
<1>5. CASE (OpeningEvent \/ OpeningClosed) /\ pc' # "opening"
  <2>1. /\ over' = "websocket" /\ conn' = "held" /\ pc' # "opening"
    BY <1>1, <1>5 DEF OpeningEvent, OpeningClosed, HandOver, link
  <2>2. Ended' \in {"no", "completed", "unfinished"}  BY DEF Ended
  <2>3. Stage' = IF Ended' = "no" THEN "streaming" ELSE "parking"
    BY <2>1, StageIsStagedNext DEF Staged
  <2>4. CASE Ended' = "no"
    BY <1>1, <1>3, <1>4, <2>3, <2>4 DEF Ending!Next, Ending!Accept
  <2>5. CASE Ended' # "no"
    BY <1>1, <1>3, <2>2, <2>3, <2>5 DEF Ending!Next, Ending!Terminal
  <2>6. QED  BY <2>4, <2>5
<1>6. CASE OpeningFails \/ ((OpeningEvent \/ OpeningClosed) /\ pc' = "opening")
  <2>1. /\ pc' = "opening" /\ ~gone' /\ conn' = "held" /\ pump' = "none"
        /\ taken' = << >>
    BY <1>1, <1>6 DEF OpeningEvent, OpeningClosed, OpeningFails, HandOver, link, request
  <2>2. Stage' = "sending"  BY <2>1, StageIsStagedNext DEF Staged
  <2>3. Ended' = "no"  BY <1>2, <2>1 DEF Ended
  <2>4. QED  BY <1>1, <1>3, <1>4, <2>2, <2>3 DEF Ending!vars
<1>7. CASE OpenHttp
  <2>1. over' = "http" /\ pc' = "peeking" /\ ~gone' /\ taken' = << >>
    BY <1>1, <1>7 DEF OpenHttp, link
  <2>2. Ended' = "no"  BY <1>2, <2>1 DEF Ended
  <2>3. Stage' = "streaming"
    BY <1>2, <2>1, <2>2, StageIsStagedNext DEF Staged, Alive
  <2>4. QED  BY <1>1, <1>3, <1>4, <2>2, <2>3 DEF Ending!Next, Ending!Accept
<1>8. CASE OpenRefused
  <2>1. pc' = "over" /\ conn' = "dropped" /\ pump' = "none" /\ taken' = << >>
    BY <1>1, <1>8 DEF OpenRefused
  <2>2. Ended' = "no"  BY <1>2, <2>1 DEF Ended
  <2>3. Stage' = "done"  BY <2>1, StageIsStagedNext DEF Staged, Alive
  <2>4. QED  BY <1>1, <1>3, <1>4, <2>2, <2>3 DEF Ending!Next, Ending!Abandon
<1>9. QED  BY <1>5, <1>6, <1>7, <1>8

\* What the pump does: it abandons the turn, passes its end on, or parks.
LEMMA PumpRefines ==
  ASSUME IInv,
         PumpStarts \/ PumpReads \/ PumpNoticesGone \/ PumpPasses \/ PumpParks
  PROVE  [Ending!Next]_(Ending!vars)
<1>0. /\ TypeOK /\ PumpInv /\ wire \in Seq(Said)
      /\ Clean \subseteq Ends /\ Refusal \subseteq Ends
  BY TypeFacts DEF IInv, Ends, Terminal
<1>1. /\ over = "websocket" /\ pc # "opening" /\ conn = "held"
      /\ UNCHANGED <<over, pc, gone, closed>>
  BY <1>0, PumpStages DEF PumpStarts, PumpReads, PumpNoticesGone, PumpPasses,
     PumpParks, PumpInv, request
<1>2. Stage = IF Ended = "no" THEN "streaming" ELSE "parking"
  BY <1>1, StageIsStaged DEF Staged
<1>3. conn' = "held" => Stage' = IF Ended' = "no" THEN "streaming" ELSE "parking"
  BY <1>1, StageIsStagedNext DEF Staged
<1>4. ASSUME conn' = "dropped", pump' = "done"
      PROVE  Ended' = "no" /\ Stage' = "done"
  <2>1. Ended' = "no"  BY <1>1, <1>4 DEF Ended
  <2>2. QED  BY <1>1, <1>4, <2>1, StageIsStagedNext DEF Staged
<1>5. ASSUME Ended = "no", Ended' = "no", conn' = "held"
      PROVE  [Ending!Next]_(Ending!vars)
  BY <1>1, <1>2, <1>3, <1>5 DEF Ending!vars
<1>6. ASSUME Ended = "no", conn' = "dropped", pump' = "done"
      PROVE  [Ending!Next]_(Ending!vars)
  <2>1. Ended' = "no" /\ Stage' = "done"  BY <1>4, <1>6
  <2>2. QED  BY <1>1, <1>2, <1>6, <2>1 DEF Ending!Next, Ending!Abandon
<1>7. CASE PumpStarts
  <2>1. /\ pump = "start" /\ OnlyLast(wire) /\ wire' = wire
    BY <1>0, <1>7 DEF PumpStarts, PumpInv
  <2>2. CASE Has(wire, Refusal)
    <3>1. wire # << >>  BY <2>2, EmptyHas
    <3>2. wire[Len(wire)] \in Refusal  BY <1>0, <2>1, <2>2, <3>1, EndIsLast
    <3>3. ~Has(wire, Clean)
      BY <1>0, <2>1, <3>1, <3>2, EndIsLast DEF Refusal, Clean
    <3>4. Ended = "no"  BY <1>1, <3>3 DEF Ended
    <3>5. conn' = "dropped" /\ pump' = "done"  BY <1>7, <2>2 DEF PumpStarts, Stops
    <3>6. QED  BY <1>6, <3>4, <3>5
  <2>3. CASE ~Has(wire, Refusal) /\ Has(wire, Clean)
    <3>1. pump' = "parking" /\ conn' = "held"  BY <1>1, <1>7, <2>3 DEF PumpStarts
    <3>2. Ended' = Ended  BY <1>1, <2>1, <2>3, <3>1 DEF Ended
    <3>3. QED  BY <1>1, <1>2, <1>3, <3>1, <3>2 DEF Ending!vars
  <2>4. CASE ~Has(wire, Refusal) /\ ~Has(wire, Clean)
    <3>1. pump' = "reading" /\ conn' = "held"  BY <1>1, <1>7, <2>4 DEF PumpStarts
    <3>2. Ended = "no" /\ Ended' = "no"  BY <1>1, <2>1, <2>4, <3>1 DEF Ended
    <3>3. QED  BY <1>5, <3>1, <3>2
  <2>5. QED  BY <2>2, <2>3, <2>4
<1>8. CASE PumpReads
  <2>1. /\ pump = "reading" /\ pump' = "passing" /\ conn' = "held"
    BY <1>1, <1>8 DEF PumpReads
  <2>2. Ended = "no" /\ Ended' = "no"  BY <1>1, <2>1 DEF Ended
  <2>3. QED  BY <1>5, <2>1, <2>2
<1>9. CASE PumpNoticesGone
  <2>1. pump \in {"reading", "passing"} /\ pump' = "done" /\ conn' = "dropped"
    BY <1>9 DEF PumpNoticesGone, Stops
  <2>2. Ended = "no"  BY <1>1, <2>1 DEF Ended
  <2>3. QED  BY <1>6, <2>1, <2>2
<1>10. CASE PumpPasses
  <2>1. pump = "passing" /\ wire' = wire  BY <1>10 DEF PumpPasses
  <2>2. Ended = "no"  BY <1>1, <2>1 DEF Ended
  <2>3. CASE hand[1] \in Refusal \union {Cut}
    <3>1. conn' = "dropped" /\ pump' = "done"  BY <1>10, <2>3 DEF PumpPasses, Stops
    <3>2. QED  BY <1>6, <2>2, <3>1
  <2>4. CASE hand[1] \notin Refusal \union {Cut} /\ hand[1] \in Clean
    <3>1. conn' = "held" /\ pump' = "parking"  BY <1>1, <1>10, <2>4 DEF PumpPasses
    <3>2. hand[1] = wire[Len(wire)] /\ OnlyLast(wire) /\ wire # << >>
      BY <1>0, <2>1 DEF PumpInv
    <3>3. Has(wire, Clean)  BY <1>0, <2>4, <3>2, EndIsLast
    <3>4. Ended' \in {"completed", "unfinished"}
      BY <1>1, <2>1, <3>1, <3>3 DEF Ended
    <3>5. Stage' = "parking"  BY <1>3, <3>1, <3>4
    <3>6. QED  BY <1>1, <1>2, <2>2, <3>4, <3>5 DEF Ending!Next, Ending!Terminal
  <2>5. CASE hand[1] \notin Refusal \union {Cut} /\ hand[1] \notin Clean
    <3>1. conn' = "held" /\ pump' = "reading"  BY <1>1, <1>10, <2>5 DEF PumpPasses
    <3>2. Ended' = "no"  BY <1>1, <3>1 DEF Ended
    <3>3. QED  BY <1>5, <2>2, <3>1, <3>2
  <2>6. QED  BY <2>3, <2>4, <2>5
<1>11. CASE PumpParks
  <2>1. /\ pump = "parking" /\ wire' = wire /\ conn' = "parked"
        /\ wire[Len(wire)] \in Clean /\ OnlyLast(wire) /\ wire # << >>
    BY <1>0, <1>11 DEF PumpParks, Stops, PumpInv
  <2>2. Has(wire, Clean)  BY <1>0, <2>1, EndIsLast
  <2>3. Ended' = Ended /\ Ended # "no"  BY <1>1, <2>1, <2>2 DEF Ended
  <2>4. Stage' \in {"done"} \union IF Ended = "completed" THEN {"closing"} ELSE {}
    BY <1>1, <2>1, <2>3, StageIsStagedNext DEF Staged
  <2>5. QED  BY <1>1, <1>2, <2>3, <2>4 DEF Ending!Next, Ending!Park
<1>12. QED  BY <1>7, <1>8, <1>9, <1>10, <1>11

\* What the request reads: over HTTP the end of the turn is passed on with it.
LEMMA ReadingRefines ==
  ASSUME IInv, Peeking \/ Reading
  PROVE  [Ending!Next]_(Ending!vars)
<1>0. /\ TypeOK /\ PlainInv /\ wire \in Seq(Said) /\ taken \in Seq(Said)
      /\ Clean \subseteq Ends /\ {"completed"} \subseteq Ends
  BY TypeFacts DEF IInv, Ends, Terminal, Clean
<1>1. /\ pc \in {"peeking", "streaming"} /\ pc' \in {"peeking", "peeked", "streaming"}
      /\ ~gone /\ closed' = closed
  BY DEF Peeking, Reading
<1>2. PICK e \in Said : Take(e)  BY DEF Peeking, Reading, Said
<1>3. /\ taken' = Append(taken, e) /\ UNCHANGED <<over, pump, gone>>
      /\ over = "websocket" => UNCHANGED <<wire, conn>>
      /\ over # "websocket" => ~Has(wire, Ends) /\ wire' = Append(wire, e)
  BY <1>2, TakeFacts, <1>0
<1>4. CASE over = "websocket"
  <2>1. UNCHANGED <<over, pump, gone, wire, conn>>  BY <1>3, <1>4
  <2>2. Ended' = Ended  BY <1>4, <2>1 DEF Ended
  <2>3. Stage' = Stage
    BY <1>1, <1>4, <2>1, <2>2, StageIsStaged, StageIsStagedNext DEF Staged, Alive
  <2>4. QED  BY <1>1, <2>2, <2>3 DEF Ending!vars
<1>5. CASE over # "websocket"
  <2>1. over = "http" /\ over' = "http" /\ taken = wire
    BY <1>0, <1>3, <1>5 DEF TypeOK, PlainInv
  <2>2. ~Has(wire, Ends) /\ wire' = Append(wire, e) /\ taken' = Append(wire, e)
    BY <1>3, <1>5, <2>1
  <2>3. ~Has(wire, Clean) /\ ~Has(wire, {"completed"})
    BY <1>0, <2>2 DEF Has
  <2>4. Ended = "no" /\ Stage = "streaming"
    <3>1. Ended = "no"  BY <2>1, <2>3 DEF Ended
    <3>2. QED
      BY <1>1, <2>1, <2>2, <3>1, StageIsStaged DEF Staged, Alive
  <2>5. \A K : Has(Append(wire, e), K) <=> Has(wire, K) \/ e \in K
    BY <1>0, AppendHas
  <2>6. /\ Has(taken', Clean) <=> e \in Clean
        /\ Has(taken', Ends) <=> e \in Ends
    BY <2>2, <2>3, <2>5
  <2>7. Alive'  BY <1>1, <1>3 DEF Alive
  <2>8. Stage' = IF Ended' = "completed" THEN "closing"
                 ELSE IF e \notin Ends THEN "streaming" ELSE "done"
    BY <1>1, <2>1, <2>6, <2>7, StageIsStagedNext DEF Staged
  <2>9. CASE e \in Clean
    <3>1. Ended' \in {"completed", "unfinished"}  BY <2>1, <2>6, <2>9 DEF Ended
    <3>2. e \in Ends  BY <1>0, <2>9
    <3>3. QED  BY <1>1, <2>4, <2>8, <3>1, <3>2 DEF Ending!Next, Ending!Terminal
  <2>10. CASE e \notin Clean
    <3>1. Ended' = "no"  BY <2>1, <2>6, <2>10 DEF Ended
    <3>2. Stage' \in {"streaming", "done"}  BY <2>8, <3>1
    <3>3. QED
      BY <1>1, <2>4, <3>1, <3>2 DEF Ending!Next, Ending!Abandon, Ending!vars
  <2>11. QED  BY <2>9, <2>10
<1>6. QED  BY <1>4, <1>5

\* Where what was said of the turn does not change, the turn goes on as it was or
\* is done, once it is sent.
LEMMA QuietStages ==
  ASSUME IInv, pc # "opening", pc' # "opening",
         UNCHANGED <<over, wire, taken, pump>>,
         Alive' => Alive,
         over = "websocket" => conn' = conn
  PROVE  /\ Ended' = Ended
         /\ Stage' # Stage => Stage' = "done" /\ Stage \in {"closing", "streaming"}
<1>1. over \in {"websocket", "http"}  BY DEF IInv, TypeOK
<1>2. Ended' = Ended  BY <1>1 DEF Ended
<1>3. CASE over = "websocket" /\ conn = "held"
  BY <1>2, <1>3, StageIsStaged, StageIsStagedNext DEF Staged
<1>4. CASE ~(over = "websocket" /\ conn = "held")
  <2>1. ~(over' = "websocket" /\ conn' = "held")  BY <1>1, <1>4
  <2>2. CASE ~Alive'
    <3>1. Stage' = "done"  BY <2>1, <2>2, StageIsStagedNext DEF Staged
    <3>2. Stage \in {"done", "closing", "streaming"}
      BY <1>4, StageIsStaged DEF Staged
    <3>3. QED  BY <1>2, <3>1, <3>2
  <2>3. CASE Alive'
    <3>1. Alive  BY <2>3
    <3>2. over' = "http" \/ conn' = "parked" <=> over = "http" \/ conn = "parked"
      BY <1>1
    <3>3. Stage' = Stage
      BY <1>2, <1>4, <2>1, <2>3, <3>1, <3>2, StageIsStaged, StageIsStagedNext
         DEF Staged
    <3>4. QED  BY <1>2, <3>3
  <2>4. QED  BY <2>2, <2>3
<1>5. QED  BY <1>2, <1>3, <1>4

\* The rest of the request, and the client's leaving: the turn is closed where
\* its stream is over, and only where it is ready to be.
LEMMA RequestRefines ==
  ASSUME IInv, PeekEnds \/ Framing \/ StreamEnds \/ ClientLeaves
  PROVE  [Ending!Next]_(Ending!vars)
<1>0. TypeOK /\ OpeningInv /\ PlainInv /\ PumpInv /\ ToldInv /\ NothingLost
  BY DEF IInv
<1>1. UNCHANGED <<over, wire, taken, pump>> /\ (Alive' => Alive)
  BY DEF PeekEnds, Decide, Framing, StreamEnds, ClientLeaves, Alive, link, request
<1>2. CASE pc = "opening"
  <2>1. ClientLeaves  BY <1>2 DEF PeekEnds, Framing, StreamEnds
  <2>2. /\ ~gone /\ gone' /\ pc' = "opening" /\ pump = "none" /\ conn = "held"
        /\ conn' = "dropped" /\ taken = << >> /\ closed' = closed
    BY <1>0, <1>2, <2>1 DEF ClientLeaves, OpeningInv, request
  <2>3. ~Has(<< >>, Clean)  BY EmptyHas
  <2>4. Ended = "no" /\ Ended' = "no"  BY <1>1, <2>2, <2>3 DEF Ended
  <2>5. Stage = "sending" /\ Stage' = "done"
    BY <1>2, <2>2, StageIsStaged, StageIsStagedNext DEF Staged
  <2>6. QED  BY <2>2, <2>4, <2>5 DEF Ending!Next, Ending!Abandon
<1>3. CASE pc # "opening"
  <2>1. pc' # "opening"
    BY <1>3 DEF PeekEnds, Decide, Framing, StreamEnds, ClientLeaves, request
  <2>2. over = "websocket" => conn' = conn
    <3>1. CASE ClientLeaves
      <4>1. pc \in {"peeking", "peeked", "streaming"}
        BY <1>0, <1>3, <3>1 DEF ClientLeaves, TypeOK
      <4>2. QED  BY <1>0, <3>1, <4>1 DEF ClientLeaves, PumpInv
    <3>2. CASE ~ClientLeaves
      BY <3>2 DEF PeekEnds, Decide, Framing, StreamEnds, link
    <3>3. QED  BY <3>1, <3>2
  <2>3. /\ Ended' = Ended
        /\ Stage' # Stage => Stage' = "done" /\ Stage \in {"closing", "streaming"}
    BY <1>1, <1>3, <2>1, <2>2, QuietStages
  <2>4. CASE closed' = closed
    BY <2>3, <2>4 DEF Ending!Next, Ending!Leave, Ending!Abandon, Ending!vars
  <2>5. CASE closed' # closed
    <3>1. StreamEnds
      BY <2>5 DEF PeekEnds, Framing, ClientLeaves
    <3>2. /\ Alive /\ pc = "streaming" /\ StreamOver /\ pc' = "over"
          /\ closed' = Has(taken, {"completed"})
      BY <3>1 DEF StreamEnds, Alive
    <3>3. taken = wire  BY <1>0, <3>2, OverIsWhole
    <3>4. closed' = TRUE /\ Has(taken, {"completed"})
      BY <1>0, <2>5, <3>2 DEF ToldInv, TypeOK, Has
    <3>5. Has(wire, {"completed"}) /\ Has(wire, Clean)
      BY <3>3, <3>4 DEF Has, Clean
    <3>6. over = "http" \/ conn = "parked"
      <4>1. CASE over = "websocket"
        <5>1. pump = "done"  BY <3>2, <4>1 DEF StreamOver
        <5>2. conn # "held" /\ conn # "dropped"
          BY <1>0, <3>2, <3>5, <5>1 DEF PumpInv
        <5>3. QED  BY <1>0, <5>2 DEF TypeOK
      <4>2. QED  BY <1>0, <4>1 DEF TypeOK
    <3>7. Ended = "completed"  BY <3>3, <3>5, <3>6 DEF Ended
    <3>8. Stage = "closing"
      BY <1>3, <3>2, <3>6, <3>7, StageIsStaged DEF Staged
    <3>9. Stage' = "done"
      <4>1. ~Alive'  BY <3>2 DEF Alive
      <4>2. conn' = conn /\ over' = over  BY <3>1 DEF StreamEnds, link
      <4>3. ~(over' = "websocket" /\ conn' = "held")  BY <3>6, <4>2
      <4>4. QED  BY <2>1, <4>1, <4>3, StageIsStagedNext DEF Staged
    <3>10. QED  BY <2>3, <3>4, <3>8, <3>9 DEF Ending!Next, Ending!Close
  <2>6. QED  BY <2>4, <2>5
<1>4. QED  BY <1>2, <1>3

\* Every step of a turn is a step of TurnEnding, or leaves it where it is.
LEMMA RefineStep == IInv /\ [Next]_vars => [Ending!Next]_(Ending!vars)
<1> SUFFICES ASSUME IInv, [Next]_vars  PROVE [Ending!Next]_(Ending!vars)
  OBVIOUS
<1>1. CASE OpeningEvent \/ OpeningClosed \/ OpeningFails \/ OpenHttp \/ OpenRefused
  BY <1>1, OpeningRefines
<1>2. CASE PumpStarts \/ PumpReads \/ PumpNoticesGone \/ PumpPasses \/ PumpParks
  BY <1>2, PumpRefines
<1>3. CASE Peeking \/ Reading  BY <1>3, ReadingRefines
<1>4. CASE PeekEnds \/ Framing \/ StreamEnds \/ ClientLeaves
  BY <1>4, RequestRefines
<1>5. CASE UNCHANGED vars
  <2>1. UNCHANGED <<over, pump, wire, conn, pc, gone, taken, closed>>
    BY <1>5 DEF vars, link, request
  <2>2. Ended' = Ended  BY <2>1 DEF Ended
  <2>3. Staged' = Staged  BY <2>1, <2>2 DEF Staged, Alive
  <2>4. QED  BY <2>1, <2>2, <2>3, StageIsStaged, StageIsStagedNext DEF Ending!vars
<1>6. QED  BY <1>1, <1>2, <1>3, <1>4, <1>5 DEF Next, Finished

\* A turn starts where TurnEnding does.
LEMMA RefineInit == Init => Ending!Init
<1> SUFFICES ASSUME Init  PROVE Ending!Init
  OBVIOUS
<1>1. /\ pc = "opening" /\ ~gone /\ pump = "none" /\ conn = "held"
      /\ taken = << >> /\ closed = FALSE
  BY DEF Init
<1>2. Stage = "sending"  BY <1>1, StageIsStaged DEF Staged
<1>3. ~Has(<< >>, Clean)  BY EmptyHas
<1>4. Ended = "no"  BY <1>1, <1>3 DEF Ended
<1>5. QED  BY <1>1, <1>2, <1>4 DEF Ending!Init

\* The turn ends as SessionTurns takes it to, over either transport: it is closed
\* only after a clean end, and only once its connection is back in the session.
THEOREM TurnEndsAsTaken == Spec => EndsAsSessionTurnsTakesIt
BY RefineInit, RefineStep, StreamInv, PTL
   DEF Spec, EndsAsSessionTurnsTakesIt, Ending!Spec

-----------------------------------------------------------------------------
(* The frames of a message: what the translator has written and not yet read.  *)

\* Induction over the numbers, which is counting: were some number left out, to add
\* one would fit those below it into fewer.
LEMMA NatInduct ==
  ASSUME NEW S \in SUBSET Nat, 0 \in S, \A n \in S : n + 1 \in S
  PROVE  \A n \in Nat : n \in S
<1> SUFFICES ASSUME NEW m \in Nat, m \notin S
             PROVE  FALSE
  OBVIOUS
<1> DEFINE B == S \cap (0 .. m)
           f == [i \in B |-> i + 1]
<1>1. B \in SUBSET (0 .. m) /\ 0 \in B  OBVIOUS
<1>2. \A i \in B : i \in Nat /\ i + 1 \in B \ {0}
  <2> TAKE i \in B
  <2>1. i \in Nat /\ i \in S /\ i <= m /\ i # m  BY <1>1
  <2>2. i + 1 \in S /\ i + 1 <= m /\ i + 1 \in 0 .. m  BY <2>1
  <2>3. QED  BY <2>1, <2>2
<1> HIDE DEF B
<1>3. IsFiniteSet(0 .. m)  BY FS_Interval
<1>4. IsFiniteSet(B)  BY <1>1, <1>3, FS_Subset
<1>5. IsFiniteSet(B \ {0}) /\ Cardinality(B \ {0}) < Cardinality(B)
  <2>1. Cardinality(B) \in Nat  BY <1>4, FS_CardinalityType
  <2>2. IsFiniteSet(B \ {0}) /\ Cardinality(B \ {0}) = Cardinality(B) - 1
    BY <1>1, <1>4, FS_RemoveElement
  <2>3. QED  BY <2>1, <2>2
<1>6. f \in [B -> B \ {0}]  BY <1>2
<1>7. \E x, y \in B : x # y /\ f[x] = f[y]
  <2> HIDE DEF f
  <2>1. QED  BY <1>4, <1>5, <1>6, FS_PigeonHole
<1>8. QED  BY <1>2, <1>7

Filled == {"text", "thinking", "call"}          \* the blocks that deltas fill
Kinds  == Filled \union {"search", "result"}

\* How far the reader of a message is.
Places == [phase : {"idle", "begun", "ended", "over"}, open : Kinds \union {"none"},
           index : Nat, awaiting : BOOLEAN]

Frames ==
  [f : {"message_start", "message_stop", "error"}]
    \union [f : {"message_delta"}, reason : {"end_turn", "tool_use", "max_tokens"}]
    \union [f : {"block_start"}, i : Nat, kind : Kinds, of : Items \union {NoItem},
            list : Seq(Urls)]
    \union [f : {"delta"}, i : Nat, kind : Filled, n : Nat]
    \union [f : {"block_stop"}, i : Nat]

\* Such a place, field by field.
At(p, phase, open, index, awaiting) ==
  p.phase = phase /\ p.open = open /\ p.index = index /\ p.awaiting = awaiting

\* A frame takes a reader from one place to another, as MessageProtocol has it.
Takes(p, fr, q) ==
  \/ /\ fr.f = "message_start" /\ p.phase = "idle"
     /\ At(q, "begun", p.open, p.index, FALSE)
  \/ /\ fr.f = "block_start" /\ p.phase = "begun" /\ p.open = "none" /\ fr.i = p.index
     /\ (fr.kind = "result") <=> p.awaiting
     /\ At(q, "begun", fr.kind, p.index, FALSE)
  \/ /\ fr.f = "delta" /\ p.phase = "begun" /\ p.open = fr.kind /\ fr.i = p.index
     /\ At(q, "begun", p.open, p.index, FALSE)
  \/ /\ fr.f = "block_stop" /\ p.phase = "begun" /\ p.open # "none" /\ fr.i = p.index
     /\ At(q, "begun", "none", p.index + 1, p.open = "search")
  \/ /\ fr.f = "message_delta" /\ p.phase = "begun" /\ p.open = "none" /\ ~p.awaiting
     /\ At(q, "ended", p.open, p.index, FALSE)
  \/ /\ fr.f = "message_stop" /\ p.phase = "ended"
     /\ At(q, "over", p.open, p.index, FALSE)
  \/ /\ fr.f = "error" /\ p.phase \in {"idle", "begun"}
     /\ At(q, "over", p.open, p.index, FALSE)

\* Frames that take a reader, one after another, from one place to another.
Run(p, out, q) ==
  \E path \in [0 .. Len(out) -> Places] :
    /\ path[0] = p /\ path[Len(out)] = q
    /\ \A k \in 1 .. Len(out) : Takes(path[k - 1], out[k], path[k])

\* No frames lead nowhere else.
LEMMA RunEmpty ==
  /\ \A p \in Places : Run(p, << >>, p)
  /\ \A p, q : Run(p, << >>, q) => p = q
<1>1. ASSUME NEW p \in Places
      PROVE  Run(p, << >>, p)
  <2> DEFINE path == [k \in 0 .. 0 |-> p]
  <2>1. path \in [0 .. 0 -> Places] /\ path[0] = p  OBVIOUS
  <2> HIDE DEF path
  <2>2. Len(<< >>) = 0 /\ \A k \in 1 .. 0 : FALSE  OBVIOUS
  <2>3. QED  BY <2>1, <2>2 DEF Run
<1>2. ASSUME NEW p, NEW q, Run(p, << >>, q)
      PROVE  p = q
  <2>1. Len(<< >>) = 0  OBVIOUS
  <2>2. QED  BY <1>2, <2>1 DEF Run
<1>3. QED  BY <1>1, <1>2

\* One more frame.
LEMMA RunOneMore ==
  ASSUME NEW p, NEW q, NEW r \in Places, NEW out \in Seq(Frames), NEW fr \in Frames,
         Run(p, out, q), Takes(q, fr, r)
  PROVE  /\ Run(p, out \o <<fr>>, r)
         /\ out \o <<fr>> \in Seq(Frames)
<1> DEFINE w == out \o <<fr>>
<1>1. /\ Len(out) \in Nat /\ w \in Seq(Frames) /\ Len(w) = Len(out) + 1
      /\ \A k \in 1 .. Len(out) : w[k] = out[k]
      /\ w[Len(out) + 1] = fr
  <2>1. <<fr>> \in Seq(Frames) /\ Len(<<fr>>) = 1 /\ <<fr>>[1] = fr  OBVIOUS
  <2>2. QED  BY <2>1, ConcatProperties, LenProperties
<1> HIDE DEF w
<1>2. PICK path \in [0 .. Len(out) -> Places] :
        /\ path[0] = p /\ path[Len(out)] = q
        /\ \A k \in 1 .. Len(out) : Takes(path[k - 1], out[k], path[k])
  BY DEF Run
<1> DEFINE longer == [k \in 0 .. Len(w) |-> IF k = Len(out) + 1 THEN r ELSE path[k]]
<1>3. /\ longer \in [0 .. Len(w) -> Places]
      /\ \A k \in 0 .. Len(out) : longer[k] = path[k]
      /\ longer[Len(w)] = r
  BY <1>1, <1>2
<1> HIDE DEF longer
<1>4. ASSUME NEW k \in 1 .. Len(w)
      PROVE  Takes(longer[k - 1], w[k], longer[k])
  <2>1. CASE k = Len(out) + 1
    <3>1. longer[k - 1] = q /\ w[k] = fr /\ longer[k] = r  BY <1>1, <1>2, <1>3, <2>1
    <3>2. QED  BY <3>1
  <2>2. CASE k # Len(out) + 1
    <3>1. k \in 1 .. Len(out) /\ k - 1 \in 0 .. Len(out) /\ k \in 0 .. Len(out)
      BY <1>1, <2>2
    <3>2. longer[k - 1] = path[k - 1] /\ w[k] = out[k] /\ longer[k] = path[k]
      BY <1>1, <1>3, <3>1
    <3>3. QED  BY <1>2, <3>1, <3>2
  <2>3. QED  BY <2>1, <2>2
<1>5. longer[0] = p  BY <1>1, <1>2, <1>3
<1>6. Run(p, w, r)  BY <1>3, <1>4, <1>5 DEF Run
<1>7. QED  BY <1>1, <1>6 DEF w

\* The first frame, and the rest.
LEMMA RunFirst ==
  ASSUME NEW p, NEW q, NEW out \in Seq(Frames), out # << >>, Run(p, out, q)
  PROVE  \E r \in Places : Takes(p, Head(out), r) /\ Run(r, Tail(out), q)
<1> DEFINE n == Len(out)
<1>1. /\ n \in Nat \ {0} /\ Head(out) = out[1]
      /\ Tail(out) \in Seq(Frames) /\ Len(Tail(out)) = n - 1
      /\ \A k \in 1 .. n - 1 : Tail(out)[k] = out[k + 1]
  BY HeadTailProperties, EmptySeq, LenProperties
<1>2. PICK path \in [0 .. n -> Places] :
        /\ path[0] = p /\ path[n] = q
        /\ \A k \in 1 .. n : Takes(path[k - 1], out[k], path[k])
  BY DEF Run
<1> DEFINE rest == [k \in 0 .. n - 1 |-> path[k + 1]]
<1> HIDE DEF n
<1>3. /\ rest \in [0 .. n - 1 -> Places] /\ rest[0] = path[1] /\ rest[n - 1] = q
      /\ \A k \in 0 .. n - 1 : rest[k] = path[k + 1]
  BY <1>1, <1>2
<1> HIDE DEF rest
<1>4. path[1] \in Places /\ Takes(p, Head(out), path[1])
  <2>1. 1 \in 1 .. n /\ 1 \in 0 .. n /\ 1 - 1 = 0  BY <1>1
  <2>2. Takes(path[1 - 1], out[1], path[1])  BY <1>2, <2>1
  <2>3. QED  BY <1>1, <1>2, <2>1, <2>2
<1>5. ASSUME NEW k \in 1 .. n - 1
      PROVE  Takes(rest[k - 1], Tail(out)[k], rest[k])
  <2>1. /\ k + 1 \in 1 .. n /\ k - 1 \in 0 .. n - 1 /\ k \in 0 .. n - 1
        /\ (k - 1) + 1 = k /\ (k + 1) - 1 = k
    BY <1>1
  <2>2. Takes(path[(k + 1) - 1], out[k + 1], path[k + 1])  BY <1>2, <2>1
  <2>3. rest[k - 1] = path[k] /\ rest[k] = path[k + 1] /\ Tail(out)[k] = out[k + 1]
    BY <1>1, <1>3, <2>1
  <2>4. QED  BY <2>1, <2>2, <2>3
<1>6. Run(path[1], Tail(out), q)  BY <1>1, <1>3, <1>5 DEF Run
<1>7. QED  BY <1>4, <1>6

-----------------------------------------------------------------------------
(* The translator. *)

Opens == [kind : {"none", "text", "thinking", "call"}, call : Calls \union {NoItem},
          streamed : BOOLEAN]
Waits == [call : Calls, streamed : Nat, completed : BOOLEAN]

Translators ==
  [started : BOOLEAN, finished : BOOLEAN, open : Opens, next : Nat, sawCall : BOOLEAN,
   emitted : SUBSET Calls, pending : Seq(Waits),
   stop : {"end_turn", "tool_use", "max_tokens"},
   searches : Seq(Searches), sources : Seq(Urls), out : Seq(Frames)]

\* Where a reader of all it wrote is.
Stands(t) == [phase |-> IF t.started THEN "begun" ELSE "idle", open |-> t.open.kind,
              index |-> t.next, awaiting |-> FALSE]

\* What it has written takes a reader from p to where it stands; nothing is open or
\* waits before the message has begun.
Reached(p, fin, t) ==
  /\ t \in Translators /\ t.finished = fin
  /\ t.open.kind # "none" \/ t.pending # << >> => t.started
  /\ Run(p, t.out, Stands(t))

\* Where the translator stands is a place.
LEMMA StandsType == \A t \in Translators : Stands(t) \in Places
BY DEF Stands, Translators, Opens, Places, Kinds, Filled

\* A step that writes nothing, and leaves the reader where it is.
LEMMA Silent ==
  ASSUME NEW p, NEW fin, NEW t, NEW u \in Translators, Reached(p, fin, t),
         u.out = t.out, u.open.kind = t.open.kind, u.next = t.next,
         u.started = t.started, u.pending # << >> => u.started, u.finished = fin
  PROVE  Reached(p, fin, u)
BY DEF Reached, Stands, Translators

\* A step that writes one frame.
LEMMA Says ==
  ASSUME NEW p, NEW fin, NEW t, NEW u \in Translators, NEW fr \in Frames, Reached(p, fin, t),
         u.out = t.out \o <<fr>>, Takes(Stands(t), fr, Stands(u)), u.started,
         u.finished = fin
  PROVE  Reached(p, fin, u)
<1>1. t.out \in Seq(Frames) /\ Run(p, t.out, Stands(t))  BY DEF Reached, Translators
<1>2. Stands(u) \in Places  BY StandsType
<1>3. Run(p, t.out \o <<fr>>, Stands(u))  BY ONLY <1>1, <1>2, fr \in Frames,
        Takes(Stands(t), fr, Stands(u)), RunOneMore
<1>4. QED  BY <1>3 DEF Reached

\* The message is begun once.
LEMMA StartMessageReaches ==
  ASSUME NEW p, NEW fin, NEW t, Reached(p, fin, t)
  PROVE  /\ Reached(p, fin, StartMessage(t)) /\ StartMessage(t).started
         /\ StartMessage(t).open = t.open /\ StartMessage(t).pending = t.pending
         /\ StartMessage(t).finished = t.finished
<1> DEFINE u == StartMessage(t)
           fr == [f |-> "message_start"]
<1>1. t \in Translators  BY DEF Reached
<1>2. CASE t.started  BY <1>2 DEF StartMessage
<1>3. CASE ~t.started
  <2>1. u = [[t EXCEPT !.started = TRUE] EXCEPT !.out = t.out \o <<fr>>]
    BY <1>1, <1>3 DEF StartMessage, Emit, Translators
  <2>2. fr \in Frames  BY DEF Frames
  <2>3. t.out \in Seq(Frames) /\ t.out \o <<fr>> \in Seq(Frames)
    BY <1>1, <2>2, ConcatProperties DEF Translators
  <2> HIDE DEF u, fr
  <2>4. /\ u \in Translators
        /\ u.out = t.out \o <<fr>> /\ u.started /\ u.open = t.open
        /\ u.pending = t.pending /\ u.finished = t.finished /\ u.next = t.next
    BY <1>1, <2>1, <2>3 DEF Translators
  <2>5. Takes(Stands(t), fr, Stands(u))
    <3>1. fr.f = "message_start"  BY DEF fr
    <3>2. Stands(t).phase = "idle"  BY <1>3 DEF Stands
    <3>3. At(Stands(u), "begun", Stands(t).open, Stands(t).index, FALSE)
      BY <2>4 DEF Stands, At
    <3>4. QED  BY <3>1, <3>2, <3>3 DEF Takes
  <2>6. Reached(p, fin, u)
    <3>1. t.finished = fin  BY DEF Reached
    <3>2. QED  BY <3>1, <2>2, <2>4, <2>5, Says
  <2>7. QED  BY <2>4, <2>6 DEF u
<1>4. QED  BY <1>2, <1>3

\* A block that is open is closed.
LEMMA CloseBlockReaches ==
  ASSUME NEW p, NEW fin, NEW t, Reached(p, fin, t)
  PROVE  /\ Reached(p, fin, CloseBlock(t)) /\ CloseBlock(t).open.kind = "none"
         /\ CloseBlock(t).started = t.started /\ CloseBlock(t).pending = t.pending
         /\ CloseBlock(t).searches = t.searches /\ CloseBlock(t).sources = t.sources
<1> DEFINE u == CloseBlock(t)
           fr == BlockStop(t.next)
<1>1. t \in Translators /\ (t.open.kind # "none" => t.started)  BY DEF Reached
<1>2. CASE t.open.kind = "none"  BY <1>2 DEF CloseBlock
<1>3. CASE t.open.kind # "none"
  <2>1. u = [[t EXCEPT !.out = t.out \o <<fr>>] EXCEPT !.next = @ + 1, !.open = NoBlock]
    BY <1>1, <1>3 DEF CloseBlock, Emit
  <2>2. fr \in Frames  BY <1>1 DEF Frames, BlockStop, Translators
  <2>3. t.out \in Seq(Frames) /\ t.out \o <<fr>> \in Seq(Frames) /\ NoBlock \in Opens
    BY <1>1, <2>2, ConcatProperties DEF Translators, NoBlock, Opens
  <2> HIDE DEF u, fr
  <2>4. /\ u \in Translators
        /\ u.out = t.out \o <<fr>> /\ u.started = t.started /\ u.open = NoBlock
        /\ u.finished = t.finished /\ u.pending = t.pending /\ u.next = t.next + 1
        /\ u.searches = t.searches /\ u.sources = t.sources
    <3> DEFINE v == [t EXCEPT !.out = t.out \o <<fr>>]
    <3>1. /\ v \in Translators
          /\ v.out = t.out \o <<fr>> /\ v.started = t.started
          /\ v.finished = t.finished /\ v.pending = t.pending /\ v.next = t.next
          /\ v.searches = t.searches /\ v.sources = t.sources
      BY <1>1, <2>3 DEF Translators
    <3>2. u = [v EXCEPT !.next = @ + 1, !.open = NoBlock]  BY <2>1
    <3> HIDE DEF v
    <3>3. v.next + 1 \in Nat  BY <3>1 DEF Translators
    <3>4. u \in Translators
      <4> DEFINE m == v.next + 1
                 x == [v EXCEPT !.next = m]
      <4>1. m \in Nat  BY <3>3
      <4>2. u = [x EXCEPT !.open = NoBlock]  BY ONLY <3>1, <3>2 DEF Translators
      <4> HIDE DEF m
      <4>3. x \in Translators  BY ONLY <3>1, <4>1 DEF Translators
      <4> HIDE DEF x
      <4>4. NoBlock \in Opens  BY <2>3
      <4>5. QED  BY ONLY <4>2, <4>3, <4>4 DEF Translators
    <3>5. u.next = v.next + 1 /\ u.open = NoBlock
      BY ONLY <3>1, <3>2 DEF Translators
    <3>6. u.out = v.out /\ u.started = v.started /\ u.pending = v.pending
      BY ONLY <3>1, <3>2 DEF Translators
    <3>7. u.searches = v.searches /\ u.sources = v.sources /\ u.finished = v.finished
      BY ONLY <3>1, <3>2 DEF Translators
    <3>8. QED  BY ONLY <3>1, <3>4, <3>5, <3>6, <3>7
  <2>5. u.open.kind = "none"  BY <2>4 DEF NoBlock
  <2>6. Takes(Stands(t), fr, Stands(u))
    <3>1. fr.f = "block_stop" /\ fr.i = t.next  BY DEF fr, BlockStop
    <3>2. /\ Stands(t).phase = "begun" /\ Stands(t).open = t.open.kind
          /\ Stands(t).index = t.next
      BY <1>1, <1>3 DEF Stands
    <3>3. t.open.kind # "search"  BY <1>1 DEF Translators, Opens
    <3>4. At(Stands(u), "begun", "none", Stands(t).index + 1, Stands(t).open = "search")
      BY <1>1, <1>3, <2>4, <2>5, <3>2, <3>3 DEF Stands, At
    <3>5. QED  BY <1>3, <3>1, <3>2, <3>4 DEF Takes
  <2>7. Reached(p, fin, u)
    <3>1. t.finished = fin  BY DEF Reached
    <3>2. QED  BY <3>1, <1>1, <1>3, <2>2, <2>4, <2>6, Says
  <2>8. QED  BY <2>4, <2>5, <2>7 DEF u
<1>4. QED  BY <1>2, <1>3

\* A delta is written into the block that is open, of its kind.
LEMMA PushDeltaReaches ==
  ASSUME NEW p, NEW fin, NEW t, Reached(p, fin, t), NEW kind \in Filled, t.open.kind = kind, NEW n \in Nat
  PROVE  /\ Reached(p, fin, PushDelta(t, kind, n)) /\ PushDelta(t, kind, n).open = t.open
         /\ PushDelta(t, kind, n).started
<1> DEFINE u == PushDelta(t, kind, n)
           fr == [f |-> "delta", i |-> t.next, kind |-> kind, n |-> n]
<1>1. t \in Translators /\ t.started  BY DEF Reached, Filled
<1>2. u = [t EXCEPT !.out = t.out \o <<fr>>]  BY <1>1 DEF PushDelta, Emit
<1>3. fr \in Frames  BY <1>1 DEF Frames, Translators
<1>4. t.out \in Seq(Frames) /\ t.out \o <<fr>> \in Seq(Frames)
  BY <1>1, <1>3, ConcatProperties DEF Translators
<1> HIDE DEF u, fr
<1>5. /\ u \in Translators
      /\ u.out = t.out \o <<fr>> /\ u.started /\ u.open = t.open /\ u.next = t.next
      /\ u.finished = t.finished
  BY <1>1, <1>2, <1>4 DEF Translators
<1>6. Takes(Stands(t), fr, Stands(u))
  <2>1. fr.f = "delta" /\ fr.i = t.next /\ fr.kind = t.open.kind  BY DEF fr
  <2>2. /\ Stands(t).phase = "begun" /\ Stands(t).open = t.open.kind
        /\ Stands(t).index = t.next
    BY <1>1 DEF Stands
  <2>3. At(Stands(u), "begun", Stands(t).open, Stands(t).index, FALSE)
    BY <1>1, <1>5 DEF Stands, At
  <2>4. QED  BY <2>1, <2>2, <2>3 DEF Takes
<1>7. Reached(p, fin, u)
  <2>1. t.finished = fin  BY DEF Reached
  <2>2. QED  BY <2>1, <1>3, <1>5, <1>6, Says
<1>8. QED  BY <1>5, <1>7 DEF u

\* A block that opens, when none is open.
LEMMA BlockOpens ==
  ASSUME NEW p, NEW fin, NEW t, NEW u \in Translators, NEW fr \in Frames, Reached(p, fin, t),
         t.started, t.open.kind = "none",
         fr.f = "block_start", fr.i = t.next, fr.kind # "result",
         u.out = t.out \o <<fr>>, u.open.kind = fr.kind, u.next = t.next, u.started,
         u.finished = fin
  PROVE  Reached(p, fin, u)
<1>1. /\ Stands(t).phase = "begun" /\ Stands(t).open = "none"
      /\ Stands(t).index = t.next /\ Stands(t).awaiting = FALSE
  BY DEF Stands
<1>2. At(Stands(u), "begun", fr.kind, Stands(t).index, FALSE)
  BY <1>1 DEF Stands, At
<1>3. Takes(Stands(t), fr, Stands(u))  BY <1>1, <1>2 DEF Takes
<1>4. QED  BY <1>3, Says

\* A block of text or of thinking is open.
LEMMA OpenBlockReaches ==
  ASSUME NEW p, NEW fin, NEW t, Reached(p, fin, t), NEW kind \in {"text", "thinking"}
  PROVE  Reached(p, fin, OpenBlock(t, kind)) /\ OpenBlock(t, kind).open.kind = kind
<1> DEFINE u == CloseBlock(StartMessage(t))
           fr == BlockStart(u.next, kind, NoItem, << >>)
           b == [NoBlock EXCEPT !.kind = kind]
           w == [[u EXCEPT !.out = u.out \o <<fr>>] EXCEPT !.open = b]
<1>1. CASE t.open.kind = kind  BY <1>1 DEF OpenBlock
<1>2. CASE t.open.kind # kind
  <2>1. OpenBlock(t, kind) = w  BY <1>2 DEF OpenBlock, Emit
  <2>2. Reached(p, fin, u) /\ u.open.kind = "none" /\ u.started
    BY StartMessageReaches, CloseBlockReaches
  <2>3. b \in Opens /\ b.kind = kind  BY DEF NoBlock, Opens
  <2> HIDE DEF u, b
  <2>4. u \in Translators  BY <2>2 DEF Reached
  <2>5. fr \in Frames /\ fr.f = "block_start" /\ fr.i = u.next /\ fr.kind = kind
    BY <2>4, EmptySeq DEF Translators, Frames, BlockStart, Kinds, Filled
  <2> HIDE DEF fr
  <2>6. u.out \in Seq(Frames) /\ u.out \o <<fr>> \in Seq(Frames)
    BY <2>4, <2>5, ConcatProperties DEF Translators
  <2>7. /\ w \in Translators /\ w.out = u.out \o <<fr>> /\ w.open = b
        /\ w.next = u.next /\ w.started = u.started /\ w.finished = u.finished
    BY <2>3, <2>4, <2>6 DEF Translators
  <2> HIDE DEF w
  <2>8. Reached(p, fin, w)
    <3>1. u.finished = fin  BY <2>2 DEF Reached
    <3>2. QED  BY <3>1, <2>2, <2>3, <2>5, <2>7, BlockOpens
  <2>9. QED  BY <2>1, <2>3, <2>7, <2>8
<1>3. QED  BY <1>1, <1>2

\* A call's block is opened, whatever was open.
LEMMA OpenToolUseReaches ==
  ASSUME NEW p, NEW fin, NEW t, Reached(p, fin, t), t.started, NEW c \in Calls
  PROVE  /\ Reached(p, fin, OpenToolUse(t, c)) /\ OpenToolUse(t, c).started
         /\ OpenToolUse(t, c).open.kind = "call"
         /\ OpenToolUse(t, c).open \in Opens
<1> DEFINE u == CloseBlock(t)
           fr == BlockStart(u.next, "call", c, << >>)
           b == [kind |-> "call", call |-> c, streamed |-> FALSE]
           x == [u EXCEPT !.out = u.out \o <<fr>>]
           y == [x EXCEPT !.sawCall = TRUE]
           z == [y EXCEPT !.emitted = @ \union {c}]
           w == [z EXCEPT !.open = b]
<1>1. OpenToolUse(t, c) = w  BY DEF OpenToolUse, Emit
<1>2. Reached(p, fin, u) /\ u.open.kind = "none" /\ u.started  BY CloseBlockReaches
<1>3. b \in Opens /\ b.kind = "call"  BY DEF Opens
<1> HIDE DEF u, b
<1>4. u \in Translators  BY <1>2 DEF Reached
<1>5. fr \in Frames /\ fr.f = "block_start" /\ fr.i = u.next /\ fr.kind = "call"
  BY <1>4, EmptySeq DEF Translators, Frames, BlockStart, Kinds, Filled, Items
<1> HIDE DEF fr
<1>6. u.out \in Seq(Frames) /\ u.out \o <<fr>> \in Seq(Frames)
  BY <1>4, <1>5, ConcatProperties DEF Translators
<1>7. /\ x \in Translators /\ x.out = u.out \o <<fr>> /\ x.next = u.next
      /\ x.started = u.started /\ x.finished = u.finished
  BY <1>4, <1>6 DEF Translators
<1> HIDE DEF x
<1>8. /\ y \in Translators /\ y.out = x.out /\ y.next = x.next /\ y.started = x.started
      /\ y.finished = x.finished
  BY <1>7 DEF Translators
<1> HIDE DEF y
<1>9. /\ z \in Translators /\ z.out = y.out /\ z.next = y.next /\ z.started = y.started
      /\ z.finished = y.finished
  BY <1>8 DEF Translators
<1> HIDE DEF z
<1>10. /\ w \in Translators /\ w.out = z.out /\ w.next = z.next /\ w.started = z.started
       /\ w.open = b /\ w.finished = z.finished
  BY <1>3, <1>9 DEF Translators
<1> HIDE DEF w
<1>11. /\ w.out = u.out \o <<fr>> /\ w.next = u.next /\ w.started /\ w.open = b
       /\ w.finished = u.finished
  BY <1>2, <1>7, <1>8, <1>9, <1>10
<1>12. Reached(p, fin, w)
  <2>1. u.finished = fin  BY <1>2 DEF Reached
  <2>2. QED  BY <2>1, <1>2, <1>3, <1>5, <1>10, <1>11, BlockOpens
<1>13. QED  BY <1>1, <1>3, <1>11, <1>12

\* What is open has now streamed something.
LEMMA MarksStreamed ==
  ASSUME NEW p, NEW fin, NEW t, Reached(p, fin, t)
  PROVE  /\ Reached(p, fin, [t EXCEPT !.open.streamed = TRUE])
         /\ [t EXCEPT !.open.streamed = TRUE].open.kind = t.open.kind
<1> DEFINE b == [t.open EXCEPT !.streamed = TRUE]
           u == [t EXCEPT !.open = b]
<1>1. [t EXCEPT !.open.streamed = TRUE] = u  OBVIOUS
<1>2. t \in Translators  BY DEF Reached
<1>3. b \in Opens /\ b.kind = t.open.kind  BY <1>2 DEF Translators, Opens
<1> HIDE DEF b
<1>4. /\ u \in Translators /\ u.out = t.out /\ u.open = b /\ u.next = t.next
      /\ u.started = t.started /\ u.pending = t.pending /\ u.finished = t.finished
  BY <1>2, <1>3 DEF Translators
<1> HIDE DEF u
<1>5. Reached(p, fin, u)  BY <1>3, <1>4, Silent DEF Reached
<1>6. QED  BY <1>1, <1>3, <1>4, <1>5

\* The call that waited longest is opened; the last time, or when it has all it
\* needs, it is closed too.
LEMMA DrainOneReaches ==
  ASSUME NEW p, NEW fin, NEW t, Reached(p, fin, t), t.started, NEW closing \in BOOLEAN
  PROVE  /\ Reached(p, fin, DrainOne(t, closing)) /\ DrainOne(t, closing).started
         /\ closing /\ t.open.kind = "none" => DrainOne(t, closing).open.kind = "none"
<1>1. CASE t.open.kind = "call" \/ t.pending = << >>
  <2>1. DrainOne(t, closing) = t  BY <1>1 DEF DrainOne
  <2>2. QED  BY <2>1
<1>2. CASE ~(t.open.kind = "call" \/ t.pending = << >>)
  <2> DEFINE w == Head(t.pending)
             rest == [t EXCEPT !.pending = Tail(@)]
             opened == OpenToolUse(rest, w.call)
             n == IF w.streamed = 0 /\ w.completed THEN Size ELSE w.streamed
             written == IF n = 0 THEN opened
                        ELSE PushDelta([opened EXCEPT !.open.streamed = TRUE], "call", n)
  <2>1. DrainOne(t, closing) = IF w.completed \/ closing THEN CloseBlock(written) ELSE written
    BY <1>2 DEF DrainOne
  <2>2. t \in Translators  BY DEF Reached
  <2>3. t.pending \in Seq(Waits) /\ t.pending # << >>  BY <1>2, <2>2 DEF Translators
  <2>4. w \in Waits /\ Tail(t.pending) \in Seq(Waits)  BY <2>3, HeadTailProperties
  <2>5. /\ rest \in Translators /\ rest.out = t.out /\ rest.open = t.open
        /\ rest.next = t.next /\ rest.started = t.started /\ rest.finished = t.finished
    BY <2>2, <2>4 DEF Translators
  <2> HIDE DEF w, rest
  <2>6. Reached(p, fin, rest) /\ rest.started
    <3>1. t.finished = fin  BY DEF Reached
    <3>2. QED  BY <3>1, <2>5, Silent
  <2>7. w.call \in Calls /\ n \in Nat  BY <2>4, SizeAssumption DEF Waits
  <2>8. Reached(p, fin, opened) /\ opened.started /\ opened.open.kind = "call"
    BY <2>6, <2>7, OpenToolUseReaches
  <2> HIDE DEF opened, n
  <2>9. Reached(p, fin, written) /\ written.started
    <3> DEFINE v == [opened EXCEPT !.open.streamed = TRUE]
    <3>1. Reached(p, fin, v) /\ v.open.kind = "call"  BY <2>8, MarksStreamed
    <3> HIDE DEF v
    <3>2. Reached(p, fin, PushDelta(v, "call", n)) /\ PushDelta(v, "call", n).started
      BY <2>7, <3>1, PushDeltaReaches DEF Filled
    <3>3. QED  BY <2>8, <3>2 DEF v
  <2> HIDE DEF written
  <2>10. /\ Reached(p, fin, CloseBlock(written)) /\ CloseBlock(written).started
         /\ CloseBlock(written).open.kind = "none"
    BY <2>9, CloseBlockReaches
  <2>11. QED  BY <2>1, <2>9, <2>10
<1>3. QED  BY <1>1, <1>2

\* Steps taken one after another within a set.
Iterable(N, T, t, step) ==
  N \in Nat /\ t \in T /\ \A k \in 1 .. N, u \in T : step[k][u] \in T

Iterated(N, T, t, step, g) ==
  /\ g \in [0 .. N -> T] /\ g[0] = t
  /\ \A k \in 1 .. N : g[k] = step[k][g[k - 1]]

\* As many steps as there are can be taken.
LEMMA Iterates ==
  \A N, T, t, step : Iterable(N, T, t, step) => \E g : Iterated(N, T, t, step, g)
<1> SUFFICES ASSUME NEW N, NEW T, NEW t, NEW step, Iterable(N, T, t, step)
             PROVE  \E g : Iterated(N, T, t, step, g)
  OBVIOUS
<1> USE DEF Iterable
<1> DEFINE Steps(g, n) == /\ g \in [0 .. n -> T] /\ g[0] = t
                          /\ \A k \in 1 .. n : g[k] = step[k][g[k - 1]]
           M == {n \in Nat : n <= N => \E g : Steps(g, n)}
<1>1. 0 \in M
  <2> DEFINE g == [k \in 0 .. 0 |-> t]
  <2>1. Steps(g, 0)  OBVIOUS
  <2>2. QED  BY <2>1
<1>2. ASSUME NEW n \in M
      PROVE  n + 1 \in M
  <2> SUFFICES ASSUME n + 1 <= N
               PROVE  \E g : Steps(g, n + 1)
    OBVIOUS
  <2>1. PICK g : Steps(g, n)  OBVIOUS
  <2> DEFINE h == [k \in 0 .. n + 1 |-> IF k = n + 1 THEN step[n + 1][g[n]] ELSE g[k]]
  <2>2. n \in Nat /\ n \in 0 .. n /\ n + 1 \in 1 .. N  OBVIOUS
  <2>3. g[n] \in T /\ step[n + 1][g[n]] \in T  BY <2>1, <2>2
  <2>4. /\ h \in [0 .. n + 1 -> T]
        /\ \A k \in 0 .. n : h[k] = g[k]
        /\ h[n + 1] = step[n + 1][g[n]]
    BY <2>1, <2>2, <2>3
  <2> HIDE DEF h
  <2>5. h[0] = t  BY <2>1, <2>2, <2>4
  <2>6. ASSUME NEW k \in 1 .. n + 1
        PROVE  h[k] = step[k][h[k - 1]]
    <3>1. CASE k = n + 1
      <4>1. k - 1 = n /\ h[n] = g[n]  BY <2>2, <2>4, <3>1
      <4>2. QED  BY <2>4, <3>1, <4>1
    <3>2. CASE k # n + 1
      <4>1. k \in 1 .. n /\ k \in 0 .. n /\ k - 1 \in 0 .. n  BY <2>2, <3>2
      <4>2. h[k] = g[k] /\ h[k - 1] = g[k - 1]  BY <2>4, <4>1
      <4>3. QED  BY <2>1, <4>1, <4>2
    <3>3. QED  BY <3>1, <3>2
  <2>7. Steps(h, n + 1)  BY <2>4, <2>5, <2>6
  <2>8. QED  BY <2>7
<1>3. N \in M
  <2>1. M \in SUBSET Nat  OBVIOUS
  <2> HIDE DEF M
  <2>2. QED  BY <1>1, <1>2, <2>1, NatInduct
<1>4. QED  BY <1>3 DEF Iterated

\* Two definitions by the same steps are one.
LEMMA Agree ==
  ASSUME NEW N \in Nat, NEW f, NEW h, f[0] = h[0],
         \A k \in 1 .. N : f[k - 1] = h[k - 1] => f[k] = h[k]
  PROVE  f[N] = h[N]
<1> DEFINE M == {n \in Nat : n <= N => f[n] = h[n]}
<1>1. 0 \in M  OBVIOUS
<1>2. ASSUME NEW n \in M
      PROVE  n + 1 \in M
  <2> SUFFICES ASSUME n + 1 <= N
               PROVE  f[n + 1] = h[n + 1]
    OBVIOUS
  <2>1. n \in Nat /\ n + 1 \in 1 .. N /\ (n + 1) - 1 = n /\ n <= N  OBVIOUS
  <2>2. f[n] = h[n]  BY <2>1
  <2>3. f[(n + 1) - 1] = h[(n + 1) - 1] => f[n + 1] = h[n + 1]  BY <2>1
  <2>4. QED  BY <2>1, <2>2, <2>3
<1>3. N \in M
  <2>1. M \in SUBSET Nat  OBVIOUS
  <2> HIDE DEF M
  <2>2. QED  BY <1>1, <1>2, <2>1, NatInduct
<1>4. QED  BY <1>3

\* The calls that wait are opened, until one has to wait again; the last time all
\* are, and closed.
LEMMA DrainPendingReaches ==
  ASSUME NEW p, NEW fin, NEW t, Reached(p, fin, t), t.started, NEW closing \in BOOLEAN
  PROVE  /\ Reached(p, fin, DrainPending(t, closing)) /\ DrainPending(t, closing).started
         /\ closing /\ t.open.kind = "none" => DrainPending(t, closing).open.kind = "none"
<1> DEFINE N == Len(t.pending)
           Body(g) == [n \in 0 .. N |-> IF n = 0 THEN t ELSE DrainOne(g[n - 1], closing)]
           G == CHOOSE g : g = Body(g)
           T == {u \in Translators :
                   /\ Reached(p, fin, u) /\ u.started
                   /\ closing /\ t.open.kind = "none" => u.open.kind = "none"}
           step == [k \in 1 .. N |-> [u \in T |-> DrainOne(u, closing)]]
<1>1. DrainPending(t, closing) = G[N]  BY DEF DrainPending
<1>2. t \in Translators /\ t \in T /\ N \in Nat
  BY LenProperties DEF Reached, Translators
<1>3. ASSUME NEW u \in T
      PROVE  DrainOne(u, closing) \in T
  <2>1. /\ Reached(p, fin, DrainOne(u, closing)) /\ DrainOne(u, closing).started
        /\ closing /\ u.open.kind = "none" => DrainOne(u, closing).open.kind = "none"
    BY DrainOneReaches
  <2>2. DrainOne(u, closing) \in Translators  BY <2>1 DEF Reached
  <2>3. QED  BY <2>1, <2>2
<1> HIDE DEF T
<1>4. \A k \in 1 .. N, u \in T : step[k][u] = DrainOne(u, closing)  OBVIOUS
<1> HIDE DEF N, step
<1>5. \E g : Iterated(N, T, t, step, g)
  <2>1. \A k \in 1 .. N, u \in T : step[k][u] \in T  BY <1>3, <1>4, Zenon
  <2>2. Iterable(N, T, t, step)  BY <1>2, <2>1 DEF Iterable
  <2>3. QED  BY ONLY <2>2, Iterates
<1>6. PICK g \in [0 .. N -> T] : g[0] = t /\ \A k \in 1 .. N : g[k] = step[k][g[k - 1]]
  BY <1>5, Zenon DEF Iterated
<1>7. \A k \in 1 .. N : g[k] = DrainOne(g[k - 1], closing)
  <2> TAKE k \in 1 .. N
  <2>1. k - 1 \in 0 .. N  BY <1>2
  <2>2. g[k - 1] \in T  BY <1>6, <2>1
  <2>3. QED  BY <1>4, <1>6, <2>2
<1>8. G = Body(G)
  <2>1. g = Body(g)
    <3>1. ASSUME NEW n \in 0 .. N
          PROVE  g[n] = IF n = 0 THEN t ELSE DrainOne(g[n - 1], closing)
      <4>1. n # 0 => n \in 1 .. N  BY <1>2
      <4>2. QED  BY <1>6, <1>7, <4>1
    <3>2. QED  BY <1>6, <3>1
  <2> HIDE DEF Body
  <2>2. QED  BY <2>1
<1> HIDE DEF G
<1>9. G[0] = t /\ \A k \in 1 .. N : G[k] = DrainOne(G[k - 1], closing)
  <2>1. 0 \in 0 .. N /\ \A k \in 1 .. N : k \in 0 .. N /\ k # 0  BY <1>2
  <2>2. \A n \in 0 .. N : G[n] = IF n = 0 THEN t ELSE DrainOne(G[n - 1], closing)
    BY <1>8, Zenon
  <2>3. QED  BY <2>1, <2>2
<1>10. G[N] = g[N]
  <2>1. G[0] = g[0]  BY <1>6, <1>9
  <2>2. \A k \in 1 .. N : G[k - 1] = g[k - 1] => G[k] = g[k]  BY <1>7, <1>9
  <2>3. QED  BY <1>2, <2>1, <2>2, Agree
<1>11. G[N] \in T  BY <1>2, <1>6, <1>10
<1>12. QED  BY <1>1, <1>11 DEF T

\* A call waits behind the one that is open.
LEMMA WaitingReaches ==
  ASSUME NEW p, NEW fin, NEW t, Reached(p, fin, t), t.started, NEW c \in Calls,
         NEW done \in BOOLEAN
  PROVE  Reached(p, fin, Waiting(t, c, done))
<1> DEFINE e == [call |-> c, streamed |-> 0, completed |-> done]
           u == [t EXCEPT !.pending = Append(@, e)]
<1>1. t \in Translators /\ t.finished = fin  BY DEF Reached
<1>2. e \in Waits  BY DEF Waits
<1>3. Waiting(t, c, done) = u  BY DEF Waiting
<1> HIDE DEF e
<1>4. Append(t.pending, e) \in Seq(Waits)  BY <1>1, <1>2, AppendProperties DEF Translators
<1>5. /\ u \in Translators /\ u.out = t.out /\ u.open = t.open /\ u.next = t.next
      /\ u.started = t.started /\ u.finished = t.finished
  BY <1>1, <1>4 DEF Translators
<1> HIDE DEF u
<1>6. Reached(p, fin, u)  BY <1>1, <1>5, Silent
<1>7. QED  BY <1>3, <1>6

\* A call is announced.
LEMMA ItemAddedReaches ==
  ASSUME NEW p, NEW fin, NEW t, Reached(p, fin, t), NEW c \in Calls
  PROVE  Reached(p, fin, ItemAdded(t, c))
<1> DEFINE u == StartMessage(t)
<1>1. Reached(p, fin, u) /\ u.started  BY StartMessageReaches
<1> HIDE DEF u
<1>2. Reached(p, fin, Waiting(u, c, FALSE))  BY <1>1, WaitingReaches
<1>3. Reached(p, fin, OpenToolUse(u, c))  BY <1>1, OpenToolUseReaches
<1>4. ItemAdded(t, c) \in {u, Waiting(u, c, FALSE), OpenToolUse(u, c)}
  BY DEF ItemAdded, u
<1>5. QED  BY <1>1, <1>2, <1>3, <1>4

\* A call that waits, or is open, streams.
LEMMA ArgumentsDeltaReaches ==
  ASSUME NEW p, NEW fin, NEW t, Reached(p, fin, t), NEW target
  PROVE  Reached(p, fin, ArgumentsDelta(t, target))
<1>1. t \in Translators /\ t.finished = fin /\ (t.pending # << >> => t.started)
  BY DEF Reached
<1>2. CASE target # NoItem /\ IsPending(t, target)
  <2> DEFINE i == PendingAt(t, target)
             e == [t.pending[i] EXCEPT !.streamed = @ + 1]
             q == [t.pending EXCEPT ![i] = e]
             u == [t EXCEPT !.pending = q]
  <2>1. ArgumentsDelta(t, target) = u  BY <1>2 DEF ArgumentsDelta
  <2>2. t.pending \in Seq(Waits) /\ i \in DOMAIN t.pending
    BY <1>1, <1>2 DEF IsPending, PendingAt, Translators
  <2> HIDE DEF i
  <2>3. i \in 1 .. Len(t.pending) /\ t.pending[i] \in Waits
    BY <2>2, LenProperties, ElementOfSeq
  <2>4. e \in Waits  BY <2>3 DEF Waits
  <2> HIDE DEF e
  <2>5. q \in Seq(Waits)  BY <2>2, <2>3, <2>4, ExceptSeq
  <2> HIDE DEF q
  <2>6. t.started
    <3>1. t.pending # << >>  BY <2>2
    <3>2. QED  BY <1>1, <3>1
  <2>7. /\ u \in Translators /\ u.out = t.out /\ u.open = t.open /\ u.next = t.next
        /\ u.started = t.started /\ u.finished = t.finished
    BY <1>1, <2>5 DEF Translators
  <2> HIDE DEF u
  <2>8. Reached(p, fin, u)  BY <1>1, <2>6, <2>7, Silent
  <2>9. QED  BY <2>1, <2>8
<1>3. CASE ~(target # NoItem /\ IsPending(t, target)) /\ t.open.kind = "call"
  <2> DEFINE v == [t EXCEPT !.open.streamed = TRUE]
  <2>1. Reached(p, fin, v) /\ v.open.kind = "call"  BY <1>3, MarksStreamed
  <2> HIDE DEF v
  <2>2. Reached(p, fin, PushDelta(v, "call", 1))  BY <2>1, PushDeltaReaches DEF Filled
  <2>3. ArgumentsDelta(t, target) \in {t, PushDelta(v, "call", 1)}
    BY <1>3 DEF ArgumentsDelta, v
  <2>4. QED  BY <2>2, <2>3
<1>4. CASE ~(target # NoItem /\ IsPending(t, target)) /\ t.open.kind # "call"
  BY <1>4 DEF ArgumentsDelta
<1>5. QED  BY <1>2, <1>3, <1>4

\* The call that is open ends, and those that wait get their turn.
LEMMA FinishCallReaches ==
  ASSUME NEW p, NEW fin, NEW t, Reached(p, fin, t), t.open.kind = "call"
  PROVE  Reached(p, fin, FinishCall(t))
<1> DEFINE u == IF t.open.streamed THEN t ELSE PushDelta(t, "call", Size)
<1>1. Reached(p, fin, u) /\ u.started
  <2>1. t.started  BY DEF Reached
  <2>2. /\ Reached(p, fin, PushDelta(t, "call", Size))
        /\ PushDelta(t, "call", Size).started
    BY SizeAssumption, PushDeltaReaches DEF Filled
  <2>3. QED  BY <2>1, <2>2
<1>2. FinishCall(t) = DrainPending(CloseBlock(u), FALSE)  BY DEF FinishCall
<1> HIDE DEF u
<1>3. Reached(p, fin, CloseBlock(u)) /\ CloseBlock(u).started
  BY <1>1, CloseBlockReaches
<1>4. QED  BY <1>2, <1>3, DrainPendingReaches

\* A call completes: the one that is open, one that waits, or one nobody announced.
LEMMA CallDoneReaches ==
  ASSUME NEW p, NEW fin, NEW t, Reached(p, fin, t), NEW c \in Calls
  PROVE  Reached(p, fin, CallDone(t, c))
<1> DEFINE u == StartMessage(t)
<1>1. Reached(p, fin, u) /\ u.started  BY StartMessageReaches
<1>2. CallDone(t, c) =
        IF u.open.kind = "call" /\ u.open.call = c THEN FinishCall(u)
        ELSE IF c \in u.emitted THEN u
        ELSE IF IsPending(u, c)
          THEN LET v == [u EXCEPT !.pending[PendingAt(u, c)].completed = TRUE]
               IN IF u.open.kind = "call" THEN v ELSE DrainPending(v, FALSE)
        ELSE IF AnotherCallOpen(u, c) THEN Waiting(u, c, TRUE)
        ELSE FinishCall(OpenToolUse(u, c))
  BY DEF CallDone
<1> HIDE DEF u
<1>3. u.open.kind = "call" => Reached(p, fin, FinishCall(u))  BY <1>1, FinishCallReaches
<1>4. Reached(p, fin, Waiting(u, c, TRUE))  BY <1>1, WaitingReaches
<1>5. Reached(p, fin, FinishCall(OpenToolUse(u, c)))
  <2>1. /\ Reached(p, fin, OpenToolUse(u, c))
        /\ OpenToolUse(u, c).open.kind = "call"
    BY <1>1, OpenToolUseReaches
  <2>2. QED  BY <2>1, FinishCallReaches
<1>6. ASSUME IsPending(u, c)
      PROVE  LET v == [u EXCEPT !.pending[PendingAt(u, c)].completed = TRUE]
             IN Reached(p, fin, v) /\ Reached(p, fin, DrainPending(v, FALSE))
  <2> DEFINE i == PendingAt(u, c)
             e == [u.pending[i] EXCEPT !.completed = TRUE]
             q == [u.pending EXCEPT ![i] = e]
             v == [u EXCEPT !.pending = q]
  <2>1. u \in Translators /\ u.finished = fin  BY <1>1 DEF Reached
  <2>2. v = [u EXCEPT !.pending[PendingAt(u, c)].completed = TRUE]  OBVIOUS
  <2>3. u.pending \in Seq(Waits) /\ i \in DOMAIN u.pending
    BY <1>6, <2>1 DEF IsPending, PendingAt, Translators
  <2> HIDE DEF i
  <2>4. i \in 1 .. Len(u.pending) /\ u.pending[i] \in Waits
    BY <2>3, LenProperties, ElementOfSeq
  <2>5. e \in Waits  BY <2>4 DEF Waits
  <2> HIDE DEF e
  <2>6. q \in Seq(Waits)  BY <2>3, <2>4, <2>5, ExceptSeq
  <2> HIDE DEF q
  <2>7. /\ v \in Translators /\ v.out = u.out /\ v.open = u.open /\ v.next = u.next
        /\ v.started = u.started /\ v.finished = u.finished
    BY <2>1, <2>6 DEF Translators
  <2> HIDE DEF v
  <2>8. Reached(p, fin, v) /\ v.started  BY <1>1, <2>1, <2>7, Silent
  <2>9. Reached(p, fin, DrainPending(v, FALSE))  BY <2>8, DrainPendingReaches
  <2>10. QED  BY <2>2, <2>8, <2>9
<1>7. QED  BY <1>1, <1>2, <1>3, <1>4, <1>5, <1>6

\* A source is kept for later.
LEMMA AddSourceReaches ==
  ASSUME NEW p, NEW fin, NEW t, Reached(p, fin, t), NEW url \in Urls
  PROVE  Reached(p, fin, AddSource(t, url))
<1> DEFINE u == [t EXCEPT !.sources = Append(@, url)]
<1>1. t \in Translators /\ t.finished = fin /\ (t.pending # << >> => t.started)
  BY DEF Reached
<1>2. Append(t.sources, url) \in Seq(Urls)  BY <1>1, AppendProperties DEF Translators
<1>3. /\ u \in Translators /\ u.out = t.out /\ u.open = t.open /\ u.next = t.next
      /\ u.started = t.started /\ u.finished = t.finished /\ u.pending = t.pending
  BY <1>1, <1>2 DEF Translators
<1> HIDE DEF u
<1>4. Reached(p, fin, u)  BY <1>1, <1>3, Silent
<1>5. QED  BY <1>4 DEF AddSource, u

\* A message is over.
LEMMA MessageDoneReaches ==
  ASSUME NEW p, NEW fin, NEW t, Reached(p, fin, t), NEW url \in Urls \union {NoItem}
  PROVE  Reached(p, fin, MessageDone(t, url))
<1> DEFINE u == Sourced(t, url)
<1>1. Reached(p, fin, u)  BY AddSourceReaches DEF Sourced
<1> HIDE DEF u
<1>2. Reached(p, fin, CloseBlock(u))  BY <1>1, CloseBlockReaches
<1>3. QED  BY <1>1, <1>2 DEF MessageDone, u

\* A search is over, or was a page that is a source.
LEMMA SearchDoneReaches ==
  ASSUME NEW p, NEW fin, NEW t, Reached(p, fin, t),
         NEW s \in Searches, NEW page \in Urls \union {NoItem}
  PROVE  Reached(p, fin, SearchDone(t, s, page))
<1>1. CASE page # NoItem  BY <1>1, AddSourceReaches DEF SearchDone
<1>2. CASE page = NoItem
  <2> DEFINE u == [t EXCEPT !.searches = Append(@, s)]
  <2>1. t \in Translators /\ t.finished = fin /\ (t.pending # << >> => t.started)
    BY DEF Reached
  <2>2. Append(t.searches, s) \in Seq(Searches)
    BY <2>1, AppendProperties DEF Translators
  <2>3. /\ u \in Translators /\ u.out = t.out /\ u.open = t.open /\ u.next = t.next
        /\ u.started = t.started /\ u.finished = t.finished /\ u.pending = t.pending
    BY <2>1, <2>2 DEF Translators
  <2> HIDE DEF u
  <2>4. Reached(p, fin, u)  BY <2>1, <2>3, Silent
  <2>5. QED  BY <1>2, <2>4 DEF SearchDone, u
<1>3. QED  BY <1>1, <1>2

\* Sequences written out, one after the other.
LEMMA TwoInARow ==
  ASSUME NEW a \in Frames, NEW b \in Frames
  PROVE  <<a, b>> = <<a>> \o <<b>>
<1> DEFINE s == <<a>> u == <<b>> w == <<a, b>>
<1>1. /\ s \in Seq(Frames) /\ u \in Seq(Frames) /\ w \in Seq(Frames)
      /\ Len(s) = 1 /\ Len(u) = 1 /\ Len(w) = 2
      /\ s[1] = a /\ u[1] = b /\ w[1] = a /\ w[2] = b
  OBVIOUS
<1> HIDE DEF s, u, w
<1>2. /\ s \o u \in Seq(Frames) /\ Len(s \o u) = 2
      /\ (s \o u)[1] = a /\ (s \o u)[2] = b
  <2>1. /\ s \o u \in Seq(Frames) /\ Len(s \o u) = Len(s) + Len(u)
        /\ \A i \in 1 .. Len(s) + Len(u) :
             (s \o u)[i] = IF i <= Len(s) THEN s[i] ELSE u[i - Len(s)]
    BY ONLY <1>1, ConcatProperties
  <2> DEFINE v == s \o u
  <2>2. v \in Seq(Frames) /\ Len(v) = Len(s) + Len(u)
        /\ \A i \in 1 .. Len(s) + Len(u) : v[i] = IF i <= Len(s) THEN s[i] ELSE u[i - Len(s)]
    BY <2>1
  <2> HIDE DEF v
  <2>3. Len(v) = 2 /\ v[1] = a /\ v[2] = b  BY ONLY <1>1, <2>2
  <2>4. QED  BY <2>2, <2>3 DEF v
<1>3. \A i \in 1 .. 2 : (s \o u)[i] = w[i]
  <2> TAKE i \in 1 .. 2
  <2>1. i = 1 \/ i = 2  OBVIOUS
  <2>2. QED  BY <1>1, <1>2, <2>1
<1>4. s \o u = w  BY <1>1, <1>2, <1>3, SeqEqual
<1>5. QED  BY <1>4 DEF s, u, w

\* Four frames are two and two,
InARow(a, b, c, d) == <<a, b, c, d>> = <<a, b>> \o <<c, d>>

\* being the same frames in the same places.
LEMMA FourInARow ==
  ASSUME NEW a \in Frames, NEW b \in Frames, NEW c \in Frames, NEW d \in Frames
  PROVE  InARow(a, b, c, d)
<1> DEFINE s == <<a, b>> u == <<c, d>> w == <<a, b, c, d>>
<1>1. /\ s \in Seq(Frames) /\ u \in Seq(Frames) /\ w \in Seq(Frames)
      /\ Len(s) = 2 /\ Len(u) = 2 /\ Len(w) = 4
      /\ s[1] = a /\ s[2] = b /\ u[1] = c /\ u[2] = d
      /\ w[1] = a /\ w[2] = b /\ w[3] = c /\ w[4] = d
  OBVIOUS
<1> HIDE DEF s, u, w
<1>2. /\ s \o u \in Seq(Frames) /\ Len(s \o u) = 4
      /\ (s \o u)[1] = a /\ (s \o u)[2] = b /\ (s \o u)[3] = c /\ (s \o u)[4] = d
  <2>1. /\ s \o u \in Seq(Frames) /\ Len(s \o u) = 4
        /\ \A i \in 1 .. 4 : (s \o u)[i] = IF i <= 2 THEN s[i] ELSE u[i - 2]
    <3>1. /\ s \o u \in Seq(Frames) /\ Len(s \o u) = Len(s) + Len(u)
          /\ \A i \in 1 .. Len(s) + Len(u) :
               (s \o u)[i] = IF i <= Len(s) THEN s[i] ELSE u[i - Len(s)]
      BY ONLY <1>1, ConcatProperties
    <3>2. Len(s) + Len(u) = 4  BY <1>1
    <3>3. QED  BY <1>1, <3>1, <3>2
  <2> DEFINE v == s \o u
  <2> HIDE DEF v
  <2>2. QED  BY <1>1, <2>1
<1>3. \A i \in 1 .. 4 : (s \o u)[i] = w[i]
  <2> TAKE i \in 1 .. 4
  <2>1. i = 1 \/ i = 2 \/ i = 3 \/ i = 4  OBVIOUS
  <2>2. QED  BY <1>1, <1>2, <2>1
<1>4. s \o u = w  BY <1>1, <1>2, <1>3, SeqEqual
<1>5. QED  BY <1>4 DEF s, u, w, InARow

\* Frames are joined in whatever way they are put together,
Joined(a, b, c) ==
  a \in Seq(Frames) /\ b \in Seq(Frames) /\ c \in Seq(Frames)
    => a \o (b \o c) = (a \o b) \o c

\* which sequences are.
LEMMA JoinedAnyhow == \A a, b, c : Joined(a, b, c)
BY ConcatAssociative DEF Joined

\* A search and its results, which follow it at once.
LEMMA TellSearchReaches ==
  ASSUME NEW p, NEW fin, NEW t, Reached(p, fin, t), t.started, t.open.kind = "none",
         NEW s \in Searches, NEW sources \in Seq(Urls)
  PROVE  /\ Reached(p, fin, TellSearch(t, s, sources))
         /\ TellSearch(t, s, sources).started
         /\ TellSearch(t, s, sources).open.kind = "none"
<1> DEFINE n == t.next
           f1 == BlockStart(n, "search", s, << >>)
           f2 == BlockStop(n)
           f3 == BlockStart(n + 1, "result", s, sources)
           f4 == BlockStop(n + 1)
           m == n + 2
           told == t.out \o <<f1, f2, f3, f4>>
           x == [t EXCEPT !.out = told]
           u == [x EXCEPT !.next = m]
           place(open, index, awaiting) ==
             [phase |-> "begun", open |-> open, index |-> index, awaiting |-> awaiting]
<1>1. t \in Translators /\ t.finished = fin /\ n \in Nat /\ t.out \in Seq(Frames)
      /\ Run(p, t.out, Stands(t)) /\ (t.pending # << >> => t.started)
  BY DEF Reached, Translators
<1>2. TellSearch(t, s, sources) = u
  BY <1>1 DEF TellSearch, Emit, Translators
<1>3. /\ f1 \in Frames /\ f2 \in Frames /\ f3 \in Frames /\ f4 \in Frames
      /\ f1.f = "block_start" /\ f1.i = n /\ f1.kind = "search"
      /\ f2.f = "block_stop" /\ f2.i = n
      /\ f3.f = "block_start" /\ f3.i = n + 1 /\ f3.kind = "result"
      /\ f4.f = "block_stop" /\ f4.i = n + 1
  <2>1. << >> \in Seq(Urls) /\ s \in Items /\ n + 1 \in Nat  BY <1>1, EmptySeq DEF Items
  <2>2. f1 \in Frames /\ f3 \in Frames  BY <1>1, <2>1 DEF Frames, BlockStart, Kinds
  <2>3. f2 \in Frames /\ f4 \in Frames  BY <1>1, <2>1 DEF Frames, BlockStop
  <2>4. QED  BY <2>2, <2>3 DEF BlockStart, BlockStop
<1> HIDE DEF f1, f2, f3, f4
<1>4. told = (((t.out \o <<f1>>) \o <<f2>>) \o <<f3>>) \o <<f4>>
  <2> DEFINE a == t.out b1 == <<f1>> b2 == <<f2>> b3 == <<f3>> b4 == <<f4>>
             b == <<f1, f2>> c == <<f3, f4>>
  <2>1. /\ a \in Seq(Frames) /\ b1 \in Seq(Frames) /\ b2 \in Seq(Frames)
        /\ b3 \in Seq(Frames) /\ b4 \in Seq(Frames)
        /\ b \in Seq(Frames) /\ c \in Seq(Frames)
    BY <1>1, <1>3
  <2>2. b = b1 \o b2  BY <1>3, TwoInARow
  <2>3. c = b3 \o b4  BY <1>3, TwoInARow
  <2>4. told = a \o (b \o c)
    <3>1. f1 \in Frames /\ f2 \in Frames /\ f3 \in Frames /\ f4 \in Frames  BY <1>3
    <3>2. InARow(f1, f2, f3, f4)  BY ONLY <3>1, FourInARow
    <3>3. <<f1, f2, f3, f4>> = <<f1, f2>> \o <<f3, f4>>  BY ONLY <3>2 DEF InARow
    <3>4. QED  BY <3>3
  <2> HIDE DEF told, a, b1, b2, b3, b4, b, c
  <2>5. a \o (b \o c) = (a \o b) \o c
    <3>1. Joined(a, b, c)  BY JoinedAnyhow
    <3>2. QED  BY <2>1, <3>1 DEF Joined
  <2>6. a \o b = (a \o b1) \o b2
    <3>1. Joined(a, b1, b2)  BY JoinedAnyhow
    <3>2. QED  BY <2>1, <2>2, <3>1 DEF Joined
  <2>7. (a \o b) \o c = ((a \o b) \o b3) \o b4
    <3>1. Joined(a \o b, b3, b4)  BY JoinedAnyhow
    <3>2. a \o b \in Seq(Frames)  BY ONLY <2>1, ConcatProperties
    <3>3. QED  BY <2>1, <2>3, <3>1, <3>2 DEF Joined
  <2>8. QED  BY <2>4, <2>5, <2>6, <2>7 DEF a, b1, b2, b3, b4
<1> DEFINE p1 == place("search", n, FALSE)
           p2 == place("none", n + 1, TRUE)
           p3 == place("result", n + 1, FALSE)
<1>5. /\ p1 \in Places /\ p2 \in Places /\ p3 \in Places
      /\ At(p1, "begun", "search", n, FALSE) /\ At(p2, "begun", "none", n + 1, TRUE)
      /\ At(p3, "begun", "result", n + 1, FALSE)
  BY <1>1 DEF Places, Kinds, At
<1> HIDE DEF p1, p2, p3, told
<1>6. told \in Seq(Frames)
  BY <1>1, <1>3, <1>4, ConcatProperties
<1> DEFINE o1 == t.out \o <<f1>>
           o2 == o1 \o <<f2>>
           o3 == o2 \o <<f3>>
<1>7. m \in Nat  BY <1>1
<1>8. x \in Translators
  BY ONLY <1>1, <1>6 DEF Translators
<1>9. /\ u \in Translators /\ u.out = told /\ u.open = t.open /\ u.next = m
      /\ u.started = t.started /\ u.finished = t.finished
  <2>1. /\ x.out = told /\ x.open = t.open
        /\ x.started = t.started /\ x.finished = t.finished
    BY <1>1 DEF Translators
  <2> HIDE DEF x, m
  <2>2. u \in Translators  BY ONLY <1>7, <1>8 DEF Translators
  <2>3. QED  BY <1>8, <2>1, <2>2 DEF Translators
<1> HIDE DEF u
<1>10. At(Stands(t), "begun", "none", n, FALSE)  BY DEF Stands, At
<1>11. At(Stands(u), "begun", "none", n + 2, FALSE)  BY <1>9 DEF Stands, At
<1> HIDE DEF n
<1>12. Takes(Stands(t), f1, p1)  BY <1>3, <1>5, <1>10 DEF Takes, At
<1>13. Takes(p1, f2, p2)  BY <1>3, <1>5 DEF Takes, At
<1>14. Takes(p2, f3, p3)  BY <1>3, <1>5 DEF Takes, At
<1>15. Takes(p3, f4, Stands(u))
  <2>1. (n + 1) + 1 = n + 2  BY <1>1
  <2>2. QED  BY <1>3, <1>5, <1>11, <2>1 DEF Takes, At
<1>16. Run(p, o1, p1) /\ o1 \in Seq(Frames)
  BY ONLY <1>1, <1>3, <1>5, <1>12, RunOneMore
<1> HIDE DEF o1
<1>17. Run(p, o2, p2) /\ o2 \in Seq(Frames)
  BY ONLY <1>3, <1>5, <1>13, <1>16, RunOneMore
<1> HIDE DEF o2
<1>18. Run(p, o3, p3) /\ o3 \in Seq(Frames)
  BY ONLY <1>3, <1>5, <1>14, <1>17, RunOneMore
<1> HIDE DEF o3
<1>19. Stands(u) \in Places  BY <1>9, StandsType
<1>20. Run(p, o3 \o <<f4>>, Stands(u))
  BY ONLY <1>3, <1>15, <1>18, <1>19, RunOneMore
<1>21. Run(p, told, Stands(u))  BY <1>4, <1>20 DEF o1, o2, o3
<1>22. Reached(p, fin, u) /\ u.started /\ u.open.kind = "none"
  BY <1>1, <1>9, <1>21 DEF Reached
<1>23. QED  BY <1>2, <1>22

\* What was searched is told once nothing is open.
LEMMA EmitSearchesReaches ==
  ASSUME NEW p, NEW fin, NEW t, Reached(p, fin, t), t.started, t.open.kind = "none"
  PROVE  /\ Reached(p, fin, EmitSearches(t)) /\ EmitSearches(t).started
         /\ EmitSearches(t).open.kind = "none"
<1> DEFINE N == Len(t.searches)
           b == [CloseBlock(t) EXCEPT !.sources = << >>, !.searches = << >>]
           Body(g) == [n \in 0 .. N |-> IF n = 0 THEN b
                                        ELSE TellSearch(g[n - 1], t.searches[n], t.sources)]
           G == CHOOSE g : g = Body(g)
           T == {u \in Translators : Reached(p, fin, u) /\ u.started /\ u.open.kind = "none"}
           step == [k \in 1 .. N |-> [u \in T |-> TellSearch(u, t.searches[k], t.sources)]]
<1>1. EmitSearches(t) = IF t.searches = << >> THEN t ELSE G[N]  BY DEF EmitSearches
<1>2. /\ t \in Translators /\ N \in Nat /\ t.sources \in Seq(Urls)
      /\ \A k \in 1 .. N : t.searches[k] \in Searches
  BY LenProperties, ElementOfSeq DEF Reached, Translators
<1>3. b \in T
  <2> DEFINE c == CloseBlock(t)
             e == << >>
             x == [c EXCEPT !.sources = e]
             u == [x EXCEPT !.searches = e]
  <2>1. Reached(p, fin, c) /\ c.open.kind = "none" /\ c.started  BY CloseBlockReaches
  <2>2. e \in Seq(Urls) /\ e \in Seq(Searches)  BY EmptySeq
  <2>3. b = u  OBVIOUS
  <2> HIDE DEF b, c, e
  <2>4. c \in Translators /\ c.finished = fin /\ (c.pending # << >> => c.started)
    BY <2>1 DEF Reached
  <2>5. /\ x \in Translators /\ x.out = c.out /\ x.open = c.open /\ x.next = c.next
        /\ x.started = c.started /\ x.finished = c.finished
    BY <2>2, <2>4 DEF Translators
  <2> HIDE DEF x
  <2>6. /\ u \in Translators /\ u.out = x.out /\ u.open = x.open /\ u.next = x.next
        /\ u.started = x.started /\ u.finished = x.finished
    BY <2>2, <2>5 DEF Translators
  <2> HIDE DEF u
  <2>7. Reached(p, fin, u) /\ u.started /\ u.open.kind = "none"
    <3>1. /\ u.out = c.out /\ u.open.kind = c.open.kind /\ u.next = c.next
          /\ u.started = c.started /\ u.finished = fin
      BY <2>4, <2>5, <2>6
    <3>2. QED  BY <2>1, <2>6, <3>1, Silent
  <2>8. QED  BY <2>3, <2>6, <2>7
<1>4. ASSUME NEW k \in 1 .. N, NEW u \in T
      PROVE  TellSearch(u, t.searches[k], t.sources) \in T
  <2> DEFINE v == TellSearch(u, t.searches[k], t.sources)
  <2>1. Reached(p, fin, v) /\ v.started /\ v.open.kind = "none"
    BY <1>2, TellSearchReaches
  <2>2. v \in Translators  BY <2>1 DEF Reached
  <2>3. QED  BY <2>1, <2>2
<1> HIDE DEF T
<1>5. \A k \in 1 .. N, u \in T : step[k][u] = TellSearch(u, t.searches[k], t.sources)
  OBVIOUS
<1> HIDE DEF N, step, b
<1>6. \E g : Iterated(N, T, b, step, g)
  <2>1. \A k \in 1 .. N, u \in T : step[k][u] \in T  BY <1>4, <1>5, Zenon
  <2>2. Iterable(N, T, b, step)  BY <1>2, <1>3, <2>1 DEF Iterable
  <2>3. QED  BY ONLY <2>2, Iterates
<1>7. PICK g \in [0 .. N -> T] : g[0] = b /\ \A k \in 1 .. N : g[k] = step[k][g[k - 1]]
  BY <1>6, Zenon DEF Iterated
<1>8. \A k \in 1 .. N : g[k] = TellSearch(g[k - 1], t.searches[k], t.sources)
  <2> TAKE k \in 1 .. N
  <2>1. k - 1 \in 0 .. N  BY <1>2
  <2>2. g[k - 1] \in T  BY <1>7, <2>1
  <2>3. QED  BY <1>5, <1>7, <2>2
<1>9. G = Body(G)
  <2>1. g = Body(g)
    <3>1. ASSUME NEW n \in 0 .. N
          PROVE  g[n] = IF n = 0 THEN b
                        ELSE TellSearch(g[n - 1], t.searches[n], t.sources)
      <4>1. n # 0 => n \in 1 .. N  BY <1>2
      <4>2. QED  BY <1>7, <1>8, <4>1
    <3>2. QED  BY <1>7, <3>1
  <2> HIDE DEF Body
  <2>2. QED  BY <2>1
<1> HIDE DEF G
<1>10. /\ G[0] = b
       /\ \A k \in 1 .. N : G[k] = TellSearch(G[k - 1], t.searches[k], t.sources)
  <2>1. 0 \in 0 .. N /\ \A k \in 1 .. N : k \in 0 .. N /\ k # 0  BY <1>2
  <2>2. \A n \in 0 .. N : G[n] = IF n = 0 THEN b
                                 ELSE TellSearch(G[n - 1], t.searches[n], t.sources)
    BY <1>9, Zenon
  <2>3. QED  BY <2>1, <2>2
<1>11. G[N] = g[N]
  <2>1. G[0] = g[0]  BY <1>7, <1>10
  <2>2. \A k \in 1 .. N : G[k - 1] = g[k - 1] => G[k] = g[k]  BY <1>8, <1>10
  <2>3. QED  BY <1>2, <2>1, <2>2, Agree
<1>12. G[N] \in T  BY <1>2, <1>7, <1>11
<1>13. QED  BY <1>1, <1>12 DEF T

\* The message is over: what was written takes the reader somewhere, and nothing
\* more is written.
MessageOver(p, t) == t \in Translators /\ t.finished /\ \E q \in Places : Run(p, t.out, q)

\* The message is closed once, whatever was open, waited or was searched.
LEMMA CloseMessageReaches ==
  ASSUME NEW p, NEW t, Reached(p, FALSE, t), t.started
  PROVE  MessageOver(p, CloseMessage(t))
<1> DEFINE a == [t EXCEPT !.finished = TRUE]
           b == CloseBlock(a)
           c == DrainPending(b, TRUE)
           u == EmitSearches(c)
           v == IF u.sawCall /\ u.stop = "end_turn" THEN [u EXCEPT !.stop = "tool_use"] ELSE u
           f1 == [f |-> "message_delta", reason |-> v.stop]
           f2 == [f |-> "message_stop"]
           w == [v EXCEPT !.out = v.out \o <<f1, f2>>]
<1>1. t \in Translators /\ ~t.finished /\ Run(p, t.out, Stands(t))  BY DEF Reached
<1>2. CloseMessage(t) = w  BY <1>1 DEF CloseMessage, Emit
<1>3. Reached(p, TRUE, a) /\ a.started
  <2>1. /\ a \in Translators /\ a.out = t.out /\ a.open = t.open /\ a.next = t.next
        /\ a.started = t.started /\ a.finished
    BY <1>1 DEF Translators
  <2> HIDE DEF a
  <2>2. Stands(a) = Stands(t)  BY <2>1 DEF Stands
  <2>3. QED  BY <1>1, <2>1, <2>2 DEF Reached
<1> HIDE DEF a
<1>4. Reached(p, TRUE, b) /\ b.started /\ b.open.kind = "none"  BY <1>3, CloseBlockReaches
<1> HIDE DEF b
<1>5. Reached(p, TRUE, c) /\ c.started /\ c.open.kind = "none"
  BY <1>4, DrainPendingReaches
<1> HIDE DEF c
<1>6. Reached(p, TRUE, u) /\ u.started /\ u.open.kind = "none"
  BY <1>5, EmitSearchesReaches
<1> HIDE DEF u
<1>7. Reached(p, TRUE, v) /\ v.started /\ v.open.kind = "none"
  <2> DEFINE x == [u EXCEPT !.stop = "tool_use"]
  <2>1. u \in Translators /\ u.finished = TRUE /\ (u.pending # << >> => u.started)
    BY <1>6 DEF Reached
  <2>2. /\ x \in Translators /\ x.out = u.out /\ x.open = u.open /\ x.next = u.next
        /\ x.started = u.started /\ x.finished = u.finished
    BY <2>1 DEF Translators
  <2> HIDE DEF x
  <2>3. Reached(p, TRUE, x)  BY <1>6, <2>1, <2>2, Silent
  <2>4. v \in {u, x}  BY DEF x
  <2>5. QED  BY <1>6, <2>2, <2>3, <2>4
<1> HIDE DEF v
<1>8. v \in Translators /\ v.out \in Seq(Frames) /\ Run(p, v.out, Stands(v)) /\ v.finished
  BY <1>7 DEF Reached, Translators
<1>9. /\ f1 \in Frames /\ f1.f = "message_delta" /\ f2 \in Frames /\ f2.f = "message_stop"
  BY <1>8 DEF Frames, Translators
<1> HIDE DEF f1, f2
<1> DEFINE ended == [phase |-> "ended", open |-> "none", index |-> v.next, awaiting |-> FALSE]
           done == [phase |-> "over", open |-> "none", index |-> v.next, awaiting |-> FALSE]
           o1 == v.out \o <<f1>>
<1>10. /\ ended \in Places /\ done \in Places
       /\ At(ended, "ended", "none", v.next, FALSE) /\ At(done, "over", "none", v.next, FALSE)
  BY <1>8 DEF Places, At, Translators
<1> HIDE DEF ended, done
<1>11. At(Stands(v), "begun", "none", v.next, FALSE)  BY <1>7 DEF Stands, At
<1>12. Takes(Stands(v), f1, ended) /\ Takes(ended, f2, done)
  BY <1>9, <1>10, <1>11 DEF Takes, At
<1>13. Run(p, o1, ended) /\ o1 \in Seq(Frames)
  BY ONLY <1>8, <1>9, <1>10, <1>12, RunOneMore
<1>14. v.out \o <<f1, f2>> = o1 \o <<f2>>
  <2>1. <<f1>> \in Seq(Frames) /\ <<f2>> \in Seq(Frames)  BY <1>9
  <2>2. <<f1, f2>> = <<f1>> \o <<f2>>  BY <1>9, TwoInARow
  <2>3. QED  BY <1>8, <2>1, <2>2, ConcatAssociative
<1> HIDE DEF o1
<1>15. Run(p, o1 \o <<f2>>, done) /\ o1 \o <<f2>> \in Seq(Frames)
  BY ONLY <1>9, <1>10, <1>12, <1>13, RunOneMore
<1>16. w \in Translators /\ w.finished /\ w.out = o1 \o <<f2>>
  BY <1>8, <1>14, <1>15 DEF Translators
<1> HIDE DEF w
<1>17. QED  BY <1>2, <1>10, <1>15, <1>16 DEF MessageOver

\* The backend failed, before the message or in it.
LEMMA EmitErrorReaches ==
  ASSUME NEW p, NEW t, Reached(p, FALSE, t)
  PROVE  MessageOver(p, EmitError(t))
<1> DEFINE fr == [f |-> "error"]
           o == t.out \o <<fr>>
           a == [t EXCEPT !.finished = TRUE]
           w == [a EXCEPT !.out = o]
           done == [phase |-> "over", open |-> t.open.kind, index |-> t.next,
                    awaiting |-> FALSE]
<1>1. t \in Translators /\ t.out \in Seq(Frames) /\ Run(p, t.out, Stands(t))
  BY DEF Reached, Translators
<1>2. EmitError(t) = w  BY <1>1 DEF EmitError, Emit, Translators
<1>3. fr \in Frames /\ fr.f = "error"  BY DEF Frames
<1> HIDE DEF fr
<1>4. done \in Places /\ At(done, "over", t.open.kind, t.next, FALSE)
  BY <1>1 DEF Places, At, Translators, Opens, Kinds, Filled
<1> HIDE DEF done
<1>5. Takes(Stands(t), fr, done)
  <2>1. Stands(t).phase \in {"idle", "begun"} /\ Stands(t).open = t.open.kind
        /\ Stands(t).index = t.next
    BY DEF Stands
  <2>2. QED  BY <1>3, <1>4, <2>1 DEF Takes
<1>6. Run(p, o, done) /\ o \in Seq(Frames)
  BY ONLY <1>1, <1>3, <1>4, <1>5, RunOneMore
<1> HIDE DEF o
<1>7. a \in Translators /\ a.finished  BY <1>1 DEF Translators
<1> HIDE DEF a
<1>8. w \in Translators /\ w.finished /\ w.out = o  BY <1>6, <1>7 DEF Translators
<1> HIDE DEF w
<1>9. QED  BY <1>2, <1>4, <1>6, <1>8 DEF MessageOver

-----------------------------------------------------------------------------
(* The reader. *)

Blocks == [kind : Kinds \union {"none"}, of : Items \union {NoItem}, n : Nat, list : Seq(Urls)]

FramesRead ==
  [f : {"nothing", "message_start", "message_delta", "message_stop", "error"}]
    \union [f : {"block_start", "delta", "block_stop"}, i : Nat, kind : Kinds]

Readers ==
  [phase : {"idle", "begun", "ended", "over"}, open : Blocks, content : Seq(Blocks),
   reason : {"none", "end_turn", "tool_use", "max_tokens"}, frame : FramesRead]

\* The frame just read was the end of a search.
AwaitsResult(c) == c.frame.f = "block_stop" /\ c.frame.kind = "search"

\* How far the client has read, as a place.
Reader(c) == [phase |-> c.phase, open |-> c.open.kind, index |-> Len(c.content),
              awaiting |-> IF AwaitsResult(c) THEN TRUE ELSE FALSE]

\* The client stands at a place.
LEMMA ReaderType == \A c \in Readers : Reader(c) \in Places
BY LenProperties DEF Reader, Readers, Blocks, Places

\* Two places that agree are one.
LEMMA SamePlace ==
  ASSUME NEW p \in Places, NEW q \in Places, NEW phase, NEW open, NEW index, NEW awaiting,
         At(p, phase, open, index, awaiting), At(q, phase, open, index, awaiting)
  PROVE  p = q
BY DEF At, Places

\* A block that was open over another is kept: a reader of frames that follow the
\* protocol finds none, and keeps what ends.
LEMMA KeepOpenKeeps ==
  ASSUME NEW c \in Readers
  PROVE  /\ KeepOpen(c) \in Readers /\ KeepOpen(c).phase = c.phase
         /\ c.open.kind = "none" => KeepOpen(c) = c
         /\ c.open.kind # "none" =>
              KeepOpen(c).open.kind = "none" /\ Len(KeepOpen(c).content) = Len(c.content) + 1
<1> DEFINE o == Append(c.content, c.open)
           x == [c EXCEPT !.content = o]
           u == [x EXCEPT !.open = Nothing]
<1>1. o \in Seq(Blocks) /\ Len(o) = Len(c.content) + 1
  BY AppendProperties DEF Readers
<1>2. Nothing \in Blocks /\ Nothing.kind = "none"
  BY EmptySeq DEF Nothing, Blocks
<1>3. c.open.kind # "none" => KeepOpen(c) = u  BY DEF KeepOpen
<1>4. c.open.kind = "none" => KeepOpen(c) = c  BY DEF KeepOpen
<1> HIDE DEF o
<1>5. x \in Readers /\ x.content = o /\ x.phase = c.phase  BY <1>1 DEF Readers
<1> HIDE DEF x
<1>6. u \in Readers /\ u.content = o /\ u.phase = c.phase /\ u.open = Nothing
  BY <1>2, <1>5 DEF Readers
<1> HIDE DEF u
<1>7. QED  BY <1>1, <1>2, <1>3, <1>4, <1>6

\* Whatever frame takes the reader from where it is, reading it is that step of the
\* protocol.
LEMMA ReadFollows ==
  ASSUME client \in Readers, NEW fr \in Frames, NEW r \in Places,
         Takes(Reader(client), fr, r), client' = Aggregate(client, fr)
  PROVE  client' \in Readers /\ Reader(client') = r /\ Protocol!Next
<1> DEFINE c == client
           d == client'
<1>1. /\ Reader(c).phase = c.phase /\ Reader(c).open = c.open.kind
      /\ Reader(c).index = Len(c.content) /\ Reader(c) \in Places
      /\ Reader(c).awaiting = (IF AwaitsResult(c) THEN TRUE ELSE FALSE)
  BY ReaderType DEF Reader
<1>2. /\ c.open \in Blocks /\ c.content \in Seq(Blocks) /\ Len(c.content) \in Nat
      /\ c.open.kind \in Kinds \union {"none"}
  BY LenProperties DEF Readers, Blocks
<1>3. ASSUME d \in Readers,
             NEW phase, NEW open, NEW index, NEW awaiting \in BOOLEAN,
             d.phase = phase, d.open.kind = open, Len(d.content) = index,
             AwaitsResult(d) <=> awaiting, At(r, phase, open, index, awaiting)
      PROVE  Reader(d) = r
  <2>1. Reader(d) \in Places  BY <1>3, ReaderType
  <2>2. At(Reader(d), phase, open, index, awaiting)
    BY <1>3 DEF Reader, At
  <2>3. QED  BY <1>3, <2>1, <2>2, SamePlace
<1>4. CASE fr.f = "message_start"
  <2> DEFINE g == [f |-> "message_start"]
             x == [c EXCEPT !.phase = "begun"]
             u == [x EXCEPT !.frame = g]
  <2>1. d = u  BY <1>4 DEF Aggregate
  <2>2. g \in FramesRead /\ g.f = "message_start"  BY DEF FramesRead
  <2>3. c.phase = "idle" /\ At(r, "begun", c.open.kind, Len(c.content), FALSE)
    BY <1>1, <1>4 DEF Takes
  <2> HIDE DEF g
  <2>4. x \in Readers /\ x.phase = "begun" /\ x.open = c.open /\ x.content = c.content
    BY DEF Readers
  <2> HIDE DEF x
  <2>5. /\ u \in Readers /\ u.phase = "begun" /\ u.open = c.open /\ u.content = c.content
        /\ u.frame = g
    BY <2>2, <2>4 DEF Readers
  <2> HIDE DEF u
  <2>6. ~AwaitsResult(d)  BY <2>1, <2>2, <2>5 DEF AwaitsResult
  <2>7. Reader(d) = r  BY <1>3, <2>1, <2>3, <2>5, <2>6
  <2>8. Protocol!MessageStart
    BY <2>1, <2>3, <2>5 DEF Protocol!MessageStart, g
  <2>9. QED  BY <2>1, <2>5, <2>7, <2>8 DEF Protocol!Next
<1>5. CASE fr.f = "block_start"
  <2> DEFINE k == KeepOpen(c)
             b == [kind |-> fr.kind, of |-> fr.of, n |-> 0, list |-> fr.list]
             g == [f |-> fr.f, i |-> fr.i, kind |-> fr.kind]
             x == [k EXCEPT !.open = b]
             u == [x EXCEPT !.frame = g]
  <2>1. d = u  BY <1>5 DEF Aggregate
  <2>2. /\ c.phase = "begun" /\ c.open.kind = "none" /\ fr.i = Len(c.content)
        /\ (fr.kind = "result") <=> AwaitsResult(c)
        /\ At(r, "begun", fr.kind, Len(c.content), FALSE)
    BY <1>1, <1>5 DEF Takes
  <2>3. k = c  BY <2>2, KeepOpenKeeps
  <2>4. fr.i \in Nat /\ fr.kind \in Kinds /\ b \in Blocks /\ b.kind = fr.kind
    BY <1>5 DEF Frames, Blocks
  <2>5. g \in FramesRead /\ g.f = "block_start" /\ g.kind = fr.kind /\ g.i = fr.i
    BY <1>5, <2>4 DEF FramesRead
  <2>6. g = [f |-> "block_start", i |-> Len(c.content), kind |-> fr.kind]
    BY <1>5, <2>2
  <2> HIDE DEF g, b, k
  <2>7. x \in Readers /\ x.phase = c.phase /\ x.open = b /\ x.content = c.content
    BY <2>3, <2>4 DEF Readers
  <2> HIDE DEF x
  <2>8. /\ u \in Readers /\ u.phase = c.phase /\ u.open = b /\ u.content = c.content
        /\ u.frame = g
    BY <2>5, <2>7 DEF Readers
  <2> HIDE DEF u
  <2>9. ~AwaitsResult(d)  BY <2>1, <2>5, <2>8 DEF AwaitsResult
  <2>10. Reader(d) = r  BY <1>3, <2>1, <2>2, <2>4, <2>8, <2>9
  <2>11. Protocol!BlockStart
    BY <2>1, <2>2, <2>4, <2>6, <2>8
       DEF Protocol!BlockStart, Protocol!AwaitingResult, Protocol!Written, Protocol!Whole,
           AwaitsResult, Kinds, Filled
  <2>12. QED  BY <2>1, <2>8, <2>10, <2>11 DEF Protocol!Next
<1>6. CASE fr.f = "delta"
  <2> DEFINE b == [c.open EXCEPT !.n = @ + fr.n]
             g == [f |-> fr.f, i |-> fr.i, kind |-> fr.kind]
             x == [c EXCEPT !.open = b]
             u == [x EXCEPT !.frame = g]
  <2>1. /\ c.phase = "begun" /\ c.open.kind = fr.kind /\ fr.i = Len(c.content)
        /\ At(r, "begun", c.open.kind, Len(c.content), FALSE)
    BY <1>1, <1>6 DEF Takes
  <2>2. d = u  BY <1>6, <2>1 DEF Aggregate
  <2>3. fr.i \in Nat /\ fr.kind \in Filled /\ fr.n \in Nat  BY <1>6 DEF Frames
  <2>4. b \in Blocks /\ b.kind = fr.kind
    <3> DEFINE m == c.open.n + fr.n
    <3>1. m \in Nat  BY <1>2, <2>3 DEF Blocks
    <3>2. b = [c.open EXCEPT !.n = m]  BY <1>2 DEF Blocks
    <3> HIDE DEF m, b
    <3>3. QED  BY <1>2, <2>1, <3>1, <3>2 DEF Blocks
  <2>5. g \in FramesRead /\ g.f = "delta"
    BY <1>6, <2>3 DEF FramesRead, Kinds
  <2>6. g = [f |-> "delta", i |-> Len(c.content), kind |-> c.open.kind]
    BY <1>6, <2>1
  <2> HIDE DEF g, b
  <2>7. x \in Readers /\ x.phase = c.phase /\ x.open = b /\ x.content = c.content
    BY <2>4 DEF Readers
  <2> HIDE DEF x
  <2>8. /\ u \in Readers /\ u.phase = c.phase /\ u.open = b /\ u.content = c.content
        /\ u.frame = g
    BY <2>5, <2>7 DEF Readers
  <2> HIDE DEF u
  <2>9. ~AwaitsResult(d)  BY <2>2, <2>5, <2>8 DEF AwaitsResult
  <2>10. Reader(d) = r  BY <1>3, <2>1, <2>2, <2>4, <2>8, <2>9
  <2>11. Protocol!BlockDelta
    BY <2>1, <2>2, <2>3, <2>4, <2>6, <2>8 DEF Protocol!BlockDelta, Protocol!Written, Filled
  <2>12. QED  BY <2>2, <2>8, <2>10, <2>11 DEF Protocol!Next
<1>7. CASE fr.f = "block_stop"
  <2> DEFINE k == KeepOpen(c)
             g == [f |-> fr.f, i |-> fr.i, kind |-> c.open.kind]
             u == [k EXCEPT !.frame = g]
  <2>1. d = u  BY <1>7 DEF Aggregate
  <2>2. /\ c.phase = "begun" /\ c.open.kind # "none" /\ fr.i = Len(c.content)
        /\ At(r, "begun", "none", Len(c.content) + 1, c.open.kind = "search")
    BY <1>1, <1>7 DEF Takes
  <2>3. /\ k \in Readers /\ k.phase = c.phase /\ k.open.kind = "none"
        /\ Len(k.content) = Len(c.content) + 1
    BY <2>2, KeepOpenKeeps
  <2>4. fr.i \in Nat  BY <1>7 DEF Frames
  <2>5. g \in FramesRead /\ g.f = "block_stop" /\ g.kind = c.open.kind
    BY <1>2, <1>7, <2>2, <2>4 DEF FramesRead
  <2>6. g = [f |-> "block_stop", i |-> Len(c.content), kind |-> c.open.kind]
    BY <1>7, <2>2
  <2> HIDE DEF g, k
  <2>7. /\ u \in Readers /\ u.phase = k.phase /\ u.open = k.open /\ u.content = k.content
        /\ u.frame = g
    BY <2>3, <2>5 DEF Readers
  <2> HIDE DEF u
  <2>8. AwaitsResult(d) <=> c.open.kind = "search"  BY <2>1, <2>5, <2>7 DEF AwaitsResult
  <2>9. Reader(d) = r
    <3>1. /\ d \in Readers /\ d.phase = "begun" /\ d.open.kind = "none"
          /\ Len(d.content) = Len(c.content) + 1
      BY <2>1, <2>2, <2>3, <2>7
    <3>2. CASE c.open.kind = "search"
      <4>1. At(r, "begun", "none", Len(c.content) + 1, TRUE)  BY <2>2, <3>2 DEF At
      <4>2. QED  BY ONLY <1>3, <2>8, <3>1, <3>2, <4>1
    <3>3. CASE c.open.kind # "search"
      <4>1. At(r, "begun", "none", Len(c.content) + 1, FALSE)  BY <2>2, <3>3 DEF At
      <4>2. QED  BY ONLY <1>3, <2>8, <3>1, <3>3, <4>1
    <3>4. QED  BY <3>2, <3>3
  <2>10. Protocol!BlockStop
    BY <2>1, <2>2, <2>3, <2>6, <2>7 DEF Protocol!BlockStop
  <2>11. QED  BY <2>1, <2>7, <2>9, <2>10 DEF Protocol!Next
<1>8. CASE fr.f = "message_delta"
  <2> DEFINE g == [f |-> "message_delta"]
             x == [c EXCEPT !.phase = "ended"]
             y == [x EXCEPT !.reason = fr.reason]
             u == [y EXCEPT !.frame = g]
  <2>1. d = u  BY <1>8 DEF Aggregate
  <2>2. g \in FramesRead /\ g.f = "message_delta"  BY DEF FramesRead
  <2>3. /\ c.phase = "begun" /\ c.open.kind = "none" /\ ~AwaitsResult(c)
        /\ At(r, "ended", c.open.kind, Len(c.content), FALSE)
    BY <1>1, <1>8 DEF Takes
  <2> HIDE DEF g
  <2>4. fr.reason \in {"end_turn", "tool_use", "max_tokens"}  BY <1>8 DEF Frames
  <2>5. x \in Readers /\ x.phase = "ended" /\ x.open = c.open /\ x.content = c.content
    BY DEF Readers
  <2> HIDE DEF x
  <2>6. y \in Readers /\ y.phase = "ended" /\ y.open = c.open /\ y.content = c.content
    BY <2>4, <2>5 DEF Readers
  <2> HIDE DEF y
  <2>7. /\ u \in Readers /\ u.phase = "ended" /\ u.open = c.open /\ u.content = c.content
        /\ u.frame = g
    BY <2>2, <2>6 DEF Readers
  <2> HIDE DEF u
  <2>8. ~AwaitsResult(d)  BY <2>1, <2>2, <2>7 DEF AwaitsResult
  <2>9. Reader(d) = r  BY <1>3, <2>1, <2>3, <2>7, <2>8
  <2>10. Protocol!MessageDelta
    BY <2>1, <2>3, <2>7 DEF Protocol!MessageDelta, Protocol!AwaitingResult, AwaitsResult, g
  <2>11. QED  BY <2>1, <2>7, <2>9, <2>10 DEF Protocol!Next
<1>9. CASE fr.f \in {"message_stop", "error"}
  <2> DEFINE g == [f |-> fr.f]
             x == [c EXCEPT !.phase = "over"]
             u == [x EXCEPT !.frame = g]
  <2>1. d = u  BY <1>9 DEF Aggregate
  <2>2. g \in FramesRead /\ g.f = fr.f  BY <1>9 DEF FramesRead
  <2>3. /\ fr.f = "message_stop" => c.phase = "ended"
        /\ fr.f = "error" => c.phase \in {"idle", "begun"}
        /\ At(r, "over", c.open.kind, Len(c.content), FALSE)
    BY <1>1, <1>9 DEF Takes
  <2> HIDE DEF g
  <2>4. x \in Readers /\ x.phase = "over" /\ x.open = c.open /\ x.content = c.content
    BY DEF Readers
  <2> HIDE DEF x
  <2>5. /\ u \in Readers /\ u.phase = "over" /\ u.open = c.open /\ u.content = c.content
        /\ u.frame = g
    BY <2>2, <2>4 DEF Readers
  <2> HIDE DEF u
  <2>6. ~AwaitsResult(d)  BY <1>9, <2>1, <2>2, <2>5 DEF AwaitsResult
  <2>7. Reader(d) = r  BY <1>3, <2>1, <2>3, <2>5, <2>6
  <2>8. Protocol!MessageStop \/ Protocol!Error
    BY <1>9, <2>1, <2>3, <2>5 DEF Protocol!MessageStop, Protocol!Error, g
  <2>9. QED  BY <2>1, <2>5, <2>7, <2>8 DEF Protocol!Next
<1>10. QED
  <2>1. fr.f \in {"message_start", "block_start", "delta", "block_stop", "message_delta",
                  "message_stop", "error"}
    BY DEF Frames
  <2>2. QED  BY <1>4, <1>5, <1>6, <1>7, <1>8, <1>9, <2>1

-----------------------------------------------------------------------------
(* The translator and its reader. *)

\* What is not read yet takes the reader to where the translator stands, or, once the
\* events are over, to the end of a message that was begun.
FramesInv ==
  /\ client \in Readers
  /\ IF outcome = "none" THEN Reached(Reader(client), FALSE, tr)
     ELSE \/ MessageOver(Reader(client), tr)
          \/ Reached(Reader(client), FALSE, tr) /\ ~tr.started

\* Before a frame, the reader and the translator stand where a message begins.
LEMMA FramesInit == InitFrames => FramesInv /\ Protocol!Init
<1> SUFFICES ASSUME InitFrames
             PROVE  FramesInv /\ Protocol!Init
  OBVIOUS
<1>1. tr = New /\ client = NoClient /\ outcome = "none"  BY DEF InitFrames
<1>2. /\ << >> \in Seq(Waits) /\ << >> \in Seq(Searches) /\ << >> \in Seq(Urls)
      /\ << >> \in Seq(Frames) /\ << >> \in Seq(Blocks) /\ Len(<< >>) = 0
  BY EmptySeq
<1>3. tr \in Translators
  <2>1. NoBlock \in Opens  BY DEF NoBlock, Opens
  <2>2. QED  BY <1>1, <1>2, <2>1 DEF New, Translators
<1>4. client \in Readers
  <2>1. Nothing \in Blocks  BY <1>2 DEF Nothing, Blocks
  <2>2. [f |-> "nothing"] \in FramesRead  BY DEF FramesRead
  <2>3. QED  BY <1>1, <1>2, <2>1, <2>2 DEF NoClient, Readers
<1>5. Reader(client) = Stands(tr)
  <2>1. ~AwaitsResult(client)  BY <1>1 DEF NoClient, AwaitsResult
  <2>2. At(Reader(client), "idle", "none", 0, FALSE)
    BY <1>1, <1>2, <2>1 DEF NoClient, Nothing, Reader, At
  <2>3. At(Stands(tr), "idle", "none", 0, FALSE)
    BY <1>1 DEF New, NoBlock, Stands, At
  <2>4. QED  BY <1>3, <1>4, <2>2, <2>3, SamePlace, ReaderType, StandsType
<1>6. Reached(Reader(client), FALSE, tr)
  <2>1. tr.out = << >> /\ tr.open.kind = "none" /\ tr.pending = << >> /\ ~tr.finished
    BY <1>1 DEF New, NoBlock
  <2>2. Run(Reader(client), << >>, Stands(tr))  BY <1>3, <1>5, StandsType, RunEmpty
  <2>3. tr.finished = FALSE  BY <1>1 DEF New
  <2>4. QED  BY <1>3, <2>1, <2>2, <2>3 DEF Reached
<1>7. Protocol!Init
  BY <1>1, <1>2 DEF Protocol!Init, NoClient, Nothing
<1>8. QED  BY <1>1, <1>4, <1>6, <1>7 DEF FramesInv

\* Reading the next frame.
LEMMA ReadStep == FramesInv /\ Read => FramesInv' /\ Protocol!Next
<1> SUFFICES ASSUME FramesInv, Read
             PROVE  FramesInv' /\ Protocol!Next
  OBVIOUS
<1> DEFINE p == Reader(client)
           fr == Head(tr.out)
<1>1. /\ client \in Readers /\ tr.out # << >> /\ client' = Aggregate(client, fr)
      /\ tr' = [tr EXCEPT !.out = Tail(@)] /\ outcome' = outcome
  BY DEF FramesInv, Read
<1>2. tr \in Translators  BY DEF FramesInv, Reached, MessageOver
<1>3. tr.out \in Seq(Frames) /\ fr \in Frames /\ Tail(tr.out) \in Seq(Frames)
  <2>1. tr.out \in Seq(Frames)  BY <1>2 DEF Translators
  <2>2. QED  BY <1>1, <2>1, HeadTailProperties
<1> HIDE DEF fr
<1>4. /\ tr' \in Translators /\ tr'.out = Tail(tr.out) /\ tr'.open = tr.open
      /\ tr'.next = tr.next /\ tr'.started = tr.started /\ tr'.finished = tr.finished
      /\ tr'.pending = tr.pending
  BY <1>1, <1>2, <1>3 DEF Translators
<1>5. ASSUME NEW q, Run(p, tr.out, q)
      PROVE  client' \in Readers /\ Protocol!Next /\ Run(Reader(client'), tr'.out, q)
  <2>1. PICK r \in Places : Takes(p, fr, r) /\ Run(r, Tail(tr.out), q)
    BY ONLY <1>1, <1>3, <1>5, RunFirst DEF fr
  <2>2. client' \in Readers /\ Reader(client') = r /\ Protocol!Next
    BY <1>1, <1>3, <2>1, ReadFollows
  <2>3. QED  BY <1>4, <2>1, <2>2
<1>6. ASSUME Reached(p, FALSE, tr)
      PROVE  client' \in Readers /\ Protocol!Next /\ Reached(Reader(client'), FALSE, tr')
  <2>1. Run(p, tr.out, Stands(tr)) /\ tr.finished = FALSE
        /\ (tr.open.kind # "none" \/ tr.pending # << >> => tr.started)
    BY <1>6 DEF Reached
  <2>2. client' \in Readers /\ Protocol!Next /\ Run(Reader(client'), tr'.out, Stands(tr))
    BY <1>5, <2>1
  <2>3. Stands(tr') = Stands(tr)  BY <1>4 DEF Stands
  <2>4. QED  BY <1>4, <2>1, <2>2, <2>3 DEF Reached
<1>7. ASSUME MessageOver(p, tr)
      PROVE  client' \in Readers /\ Protocol!Next /\ MessageOver(Reader(client'), tr')
  <2>1. PICK q \in Places : Run(p, tr.out, q)  BY <1>7 DEF MessageOver
  <2>2. client' \in Readers /\ Protocol!Next /\ Run(Reader(client'), tr'.out, q)
    BY <1>5, <2>1
  <2>3. tr'.finished  BY <1>4, <1>7 DEF MessageOver
  <2>4. QED  BY <1>4, <2>2, <2>3 DEF MessageOver
<1>8. QED  BY <1>1, <1>4, <1>6, <1>7 DEF FramesInv

\* The translator takes the next event, or is told that there are no more.
LEMMA HandleStep ==
  ASSUME FramesInv, NextFrames, ~Read
  PROVE  FramesInv' /\ UNCHANGED client
<1> DEFINE p == Reader(client)
<1>1. ASSUME NEW t, Reached(p, FALSE, t), Handle(t), outcome' = outcome, outcome = "none"
      PROVE  FramesInv' /\ UNCHANGED client
  BY <1>1 DEF FramesInv, Handle
<1>2. ASSUME NEW t, MessageOver(p, t), Handle(t), outcome' # "none"
      PROVE  FramesInv' /\ UNCHANGED client
  BY <1>2 DEF FramesInv, Handle
<1>3. Live => Reached(p, FALSE, tr) /\ outcome = "none"  BY DEF FramesInv, Live
<1>4. CASE Created
  BY <1>1, <1>3, <1>4, StartMessageReaches DEF Created, backend
<1>5. ASSUME NEW x \in Items, Added(x)
      PROVE  FramesInv' /\ UNCHANGED client
  <2>1. Live /\ outcome' = outcome  BY <1>5 DEF Added
  <2>2. Handle(tr) \/ (x \in Calls /\ Handle(ItemAdded(tr, x)))  BY <1>5 DEF Added
  <2>3. QED  BY <1>1, <1>3, <2>1, <2>2, ItemAddedReaches
<1>6. ASSUME NEW x \in Messages \union Thoughts, Text(x)
      PROVE  FramesInv' /\ UNCHANGED client
  <2>1. Live /\ outcome' = outcome  BY <1>6 DEF Text, Writing
  <2>2. PICK kind \in {"text", "thinking"} : Handle(PushDelta(OpenBlock(tr, kind), kind, 1))
    BY <1>6 DEF Text
  <2> DEFINE opened == OpenBlock(tr, kind)
  <2>3. Reached(p, FALSE, opened) /\ opened.open.kind = kind /\ kind \in Filled /\ 1 \in Nat
    BY <1>3, <2>1, OpenBlockReaches DEF Filled
  <2> HIDE DEF opened
  <2>4. Reached(p, FALSE, PushDelta(opened, kind, 1))
    BY ONLY <2>3, PushDeltaReaches
  <2>5. QED  BY <1>1, <1>3, <2>1, <2>2, <2>4 DEF opened
<1>7. ASSUME NEW c \in Calls, Fragment(c)
      PROVE  FramesInv' /\ UNCHANGED client
  <2>1. Live /\ outcome' = outcome  BY <1>7 DEF Fragment, Writing
  <2>2. PICK target : Handle(ArgumentsDelta(tr, target))  BY <1>7 DEF Fragment
  <2>3. QED  BY <1>1, <1>3, <2>1, <2>2, ArgumentsDeltaReaches
<1>8. ASSUME NEW c \in Calls, CallCompletes(c)
      PROVE  FramesInv' /\ UNCHANGED client
  <2>1. Live /\ outcome' = outcome /\ Handle(CallDone(tr, c))
    BY <1>8 DEF CallCompletes, Completes, Writing
  <2>2. QED  BY <1>1, <1>3, <2>1, CallDoneReaches
<1>9. ASSUME NEW x \in Messages, NEW url \in Urls, Cited(x, url)
      PROVE  FramesInv' /\ UNCHANGED client
  <2>1. Live /\ outcome' = outcome /\ Handle(AddSource(tr, url))
    BY <1>9 DEF Cited, Writing
  <2>2. QED  BY <1>1, <1>3, <2>1, AddSourceReaches
<1>10. ASSUME NEW x \in Messages, MessageCompletes(x)
       PROVE  FramesInv' /\ UNCHANGED client
  <2>1. Live /\ outcome' = outcome  BY <1>10 DEF MessageCompletes, Completes, Writing
  <2>2. PICK url \in Urls \union {NoItem} : Handle(MessageDone(tr, url))
    BY <1>10 DEF MessageCompletes
  <2>3. QED  BY <1>1, <1>3, <2>1, <2>2, MessageDoneReaches
<1>11. ASSUME NEW x \in Thoughts, ThoughtCompletes(x)
       PROVE  FramesInv' /\ UNCHANGED client
  <2>1. Live /\ outcome' = outcome /\ Handle(tr)
    BY <1>11 DEF ThoughtCompletes, Completes, Writing
  <2>2. QED  BY <1>1, <1>3, <2>1
<1>12. ASSUME NEW x \in Searches, SearchCompletes(x)
       PROVE  FramesInv' /\ UNCHANGED client
  <2>1. Live /\ outcome' = outcome  BY <1>12 DEF SearchCompletes, Writing
  <2>2. PICK page \in Urls \union {NoItem} : Handle(SearchDone(tr, x, page))
    BY <1>12 DEF SearchCompletes
  <2>3. QED  BY <1>1, <1>3, <2>1, <2>2, SearchDoneReaches
<1>13. CASE Completed
  <2>1. Live /\ outcome' # "none" /\ Handle(CloseMessage(StartMessage(tr)))
    BY <1>13 DEF Completed, EndedBy
  <2>2. QED  BY <1>2, <1>3, <2>1, StartMessageReaches, CloseMessageReaches
<1>14. CASE Incomplete
  <2> DEFINE s == StartMessage(tr)
             u == [s EXCEPT !.stop = "max_tokens"]
  <2>1. Live /\ outcome' # "none" /\ Handle(CloseMessage(u))
    BY <1>14 DEF Incomplete, EndedBy
  <2>2. Reached(p, FALSE, s) /\ s.started  BY <1>3, <2>1, StartMessageReaches
  <2> HIDE DEF s
  <2>3. s \in Translators /\ s.finished = FALSE  BY <2>2 DEF Reached
  <2>4. /\ u \in Translators /\ u.out = s.out /\ u.open = s.open /\ u.next = s.next
        /\ u.started = s.started /\ u.finished = s.finished
    BY <2>3 DEF Translators
  <2> HIDE DEF u
  <2>5. Reached(p, FALSE, u) /\ u.started  BY <2>2, <2>3, <2>4, Silent
  <2>6. QED  BY <1>2, <2>1, <2>5, CloseMessageReaches
<1>15. CASE Failed
  <2>1. Live /\ outcome' # "none" /\ Handle(EmitError(tr))
    BY <1>15 DEF Failed, EndedBy
  <2>2. QED  BY <1>2, <1>3, <2>1, EmitErrorReaches
<1>16. CASE Exhausted
  <2>1. outcome' # "none" /\ Handle(Finish(tr))
    BY <1>16 DEF Exhausted, EndedBy
  <2>2. CASE Reached(p, FALSE, tr) /\ tr.started
    <3>1. Finish(tr) = CloseMessage(tr)  BY <2>2 DEF Finish, Reached
    <3>2. QED  BY <1>2, <2>1, <2>2, <3>1, CloseMessageReaches
  <2>3. CASE Reached(p, FALSE, tr) /\ ~tr.started
    <3>1. Finish(tr) = tr  BY <2>3 DEF Finish
    <3>2. QED  BY <2>1, <2>3, <3>1 DEF Handle, FramesInv
  <2>4. CASE MessageOver(p, tr)
    <3>1. Finish(tr) = tr  BY <2>4 DEF Finish, MessageOver
    <3>2. QED  BY <1>2, <2>1, <2>4, <3>1
  <2>5. QED  BY <2>2, <2>3, <2>4 DEF FramesInv
<1>17. QED
  BY <1>4, <1>5, <1>6, <1>7, <1>8, <1>9, <1>10, <1>11, <1>12, <1>13, <1>14, <1>15, <1>16
     DEF NextFrames

\* Only reading a frame moves the reader, and it is a step of a message.
LEMMA FramesStep ==
  FramesInv /\ [NextFrames]_frameVars => FramesInv' /\ [Protocol!Next]_(Protocol!protocol)
<1> SUFFICES ASSUME FramesInv, [NextFrames]_frameVars
             PROVE  FramesInv' /\ [Protocol!Next]_(Protocol!protocol)
  OBVIOUS
<1>1. CASE Read  BY <1>1, ReadStep
<1>2. CASE NextFrames /\ ~Read
  <2>1. FramesInv' /\ UNCHANGED client  BY <1>2, HandleStep
  <2>2. UNCHANGED Protocol!protocol  BY <2>1 DEF Protocol!protocol
  <2>3. QED  BY <2>1, <2>2
<1>3. CASE UNCHANGED frameVars
  <2>1. client' = client /\ tr' = tr /\ outcome' = outcome  BY <1>3 DEF frameVars
  <2>2. UNCHANGED Protocol!protocol  BY <2>1 DEF Protocol!protocol
  <2>3. QED  BY <2>1, <2>2 DEF FramesInv
<1>4. QED  BY <1>1, <1>2, <1>3

\* Whatever the backend writes, several items at once, in whatever order they are
\* announced, streamed and completed and wherever it stops, the frames read are one
\* message: its blocks one at a time and numbered in order, every delta in the block
\* that is open, and one end (ResponseFrames!FollowsProtocol; translate/response.rs).
THEOREM FramesFollow == FramesSpec => FollowsProtocol
BY FramesInit, FramesStep, PTL DEF FramesSpec, FollowsProtocol, Protocol!Spec
=============================================================================
