--------------------------- MODULE ResponseFrames ---------------------------
(***************************************************************************)
(* The translator that turns the backend's events into the frames of one   *)
(* message: translate/response.rs, read by the fold of                     *)
(* anthropic/aggregate.rs, which is also what a streaming client keeps.    *)
(*                                                                         *)
(* The backend (external) writes items, several at once: calls streamed in *)
(* fragments or only on completion, named when announced or not, messages, *)
(* reasoning and searches, and ends at any point.  Only one block may be   *)
(* open towards the client, so calls wait.  An argument or a text is the   *)
(* number of fragments it is made of.                                      *)
(***************************************************************************)
EXTENDS Naturals, FiniteSets, SequencesExt

CONSTANTS Calls, Messages, Thoughts, Searches,  \* items the backend may write
          Urls,                                 \* sources it may name
          NoItem,
          Size,       \* the fragments a call's arguments are made of
          MaxText,    \* bound: fragments of a message or of a thought
          MaxItems    \* bound: items of one answer

Items == Calls \cup Messages \cup Thoughts \cup Searches

ASSUME ItemsDistinct == /\ Calls \cap Messages = {} /\ Thoughts \cap Searches = {}
                        /\ (Calls \cup Messages) \cap (Thoughts \cup Searches) = {}
                        /\ NoItem \notin Items
ASSUME SizeAssumption == Size \in Nat \ {0}

VARIABLES
  tr,        \* the translator, and in out the frames not yet read
  client,    \* what reading the frames has made of the answer
  item,      \* [Items -> {"new", "open", "done"}]: how far the backend is
  sent,      \* [Items -> Nat]: the fragments it has sent of each
  announced, \* the calls, in the order the translator learned their names
  returned,  \* the items completed, in order: what the baseline is made of
  cited,     \* the sources named so far
  cut,       \* the items whose block another one closed before their end
  outcome    \* the event that ended the stream, "none" before it

backend   == <<item, sent, announced, returned, cited, outcome>>
frameVars == <<tr, client, item, sent, announced, returned, cited, cut, outcome>>

-----------------------------------------------------------------------------
(* The translator, one operator per function. *)

NoBlock == [kind |-> "none", call |-> NoItem, streamed |-> FALSE]

New == [started |-> FALSE, finished |-> FALSE, open |-> NoBlock, next |-> 0,
        sawCall |-> FALSE, emitted |-> {}, pending |-> <<>>, stop |-> "end_turn",
        searches |-> <<>>, sources |-> <<>>, out |-> <<>>]

Emit(t, frames) == [t EXCEPT !.out = @ \o frames]

BlockStart(i, kind, of, list) ==
  [f |-> "block_start", i |-> i, kind |-> kind, of |-> of, list |-> list]
BlockStop(i) == [f |-> "block_stop", i |-> i]

StartMessage(t) ==
  IF t.started THEN t
  ELSE Emit([t EXCEPT !.started = TRUE], <<[f |-> "message_start"]>>)

CloseBlock(t) ==
  IF t.open.kind = "none" THEN t
  ELSE [Emit(t, <<BlockStop(t.next)>>) EXCEPT !.next = @ + 1, !.open = NoBlock]

PushDelta(t, kind, n) == Emit(t, <<[f |-> "delta", i |-> t.next, kind |-> kind, n |-> n]>>)

OpenBlock(t, kind) ==
  IF t.open.kind = kind THEN t
  ELSE LET u == CloseBlock(StartMessage(t))
       IN [Emit(u, <<BlockStart(u.next, kind, NoItem, <<>>)>>)
             EXCEPT !.open = [NoBlock EXCEPT !.kind = kind]]

\* Mutant: a call's block is opened over the block that is open.
OpenToolUseOver(t, c) ==
  [Emit(t, <<BlockStart(t.next, "call", c, <<>>)>>)
     EXCEPT !.sawCall = TRUE,
            !.emitted = @ \cup {c},
            !.open = [kind |-> "call", call |-> c, streamed |-> FALSE]]

OpenToolUse(t, c) ==
  LET u == CloseBlock(t)
  IN [Emit(u, <<BlockStart(u.next, "call", c, <<>>)>>)
        EXCEPT !.sawCall = TRUE,
               !.emitted = @ \cup {c},
               !.open = [kind |-> "call", call |-> c, streamed |-> FALSE]]

IsPending(t, c)       == \E k \in DOMAIN t.pending : t.pending[k].call = c
PendingAt(t, c)       == CHOOSE k \in DOMAIN t.pending : t.pending[k].call = c
AnotherCallOpen(t, c) == t.open.kind = "call" /\ t.open.call # c
Waiting(t, c, done)   ==
  [t EXCEPT !.pending = Append(@, [call |-> c, streamed |-> 0, completed |-> done])]

\* One turn of drain_pending's loop: the call that waited longest is opened,
\* with what it streamed or what its completion carried.
DrainOne(t, closing) ==
  IF t.open.kind = "call" \/ t.pending = <<>> THEN t
  ELSE LET w       == Head(t.pending)
           opened  == OpenToolUse([t EXCEPT !.pending = Tail(@)], w.call)
           n       == IF w.streamed = 0 /\ w.completed THEN Size ELSE w.streamed
           written == IF n = 0 THEN opened
                      ELSE PushDelta([opened EXCEPT !.open.streamed = TRUE], "call", n)
       IN IF w.completed \/ closing THEN CloseBlock(written) ELSE written

DrainPending(t, closing) ==
  LET drained[n \in 0 .. Len(t.pending)] ==
        IF n = 0 THEN t ELSE DrainOne(drained[n - 1], closing)
  IN  drained[Len(t.pending)]

ItemAdded(t, c) ==
  LET u == StartMessage(t)
  IN IF c \in u.emitted \/ IsPending(u, c) THEN u
     ELSE IF AnotherCallOpen(u, c) THEN Waiting(u, c, FALSE)
     ELSE OpenToolUse(u, c)

\* A fragment may name its call or not: target is NoItem when it does not.
ArgumentsDelta(t, target) ==
  IF target # NoItem /\ IsPending(t, target)
    THEN [t EXCEPT !.pending[PendingAt(t, target)].streamed = @ + 1]
  ELSE IF t.open.kind # "call" \/ target \notin {NoItem, t.open.call} THEN t
  ELSE PushDelta([t EXCEPT !.open.streamed = TRUE], "call", 1)

FinishCall(t) ==
  DrainPending(CloseBlock(IF t.open.streamed THEN t ELSE PushDelta(t, "call", Size)), FALSE)

\* Mutant: a completed call is opened though its block has been closed already.
CallDoneAgain(t, c) ==
  LET u == StartMessage(t)
  IN IF u.open.kind = "call" /\ u.open.call = c THEN FinishCall(u)
     ELSE IF IsPending(u, c)
       THEN LET v == [u EXCEPT !.pending[PendingAt(u, c)].completed = TRUE]
            IN IF u.open.kind = "call" THEN v ELSE DrainPending(v, FALSE)
     ELSE IF AnotherCallOpen(u, c) THEN Waiting(u, c, TRUE)
     ELSE FinishCall(OpenToolUse(u, c))

CallDone(t, c) ==
  LET u == StartMessage(t)
  IN IF u.open.kind = "call" /\ u.open.call = c THEN FinishCall(u)
     ELSE IF c \in u.emitted THEN u
     ELSE IF IsPending(u, c)
       THEN LET v == [u EXCEPT !.pending[PendingAt(u, c)].completed = TRUE]
            IN IF u.open.kind = "call" THEN v ELSE DrainPending(v, FALSE)
     ELSE IF AnotherCallOpen(u, c) THEN Waiting(u, c, TRUE)
     ELSE FinishCall(OpenToolUse(u, c))

AddSource(t, url) ==
  IF url \in ToSet(t.sources) THEN t ELSE [t EXCEPT !.sources = Append(@, url)]

Sourced(t, url) == IF url = NoItem THEN t ELSE AddSource(t, url)

\* Mutant: a message that completes leaves its block open for the next one's text.
MessageDoneLeavingOpen(t, url) == Sourced(t, url)

\* A message repeats its citations when it completes, and ends its block.
MessageDone(t, url) ==
  LET u == Sourced(t, url) IN IF u.open.kind = "text" THEN CloseBlock(u) ELSE u

\* A search action, or a page the model opened, which is only a source.
SearchDone(t, s, page) ==
  IF page # NoItem THEN AddSource(t, page) ELSE [t EXCEPT !.searches = Append(@, s)]

\* A search and its results, a block each.
TellSearch(t, s, sources) ==
  [Emit(t, <<BlockStart(t.next, "search", s, <<>>), BlockStop(t.next),
             BlockStart(t.next + 1, "result", s, sources), BlockStop(t.next + 1)>>)
     EXCEPT !.next = @ + 2]

EmitSearches(t) ==
  LET told[n \in 0 .. Len(t.searches)] ==
        IF n = 0 THEN [CloseBlock(t) EXCEPT !.sources = <<>>, !.searches = <<>>]
        ELSE TellSearch(told[n - 1], t.searches[n], t.sources)
  IN  IF t.searches = <<>> THEN t ELSE told[Len(t.searches)]

CloseMessage(t) ==
  IF t.finished THEN t
  ELSE LET u == EmitSearches(DrainPending(CloseBlock([t EXCEPT !.finished = TRUE]), TRUE))
           v == IF u.sawCall /\ u.stop = "end_turn" THEN [u EXCEPT !.stop = "tool_use"] ELSE u
       IN Emit(v, <<[f |-> "message_delta", reason |-> v.stop], [f |-> "message_stop"]>>)

EmitError(t) == Emit([t EXCEPT !.finished = TRUE], <<[f |-> "error"]>>)

Finish(t) == IF t.started /\ ~t.finished THEN CloseMessage(t) ELSE t

-----------------------------------------------------------------------------
(* The fold of the frames into an answer. *)

Nothing == [kind |-> "none", of |-> NoItem, n |-> 0, list |-> <<>>]

NoClient == [phase |-> "idle", open |-> Nothing, content |-> <<>>, reason |-> "none",
             frame |-> [f |-> "nothing"]]

\* A block still open is kept when another starts over it: aggregate.
KeepOpen(c) == IF c.open.kind = "none" THEN c
               ELSE [c EXCEPT !.content = Append(@, c.open), !.open = Nothing]

Aggregate(c, fr) ==
  CASE fr.f = "message_start" ->
         [c EXCEPT !.phase = "begun", !.frame = [f |-> fr.f]]
    [] fr.f = "block_start" ->
         [KeepOpen(c) EXCEPT !.open = [kind |-> fr.kind, of |-> fr.of, n |-> 0, list |-> fr.list],
                             !.frame = [f |-> fr.f, i |-> fr.i, kind |-> fr.kind]]
    [] fr.f = "delta" ->
         [(IF c.open.kind = fr.kind THEN [c EXCEPT !.open.n = @ + fr.n] ELSE c)
            EXCEPT !.frame = [f |-> fr.f, i |-> fr.i, kind |-> fr.kind]]
    [] fr.f = "block_stop" ->
         [KeepOpen(c) EXCEPT !.frame = [f |-> fr.f, i |-> fr.i, kind |-> c.open.kind]]
    [] fr.f = "message_delta" ->
         [c EXCEPT !.phase = "ended", !.reason = fr.reason, !.frame = [f |-> fr.f]]
    [] fr.f \in {"message_stop", "error"} ->
         [c EXCEPT !.phase = "over", !.frame = [f |-> fr.f]]

-----------------------------------------------------------------------------
InitFrames ==
  /\ tr = New
  /\ client = NoClient
  /\ item = [x \in Items |-> "new"]
  /\ sent = [x \in Items |-> 0]
  /\ announced = <<>>
  /\ returned = <<>>
  /\ cited = {}
  /\ cut = {}
  /\ outcome = "none"

\* The next event is read only once the frames of the last have been.
Live == outcome = "none" /\ tr.out = <<>>

Writing(x) == Live /\ item[x] = "open"

\* The item whose block is open: messages follow one another, so a text block
\* is the open message's.
Owner(t) == IF t.open.kind = "call" THEN {t.open.call}
            ELSE IF t.open.kind = "text" THEN {x \in Messages : item[x] = "open"}
            ELSE {}

\* One event handled: the translator moves, and an item whose block another
\* has closed before its end is cut.
Handle(t) == /\ tr' = t
             /\ cut' = cut \cup {x \in Owner(tr) \ Owner(t) : item'[x] # "done"}
             /\ UNCHANGED client

Created == /\ Live /\ ~tr.started
           /\ UNCHANGED backend
           /\ Handle(StartMessage(tr))

Added(x) == /\ Live /\ item[x] = "new"
            /\ Cardinality({y \in Items : item[y] # "new"}) < MaxItems
            /\ x \in Messages => \A y \in Messages : item[y] # "open"
            /\ item' = [item EXCEPT ![x] = "open"]
            /\ \E named \in BOOLEAN :
                 IF x \in Calls /\ named
                   THEN Handle(ItemAdded(tr, x)) /\ announced' = Append(announced, x)
                   ELSE Handle(tr) /\ UNCHANGED announced
            /\ UNCHANGED <<sent, returned, cited, outcome>>

Text(x) == /\ Writing(x) /\ sent[x] < MaxText
           /\ sent' = [sent EXCEPT ![x] = @ + 1]
           /\ UNCHANGED <<item, announced, returned, cited, outcome>>
           /\ LET kind == IF x \in Messages THEN "text" ELSE "thinking"
              IN Handle(PushDelta(OpenBlock(tr, kind), kind, 1))

\* Only a call that streams alone may leave its fragments unnamed.
Fragment(c) == /\ Writing(c) /\ sent[c] < Size
               /\ sent' = [sent EXCEPT ![c] = @ + 1]
               /\ UNCHANGED <<item, announced, returned, cited, outcome>>
               /\ \E target \in {c, NoItem} :
                    /\ target = NoItem => cut = {} /\ \A y \in Items \ {c} : item[y] # "open"
                    /\ Handle(ArgumentsDelta(tr, target))

Cited(x, url) == /\ Writing(x)
                 /\ cited' = cited \cup {url}
                 /\ UNCHANGED <<item, sent, announced, returned, outcome>>
                 /\ Handle(AddSource(tr, url))

Completes(x) == /\ Writing(x)
                /\ item' = [item EXCEPT ![x] = "done"]
                /\ returned' = Append(returned, x)
                /\ UNCHANGED <<sent, outcome>>

\* A call streams its arguments, or leaves them to its completion; it has a
\* name by then.
CallCompletes(c) == /\ Completes(c) /\ sent[c] \in {0, Size}
                    /\ Handle(CallDone(tr, c))
                    /\ announced' = IF c \in ToSet(announced) THEN announced
                                    ELSE Append(announced, c)
                    /\ UNCHANGED cited

MessageCompletes(x) == /\ Completes(x) /\ sent[x] > 0
                       /\ UNCHANGED announced
                       /\ \E url \in Urls \cup {NoItem} :
                            /\ cited' = cited \cup ({url} \ {NoItem})
                            /\ Handle(MessageDone(tr, url))

ThoughtCompletes(x) == /\ Completes(x)
                       /\ Handle(tr)
                       /\ UNCHANGED <<announced, cited>>

SearchCompletes(x) == /\ Writing(x)
                      /\ item' = [item EXCEPT ![x] = "done"]
                      /\ \E page \in Urls \cup {NoItem} :
                           /\ Handle(SearchDone(tr, x, page))
                           /\ cited' = cited \cup ({page} \ {NoItem})
                           \* a page opened is no search to be shown
                           /\ returned' = IF page = NoItem THEN Append(returned, x) ELSE returned
                      /\ UNCHANGED <<sent, announced, outcome>>

EndedBy(o) == /\ outcome' = o
              /\ UNCHANGED <<item, sent, announced, returned, cited>>

Completed == /\ Live /\ \A x \in Items : item[x] # "open"
             /\ EndedBy("completed")
             /\ Handle(CloseMessage(StartMessage(tr)))

Incomplete == /\ Live
              /\ EndedBy("incomplete")
              /\ Handle(CloseMessage([StartMessage(tr) EXCEPT !.stop = "max_tokens"]))

Failed == /\ Live
          /\ EndedBy("failed")
          /\ Handle(EmitError(tr))

\* The events are over: finish is called, whatever ended them.
Exhausted == /\ tr.out = <<>>
             /\ EndedBy(IF outcome = "none" THEN "truncated" ELSE outcome)
             /\ Handle(Finish(tr))

Read == /\ tr.out # <<>>
        /\ client' = Aggregate(client, Head(tr.out))
        /\ tr' = [tr EXCEPT !.out = Tail(@)]
        /\ UNCHANGED <<item, sent, announced, returned, cited, cut, outcome>>

NextFrames ==
  \/ Created \/ Read
  \/ \E x \in Items : Added(x)
  \/ \E x \in Messages \cup Thoughts : Text(x)
  \/ \E c \in Calls : Fragment(c) \/ CallCompletes(c)
  \/ \E x \in Messages, url \in Urls : Cited(x, url)
  \/ \E x \in Messages : MessageCompletes(x)
  \/ \E x \in Thoughts : ThoughtCompletes(x)
  \/ \E x \in Searches : SearchCompletes(x)
  \/ Completed \/ Incomplete \/ Failed \/ Exhausted

FramesSpec == InitFrames /\ [][NextFrames]_frameVars

-----------------------------------------------------------------------------
(* Properties. *)

FramesTypeOK ==
  /\ tr.open.kind \in {"none", "text", "thinking", "call"}
  /\ tr.emitted \subseteq Calls /\ tr.sawCall \in BOOLEAN /\ tr.next \in Nat
  /\ tr.open.kind = "call" => tr.open.call \in tr.emitted
  /\ \A k \in DOMAIN tr.pending : tr.pending[k].call \in Calls \ tr.emitted
  /\ IsInjective(tr.sources) /\ ToSet(tr.sources) \subseteq Urls
  /\ client.phase \in {"idle", "begun", "ended", "over"}
  /\ item \in [Items -> {"new", "open", "done"}]
  /\ sent \in [Items -> 0..(Size + MaxText)]
  /\ IsInjective(announced) /\ IsInjective(returned) /\ cut \subseteq Items
  /\ outcome \in {"none", "completed", "incomplete", "failed", "truncated"}

\* The frames read keep the protocol of a message, however the backend's items
\* overlap and wherever it stops.
Protocol == INSTANCE MessageProtocol
              WITH phase <- client.phase, open <- client.open.kind,
                   index <- Len(client.content), frame <- client.frame

FollowsProtocol == Protocol!Spec

Over        == client.phase = "over" /\ client.frame.f = "message_stop"
Shown(kind) == SelectSeq(client.content, LAMBDA b : b.kind = kind)
ShownCalls  == FoldLeft(LAMBDA s, b : Append(s, b.of), <<>>, Shown("call"))

\* A call that completed reaches the client with its arguments whole: once, and
\* not cut, whether they were streamed to it, held while another call's block
\* was open, or came with its completion.
CallsWhole ==
  \A k \in DOMAIN client.content :
    LET b == client.content[k]
    IN b.kind = "call" => /\ b.n <= Size
                          /\ item[b.of] = "done" /\ b.of \notin cut => b.n = Size

\* Every call the translator could name is one block of the answer, in the
\* order they were announced, and an answer with a call in it says to run it.
EachCallOnce ==
  Over => /\ ToSet(ShownCalls) = ToSet(announced) /\ IsInjective(ShownCalls)
          /\ cut = {} => ShownCalls = announced
          /\ client.reason = CASE outcome = "incomplete" -> "max_tokens"
                               [] outcome # "incomplete" /\ announced # <<>> -> "tool_use"
                               [] OTHER -> "end_turn"

\* What the client replays of a completed answer is what the baseline holds of
\* it, item for item: one text block is one message, one call block one call.
\* Items that completed in another order than they were announced, or that
\* cut one another, are the exception: their replay never matches.
Replayed == FoldLeft(LAMBDA s, b : Append(s, b.kind), <<>>,
                     SelectSeq(client.content, LAMBDA b : b.kind \in {"text", "call"}))
Baseline == FoldLeft(LAMBDA s, x : IF x \in Calls THEN Append(s, "call")
                                   ELSE IF x \in Messages THEN Append(s, "text") ELSE s,
                     <<>>, returned)
ReplayLinesUp ==
  Over /\ outcome = "completed" /\ cut = {} =>
    LET calls == SelectSeq(returned, LAMBDA x : x \in Calls)
    IN calls = announced => Replayed = Baseline /\ ShownCalls = calls

\* Every search the backend ran is shown with every source of the answer, each
\* once, though the citations arrive after the search is over.
SearchesTold ==
  Over => /\ ToSet(FoldLeft(LAMBDA s, b : Append(s, b.of), <<>>, Shown("search")))
                = {x \in Searches : x \in ToSet(returned)}
          /\ \A k \in DOMAIN client.content :
               client.content[k].kind = "result" =>
                 ToSet(client.content[k].list) = cited /\ IsInjective(client.content[k].list)

\* Nothing the backend said to be acted on or shown is lost, cut or told twice
\* on its way to the client (translate/response.rs).
AnswerIsWhole == CallsWhole /\ EachCallOnce /\ SearchesTold
=============================================================================
