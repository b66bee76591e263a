---------------------------- MODULE SessionTurns ----------------------------
(***************************************************************************)
(* The turns of one conversation: what ingress does with a Session         *)
(* (crates/proxy/src/session.rs, ingress.rs), the Conduit that picks a     *)
(* transport for each turn (upstream/conduit.rs), the connection the       *)
(* conversation pools between turns (upstream/pool.rs), and the backend    *)
(* that holds, through a connection, the response that connection last     *)
(* produced.                                                               *)
(*                                                                         *)
(* Each turn is a task of a multi-threaded runtime.  A turn is split where *)
(* the code gives up a lock or awaits, so every interleaving of two turns  *)
(* of one conversation is a behaviour of this module.                      *)
(*                                                                         *)
(* A turn dials at most once (a pooled connection that fails is replaced   *)
(* by one fresh connection, a fresh one that fails ends the WebSocket), so *)
(* a connection is named by the turn that dialled it; a turn obtains at    *)
(* most one response, so a response is named by its turn too.              *)
(***************************************************************************)
EXTENDS Conversation

CONSTANTS
  Turn,      \* the turns made on this conversation (the bound of a run)
  Said,      \* what a client may say in one turn
  Fields,    \* values of everything a request carries besides its input
  Reply,     \* what a response may return: the kinds of its items, and whether
             \* one more follows that the client replays and nobody here can hold
  None       \* no response, no connection

ASSUME NoneAssumption == None \notin Turn /\ None \notin Fields

ASSUME ReplyAssumption ==
  Reply \subseteq [kinds : Seq({"message", "reasoning", "search"}),
                   unheld : BOOLEAN]

VARIABLES
  \* Session
  baseline,      \* what the backend is taken to have been told, in order
  lastFields,    \* last_request, of which the delta reads the fields only
  lastResponse,  \* last_response_id
  confirmed,     \* whether a turn has ever completed here
  \* Conduit
  slot,          \* the pooled connection
  latched,       \* latched_to_http
  seen,          \* seen_response_id of each connection
  \* one turn's own state
  pc, input, fields, snap, sent, conn, reused, continues, ended, gone,
  \* the backend and the client (external)
  heard,         \* what the backend takes the input of a response to be
  reply,         \* what it answered
  unheld,        \* whether it also answered with a replayed item none here can hold
  \* history
  clobbered      \* a seed has overwritten a confirmed baseline

session == <<baseline, lastFields, lastResponse, confirmed>>
conduit == <<slot, latched, seen>>
local   == <<input, fields, snap, sent, conn, reused, continues, ended, gone>>
outside == <<heard, reply, unheld>>
vars    == <<session, conduit, pc, local, outside, clobbered>>

\* The items a request can carry.
Holdable == [kind : {"user"}, of : Said]
              \union [kind : {"message", "reasoning"}, of : Turn \X (Nat \ {0})]
              \union [kind : {"unheld"}, of : Turn]

\* The backend's own context has the searches it ran besides: a web_search_call
\* is no InputItem, so that no request carries one.
Item == Holdable \union [kind : {"search"}, of : Turn \X (Nat \ {0})]

\* What close_turn keeps of a conversation: an item that does not parse, and that
\* the client does not replay, is passed over, and the response is continued all
\* the same.
Held(conversation) ==
  Picked(conversation,
         {i \in DOMAIN conversation : conversation[i].kind # "search"})

\* The items turn t gets back when the backend answers with the kinds k.
Returned(t, k) == [i \in DOMAIN k |-> [kind |-> k[i], of |-> <<t, i>>]]
Unheld(t) == <<[kind |-> "unheld", of |-> t]>>

\* Everything the backend holds once response r is over.
Context(r) == heard[r] \o reply[r] \o (IF unheld[r] THEN Unheld(r) ELSE << >>)

\* The conversation the client has once it has read turn o's answer, as far as
\* a replay of it reaches the session: the blocks a search is shown as are left
\* out when a request is translated.
Shown(o) ==
  input[o]
    \o Replayable(Held(reply[o] \o (IF unheld[o] THEN Unheld(o) ELSE << >>)))

Goto(t, label) == pc' = [pc EXCEPT ![t] = label]

Init ==
  /\ baseline = << >> /\ lastFields = None /\ lastResponse = None
  /\ confirmed = FALSE
  /\ slot = None /\ latched = FALSE /\ seen = [c \in Turn |-> None]
  /\ pc = [t \in Turn |-> "idle"]
  /\ input = [t \in Turn |-> << >>]
  /\ fields = [t \in Turn |-> None]
  /\ snap = [t \in Turn |->
       [baseline |-> << >>, fields |-> None, response |-> None]]
  /\ sent = [t \in Turn |-> << >>]
  /\ conn = [t \in Turn |-> None]
  /\ reused = [t \in Turn |-> FALSE]
  /\ continues = [t \in Turn |-> None]
  /\ ended = [t \in Turn |-> "no"]
  /\ gone = [t \in Turn |-> FALSE]
  /\ heard = [t \in Turn |-> << >>]
  /\ reply = [t \in Turn |-> << >>]
  /\ unheld = [t \in Turn |-> FALSE]
  /\ clobbered = FALSE
-----------------------------------------------------------------------------
(***************************************************************************)
(* Resolving, reading and seeding the session.                             *)
(***************************************************************************)

Ask(t, i, f) ==
  /\ input' = [input EXCEPT ![t] = i]
  /\ fields' = [fields EXCEPT ![t] = f]
  /\ Goto(t, "resolved")

\* The conversation's first request: the store creates the session and, still
\* under its lock, claims it by seeding the baseline.
Open(t) ==
  /\ \A o \in Turn : pc[o] = "idle"
  /\ \E u \in Said, f \in Fields :
       LET first == <<[kind |-> "user", of |-> u]>>
       IN  Ask(t, first, f) /\ baseline' = first
  /\ UNCHANGED <<lastFields, lastResponse, confirmed, conduit, snap, sent,
                 conn, reused, continues, ended, gone, outside, clobbered>>

\* A later request the store resolves to this session: a replay of something
\* the client was shown, or of a question it asked that may have failed, with
\* one more thing said, that lines up with the baseline.
Join(t) ==
  /\ pc[t] = "idle" /\ \E o \in Turn : pc[o] # "idle"
  /\ \E o \in Turn, u \in Said, f \in Fields :
       \E past \in {input[o], Shown(o)} :
         LET i == Append(past, [kind |-> "user", of |-> u])
         IN  i \in Seq(Holdable) /\ Reconciles(baseline, i) /\ Ask(t, i, f)
  /\ UNCHANGED <<session, conduit, snap, sent, conn, reused, continues, ended,
                 gone, outside, clobbered>>

\* Session::snapshot under the turn lock, and the reconciled input computed
\* from it.
Snapshot(t) ==
  /\ pc[t] = "resolved"
  /\ snap' = [snap EXCEPT ![t] =
       [baseline |-> baseline, fields |-> lastFields, response |-> lastResponse]]
  /\ sent' = [sent EXCEPT ![t] = FullInput(baseline, input[t])]
  /\ Goto(t, "snapped")
  /\ UNCHANGED <<session, conduit, input, fields, conn, reused, continues, ended,
                 gone, outside, clobbered>>

\* seed_if_unconfirmed reads the flag ...
CheckConfirmed(t) ==
  /\ pc[t] = "snapped"
  /\ Goto(t, IF confirmed THEN "ready" ELSE "seeding")
  /\ UNCHANGED <<session, conduit, local, outside, clobbered>>

\* ... and writes the baseline, holding neither the turn lock nor anything
\* else between the two.
Seed(t) ==
  /\ pc[t] = "seeding"
  /\ baseline' = sent[t]
  /\ clobbered' = (clobbered \/ confirmed)
  /\ Goto(t, "ready")
  /\ UNCHANGED <<lastFields, lastResponse, confirmed, conduit, local, outside>>

(***************************************************************************)
(* Conduit::send.  A turn is "ready" while the transport is still to be    *)
(* chosen and "sending" while it holds a connection, open or being opened, *)
(* on which no response has started.                                       *)
(***************************************************************************)

\* Mutants: a delta is planned whatever connection is in hand, or without asking
\* whether it extends the baseline.
MayContinueAnywhere(t, c) ==
  /\ snap[t].response # None /\ c # None
  /\ snap[t].fields = fields[t]
  /\ Extends(snap[t].baseline, sent[t])
  /\ Delta(snap[t].baseline, sent[t]) # << >>

MayContinueUnchecked(t, c) ==
  /\ snap[t].response # None
  /\ c # None /\ seen[c] = snap[t].response
  /\ snap[t].fields = fields[t]
  /\ Len(sent[t]) > Len(snap[t].baseline)

\* Conduit::send's own check followed by plan_upload.
MayContinue(t, c) ==
  /\ snap[t].response # None
  /\ c # None /\ seen[c] = snap[t].response
  /\ snap[t].fields = fields[t]
  /\ Extends(snap[t].baseline, sent[t])
  /\ Delta(snap[t].baseline, sent[t]) # << >>

\* Mutant: the connection is borrowed from the pool and not taken out of it.
TakeConnectionShared(t) ==
  /\ pc[t] = "ready" /\ ~latched
  /\ conn' = [conn EXCEPT ![t] = IF slot = None THEN t ELSE slot]
  /\ reused' = [reused EXCEPT ![t] = slot # None]
  /\ continues' = [continues EXCEPT ![t] =
       IF MayContinue(t, slot) THEN snap[t].response ELSE None]
  /\ Goto(t, "sending")
  /\ UNCHANGED <<session, conduit, input, fields, snap, sent, ended, gone,
                 outside, clobbered>>

\* The pooled connection is taken, or one is dialled; the upload is planned
\* against the one that was pooled.
TakeConnection(t) ==
  /\ pc[t] = "ready" /\ ~latched
  /\ slot' = None
  /\ conn' = [conn EXCEPT ![t] = IF slot = None THEN t ELSE slot]
  /\ reused' = [reused EXCEPT ![t] = slot # None]
  /\ continues' = [continues EXCEPT ![t] =
       IF MayContinue(t, slot) THEN snap[t].response ELSE None]
  /\ Goto(t, "sending")
  /\ UNCHANGED <<session, latched, seen, input, fields, snap, sent, ended, gone,
                 outside, clobbered>>

\* The backend takes the request and names its response: on the connection,
\* continuing the response the frame names, or in full.
Accept(t) ==
  /\ pc[t] = "sending"
  /\ seen' = [seen EXCEPT ![conn[t]] = t]
  /\ heard' = [heard EXCEPT ![t] =
       IF continues[t] = None THEN sent[t]
       ELSE Context(continues[t]) \o Delta(snap[t].baseline, sent[t])]
  /\ Goto(t, "streaming")
  /\ UNCHANGED <<session, slot, latched, local, reply, unheld, clobbered>>

\* A pooled connection that fails before the response starts is stale: the
\* turn is retried once, on a fresh connection, in full.
RetryFresh(t) ==
  /\ pc[t] = "sending" /\ reused[t]
  /\ conn' = [conn EXCEPT ![t] = t]
  /\ reused' = [reused EXCEPT ![t] = FALSE]
  /\ continues' = [continues EXCEPT ![t] = None]
  /\ UNCHANGED <<session, conduit, pc, input, fields, snap, sent, ended, gone,
                 outside, clobbered>>

\* A fresh connection that does not open, or fails before the response starts,
\* ends the WebSocket for this conversation; the turn goes on over HTTP.
FallBack(t) ==
  /\ pc[t] = "sending" /\ ~reused[t]
  /\ latched' = TRUE
  /\ conn' = [conn EXCEPT ![t] = None]
  /\ Goto(t, "ready")
  /\ UNCHANGED <<session, slot, seen, input, fields, snap, sent, reused,
                 continues, ended, gone, outside, clobbered>>

\* HTTP is stateless: it always carries the whole conversation.
AcceptHttp(t) ==
  /\ pc[t] = "ready" /\ latched
  /\ heard' = [heard EXCEPT ![t] = sent[t]]
  /\ Goto(t, "streaming")
  /\ UNCHANGED <<session, conduit, local, reply, unheld, clobbered>>

\* A request larger than the model's window, a failure over HTTP, or a
\* credential refused before a fresh connection opens answers the turn and
\* changes nothing.
RefuseTurn(t) ==
  /\ \/ pc[t] = "ready"
     \/ pc[t] = "sending" /\ ~reused[t]
  /\ conn' = [conn EXCEPT ![t] = None]
  /\ Goto(t, "done")
  /\ UNCHANGED <<session, conduit, input, fields, snap, sent, reused, continues,
                 ended, gone, outside, clobbered>>
-----------------------------------------------------------------------------
(***************************************************************************)
(* The response: the pump, parking the connection, and closing the turn.   *)
(***************************************************************************)

\* response.completed: the client has been shown the whole answer, the pump
\* still has the connection to park, the turn is still to be closed.
Complete(t) ==
  /\ pc[t] = "streaming"
  /\ \E r \in Reply :
       /\ reply' = [reply EXCEPT ![t] = Returned(t, r.kinds)]
       /\ unheld' = [unheld EXCEPT ![t] = r.unheld]
  /\ ended' = [ended EXCEPT ![t] = "completed"]
  /\ Goto(t, IF conn[t] = None THEN "closing" ELSE "parking")
  /\ UNCHANGED <<session, conduit, input, fields, snap, sent, conn, reused,
                 continues, gone, heard, clobbered>>

\* response.failed or response.incomplete: the client may have been shown part
\* of an answer; the connection is parked, the turn is not closed.
EndUnfinished(t) ==
  /\ pc[t] = "streaming"
  /\ \E r \in Reply : reply' = [reply EXCEPT ![t] = Returned(t, r.kinds)]
  /\ ended' = [ended EXCEPT ![t] = "unfinished"]
  /\ Goto(t, IF conn[t] = None THEN "done" ELSE "parking")
  /\ UNCHANGED <<session, conduit, input, fields, snap, sent, conn, reused,
                 continues, gone, heard, unheld, clobbered>>

\* Mutant: the connection is handed back however the turn ended.
AbandonParking(t) ==
  /\ pc[t] = "streaming"
  /\ Goto(t, IF conn[t] = None THEN "done" ELSE "parking")
  /\ UNCHANGED <<session, conduit, local, outside, clobbered>>

\* An "error" event, a connection cut before the terminal event, or a client
\* that leaves while the answer streams: the connection is dropped.
Abandon(t) ==
  /\ pc[t] = "streaming"
  /\ conn' = [conn EXCEPT ![t] = None]
  /\ Goto(t, "done")
  /\ UNCHANGED <<session, conduit, input, fields, snap, sent, reused, continues,
                 ended, gone, outside, clobbered>>

\* A client that leaves once the terminal event has been passed on: the pump
\* still parks, the turn is never closed.
Leave(t) ==
  /\ pc[t] \in {"parking", "closing"} /\ ~gone[t]
  /\ gone' = [gone EXCEPT ![t] = TRUE]
  /\ Goto(t, IF pc[t] = "closing" THEN "done" ELSE "parking")
  /\ UNCHANGED <<session, conduit, input, fields, snap, sent, conn, reused,
                 continues, ended, outside, clobbered>>

\* park: the connection is kept unless the session already holds one.
Park(t) ==
  /\ pc[t] = "parking"
  /\ slot' = IF slot = None THEN conn[t] ELSE slot
  /\ conn' = [conn EXCEPT ![t] = None]
  /\ Goto(t, IF ended[t] = "completed" /\ ~gone[t] THEN "closing" ELSE "done")
  /\ UNCHANGED <<session, latched, seen, input, fields, snap, sent, reused,
                 continues, ended, gone, outside, clobbered>>

\* Mutant: a response is continued that holds an item the baseline does not.
CloseKeepingResponse(t) ==
  /\ pc[t] = "closing"
  /\ lastResponse' = t
  /\ lastFields' = fields[t]
  /\ baseline' = sent[t] \o Held(reply[t])
  /\ confirmed' = TRUE
  /\ Goto(t, "done")
  /\ UNCHANGED <<conduit, local, outside, clobbered>>

\* Session::close under the turn lock.
Close(t) ==
  /\ pc[t] = "closing"
  /\ lastResponse' = IF unheld[t] THEN None ELSE t
  /\ lastFields' = fields[t]
  /\ baseline' = sent[t] \o Held(reply[t])
  /\ confirmed' = TRUE
  /\ Goto(t, "done")
  /\ UNCHANGED <<conduit, local, outside, clobbered>>

\* Every turn of the run has been made.
Finished ==
  /\ \A t \in Turn : pc[t] = "done"
  /\ UNCHANGED vars

Next ==
  \/ \E t \in Turn :
       \/ Open(t) \/ Join(t) \/ Snapshot(t) \/ CheckConfirmed(t) \/ Seed(t)
       \/ TakeConnection(t) \/ Accept(t) \/ RetryFresh(t) \/ FallBack(t)
       \/ AcceptHttp(t) \/ RefuseTurn(t) \/ Complete(t) \/ EndUnfinished(t)
       \/ Abandon(t) \/ Leave(t) \/ Park(t) \/ Close(t)
  \/ Finished

Spec == Init /\ [][Next]_vars
-----------------------------------------------------------------------------
Label == {"idle", "resolved", "snapped", "seeding", "ready",
          "sending", "streaming", "parking", "closing", "done"}

\* Every variable holds a value of its type.
TypeOK ==
  /\ baseline \in Seq(Holdable)
  /\ lastFields \in Fields \union {None}
  /\ lastResponse \in Turn \union {None}
  /\ confirmed \in BOOLEAN /\ latched \in BOOLEAN /\ clobbered \in BOOLEAN
  /\ slot \in Turn \union {None}
  /\ seen \in [Turn -> Turn \union {None}]
  /\ pc \in [Turn -> Label]
  /\ input \in [Turn -> Seq(Holdable)]
  /\ fields \in [Turn -> Fields \union {None}]
  /\ snap \in [Turn -> [baseline : Seq(Holdable), fields : Fields \union {None},
                        response : Turn \union {None}]]
  /\ sent \in [Turn -> Seq(Holdable)]
  /\ conn \in [Turn -> Turn \union {None}]
  /\ reused \in [Turn -> BOOLEAN]
  /\ continues \in [Turn -> Turn \union {None}]
  /\ ended \in [Turn -> {"no", "completed", "unfinished"}]
  /\ gone \in [Turn -> BOOLEAN]
  /\ heard \in [Turn -> Seq(Item)]
  /\ reply \in [Turn -> Seq(Item)]
  /\ unheld \in [Turn -> BOOLEAN]

\* What the backend takes a response's input to be is the conversation the
\* turn reconciled, but for the searches the backend ran itself and alone
\* remembers: a delta and a full upload say the same thing in everything a
\* request can carry, whichever turns of the conversation overlapped it
\* (proxy-behavior.md 4.3, "a wrong delta corrupts the conversation and does not
\* fail visibly").
DeltaIsExact ==
  ~clobbered => \A t \in Turn : heard[t] # << >> => Held(heard[t]) = sent[t]

\* Whatever the backend hears is, once the items the client never sees are
\* passed over, exactly what the client said: no question vanishes, none is
\* asked twice, and no item the server returned is sent back to it.
HeardAsSaid ==
  ~clobbered => \A t \in Turn : heard[t] # << >> =>
                  Replayable(Held(heard[t])) = input[t]

\* The baseline is what the backend holds behind the response a delta would
\* continue, but for its own searches, and the fields are those of that
\* response's own request.  (proxy-behavior.md 3.2 has the baseline be all the
\* server returned; of a search it is not.)
BaselineIsContext ==
  ~clobbered /\ lastResponse # None =>
    /\ baseline = Held(Context(lastResponse))
    /\ lastFields = fields[lastResponse]

\* A delta changes nothing but the input: it is sent only for a request whose
\* other fields are those of the request whose response it continues.
DeltaChangesOnlyInput ==
  \A t \in Turn : continues[t] # None => fields[t] = fields[continues[t]]

\* A response is continued only through the connection that produced it last,
\* and the frame naming it is still ahead of any other on that connection.
ContinuesHeldResponse ==
  \A t \in Turn : pc[t] = "sending" /\ continues[t] # None =>
    seen[conn[t]] = continues[t]

\* One connection carries one turn at a time: it is in the session's slot or in
\* one turn's hands, never in two places.
SocketExclusive ==
  \A t \in Turn : conn[t] # None =>
    /\ conn[t] # slot
    /\ \A o \in Turn \ {t} : conn[o] # conn[t]

\* A pooled connection has nothing left to say: the last response it named is
\* over, and ended in something other than an error or a cut.
ParkedIsQuiet == slot # None => seen[slot] # None /\ ended[seen[slot]] # "no"

\* The inductive strengthening of DeltaIsExact, part by part.

\* Nothing is heard of a turn before a response to it starts, and what is heard
\* of it then is what it sent, but for what the backend alone holds.
HeardInv ==
  /\ \A t \in Turn : pc[t] \in {"idle", "resolved", "snapped", "seeding",
                                "ready", "sending"} => heard[t] = << >>
  /\ ~clobbered => \A t \in Turn :
       /\ heard[t] = << >> \/ Held(heard[t]) = sent[t]
       /\ pc[t] \in {"streaming", "parking", "closing"} =>
            Held(heard[t]) = sent[t]

\* What the session says a delta may continue, the backend holds too.
SessionInv ==
  lastResponse # None =>
    /\ confirmed
    /\ pc[lastResponse] = "done"
    /\ ~clobbered => baseline = Held(Context(lastResponse))

\* So does what a turn has read of the session.
SnapInv ==
  \A t \in Turn : snap[t].response # None =>
    /\ pc[snap[t].response] = "done"
    /\ ~clobbered => snap[t].baseline = Held(Context(snap[t].response))

\* A turn that continues a response sends an extension of what it read.
ContinueInv ==
  \A t \in Turn : pc[t] = "sending" /\ continues[t] # None =>
    /\ continues[t] = snap[t].response
    /\ Extends(snap[t].baseline, sent[t])

DeltaInv == TypeOK /\ HeardInv /\ SessionInv /\ SnapInv /\ ContinueInv

\* The inductive strengthening of SocketExclusive, ContinuesHeldResponse and
\* ParkedIsQuiet, part by part.

\* The turn has not dialled, and may still do so.
Undialled(t) ==
  \/ pc[t] \in {"idle", "resolved", "snapped", "seeding"}
  \/ pc[t] = "ready" /\ ~latched
  \/ pc[t] = "sending" /\ reused[t]

\* A connection not dialled yet is nowhere.
DialInv ==
  \A t \in Turn : Undialled(t) => slot # t /\ \A o \in Turn : conn[o] # t

\* A turn holds a connection from when it takes one until it parks or drops it.
HoldInv ==
  \A t \in Turn : /\ conn[t] # None => pc[t] \in {"sending", "streaming", "parking"}
                  /\ pc[t] \in {"sending", "parking"} => conn[t] # None

\* Once the response has started, the connection names it, and it is over by the
\* time the connection is parked.
NamedInv ==
  \A t \in Turn :
    /\ pc[t] \in {"streaming", "parking"} /\ conn[t] # None => seen[conn[t]] = t
    /\ pc[t] = "parking" => ended[t] # "no"

SocketInv == /\ TypeOK /\ SocketExclusive /\ DialInv /\ HoldInv /\ NamedInv
             /\ ContinuesHeldResponse /\ ParkedIsQuiet

\* The fields a delta leaves out are those of the request it continues: what the
\* session and each turn have of them is that request's own.
SessionFields ==
  lastResponse # None =>
    pc[lastResponse] = "done" /\ lastFields = fields[lastResponse]

SnapFields ==
  \A t \in Turn : snap[t].response # None =>
    /\ pc[t] \notin {"idle", "resolved"} /\ pc[snap[t].response] = "done"
    /\ snap[t].fields = fields[snap[t].response]

ContinueFields ==
  \A t \in Turn : continues[t] # None =>
    continues[t] = snap[t].response /\ fields[t] = snap[t].fields

FieldsInv == SessionFields /\ SnapFields /\ ContinueFields

\* The inductive strengthening of HeardAsSaid: a client says nothing it was never
\* shown, and what a turn sends is, once such items are passed over, its replay.
SaidInv ==
  \A t \in Turn :
    /\ Kept(input[t]) = DOMAIN input[t]
    /\ pc[t] \notin {"idle", "resolved"} => Replayable(sent[t]) = input[t]

TurnsInv == DeltaInv /\ SocketInv /\ FieldsInv /\ SaidInv

\* A session that has completed a turn is never seeded; its baseline moves only
\* when the next turn completes (proxy-behavior.md 3.2).
SeededOnlyUnconfirmed ==
  [][confirmed /\ baseline' # baseline =>
       \E t \in Turn : pc[t] = "closing" /\ pc'[t] = "done"]_vars
=============================================================================
