--------------------------- MODULE ReplayEquality ---------------------------
(***************************************************************************)
(* A conversation on its way round: what a client says is translated into  *)
(* items (core/translate/request.rs), what the backend answers is shown as *)
(* blocks, and the client replays those blocks as messages, which are      *)
(* translated again and compared, item by item and by what they say, with  *)
(* what the session holds (core/session.rs).  Conversation takes that      *)
(* comparison for equality; here it is of items as they are written.       *)
(*                                                                         *)
(* One conversation, one turn at a time: turns that overlap are            *)
(* SessionTurns, how an answer is streamed is ResponseFrames, and the      *)
(* store of many conversations is SessionStore.  A text is a sequence of   *)
(* tokens, so that two joined are one.                                     *)
(***************************************************************************)
EXTENDS Conversation, Integers

CONSTANTS
  Said,      \* the messages a client may say
  Results,   \* the blocks a tool's result may hold
  Answers,   \* the items the backend may answer with
  Tool, Deferred, Hosted, \* tools offered, those to be discovered, the search
  MaxAsks, MaxEvents, \* bounds: requests; failures, rewinds and losses
  None

ASSUME ToolAssumption == Deferred \cup Hosted \subseteq Tool /\ None \notin Tool

VARIABLES
  messages,  \* the client's transcript
  choice,    \* the tool its request forces, or None
  session,   \* the session the conversation is held by, or None
  sent,      \* the request under way
  context,   \* what the backend holds behind the session's response
  pc,
  past       \* bounds, and whether the transcript begins with the last answer

vars == <<messages, choice, session, sent, context, pc, past>>

Block(type, says) == [type |-> type, id |-> <<>>, says |-> says, inner |-> <<>>]
Part(type, says) == [type |-> type, says |-> says]
Item(kind, role, id, parts) == [kind |-> kind, role |-> role, id |-> id, parts |-> parts]

-----------------------------------------------------------------------------
(* translate_message: blocks to items. *)

OfType(blocks, types) == SelectSeq(blocks, LAMBDA block : block.type \in types)
AsParts(blocks, type) == [i \in DOMAIN blocks |-> Part(type, blocks[i].says)]

\* A source that names nothing has no url, and no part.
Sourced(blocks) == SelectSeq(blocks, LAMBDA block : block.type = "text" \/ block.says # <<>>)

\* Mutant: what was flushed is kept, and is flushed again.
FlushKeeping(role, made) ==
  IF made.parts = <<>> THEN made
  ELSE [made EXCEPT !.items = Append(@, Item("message", role, <<>>, made.parts))]

\* Parts said so far become a message, if there are any.
Flush(role, made) ==
  IF made.parts = <<>> THEN made
  ELSE [items |-> Append(made.items, Item("message", role, <<>>, made.parts)), parts |-> <<>>]

\* The tools a result says were found.
References(blocks) ==
  LET found == OfType(blocks, {"tool_reference"}) IN [i \in DOMAIN found |-> found[i].says[1]]

\* tool_result_output: the tools found, or texts and images; and the documents, which
\* follow in a message of their own.
ResultItems(block) ==
  LET said == Sourced(OfType(block.inner, {"text", "image"}))
      files == Sourced(OfType(block.inner, {"document"}))
      found == References(block.inner)
      output(parts) == Item("output", "user", block.id, parts)
  IN IF found # <<>> THEN <<output(<<Part("available", found)>>)>>
     ELSE <<output([i \in DOMAIN said |-> Part(said[i].type, said[i].says)])>>
            \o (IF files = <<>> THEN <<>>
                ELSE <<Item("message", "user", <<>>, AsParts(files, "document"))>>)

\* One block of a message.  Thinking, a search as it was shown, and attachments of
\* the assistant leave nothing.
AddBlock(role, made, block) ==
  LET flushed == Flush(role, made)
      Adding(items) == [flushed EXCEPT !.items = @ \o items]
  IN CASE block.type = "text" /\ role = "user" ->
            [made EXCEPT !.parts = Append(@, Part("input_text", block.says))]
       [] block.type = "text" /\ role = "assistant" ->
            [flushed EXCEPT !.parts = <<Part("output_text", block.says)>>]
       [] block.type = "tool_use" ->
            Adding(<<Item("call", "assistant", block.id, <<Part("ordered", block.says)>>)>>)
       [] block.type = "tool_result" -> Adding(ResultItems(block))
       [] block.type \in {"image", "document"} /\ role = "user" /\ block.says # <<>> ->
            [made EXCEPT !.parts = Append(@, Part(block.type, block.says))]
       [] OTHER -> made

\* A role that is neither is carried as the user's.
RoleOf(message) == IF message.role = "assistant" THEN "assistant" ELSE "user"

TranslateMessage(message) ==
  LET role == RoleOf(message)
      made == FoldLeft(LAMBDA acc, block : AddBlock(role, acc, block),
                       [items |-> <<>>, parts |-> <<>>], message.content)
  IN Flush(role, made).items

\* The input of translate_request.
Translated(transcript) ==
  FlattenSeq([i \in DOMAIN transcript |-> TranslateMessage(transcript[i])])

-----------------------------------------------------------------------------
(* The rest of translate_request. *)

\* discovered_tool_names.
Discovered(transcript) ==
  UNION {ToSet(References(block.inner)) :
           block \in UNION {ToSet(message.content) : message \in ToSet(transcript)}}

\* translate_tools: deferred ones are withheld until found, or forced.
SentTools(forced, discovered) ==
  {t \in Tool : t \notin Deferred \/ t \in discovered \/ t = forced}

\* translate_tool_choice.
SentChoice(forced) ==
  CASE forced = None -> [mode |-> "auto", name |-> None]
    [] forced \in Hosted -> [mode |-> "hosted", name |-> forced]
    [] OTHER -> [mode |-> "function", name |-> forced]

\* What a delta needs unchanged.  The model, its effort and the instructions, which
\* are made of the system prompt and the operator's texts and of no message, stay.
Fields(discovered) ==
  [tools |-> SentTools(choice, discovered), choice |-> SentChoice(choice)]

-----------------------------------------------------------------------------
(* items_equal: what an item says, however it is written. *)

\* join_text_parts.
JoinText(parts) ==
  FoldLeft(LAMBDA joined, part :
             IF /\ joined # <<>> /\ Last(joined).type = part.type
                /\ part.type \in {"input_text", "output_text"}
             THEN Append(Front(joined), Part(part.type, Last(joined).says \o part.says))
             ELSE Append(joined, part),
           <<>>, parts)

\* Arguments that are JSON; an empty string is not.
Parses(item) == item.kind = "call" /\ item.parts[1].type # "empty"

\* Mutant: the parts of a message are compared one by one.
CanonicalByPart(item) ==
  IF Parses(item) THEN [item EXCEPT !.parts[1].type = "value"] ELSE item

\* strip_ids: arguments that parse are compared as the value they are, whatever the
\* order of their keys and the writing of their numbers; texts are joined.
Canonical(item) ==
  CASE item.kind = "message" -> [item EXCEPT !.parts = JoinText(@)]
    [] Parses(item) -> [item EXCEPT !.parts[1].type = "value"]
    [] OTHER -> item

Canon(items) == [i \in DOMAIN items |-> Canonical(items[i])]

-----------------------------------------------------------------------------
(* The client. *)

\* The calls of the last message, which the next one has to answer.
Pending ==
  IF messages = <<>> \/ Last(messages).role # "assistant" THEN <<>>
  ELSE OfType(Last(messages).content, {"tool_use"})

ResultsOf(blocks) ==
  [role |-> "user",
   content |-> [i \in DOMAIN Pending |->
     [type |-> "tool_result", id |-> Pending[i].id, says |-> <<>>, inner |-> blocks]]]

\* The client answers the calls, says something, or asks again.
Ask ==
  /\ pc = "idle" /\ past.asks < MaxAsks
  /\ \/ /\ Pending # <<>>
        /\ \E blocks \in Results : messages' = Append(messages, ResultsOf(blocks))
     \/ Pending = <<>> /\ \E message \in Said : messages' = Append(messages, message)
     \/ /\ messages # <<>> /\ Last(messages).role # "assistant"
        /\ UNCHANGED messages
  /\ choice' \in {None} \cup Deferred \cup Hosted
  /\ pc' = "asked"
  /\ past' = [past EXCEPT !.asks = @ + 1]
  /\ UNCHANGED <<session, sent, context>>

Event == past.events < MaxEvents

\* It goes back to an earlier point.
Rewind(k) ==
  /\ pc = "idle" /\ Event /\ k < Len(messages)
  /\ messages' = SubSeq(messages, 1, k)
  /\ past' = [past EXCEPT !.events = @ + 1, !.kept = FALSE]
  /\ UNCHANGED <<choice, session, sent, context, pc>>

-----------------------------------------------------------------------------
(* The turn. *)

NewSession(input) ==
  [baseline |-> input, confirmed |-> FALSE, fields |-> None, response |-> FALSE,
   pooled |-> FALSE, discovered |-> {}]

\* resolve: the session the replay lines up with, or a new one, claimed by it.
Resolved(probe) ==
  IF session # None /\ Reconciles(Canon(session.baseline), Canon(probe))
  THEN session ELSE NewSession(probe)

\* plan_upload, over the connection that named the response.
Continues(held, fields, input) ==
  /\ held.pooled /\ held.response
  /\ held.fields = fields
  /\ Extends(Canon(held.baseline), Canon(input))
  /\ Delta(held.baseline, input) # <<>>

\* From resolving the session to the upload.
Translate ==
  /\ pc = "asked"
  /\ LET probe == Translated(messages)
         held == Resolved(probe)
         input == Reconciled(held.baseline, probe)
         known == held.discovered \cup Discovered(messages)
         fields == Fields(known)
         continued == Continues(held, fields, input)
     IN /\ session' = [held EXCEPT !.discovered = known,
                                   !.baseline = IF held.confirmed THEN @ ELSE input]
        /\ sent' = [input |-> input, fields |-> fields, delta |-> continued,
                    heard |-> IF continued THEN context \o Delta(held.baseline, input)
                              ELSE input]
  /\ pc' = "sent"
  /\ UNCHANGED <<messages, choice, context, past>>

\* What an item is shown as: a thought, a message's text as one block, a call with
\* the value of its arguments.
Shown(item) ==
  CASE item.kind = "reasoning" -> <<Block("thinking", <<>>)>>
    [] item.kind = "message" ->
         LET text == FlattenSeq([i \in DOMAIN item.parts |-> item.parts[i].says])
         IN IF item.parts # <<>> /\ item.parts[1].type = "output_text" /\ text # <<>>
            THEN <<Block("text", text)>> ELSE <<>>
    [] item.kind = "call" -> <<[Block("tool_use", item.parts[1].says) EXCEPT !.id = item.id]>>
    [] OTHER -> <<>>

ShownAll(items) == FlattenSeq([i \in DOMAIN items |-> Shown(items[i])])

\* A search is shown, as two blocks, when the answer ends.
Searches(items) ==
  FlattenSeq([i \in DOMAIN items |->
    IF items[i].kind = "search" THEN <<Block("search", <<>>), Block("found", <<>>)>> ELSE <<>>])

WithAnswer(blocks) ==
  IF blocks = <<>> THEN messages
  ELSE Append(messages, [role |-> "assistant", content |-> blocks])

\* The items the backend writes: its calls are of this request.
Named(answer) ==
  [i \in DOMAIN answer |->
    IF answer[i].kind = "call" THEN [answer[i] EXCEPT !.id = <<past.asks, i>>] ELSE answer[i]]

\* InputItem: a search is not one, and a message with a part of another type is one
\* the session cannot hold.
Unheld(item) ==
  item.kind = "message" /\ \E part \in ToSet(item.parts) : part.type # "output_text"
Holds(item) == item.kind # "search" /\ ~Unheld(item)

\* The answer is complete: close_turn and close.  The client has it, or has left.
Answer(answer) ==
  /\ pc = "sent"
  /\ LET items == Named(answer)
         shown == ShownAll(items) \o Searches(items)
     IN /\ session' = [session EXCEPT
             !.baseline = sent.input \o SelectSeq(items, Holds),
             !.fields = sent.fields, !.confirmed = TRUE, !.pooled = TRUE,
             !.response = \A item \in ToSet(items) : ~Unheld(item)]
        /\ context' = sent.heard \o items
        /\ \/ messages' = WithAnswer(shown) /\ past' = [past EXCEPT !.kept = TRUE]
           \/ /\ Event /\ shown # <<>>
              /\ past' = [past EXCEPT !.events = @ + 1, !.kept = FALSE]
              /\ UNCHANGED messages
  /\ pc' = "idle" /\ sent' = None
  /\ UNCHANGED choice

\* It ends early: the session is not closed, and the client keeps what it was shown.
Fail(answer, k) ==
  /\ pc = "sent" /\ Event /\ k < Len(answer)
  /\ messages' = WithAnswer(ShownAll(SubSeq(Named(answer), 1, k)))
  /\ session' = [session EXCEPT !.pooled = FALSE]
  /\ past' = [past EXCEPT !.events = @ + 1]
  /\ pc' = "idle" /\ sent' = None
  /\ UNCHANGED <<choice, context>>

\* The connection is lost.
Disconnect ==
  /\ pc = "idle" /\ Event /\ session # None /\ session.pooled
  /\ session' = [session EXCEPT !.pooled = FALSE]
  /\ past' = [past EXCEPT !.events = @ + 1]
  /\ UNCHANGED <<messages, choice, sent, context, pc>>

\* The store forgets the session: an idle hour, a switch, a restart.
Forget ==
  /\ pc = "idle" /\ Event /\ session # None
  /\ session' = None
  /\ past' = [past EXCEPT !.events = @ + 1]
  /\ UNCHANGED <<messages, choice, sent, context, pc>>

Init ==
  /\ messages = <<>> /\ choice = None
  /\ session = None /\ sent = None /\ context = <<>>
  /\ pc = "idle"
  /\ past = [asks |-> 0, events |-> 0, kept |-> FALSE]

Next ==
  \/ Ask \/ Translate \/ Disconnect \/ Forget
  \/ \E k \in 0 .. Len(messages) : Rewind(k)
  \/ \E answer \in Answers : Answer(answer) \/ \E k \in 0 .. Len(answer) : Fail(answer, k)

Spec == Init /\ [][Next]_vars

-----------------------------------------------------------------------------
(* Properties. *)

\* What each block of a transcript says, with the one who says it, token by token and
\* in order; the documents of a result after the rest of it.
By(role, says) == [i \in DOMAIN says |-> <<role, says[i]>>]

Saying(role, block) ==
  LET said(types) ==
        FlattenSeq([i \in DOMAIN OfType(block.inner, types) |->
                      By("user", OfType(block.inner, types)[i].says)])
  IN CASE block.type = "text" -> By(role, block.says)
       [] block.type = "tool_use" -> By("call", block.id) \o By("arguments", block.says)
       [] block.type \in {"image", "document"} /\ role = "user" -> By(role, block.says)
       [] block.type = "tool_result" ->
            By("output", block.id)
              \o (IF References(block.inner) # <<>> THEN By("user", References(block.inner))
                  ELSE said({"text", "image"}) \o said({"document"}))
       [] OTHER -> <<>>

SayingOf(message) ==
  FlattenSeq([i \in DOMAIN message.content |-> Saying(RoleOf(message), message.content[i])])

\* What an item tells the backend; reasoning and searches are its own.
Told(item) ==
  LET says == FlattenSeq([i \in DOMAIN item.parts |-> item.parts[i].says])
  IN CASE item.kind = "call" -> By("call", item.id) \o By("arguments", says)
       [] item.kind = "output" -> By("output", item.id) \o By("user", says)
       [] OTHER -> By(item.role, says)

\* What the backend takes the conversation to be, continued or in full, says what the
\* messages of the transcript do, once and in that order, through failures, rewinds
\* and lost sessions: "a turn mixing prose with a call splits in order"
\* (core/translate/request.rs), "a wrong delta corrupts the conversation and does not
\* fail visibly" (core/session.rs).
SaidInOrder ==
  FlattenSeq([i \in DOMAIN sent.heard |-> Told(sent.heard[i])])
    = FlattenSeq([i \in DOMAIN messages |-> SayingOf(messages[i])])

\* The tools the backend has been told are there, and the one it is made to use, are
\* sent, also by a daemon that did not see them found (proxy-behavior.md 2.5).
ToolsCallable ==
  /\ {sent.fields.choice.name} \ {None} \subseteq sent.fields.tools
  /\ \A part \in UNION {ToSet(item.parts) : item \in ToSet(sent.heard)} :
       part.type = "available" => ToSet(part.says) \subseteq sent.fields.tools

\* Every request says to the backend what its transcript says, with the tools that
\* speaks of.
HeardAsTranscript == pc = "sent" => SaidInOrder /\ ToolsCallable

\* An item nobody is shown, or is shown as something else: a message with no text, a
\* call with no arguments.
Unreplayable(item) ==
  \/ item.kind = "message" /\ Shown(item) = <<>> /\ item.role = "assistant"
  \/ item.kind = "call" /\ ~Parses(item)

\* A client that replays what it was shown, and adds to it, continues the response for
\* as long as the connection is there and the tools are the same, however the backend
\* wrote its answer.  Otherwise "the conversation forks", and every later turn uploads
\* the entire history again (core/session.rs).
StaysIncremental ==
  [][/\ pc = "asked" /\ pc' = "sent"
     /\ past.kept /\ session # None /\ session.pooled /\ session.response
     /\ \A item \in ToSet(session.baseline) : ~Unreplayable(item)
     /\ sent'.fields.tools = session.fields.tools /\ sent'.fields.choice = session.fields.choice
     /\ Last(messages).role # "assistant"
     /\ Len(Translated(messages)) > Consumed(session.baseline)
     => sent'.delta]_vars
=============================================================================
