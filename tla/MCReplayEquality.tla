-------------------------- MODULE MCReplayEquality --------------------------
(* ReplayEquality with three requests of a client, a tool that is there, one *)
(* to be found and the search.                                               *)
EXTENDS ReplayEquality

Text(token) == Block("text", <<token>>)
User(content) == [role |-> "user", content |-> content]

\* A question, one with attachments in between, and a reminder in another role.
MCSaid == {User(<<Text("a")>>),
           User(<<Text("a"), Block("image", <<"p">>), Block("image", <<>>), Text("b"),
                  Block("document", <<"d">>)>>),
           [role |-> "system", content |-> <<Text("r")>>]}

\* A text; a document before an image and a text; the names of tools that were found.
MCResults == {<<Text("o")>>,
              <<Block("document", <<"d">>), Block("image", <<"p">>), Text("o")>>,
              <<Block("tool_reference", <<"later">>), Text("o")>>}

Says(parts) == Item("message", "assistant", <<>>, parts)
Out(text) == Part("output_text", text)
\* A call as the backend writes it; with no arguments, it is shown with the empty object.
Call(form) ==
  Item("call", "assistant", <<>>, <<Part(form, IF form = "empty" THEN <<"{}">> ELSE <<"v">>)>>)
Thought == Item("reasoning", "assistant", <<>>, <<>>)
Search == Item("search", "assistant", <<>>, <<>>)

MCAnswers == {<<Thought, Says(<<Out(<<"h">>), Out(<<"i">>)>>)>>,
              <<Says(<<Out(<<"h">>)>>), Call("reordered")>>,
              <<Call("ordered"), Thought, Call("reordered")>>,
              <<Search, Says(<<Out(<<"h">>)>>), Says(<<Out(<<"i">>)>>)>>,
              <<Says(<<Out(<<>>)>>), Call("ordered")>>,
              <<Call("empty")>>,
              <<Says(<<Part("refusal", <<"n">>)>>)>>,
              <<Thought>>}
=============================================================================
