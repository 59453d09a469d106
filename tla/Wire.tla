-------------------------------- MODULE Wire --------------------------------
(***************************************************************************)
(* One history, three ways to put it on the wire.  The agent keeps the     *)
(* conversation as messages of blocks (core/types.py) and hands it whole   *)
(* to the active provider for every model call; the user may switch the    *)
(* provider between two requests, so each adapter has to write what the    *)
(* others have read:                                                       *)
(*   anthropic  providers/anthropic.py, the Messages API                   *)
(*   openai     providers/openai_chat.py, Chat Completions                 *)
(*   text       providers/text_tools.py, calls and results as plain text   *)
(* The turns are those of module Agent, without control messages,          *)
(* approvals and the queues; Prune is the one of module Conversation.      *)
(*                                                                         *)
(* A block stands for its content by a name: texts and opaque blocks are   *)
(* numbered, a call and its result carry the id of the call.  What a       *)
(* dialect writes and reads is taken to be that call: its syntax is the    *)
(* subject of module TextReply.                                            *)
(***************************************************************************)
EXTENDS Naturals, Sequences, SequencesExt

CONSTANTS
    AnthropicReplies,   \* the block types of a reply of the Messages API
    ServerReplies,      \* text and calls of a reply of Chat Completions
    MaxLengths,         \* the values MAX_CONVERSATION_LENGTH takes
    MaxRequests,        \* bound: requests of the user
    MaxRounds           \* bound: replies with calls in one turn

ASSUME WireAssumption ==
    /\ AnthropicReplies \subseteq Seq({"text", "empty", "call", "opaque"})
    /\ ServerReplies \subseteq
           [text : BOOLEAN, calls : Seq({"server", "missing", "other"})]
    /\ MaxLengths \subseteq Nat \ {0}
    /\ MaxRequests \in Nat /\ MaxRounds \in Nat

Providers == {"anthropic", "openai", "text"}

\* Ids: an API's or our own are unique; a server may count the calls of each
\* reply anew and use characters Anthropic does not allow ("functions.f:0"),
\* which leave as "rewritten".
Names == {"own", "server", "rewritten"} \X Nat

Block == [kind : {"text", "call", "result", "opaque"}, name : Names]

\* The name of the text "".
Empty == <<"own", 0>>

VARIABLES
    messages,   \* ConversationManager._task_messages
    provider,   \* utils.llm.llm
    maxLength,  \* MAX_CONVERSATION_LENGTH
    pc,         \* where the agent thread is
    wire,       \* the messages of the last request to the API
    requests,   \* requests typed so far
    rounds,     \* replies with calls in this turn
    named       \* blocks named so far

vars == <<messages, provider, maxLength, pc, wire, requests, rounds, named>>

-----------------------------------------------------------------------------
(***************************************************************************)
(* Sequences.  FlattenSeq, SelectSeq and FoldLeft do the same; these are   *)
(* recursive functions, which can be reasoned about.                       *)
(***************************************************************************)

Concat(seqs) ==
    LET upto[n \in 0..Len(seqs)] ==
            IF n = 0 THEN <<>> ELSE upto[n - 1] \o seqs[n]
    IN  upto[Len(seqs)]

\* The elements of a sequence that are in a set.
Those(seq, S) ==
    Concat([i \in DOMAIN seq |-> IF seq[i] \in S THEN <<seq[i]>> ELSE <<>>])

-----------------------------------------------------------------------------
(***************************************************************************)
(* core/types.py: a message, with the properties calls and results.        *)
(***************************************************************************)

OfKind(blocks, kind) == Those(blocks, [kind : {kind}, name : Names])

NamesOf(blocks) == [i \in DOMAIN blocks |-> blocks[i].name]

Message(role, content) ==
    [role |-> role, content |-> content,
     calls |-> NamesOf(OfKind(content, "call")),
     results |-> NamesOf(OfKind(content, "result"))]

Context == INSTANCE Conversation WITH Calls <- Names

Text(n) == [kind |-> "text", name |-> <<"own", n>>]

\* Texts that are sent: the empty one is dropped by every adapter.
Texts(blocks) == Those(blocks, [kind : {"text"}, name : Names \ {Empty}])

\* The message that a wire message is made of.
Item(role, content) == [role |-> role, content |-> content]

\* A message in which nothing can be sent is left out.
Sent(role, content) == IF content = <<>> THEN <<>> ELSE <<Item(role, content)>>

-----------------------------------------------------------------------------
(***************************************************************************)
(* Writing: providers/anthropic.py.                                        *)
(***************************************************************************)

\* _wire_id
WireName(name) ==
    IF name[1] = "server" THEN <<"rewritten", name[2]>> ELSE name

\* Mutant: the id is rewritten on the call and not on its result.
WireCallOnly(block) ==
    IF block.kind = "call" THEN [block EXCEPT !.name = WireName(@)] ELSE block

WireBlock(block) == [block EXCEPT !.name = WireName(@)]

\* Results come first in the user's turn.
AnthropicContent(msg) ==
    LET sent == IF msg.role = "user"
                THEN OfKind(msg.content, "result") \o Texts(msg.content)
                ELSE Those(msg.content, Block \ {Text(0)})
    IN  [i \in DOMAIN sent |-> WireBlock(sent[i])]

AnthropicWire(msgs) ==
    Concat([i \in DOMAIN msgs |-> Sent(msgs[i].role, AnthropicContent(msgs[i]))])

-----------------------------------------------------------------------------
(***************************************************************************)
(* Writing: providers/openai_chat.py.  The system prompt is left out.      *)
(***************************************************************************)

\* _message_to_wire: each result is a message of its own.
OpenAIItems(msg) ==
    IF msg.role = "user"
    THEN LET results == OfKind(msg.content, "result")
         IN  [i \in DOMAIN results |-> Item("tool", <<results[i]>>)]
                 \o Sent("user", Texts(msg.content))
    ELSE Sent("assistant", Texts(msg.content) \o OfKind(msg.content, "call"))

\* Mutant: every message is sent as it is.
AddUnmerged(roles, items, item) == Append(items, item)

\* Mutant: the second turn takes the place of the first.
AddReplacing(roles, items, item) ==
    IF items # <<>> /\ item.role \in roles /\ Last(items).role = item.role
    THEN Append(Front(items), item)
    ELSE Append(items, item)

\* Two turns in a row of one of the roles are merged.
Add(roles, items, item) ==
    IF items # <<>> /\ item.role \in roles /\ Last(items).role = item.role
    THEN Append(Front(items),
                Item(item.role, Last(items).content \o item.content))
    ELSE Append(items, item)

Merged(roles, items) ==
    LET upto[n \in 0..Len(items)] ==
            IF n = 0 THEN <<>> ELSE Add(roles, upto[n - 1], items[n])
    IN  upto[Len(items)]

OpenAIWire(msgs) ==
    Merged({"user"}, Concat([i \in DOMAIN msgs |-> OpenAIItems(msgs[i])]))

-----------------------------------------------------------------------------
(***************************************************************************)
(* Writing: providers/text_tools.py, to_text.  The inner provider, openai, *)
(* gets messages of one text each; as their roles alternate, it sends      *)
(* them as they are.  A call or result written as text keeps its block     *)
(* here, so that it can be told which call was written.                    *)
(***************************************************************************)

TextContent(msg) ==
    OfKind(msg.content, "result") \o Texts(msg.content)
        \o OfKind(msg.content, "call")

TextWire(msgs) ==
    Merged({"user", "assistant"},
           Concat([i \in DOMAIN msgs |-> Sent(msgs[i].role, TextContent(msgs[i]))]))

Written(p, msgs) ==
    CASE p = "anthropic" -> AnthropicWire(msgs)
      [] p = "openai"    -> OpenAIWire(msgs)
      [] p = "text"      -> TextWire(msgs)

-----------------------------------------------------------------------------
(***************************************************************************)
(* Reading: the content of the message a reply becomes.  New blocks get    *)
(* the numbers after named, up to one more than their count.               *)
(***************************************************************************)

AnthropicRead(reply) ==
    [i \in DOMAIN reply |->
        IF reply[i] = "empty" THEN Text(0)
        ELSE [kind |-> reply[i], name |-> <<"own", named + i>>]]

\* The text is first, if there is any.
Prose(reply) == IF reply.text THEN <<Text(named + 1)>> ELSE <<>>

Call(name) == [kind |-> "call", name |-> name]

\* Calls that are not function calls are ignored; a missing id is made up.
OpenAIRead(reply) ==
    LET calls == Those(reply.calls, {"server", "missing"})
    IN  Prose(reply)
            \o [i \in DOMAIN calls |->
                  Call(IF calls[i] = "server" THEN <<"server", i>>
                       ELSE <<"own", named + 1 + i>>)]

\* Calls found in the text: all ids are made up.
TextRead(reply) ==
    Prose(reply) \o [i \in DOMAIN reply.calls |->
                        Call(<<"own", named + 1 + i>>)]

Reads(p) ==
    CASE p = "anthropic" -> {AnthropicRead(r) : r \in AnthropicReplies}
      [] p = "openai"    -> {OpenAIRead(r) : r \in ServerReplies}
      [] p = "text"      -> {TextRead(r) : r \in ServerReplies}

-----------------------------------------------------------------------------
(***************************************************************************)
(* The turns (utils/agent.py).                                             *)
(***************************************************************************)

Init ==
    /\ messages = <<>>
    /\ provider \in Providers
    /\ maxLength \in MaxLengths
    /\ pc = "idle"
    /\ wire = <<>>
    /\ requests = 0 /\ rounds = 0 /\ named = 0

\* run_agent takes a request; the user may have switched before typing it.
AskUser ==
    /\ pc = "idle" /\ requests < MaxRequests
    /\ messages' = Append(messages, Message("user", <<Text(named + 1)>>))
    /\ provider' \in Providers
    /\ pc' = "step"
    /\ requests' = requests + 1
    /\ rounds' = 0
    /\ named' = named + 1
    /\ UNCHANGED <<maxLength, wire>>

\* run_agent prunes, _native_step calls complete, which writes the request.
CallModel ==
    /\ pc = "step"
    /\ messages' = Context!Prune(messages, maxLength)
    /\ wire' = Written(provider, messages')
    /\ pc' = "model"
    /\ UNCHANGED <<provider, maxLength, requests, rounds, named>>

Kept(content) ==
    IF content = <<>> THEN messages
    ELSE Append(messages, Message("assistant", content))

\* The request failed or was refused: nothing is stored.
CallFails ==
    /\ pc = "model"
    /\ pc' = "idle"
    /\ UNCHANGED <<messages, provider, maxLength, wire, requests, rounds,
                   named>>

FinalReply ==
    /\ pc = "model"
    /\ \E content \in Reads(provider) :
           /\ OfKind(content, "call") = <<>>
           /\ messages' = Kept(content)
           /\ named' = named + Len(content)
    /\ pc' = "idle"
    /\ UNCHANGED <<provider, maxLength, wire, requests, rounds>>

ReplyWithCalls ==
    /\ pc = "model" /\ rounds < MaxRounds
    /\ \E content \in Reads(provider) :
           /\ OfKind(content, "call") # <<>>
           /\ messages' = Kept(content)
           /\ named' = named + 1 + Len(content)
    /\ pc' = "tools"
    /\ rounds' = rounds + 1
    /\ UNCHANGED <<provider, maxLength, wire, requests>>

RunTools ==
    /\ pc = "tools"
    /\ LET calls == Last(messages).calls
       IN  messages' = Append(messages, Message("user",
               [i \in DOMAIN calls |->
                   [kind |-> "result", name |-> calls[i]]]))
    /\ pc' = "step"
    /\ UNCHANGED <<provider, maxLength, wire, requests, rounds, named>>

\* The end of the bound: no more requests.
Finished ==
    /\ pc = "idle" /\ requests = MaxRequests
    /\ UNCHANGED vars

Next == AskUser \/ CallModel \/ CallFails \/ FinalReply \/ ReplyWithCalls
            \/ RunTools \/ Finished

Spec == Init /\ [][Next]_vars

-----------------------------------------------------------------------------
(***************************************************************************)
(* Properties.                                                             *)
(***************************************************************************)

\* Types; no message without content is ever stored.
TypeOK ==
    /\ messages \in Seq([role : {"user", "assistant"}, content : Seq(Block),
                         calls : Seq(Names), results : Seq(Names)])
    /\ \A i \in DOMAIN messages :
           LET m == messages[i]
           IN  m = Message(m.role, m.content) /\ m.content # <<>>
    /\ provider \in Providers /\ maxLength \in MaxLengths
    /\ pc \in {"idle", "step", "model", "tools"}
    /\ wire \in Seq([role : {"user", "assistant", "tool"}, content : Seq(Block)])
    /\ requests \in 0..MaxRequests /\ rounds \in 0..MaxRounds
    /\ named \in Nat

Blocks(items) == Concat([i \in DOMAIN items |-> items[i].content])

NamesIn(items, kind) ==
    LET blocks == OfKind(Blocks(items), kind)
    IN  [i \in DOMAIN blocks |-> WireName(blocks[i].name)]

\* Whatever adapter wrote them, the calls of a message are followed by
\* exactly their results, in their order and under their ids, before
\* anything else, and there are no other results ("rewritten the same way
\* on the call and on its result, so the two still match",
\* providers/anthropic.py:57-59; core/types.py:14-16).
WirePaired ==
    pc = "model" =>
        /\ NamesOf(OfKind(Blocks(wire), "result"))
               = NamesOf(OfKind(Blocks(wire), "call"))
        /\ \A i \in DOMAIN wire :
               LET calls == OfKind(wire[i].content, "call")
                   rest  == Blocks(SubSeq(wire, i + 1, Len(wire)))
               IN  \A j \in DOMAIN calls :
                       /\ j \in DOMAIN rest
                       /\ rest[j] = [kind |-> "result",
                                     name |-> calls[j].name]

\* Nothing the adapters can express is lost, doubled or put in another
\* order on its way, and Anthropic gets back its own blocks unchanged, at
\* their place ("Only the provider that produced it re-sends it; others drop
\* it", core/types.py:18-20).
WireComplete ==
    pc = "model" =>
        /\ \A kind \in {"call", "result"} :
               NamesIn(wire, kind) = NamesIn(messages, kind)
        /\ NamesIn(wire, "text")
               = Those(NamesIn(messages, "text"), Names \ {Empty})
        /\ IF provider = "anthropic"
           THEN Blocks(wire) = Those(
                    [i \in DOMAIN Blocks(messages) |->
                        WireBlock(Blocks(messages)[i])],
                    Block \ {Text(0)})
           ELSE OfKind(Blocks(wire), "opaque") = <<>>

\* The request begins with the user and asks for a reply; no message is
\* empty; but for Anthropic, which accepts it, the user never speaks twice in
\* a row, not even after a request that failed or a reply that had nothing
\* this provider can be sent ("strict chat templates reject non-alternating
\* roles", providers/openai_chat.py:134-135).
WireAlternates ==
    pc = "model" =>
        /\ wire # <<>> /\ Head(wire).role = "user"
        /\ Last(wire).role # "assistant"
        /\ \A i \in DOMAIN wire : wire[i].content # <<>>
        /\ \A i \in 2..Len(wire) :
               wire[i].role = wire[i - 1].role =>
                   \/ wire[i].role = "tool" /\ provider = "openai"
                   \/ wire[i].role = "user" /\ provider = "anthropic"

\* What makes them so.  A message is a request, the results of the calls of
\* the message before it, or a reply, which follows a message of the user;
\* the last message makes calls while these are run, and is the user's when
\* the model is called.
IsRequest(m) ==
    LET number == m.content[1].name[2]
    IN  m.role = "user" /\ number # 0 /\ m.content = <<Text(number)>>

IsResults(m) ==
    m.role = "user" /\ m.content # <<>>
    /\ \A i \in DOMAIN m.content : m.content[i].kind = "result"

IsReply(m) ==
    m.role = "assistant" /\ m.content # <<>>
    /\ \A i \in DOMAIN m.content : m.content[i].kind # "result"

Linked(msgs) ==
    \A i \in DOMAIN msgs :
        /\ IsRequest(msgs[i]) \/ IsResults(msgs[i]) \/ IsReply(msgs[i])
        /\ i = 1 => IsRequest(msgs[i])
        /\ i > 1 => msgs[i].results = msgs[i - 1].calls
        /\ IsReply(msgs[i]) => i > 1 /\ msgs[i - 1].role = "user"

HistoryInv ==
    /\ Linked(messages)
    /\ pc # "idle" => messages # <<>>
    /\ messages # <<>> => (Last(messages).calls # <<>> <=> pc = "tools")
    /\ pc \in {"step", "model"} => Last(messages).role = "user"
    /\ pc = "model" => wire = Written(provider, messages)

=============================================================================
