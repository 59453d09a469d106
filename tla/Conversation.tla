---------------------------- MODULE Conversation ----------------------------
(***************************************************************************)
(* The task context of utils/llm.py: the messages ConversationManager      *)
(* keeps, and the operations that cut it.  A message is a record in the    *)
(* shape of core.types.Message, reduced to what the operations look at:    *)
(* the role, the tool calls an assistant message makes, the calls a        *)
(* tool-result message answers, and, for a request typed by the user, the  *)
(* number of that request.  Texts, arguments and result payloads are left  *)
(* out; a result is represented by the call it answers.                    *)
(***************************************************************************)
EXTENDS Naturals, Sequences, FiniteSetsExt

CONSTANT Calls      \* the tool calls (ids) a model may make

Message == [role    : {"user", "assistant"},
            request : Nat,
            calls   : Seq(Calls),
            results : Seq(Calls)]

\* add_user: one text block.
UserMessage(n) ==
    [role |-> "user", request |-> n, calls |-> <<>>, results |-> <<>>]

\* A model reply as stored by add_message: text, and possibly tool calls.
AssistantMessage(cs) ==
    [role |-> "assistant", request |-> 0, calls |-> cs, results |-> <<>>]

\* Message.tool_results: one result block per call.
ResultsMessage(cs) ==
    [role |-> "user", request |-> 0, calls |-> <<>>, results |-> cs]

-----------------------------------------------------------------------------
(***************************************************************************)
(* Pruning.                                                                *)
(***************************************************************************)

\* Mutant: any user message may open the context, a tool result included.
IsCleanStartAnyUser(msg) == msg.role = "user"

IsCleanStart(msg) == msg.role = "user" /\ msg.results = <<>>

CleanStarts(msgs) == {i \in DOMAIN msgs : IsCleanStart(msgs[i])}

\* Mutant: a clean start before the cut is preferred to one behind it.
PruneStartBackFirst(msgs, max) ==
    LET cut     == Len(msgs) - max
        forward == {i \in CleanStarts(msgs) : i > cut}
        back    == {i \in CleanStarts(msgs) : i <= cut}
    IN  IF back # {} THEN Max(back)
        ELSE IF forward # {} THEN Min(forward)
        ELSE 1

\* Where the kept part begins: the first clean start behind the plain cut,
\* else the last one before it, else everything is kept.
PruneStart(msgs, max) ==
    LET cut     == Len(msgs) - max
        forward == {i \in CleanStarts(msgs) : i > cut}
        back    == {i \in CleanStarts(msgs) : i <= cut}
    IN  IF forward # {} THEN Min(forward)
        ELSE IF back # {} THEN Max(back)
        ELSE 1

\* Mutant: no way back, an empty context when no clean start follows the cut.
PruneForwardOnly(msgs, max) ==
    LET forward == {i \in CleanStarts(msgs) : i > Len(msgs) - max}
    IN  IF Len(msgs) <= max THEN msgs
        ELSE IF forward = {} THEN <<>>
        ELSE SubSeq(msgs, Min(forward), Len(msgs))

Prune(msgs, max) ==
    IF Len(msgs) <= max THEN msgs
    ELSE SubSeq(msgs, PruneStart(msgs, max), Len(msgs))

-----------------------------------------------------------------------------
(***************************************************************************)
(* What a provider API demands of the context it is sent: every message    *)
(* that makes calls is followed by the message with their results, in the  *)
(* order of the calls, and results stand nowhere else.                     *)
(***************************************************************************)

CallsAnswered(msgs, i) ==
    msgs[i].calls # <<>> =>
        i < Len(msgs) /\ msgs[i + 1].results = msgs[i].calls

ResultsAsked(msgs, i) ==
    msgs[i].results # <<>> =>
        i > 1 /\ msgs[i - 1].calls = msgs[i].results

Paired(msgs) ==
    \A i \in DOMAIN msgs : CallsAnswered(msgs, i) /\ ResultsAsked(msgs, i)

\* The same, while the calls of the last message are still being run.
PairedButLast(msgs) ==
    \A i \in DOMAIN msgs :
        /\ i # Len(msgs) => CallsAnswered(msgs, i)
        /\ ResultsAsked(msgs, i)

=============================================================================
