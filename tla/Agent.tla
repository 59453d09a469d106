-------------------------------- MODULE Agent --------------------------------
(***************************************************************************)
(* The agent thread of utils/agent.py: run_agent with _handle_control,     *)
(* _native_step and _execute_tool_call, working on one ConversationManager *)
(* (utils/llm.py) and on the saved-conversation files.  The connector is   *)
(* taken at the level module Connector shows it to keep: FIFO queues and a *)
(* shutdown flag.  Frontend, model and file system are the environment:    *)
(* the frontend may send anything at any time, the model may answer with   *)
(* any reply, a save may fail half-way.                                    *)
(*                                                                         *)
(* Every message a frontend sends is numbered in the order of sending;     *)
(* the number stands for its text.                                         *)
(***************************************************************************)
EXTENDS Conversation, FiniteSets

CONSTANTS
    CallSeqs,       \* the sequences of calls one model reply may make
    BadCalls,       \* calls of an unknown tool or with invalid arguments
    MaxLengths,     \* the values MAX_CONVERSATION_LENGTH takes
    VerboseModes,   \* the values VERBOSE_MODE takes
    Names,          \* save-point names
    Paths,          \* files a conversation may be saved to
    DefaultPaths,   \* those of them inside saves/
    InitialFiles,   \* what the files may hold when the program starts
    MaxMessages,    \* bound: messages the frontend sends
    MaxQueued,      \* bound: messages waiting in the user queue
    MaxRounds       \* bound: model calls with tool calls in one turn

None == "none"      \* no argument, no file

\* save, load, savepoint and restore take an argument; the rest of the
\* commands, and a call without its argument, only report.
Inputs ==
    [command : {"user", "reset", "notice"}, arg : {None}]
        \cup [command : {"save", "load"}, arg : Paths \cup {None}]
        \cup [command : {"savepoint", "restore"}, arg : Names]

FileContent == [kind : {"absent", "malformed", "foreign", "saved"},
                msgs : Seq(Message)]

ASSUME AgentAssumption ==
    /\ CallSeqs \subseteq Seq(Calls) \ {<<>>}
    /\ MaxLengths \subseteq Nat \ {0}
    /\ VerboseModes \subseteq BOOLEAN /\ VerboseModes # {}
    /\ DefaultPaths \subseteq Paths
    /\ InitialFiles \subseteq FileContent
    /\ \A f \in InitialFiles : Paired(f.msgs)
    /\ None \notin Paths \cup Names
    /\ MaxMessages \in Nat /\ MaxQueued \in Nat /\ MaxRounds \in Nat

VARIABLES
    inbox,          \* Connector._user_queue: user and control messages
    outbox,         \* Connector._agent_queue
    approvalReqs,   \* Connector._approval_req_queue
    approvalResps,  \* Connector._approval_resp_queue
    shutdown,       \* Connector._shutdown
    verbose,        \* utils.config.VERBOSE_MODE
    sent,           \* messages sent so far by the frontend
    prompted,       \* the approval request the frontend shows, 0 if none
    pc,             \* where the agent thread is
    current,        \* number of the message being handled
    results,        \* calls of the last reply answered so far
    rounds,         \* replies with tool calls in this turn
    asks,           \* approval requests made so far
    conversation,   \* ConversationManager._task_messages
    savePoints,     \* ConversationManager._save_points
    files,          \* the saved conversations
    newest,         \* the file in saves/ written last
    replied,        \* history: replies published for each message
    grant           \* history: the request whose answer let this tool run

queues   == <<inbox, outbox, approvalReqs, approvalResps>>
frontend == <<sent, prompted, shutdown, verbose>>
turn     == <<current, results, rounds, asks, grant>>
store    == <<savePoints, files, newest>>
vars     == <<queues, frontend, pc, turn, conversation, store, replied>>

InTurn == {"step", "model", "tool", "asked", "approval", "run"}

\* A message of the frontend, and a reply of the agent.
Posted    == [id : 1..MaxMessages, input : Inputs]
Published == [to : 1..MaxMessages, kind : {"final", "rejected"}]

TypeOK ==
    /\ inbox \in Seq(Posted)
    /\ outbox \in Seq(Published)
    /\ approvalReqs \in Seq(Nat)
    /\ approvalResps \in Seq([ask : Nat, approved : BOOLEAN])
    /\ shutdown \in BOOLEAN /\ verbose \in BOOLEAN
    /\ sent \in 0..MaxMessages /\ prompted \in Nat
    /\ pc \in {"starting", "idle", "waiting", "stopped", "dead"} \cup InTurn
    /\ current \in 0..MaxMessages
    /\ results \in Seq(Calls)
    /\ rounds \in Nat /\ asks \in Nat /\ grant \in Nat
    /\ conversation \in Seq(Message)
    /\ savePoints \in [Names -> [set : BOOLEAN, msgs : Seq(Message)]]
    /\ files \in [Paths -> FileContent]
    /\ newest \in Paths \cup {None}
    /\ replied \in [1..MaxMessages -> Nat]

Init ==
    /\ inbox = <<>> /\ outbox = <<>>
    /\ approvalReqs = <<>> /\ approvalResps = <<>>
    /\ shutdown = FALSE /\ verbose \in VerboseModes
    /\ sent = 0 /\ prompted = 0
    /\ pc = "starting" /\ current = 0
    /\ results = <<>> /\ rounds = 0 /\ asks = 0 /\ grant = 0
    /\ conversation = <<>>
    /\ savePoints = [n \in Names |-> [set |-> FALSE, msgs |-> <<>>]]
    /\ files \in [Paths -> InitialFiles]
    /\ newest \in {p \in DefaultPaths : files[p].kind # "absent"} \cup {None}
    /\ newest = None => \A p \in DefaultPaths : files[p].kind = "absent"
    /\ replied = [n \in 1..MaxMessages |-> 0]

-----------------------------------------------------------------------------
(***************************************************************************)
(* The frontend's side of the connector.                                   *)
(***************************************************************************)

Send(input) ==
    /\ ~shutdown /\ sent < MaxMessages /\ Len(inbox) < MaxQueued
    /\ sent' = sent + 1
    /\ inbox' = Append(inbox, [id |-> sent + 1, input |-> input])
    /\ UNCHANGED <<outbox, approvalReqs, approvalResps, prompted, shutdown,
                   verbose, pc, turn, conversation, store, replied>>

TakeReply ==
    /\ outbox # <<>>
    /\ outbox' = Tail(outbox)
    /\ UNCHANGED <<inbox, approvalReqs, approvalResps, frontend,
                   pc, turn, conversation, store, replied>>

ShowRequest ==
    /\ ~shutdown /\ prompted = 0 /\ approvalReqs # <<>>
    /\ prompted' = Head(approvalReqs)
    /\ approvalReqs' = Tail(approvalReqs)
    /\ UNCHANGED <<inbox, outbox, approvalResps, sent, shutdown, verbose,
                   pc, turn, conversation, store, replied>>

Answer(approved) ==
    /\ prompted # 0
    /\ approvalResps' = Append(approvalResps,
                               [ask |-> prompted, approved |-> approved])
    /\ prompted' = 0
    /\ UNCHANGED <<inbox, outbox, approvalReqs, sent, shutdown, verbose,
                   pc, turn, conversation, store, replied>>

\* /config set VERBOSE_MODE, run in the frontend thread.
SetVerbose(b) ==
    /\ b # verbose
    /\ verbose' = b
    /\ UNCHANGED <<queues, sent, prompted, shutdown,
                   pc, turn, conversation, store, replied>>

Shutdown ==
    /\ ~shutdown
    /\ shutdown' = TRUE
    /\ UNCHANGED <<queues, sent, prompted, verbose,
                   pc, turn, conversation, store, replied>>

-----------------------------------------------------------------------------
(***************************************************************************)
(* Publishing.  A final reply ends the handling of message id; the notice  *)
(* that a tool was rejected goes through the same queue in mid-turn.       *)
(***************************************************************************)

FinalReply(id) ==
    /\ outbox' = Append(outbox, [to |-> id, kind |-> "final"])
    /\ replied' = [replied EXCEPT ![id] = @ + 1]

RejectedNotice ==
    /\ outbox' = Append(outbox, [to |-> current, kind |-> "rejected"])
    /\ UNCHANGED replied

-----------------------------------------------------------------------------
(***************************************************************************)
(* run_agent outside a turn.                                               *)
(***************************************************************************)

\* The first system prompt is built outside any try: the thread starts to
\* serve the connector, or dies of the exception.
Start ==
    /\ pc = "starting"
    /\ pc' \in {"idle", "dead"}
    /\ UNCHANGED <<queues, frontend, turn, conversation, store, replied>>

\* receive_user_blocking looks at the flag before it waits ...
CheckShutdown ==
    /\ pc = "idle"
    /\ pc' = IF shutdown THEN "stopped" ELSE "waiting"
    /\ UNCHANGED <<queues, frontend, turn, conversation, store, replied>>

\* Mutant: woken with nothing to take, it waits on without looking.
WakeAndWait ==
    /\ pc = "waiting" /\ inbox = <<>> /\ shutdown
    /\ UNCHANGED vars

\* ... and, woken with nothing to take, once more.
WakeForShutdown ==
    /\ pc = "waiting" /\ inbox = <<>> /\ shutdown
    /\ pc' = "stopped"
    /\ UNCHANGED <<queues, frontend, turn, conversation, store, replied>>

Received(command) ==
    /\ pc = "waiting" /\ inbox # <<>>
    /\ Head(inbox).input.command = command
    /\ inbox' = Tail(inbox)
    /\ current' = Head(inbox).id
    /\ UNCHANGED <<approvalReqs, approvalResps, frontend>>

ReceiveUser ==
    /\ Received("user")
    /\ conversation' = Append(conversation, UserMessage(Head(inbox).id))
    /\ rounds' = 0
    /\ pc' = "step"
    /\ UNCHANGED <<outbox, results, asks, grant, store, replied>>

-----------------------------------------------------------------------------
(***************************************************************************)
(* _handle_control.  Each command publishes one reply.                     *)
(***************************************************************************)

Control(command) ==
    /\ Received(command)
    /\ FinalReply(Head(inbox).id)
    /\ pc' = "idle"
    /\ UNCHANGED <<results, rounds, asks, grant>>

Argument == Head(inbox).input.arg

Reset ==
    /\ Control("reset")
    /\ conversation' = <<>>
    /\ UNCHANGED store

\* /savepoints, /role and usage errors: nothing of this module changes.
Notice ==
    /\ Control("notice")
    /\ UNCHANGED <<conversation, store>>

\* The file a save writes: the one named, or a time-stamped one in saves/,
\* which an earlier save of the same second may have written.
SaveTargets == IF Argument = None THEN DefaultPaths ELSE {Argument}

Written(path, content) ==
    /\ files' = [files EXCEPT ![path] = content]
    /\ newest' = IF path \in DefaultPaths THEN path ELSE newest
    /\ UNCHANGED <<conversation, savePoints>>

Save ==
    /\ Control("save")
    /\ \E path \in SaveTargets :
           Written(path, [kind |-> "saved", msgs |-> conversation])

\* Opening the file fails and it is left alone, or the dump fails after the
\* file was truncated.
SaveFails ==
    /\ Control("save")
    /\ \/ UNCHANGED <<conversation, store>>
       \/ \E path \in SaveTargets :
              Written(path, [kind |-> "malformed", msgs |-> <<>>])

\* Creating saves/, and looking at a directory to load from, may fail outside
\* any try: the thread dies without a reply.
CommandDies ==
    /\ \/ Received("save") /\ Argument = None
       \/ Received("load")
    /\ pc' = "dead"
    /\ UNCHANGED <<outbox, results, rounds, asks, grant, conversation, store,
                   replied>>

LoadSource == IF Argument = None THEN newest ELSE Argument

\* Mutant: the dicts of the file are stored as they are, not as messages.
RestoreRaw(file) == IF file.kind = "saved" THEN <<file>> ELSE <<>>

\* start_task, then restore_from_flat.  A foreign file (JSON, but not a list
\* of messages) raises in between, when the old context is already gone.
RestoreFromFlat(file) ==
    IF file.kind = "saved" THEN file.msgs ELSE <<>>

\* A missing or malformed file is noticed before the context is touched.
Load ==
    /\ Control("load")
    /\ IF LoadSource = None \/ files[LoadSource].kind \in {"absent", "malformed"}
       THEN UNCHANGED conversation
       ELSE conversation' = RestoreFromFlat(files[LoadSource])
    /\ UNCHANGED store

SavePoint ==
    /\ Control("savepoint")
    /\ savePoints' = [savePoints EXCEPT
           ![Argument] = [set |-> TRUE, msgs |-> conversation]]
    /\ UNCHANGED <<conversation, files, newest>>

Restore ==
    /\ Control("restore")
    /\ conversation' = IF savePoints[Argument].set
                       THEN savePoints[Argument].msgs
                       ELSE conversation
    /\ UNCHANGED store

-----------------------------------------------------------------------------
(***************************************************************************)
(* A turn: _native_step, one model call and the calls it asks for.         *)
(***************************************************************************)

EndTurn ==
    /\ FinalReply(current)
    /\ pc' = "idle"
    /\ UNCHANGED <<inbox, approvalReqs, approvalResps, frontend, turn, store>>

\* Every step first prunes to the MAX_CONVERSATION_LENGTH of the moment.
BeginStep ==
    /\ pc = "step"
    /\ \E max \in MaxLengths : conversation' = Prune(conversation, max)
    /\ pc' = "model"
    /\ UNCHANGED <<queues, frontend, turn, store, replied>>

\* Building the system prompt raises (a prompt file is gone).
BeginStepFails ==
    /\ pc = "step"
    /\ \E max \in MaxLengths : conversation' = Prune(conversation, max)
    /\ EndTurn

\* The model answers with text.
ReplyText ==
    /\ pc = "model"
    /\ conversation' = Append(conversation, AssistantMessage(<<>>))
    /\ EndTurn

\* Mutant: after a provider error the step is simply tried again.
RetryAfterError ==
    /\ pc = "model"
    /\ FinalReply(current)
    /\ pc' = "step"
    /\ UNCHANGED <<inbox, approvalReqs, approvalResps, frontend, turn, store,
                   conversation>>

\* Mutant: a refusal is not published.
EndSilently ==
    /\ pc = "model"
    /\ pc' = "idle"
    /\ UNCHANGED <<queues, frontend, turn, store, conversation, replied>>

\* Provider error, any other exception, refusal or empty reply: something is
\* published, nothing is added.
EndWithoutMessage ==
    /\ pc = "model"
    /\ EndTurn
    /\ UNCHANGED conversation

\* Mutant: the text beside the calls is published, too.
ReplyCallsAloud ==
    /\ pc = "model" /\ rounds < MaxRounds
    /\ \E cs \in CallSeqs :
           conversation' = Append(conversation, AssistantMessage(cs))
    /\ FinalReply(current)
    /\ results' = <<>>
    /\ rounds' = rounds + 1
    /\ pc' = "tool"
    /\ UNCHANGED <<inbox, approvalReqs, approvalResps, frontend, current, asks,
                   grant, store>>

\* The model asks for tools.
ReplyCalls ==
    /\ pc = "model" /\ rounds < MaxRounds
    /\ \E cs \in CallSeqs :
           conversation' = Append(conversation, AssistantMessage(cs))
    /\ results' = <<>>
    /\ rounds' = rounds + 1
    /\ pc' = "tool"
    /\ UNCHANGED <<queues, frontend, current, asks, grant, store, replied>>

-----------------------------------------------------------------------------
(***************************************************************************)
(* _execute_tool_call, for the calls of the last reply in their order.     *)
(***************************************************************************)

AskedFor == conversation[Len(conversation)].calls

NextCall == AskedFor[Len(results) + 1]

CallPending == pc = "tool" /\ Len(results) < Len(AskedFor)

\* The current call has its result, of success or of error.
CallDone ==
    /\ results' = Append(results, NextCall)
    /\ grant' = 0
    /\ pc' = "tool"
    /\ UNCHANGED <<inbox, approvalReqs, frontend, current, rounds, asks,
                   conversation, store>>

BadCall ==
    /\ CallPending /\ NextCall \in BadCalls
    /\ CallDone
    /\ UNCHANGED <<outbox, approvalResps, replied>>

\* VERBOSE_MODE is read for every call.
StartTool ==
    /\ CallPending /\ NextCall \notin BadCalls /\ ~verbose
    /\ pc' = "run"
    /\ UNCHANGED <<queues, frontend, turn, conversation, store, replied>>

AskApproval ==
    /\ CallPending /\ NextCall \notin BadCalls /\ verbose
    /\ asks' = asks + 1
    /\ approvalReqs' = Append(approvalReqs, asks + 1)
    /\ pc' = "asked"
    /\ UNCHANGED <<inbox, outbox, approvalResps, frontend, current, results,
                   rounds, grant, conversation, store, replied>>

RejectCall == RejectedNotice /\ CallDone

\* receive_approval_response_blocking looks at the flag before it waits.
CheckBeforeApproval ==
    /\ pc = "asked"
    /\ \/ /\ shutdown
          /\ RejectCall
          /\ UNCHANGED approvalResps
       \/ /\ ~shutdown
          /\ pc' = "approval"
          /\ UNCHANGED <<queues, frontend, turn, conversation, store, replied>>

\* Mutant: the answer is looked at but left in the queue.
PeekApproval ==
    /\ pc = "approval" /\ approvalResps # <<>>
    /\ UNCHANGED approvalResps
    /\ \/ /\ Head(approvalResps).approved
          /\ grant' = Head(approvalResps).ask
          /\ pc' = "run"
          /\ UNCHANGED <<inbox, outbox, approvalReqs, frontend, current,
                         results, rounds, asks, conversation, store, replied>>
       \/ /\ ~Head(approvalResps).approved
          /\ RejectCall

\* Any answer in the queue is taken for the answer to this request.
TakeApproval ==
    /\ pc = "approval" /\ approvalResps # <<>>
    /\ approvalResps' = Tail(approvalResps)
    /\ \/ /\ Head(approvalResps).approved
          /\ grant' = Head(approvalResps).ask
          /\ pc' = "run"
          /\ UNCHANGED <<inbox, outbox, approvalReqs, frontend, current,
                         results, rounds, asks, conversation, store, replied>>
       \/ /\ ~Head(approvalResps).approved
          /\ RejectCall

\* 60 seconds without an answer, or woken by the shutdown.
ApprovalTimeout ==
    /\ pc = "approval" /\ approvalResps = <<>>
    /\ RejectCall
    /\ UNCHANGED approvalResps

\* execute_tool_safely, whatever the tool returns or raises.
RunTool ==
    /\ pc = "run"
    /\ CallDone
    /\ UNCHANGED <<outbox, approvalResps, replied>>

\* Mutant: the results are dropped when the program is being closed.
DropResultsOnShutdown ==
    /\ pc = "tool" /\ Len(results) = Len(AskedFor)
    /\ conversation' = IF shutdown THEN conversation
                       ELSE Append(conversation, ResultsMessage(results))
    /\ results' = <<>>
    /\ pc' = "step"
    /\ UNCHANGED <<queues, frontend, current, rounds, asks, grant, store,
                   replied>>

FinishCalls ==
    /\ pc = "tool" /\ Len(results) = Len(AskedFor)
    /\ conversation' = Append(conversation, ResultsMessage(results))
    /\ results' = <<>>
    /\ pc' = "step"
    /\ UNCHANGED <<queues, frontend, current, rounds, asks, grant, store,
                   replied>>

-----------------------------------------------------------------------------

FrontendStep ==
    \/ \E input \in Inputs : Send(input)
    \/ TakeReply
    \/ ShowRequest
    \/ \E approved \in BOOLEAN : Answer(approved)
    \/ \E b \in VerboseModes : SetVerbose(b)
    \/ Shutdown

ControlStep ==
    \/ Reset \/ Notice \/ Save \/ SaveFails \/ CommandDies
    \/ Load \/ SavePoint \/ Restore

TurnStep ==
    \/ BeginStep \/ BeginStepFails
    \/ ReplyText \/ EndWithoutMessage \/ ReplyCalls
    \/ BadCall \/ StartTool \/ AskApproval \/ CheckBeforeApproval
    \/ TakeApproval \/ ApprovalTimeout \/ RunTool \/ FinishCalls

AgentStep ==
    \/ Start \/ CheckShutdown \/ WakeForShutdown
    \/ ReceiveUser \/ ControlStep \/ TurnStep

\* Everything has been sent, taken and done.
Rest ==
    /\ shutdown /\ pc \in {"stopped", "dead"}
    /\ UNCHANGED vars

Next == FrontendStep \/ AgentStep \/ Rest

Spec == Init /\ [][Next]_vars

-----------------------------------------------------------------------------
(***************************************************************************)
(* Properties.                                                             *)
(***************************************************************************)

\* A model is never sent a context with a tool call that lacks its results
\* or with results that lack their call (native APIs refuse either), however
\* often the context was pruned, restored or loaded (utils/agent.py:316-322,
\* utils/llm.py:178-187).
RequestsPaired == pc = "model" => Paired(conversation)

\* What a save point or a saved file holds can be continued from: no call in
\* it is without its results.
StoredPaired ==
    /\ \A n \in Names : Paired(savePoints[n].msgs)
    /\ \A p \in Paths : Paired(files[p].msgs)

\* The invariant behind both: outside the running of calls everything is
\* paired; during it only the last message is open, and the results so far
\* are those of its first calls.
RunningCalls == {"tool", "asked", "approval", "run"}

ContextInv ==
    /\ StoredPaired
    /\ pc \notin RunningCalls => Paired(conversation)
    /\ pc \in RunningCalls =>
           /\ conversation # <<>>
           /\ PairedButLast(conversation)
           /\ Len(results) <= Len(AskedFor)
           /\ \A i \in 1..Len(results) : results[i] = AskedFor[i]
           /\ pc # "tool" => Len(results) < Len(AskedFor)

\* During a turn the context holds the request being worked on, and behind
\* it only what this turn added: pruning never cuts the request off.
RequestKept ==
    pc \in InTurn =>
        \E i \in DOMAIN conversation :
            /\ conversation[i] = UserMessage(current)
            /\ \A j \in i + 1 .. Len(conversation) :
                   ~IsCleanStart(conversation[j])

\* A context longer than every limit has been cut to the current turn alone.
OnlyTheTurnExceedsTheLimit ==
    pc = "model" =>
        \/ \E max \in MaxLengths : Len(conversation) <= max
        \/ conversation[1] = UserMessage(current)

\* What makes both so: what a turn adds opens nothing, since a call run has
\* its result.
TurnInv ==
    /\ RequestKept
    /\ OnlyTheTurnExceedsTheLimit
    /\ pc \in RunningCalls => AskedFor # <<>>

\* Every message the agent is done with got exactly one final reply, the one
\* it works on none yet: a frontend waits for one reply per message.
Handling(n) == n = current /\ pc \in InTurn \cup {"dead"}

AnsweredOnce ==
    \A n \in 1..MaxMessages :
        replied[n] = IF n <= current /\ ~Handling(n) THEN 1 ELSE 0

\* What makes it so: the waiting messages are numbered on from the current.
AnswerInv ==
    /\ sent = current + Len(inbox)
    /\ \A i \in 1..Len(inbox) : inbox[i].id = current + i
    /\ pc \in InTurn => current # 0
    /\ pc = "starting" => current = 0
    /\ AnsweredOnce

\* A frontend that sends one message at a time finds it in one place only: in
\* the queue, in the agent's hands or, answered, in the queue back; ...
InOnePlace ==
    \/ Len(inbox) = 1 /\ outbox = <<>> /\ pc \notin InTurn
    \/ inbox = <<>> /\ outbox = <<>> /\ pc \in InTurn \cup {"dead"}
    \/ /\ inbox = <<>> /\ pc \notin InTurn
       /\ outbox = <<[to |-> sent, kind |-> "final"]>>

\* ... or, once the answer was taken, in none.
NothingLeft == inbox = <<>> /\ outbox = <<>> /\ pc \notin InTurn

\* However late the answers come, each lets at most one tool run: the one
\* that did is neither in the queue nor still to be given.
ApprovalUsedOnce ==
    pc = "run" /\ grant # 0 =>
        /\ \A i \in DOMAIN approvalResps : approvalResps[i].ask > grant
        /\ \A i \in DOMAIN approvalReqs : approvalReqs[i] > grant
        /\ prompted = 0 \/ prompted > grant

\* What makes it so: requests and answers are taken in the order of asking.
Increasing(asked) ==
    \A i \in DOMAIN asked : \A j \in DOMAIN asked : i < j => asked[i] < asked[j]

ApprovalInv ==
    /\ grant <= asks /\ prompted <= asks
    /\ Increasing(approvalReqs)
    /\ Increasing([i \in DOMAIN approvalResps |-> approvalResps[i].ask])
    /\ \A i \in DOMAIN approvalReqs :
           /\ grant < approvalReqs[i] /\ approvalReqs[i] <= asks
           /\ prompted < approvalReqs[i]
    /\ \A i \in DOMAIN approvalResps :
           /\ grant < approvalResps[i].ask /\ approvalResps[i].ask <= asks
           /\ prompted # 0 => approvalResps[i].ask < prompted
           /\ \A j \in DOMAIN approvalReqs :
                  approvalResps[i].ask < approvalReqs[j]
    /\ prompted # 0 => grant < prompted

\* Every message is answered at last, unless the program is closed or the
\* thread died.
EveryMessageAnswered ==
    \A n \in 1..MaxMessages :
        sent >= n ~> replied[n] = 1 \/ shutdown \/ pc = "dead"

\* shutdown() ends the thread, from wherever it was blocked.
ShutdownEndsAgent == shutdown ~> pc \in {"stopped", "dead"}

=============================================================================
