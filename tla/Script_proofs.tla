---------------------------- MODULE Script_proofs ----------------------------
(***************************************************************************)
(* Theorems about the frontends that run a file.  Between two tasks the    *)
(* agent is replaced by a new one, which is no step of module Agent; the   *)
(* invariants of Agent are therefore proved to survive the replacement.    *)
(***************************************************************************)
EXTENDS Script, Agent_proofs

USE DEF queues, frontend, turn, store, vars

-----------------------------------------------------------------------------
(***************************************************************************)
(* A script's agents are agents.                                           *)
(***************************************************************************)

\* What the main thread does to the connector, between two new agents, is
\* what Agent's frontend may do.
LEMMA MainThreadIsAFrontend ==
    [ScriptNext]_allVars => [Next]_vars \/ NewAgent
<1> SUFFICES ASSUME [ScriptNext]_allVars PROVE [Next]_vars \/ NewAgent
    OBVIOUS
<1>1. CASE AgentMoves
    BY <1>1 DEF AgentMoves, Next
<1>2. CASE NewTask
    BY <1>2 DEF NewTask
<1>3. CASE LineToAgent
    <2>1. PICK input \in Lines : Send(input)
        BY <1>3 DEF LineToAgent
    <2>2. input \in Inputs
        BY ScriptAssumption
    <2> QED
        BY <2>1, <2>2 DEF FrontendStep, Next
<1>4. CASE LocalLine
    BY <1>4 DEF LocalLine, FrontendStep, Next
<1>5. CASE WriteReply \/ TakeRequest \/ Approve \/ Close
    BY <1>5 DEF WriteReply, TakeRequest, Approve, Close, FrontendStep, Next
<1>6. CASE \/ NoMoreTasks \/ LoadRole \/ UnloadRole \/ Quit \/ Interrupt
           \/ NoAcknowledgement \/ LookForRequest \/ NoRequest \/ Join
    BY <1>6 DEF NoMoreTasks, LoadRole, UnloadRole, Quit, Interrupt,
                NoAcknowledgement, LookForRequest, NoRequest, Join
<1>7. CASE UNCHANGED allVars
    BY <1>7 DEF allVars
<1> QED
    BY <1>1, <1>2, <1>3, <1>4, <1>5, <1>6, <1>7 DEF ScriptNext, ScriptMoves

\* A new agent finds the files of the old one, and nothing else.
LEMMA NewAgentIsAnAgent == AgentInv /\ NewAgent => AgentInv'
<1> SUFFICES ASSUME TypeOK, ContextInv, NewAgent PROVE AgentInv'
    BY DEF AgentInv
<1>1. Paired(<<>>)
    BY DEF Paired
<1>2. StoredPaired'
    BY <1>1 DEF NewAgent, ContextInv, StoredPaired
<1>3. ContextInv'
    BY <1>1, <1>2 DEF NewAgent, ContextInv, RunningCalls
<1>4. AnswerInv'
    BY AgentAssumption DEF NewAgent, AnswerInv, AnsweredOnce, Handling, InTurn
<1>5. TypeOK'
    <2>1. /\ verbose \in BOOLEAN /\ files \in [Paths -> FileContent]
          /\ newest \in Paths \cup {None}
        BY DEF TypeOK
    <2>2. /\ inbox' \in Seq(Posted) /\ outbox' \in Seq(Published)
          /\ approvalReqs' \in Seq(Nat)
          /\ approvalResps' \in Seq([ask : Nat, approved : BOOLEAN])
          /\ results' \in Seq(Calls) /\ conversation' \in Seq(Message)
        BY DEF NewAgent
    <2>3. /\ savePoints' \in [Names -> [set : BOOLEAN, msgs : Seq(Message)]]
          /\ replied' \in [1..MaxMessages -> Nat]
          /\ sent' \in 0..MaxMessages /\ current' \in 0..MaxMessages
        BY AgentAssumption DEF NewAgent
    <2> QED
        BY <2>1, <2>2, <2>3 DEF NewAgent, TypeOK
<1> QED
    BY <1>3, <1>4, <1>5 DEF AgentInv

LEMMA ScriptAgentInvariant == ScriptSpec => []AgentInv
<1>1. ScriptInit => AgentInv
    BY InitAgentInv DEF ScriptInit
<1>2. AgentInv /\ [ScriptNext]_allVars => AgentInv'
    BY MainThreadIsAFrontend, NewAgentIsAnAgent, StepAgentInv
<1> QED
    BY <1>1, <1>2, PTL DEF ScriptSpec

-----------------------------------------------------------------------------
(***************************************************************************)
(* Where the main thread is, and what it can rely on there.                *)
(***************************************************************************)

\* Every answer to a request for approval is a yes.
LEMMA StepPlaceInv ==
    TypeOK /\ PlaceInv /\ [ScriptNext]_allVars => PlaceInv'
<1> SUFFICES ASSUME TypeOK, PlaceInv, [ScriptNext]_allVars PROVE PlaceInv'
    OBVIOUS
<1>0. /\ stopping => place \in {"unload", "close", "join", "ended"}
      /\ shutdown => place \in {"join", "task", "ended"}
      /\ place \in {"dispatch", "control"} \cup Waiting => OneAgent \/ role
      /\ \A i \in DOMAIN approvalResps : approvalResps[i].approved
      /\ pc \in {"asked", "approval"} => asks > 0
    BY DEF PlaceInv
<1>t. /\ approvalResps \in Seq([ask : Nat, approved : BOOLEAN])
      /\ asks \in Nat
    BY DEF TypeOK
<1>1. CASE AgentMoves
    <2>1. UNCHANGED <<mode, place, stopping, role, shutdown>>
        BY <1>1, AgentLeavesFrontend DEF AgentMoves, scriptVars
    <2>2. \A i \in DOMAIN approvalResps' : approvalResps'[i].approved
        <3>1. CASE TakeApproval
            <4>1. /\ approvalResps # <<>>
                  /\ approvalResps' = Tail(approvalResps)
                BY <3>1 DEF TakeApproval
            <4>2. \A i \in DOMAIN approvalResps' :
                      /\ i + 1 \in DOMAIN approvalResps
                      /\ approvalResps'[i] = approvalResps[i + 1]
                BY <1>t, <4>1
            <4> QED
                BY <1>0, <4>2
        <3>2. CASE ~TakeApproval
            <4>1. UNCHANGED approvalResps
                BY <1>1, <3>2 DEF AgentMoves, AgentStep, Start, CheckShutdown,
                    WakeForShutdown, ReceiveUser, Received, ControlStep, Reset,
                    Notice, Save, SaveFails, CommandDies, Load, SavePoint,
                    Restore, Control,
                    TurnStep, BeginStep, BeginStepFails, ReplyText,
                    EndWithoutMessage, ReplyCalls, BadCall, StartTool,
                    AskApproval, CheckBeforeApproval, ApprovalTimeout, RunTool,
                    FinishCalls, EndTurn, RejectCall, CallDone
            <4> QED
                BY <1>0, <4>1
        <3> QED
            BY <3>1, <3>2
    <2>3. pc' \in {"asked", "approval"} => asks' > 0
        <3>1. CASE AskApproval
            BY <1>t, <3>1 DEF AskApproval
        <3>2. CASE CheckBeforeApproval
            BY <1>0, <3>2 DEF CheckBeforeApproval, RejectCall, CallDone
        <3>3. CASE ~AskApproval /\ ~CheckBeforeApproval
            BY <1>1, <3>3 DEF AgentMoves, AgentStep, Start, CheckShutdown,
                WakeForShutdown, ReceiveUser, Received, ControlStep, Reset,
                Notice, Save, SaveFails, CommandDies, Load, SavePoint, Restore,
                Control,
                TurnStep, BeginStep, BeginStepFails, ReplyText,
                EndWithoutMessage, ReplyCalls, BadCall, StartTool,
                TakeApproval, ApprovalTimeout, RunTool,
                FinishCalls, EndTurn, RejectCall, CallDone
        <3> QED
            BY <3>1, <3>2, <3>3
    <2> QED
        BY <1>0, <2>1, <2>2, <2>3 DEF PlaceInv, OneAgent
<1>2. CASE UNCHANGED allVars
    BY <1>0, <1>2 DEF PlaceInv, OneAgent, allVars, scriptVars
<1> DEFINE Connected == UNCHANGED <<approvalResps, pc, asks>>
<1>3. CASE Approve
    <2>1. /\ place = "approve" /\ place' = "reply"
          /\ UNCHANGED <<mode, stopping, role, shutdown, pc, asks>>
          /\ approvalResps' = Append(approvalResps,
                                 [ask |-> prompted, approved |-> TRUE])
        BY <1>3 DEF Approve, Answer, GoTo
    <2>2. \A i \in DOMAIN approvalResps' : approvalResps'[i].approved
        BY <1>0, <1>t, <2>1
    <2> QED
        BY <1>0, <2>1, <2>2 DEF PlaceInv, OneAgent, Waiting
<1>4. CASE NewTask
    BY <1>0, <1>4 DEF NewTask, NewAgent, GoTo, PlaceInv, Waiting
<1>5. CASE LineToAgent \/ LocalLine
    <2>1. /\ place = "dispatch"
          /\ place' \in {"control", "reply", "dispatch", "unload"}
          /\ UNCHANGED <<mode, stopping, role, shutdown>> /\ Connected
        BY <1>5 DEF LineToAgent, LocalLine, More, Send, SetVerbose, GoTo,
                    WaitFor, AfterLine
    <2> QED
        BY <1>0, <2>1 DEF PlaceInv, OneAgent, Waiting
<1>6. CASE WriteReply \/ NoAcknowledgement
    <2>1. /\ place \in {"reply", "control"} /\ place' = AfterLine
          /\ UNCHANGED <<mode, stopping, role, shutdown>> /\ Connected
        BY <1>6 DEF WriteReply, NoAcknowledgement, TakeReply, GoTo
    <2> QED
        BY <1>0, <2>1 DEF PlaceInv, OneAgent, Waiting, AfterLine
<1>7. CASE LookForRequest \/ NoRequest \/ TakeRequest
    <2>1. /\ place \in {"reply", "requests"} /\ place' \in Waiting
          /\ UNCHANGED <<mode, stopping, role, shutdown>> /\ Connected
        BY <1>7 DEF LookForRequest, NoRequest, TakeRequest, ShowRequest, GoTo,
                    Waiting
    <2> QED
        BY <1>0, <2>1 DEF PlaceInv, OneAgent, Waiting
<1>8. CASE Quit \/ Interrupt
    <2>1. /\ place \in {"role", "dispatch", "control"} \cup Waiting
          /\ place' \in {"close", "unload", "ended"}
          /\ UNCHANGED <<mode, role, shutdown>> /\ Connected
        BY <1>8 DEF Quit, Interrupt, GoTo, AfterLoop
    <2>2. ~shutdown
        BY <1>0, <2>1 DEF Waiting
    <2> QED
        BY <1>0, <2>1, <2>2 DEF PlaceInv, Waiting
<1>9. CASE LoadRole
    <2>1. /\ place = "role" /\ place' = IF role' THEN "dispatch" ELSE "unload"
          /\ UNCHANGED <<mode, stopping, shutdown>> /\ Connected
        BY <1>9 DEF LoadRole, GoTo
    <2> QED
        BY <1>0, <2>1 DEF PlaceInv, Waiting
<1>10. CASE UnloadRole \/ Close \/ Join \/ NoMoreTasks
    <2>1. /\ \/ place = "unload" /\ place' = "close" /\ UNCHANGED shutdown
             \/ place = "close" /\ place' = "join"
             \/ /\ place = "join" /\ UNCHANGED shutdown
                /\ place' = IF stopping THEN "ended" ELSE "task"
             \/ place = "task" /\ place' = "ended" /\ UNCHANGED shutdown
          /\ UNCHANGED <<mode, stopping>> /\ Connected
        BY <1>10 DEF UnloadRole, Close, Shutdown, Join, NoMoreTasks, GoTo
    <2> QED
        BY <1>0, <2>1 DEF PlaceInv, Waiting
<1> QED
    BY <1>1, <1>2, <1>3, <1>4, <1>5, <1>6, <1>7, <1>8, <1>9, <1>10
    DEF ScriptNext, ScriptMoves

\* As long as the frontend is on the look-out for requests for approval none
\* is rejected: it says yes, in time, and has not shut the connector down.
LEMMA NothingIsRejected ==
    ASSUME TypeOK, PlaceInv, AgentMoves, place \in Waiting, ~Unseen,
           pc \in {"asked", "approval"}
    PROVE  ~RejectCall
<1>1. ~shutdown
    BY DEF PlaceInv, Waiting
<1>2. scriptVerbose
    BY DEF PlaceInv, Unseen
<1>3. ~ApprovalMayBeLate
    BY <1>1, <1>2 DEF ApprovalMayBeLate
<1>4. CheckBeforeApproval \/ TakeApproval
    BY <1>3 DEF AgentMoves, AgentStep, Start, CheckShutdown, WakeForShutdown,
        ReceiveUser, Received, ControlStep, Reset, Notice, Save, SaveFails,
        CommandDies, Load, SavePoint, Restore, Control,
        TurnStep, BeginStep, BeginStepFails, ReplyText, EndWithoutMessage,
        ReplyCalls, BadCall, StartTool, AskApproval, ApprovalTimeout, RunTool,
        FinishCalls, CallPending
<1>5. CASE CheckBeforeApproval
    BY <1>1, <1>5 DEF CheckBeforeApproval, RejectCall, CallDone
<1>6. CASE TakeApproval
    <2>1. approvalResps # <<>>
        BY <1>6 DEF TakeApproval
    <2>2. 1 \in DOMAIN approvalResps /\ Head(approvalResps) = approvalResps[1]
        BY <2>1 DEF TypeOK
    <2>3. Head(approvalResps).approved
        BY <2>2 DEF PlaceInv
    <2> QED
        BY <1>6, <2>3 DEF TakeApproval, RejectCall, CallDone
<1> QED
    BY <1>4, <1>5, <1>6

LEMMA AgentKeepsOneLine ==
    ASSUME AgentInv, PlaceInv, AgentMoves, OneLine, ~Unseen
    PROVE  OneLine'
<1>0. /\ TypeOK /\ AnswerInv /\ AgentStep
      /\ UNCHANGED <<place, awaited, sent, late>>
    BY AgentLeavesFrontend DEF AgentInv, AgentMoves, scriptVars
<1>1. pc # "dead"
    BY <1>0 DEF AgentStep, Start, CheckShutdown, WakeForShutdown,
        ReceiveUser, Received, ControlStep, Reset, Notice, Save, SaveFails,
        CommandDies, Load, SavePoint, Restore, Control,
        TurnStep, BeginStep, BeginStepFails, ReplyText, EndWithoutMessage,
        ReplyCalls, BadCall, StartTool, AskApproval, CheckBeforeApproval,
        TakeApproval, ApprovalTimeout, RunTool, FinishCalls, CallPending
<1>2. CASE NothingLeft /\ (place \notin Waiting \cup {"control"} \/ awaited = 0)
    BY <1>0, <1>2, AgentKeepsNothingLeft DEF OneLine
<1>3. CASE InOnePlace /\ awaited = sent /\ place \in Waiting
    BY <1>0, <1>3, NothingIsRejected, AgentKeepsInOnePlace DEF OneLine
<1>4. CASE /\ InOnePlace /\ awaited = sent
           /\ \/ place = "control"
              \/ late /\ place \in {"unload", "close", "join", "task", "ended"}
           /\ pc \notin InTurn
           /\ \A i \in DOMAIN inbox : inbox[i].input.command # "user"
    <2>1. InOnePlace'
        BY <1>0, <1>4, AgentKeepsInOnePlace DEF InTurn
    <2>2. ~ReceiveUser
        <3>1. ASSUME inbox # <<>>
              PROVE  1 \in DOMAIN inbox /\ Head(inbox) = inbox[1]
            BY <1>0, <3>1 DEF TypeOK
        <3> QED
            BY <1>4, <3>1 DEF ReceiveUser, Received
    <2>3. ~TurnStep
        BY <1>4 DEF TurnStep, BeginStep, BeginStepFails, ReplyText,
            EndWithoutMessage, ReplyCalls, BadCall, StartTool, AskApproval,
            CheckBeforeApproval, TakeApproval, ApprovalTimeout, RunTool,
            FinishCalls, CallPending, InTurn
    <2>4. /\ pc' \notin InTurn
          /\ inbox' = inbox \/ (inbox # <<>> /\ inbox' = Tail(inbox))
        BY <1>0, <2>2, <2>3 DEF AgentStep, Start, CheckShutdown,
            WakeForShutdown, ControlStep, Reset, Notice, Save, SaveFails,
            CommandDies, Load, SavePoint, Restore, Control, Received, InTurn
    <2>5. \A i \in DOMAIN inbox' : inbox'[i].input.command # "user"
        <3>1. Len(inbox) = 1 \/ inbox = <<>>
            BY <1>4 DEF InOnePlace
        <3>2. inbox \in Seq(Posted)
            BY <1>0 DEF TypeOK
        <3>3. inbox' = inbox \/ inbox' = <<>>
            BY <2>4, <3>1, <3>2
        <3> QED
            BY <1>4, <3>3
    <2> QED
        BY <1>0, <1>4, <2>1, <2>4, <2>5 DEF OneLine
<1> QED
    BY <1>1, <1>2, <1>3, <1>4 DEF OneLine

LEMMA LineToAgentOneLine ==
    ASSUME TypeOK, PlaceInv, LineToAgent, OneLine
    PROVE  OneLine'
<1>1. PICK input \in Lines : Send(input) /\ GoTo(WaitFor(input))
    BY DEF LineToAgent
<1>2. /\ place = "dispatch" /\ awaited' = sent + 1
      /\ place' = WaitFor(input)
    BY <1>1 DEF LineToAgent, More, GoTo
<1>3. /\ inbox' = Append(inbox, [id |-> sent + 1, input |-> input])
      /\ UNCHANGED <<outbox, pc>>
    BY <1>1 DEF Send
<1>4. CASE pc = "dead" /\ outbox = <<>>
    BY <1>3, <1>4 DEF OneLine
<1>5. CASE NothingLeft
    <2>1. InOnePlace' /\ sent' = sent + 1
        BY <1>1, <1>5, SentIsInOnePlace
    <2>2. inbox' = <<[id |-> sent + 1, input |-> input]>> /\ pc' \notin InTurn
        BY <1>3, <1>5 DEF NothingLeft
    <2>3. \/ place' = "reply"
          \/ place' = "control" /\ input.command # "user"
        BY <1>2 DEF WaitFor
    <2>4. \A i \in DOMAIN inbox' : inbox'[i].input = input
        BY <2>2
    <2> QED
        BY <1>2, <2>1, <2>2, <2>3, <2>4 DEF OneLine, Waiting
<1> QED
    BY <1>2, <1>4, <1>5 DEF OneLine, Waiting

LEMMA StepLineInv ==
    AgentInv /\ PlaceInv /\ LineInv /\ [ScriptNext]_allVars => LineInv'
<1> SUFFICES ASSUME AgentInv, PlaceInv, LineInv, [ScriptNext]_allVars,
                    ~Unseen', ~Late'
             PROVE  ReplyUnderItsLine' /\ (stopping' \/ OneLine')
    BY DEF LineInv
<1>0. TypeOK /\ asks \in Nat
    BY DEF AgentInv, TypeOK
<1>1. CASE NewTask
    <2>1. written' = Nothing /\ NothingLeft' /\ place' = "role"
        BY <1>1 DEF NewTask, NewAgent, GoTo, NothingLeft, InTurn
    <2> QED
        BY <2>1 DEF ReplyUnderItsLine, OneLine, Nothing, Waiting
<1>2. ASSUME ~NewTask
      PROVE  /\ ~Unseen /\ ~Late /\ ReplyUnderItsLine
             /\ stopping \/ OneLine
    <2>1. asks' \in {asks, asks + 1} /\ scriptVerbose' = scriptVerbose
        BY <1>2 DEF ScriptNext, ScriptMoves, AgentMoves, scriptVars, allVars,
            NoMoreTasks, LoadRole, UnloadRole, LineToAgent, LocalLine, Quit,
            Interrupt, WriteReply, NoAcknowledgement, LookForRequest,
            NoRequest, TakeRequest, Approve, Close, Join, GoTo,
            Send, SetVerbose, TakeReply, ShowRequest, Answer, Shutdown,
            AgentStep, Start, CheckShutdown, WakeForShutdown,
            ReceiveUser, Received, ControlStep, Reset, Notice, Save, SaveFails,
            CommandDies, Load, SavePoint, Restore, Control,
            TurnStep, BeginStep, BeginStepFails, ReplyText, EndWithoutMessage,
            ReplyCalls, BadCall, StartTool, AskApproval, CheckBeforeApproval,
            TakeApproval, ApprovalTimeout, RunTool, FinishCalls, EndTurn,
            RejectCall, CallDone
    <2>2. ~Unseen
        BY <1>0, <2>1 DEF Unseen
    <2>3. mode' = mode /\ (late' = late \/ late' = TRUE)
        BY <1>2 DEF ScriptNext, ScriptMoves, AgentMoves, scriptVars, allVars,
            NoMoreTasks, LoadRole, UnloadRole, LineToAgent, LocalLine, Quit,
            Interrupt, WriteReply, NoAcknowledgement, LookForRequest,
            NoRequest, TakeRequest, Approve, Close, Join, GoTo
    <2>4. ~Late
        BY <2>3 DEF Late, OneAgent
    <2> QED
        BY <2>2, <2>4 DEF LineInv
<1>3. ASSUME ~NewTask, UNCHANGED written
      PROVE  ReplyUnderItsLine'
    BY <1>2, <1>3 DEF ReplyUnderItsLine
<1>4. CASE AgentMoves
    <2>1. UNCHANGED <<written, stopping, place>> /\ place # "ended" /\ AgentStep
        BY <1>4 DEF AgentMoves, scriptVars
    <2>2. ~NewTask
        BY <2>1 DEF NewTask, GoTo
    <2> QED
        BY <1>2, <1>3, <1>4, <2>1, <2>2, AgentKeepsOneLine
<1>5. CASE LineToAgent
    <2>1. place = "dispatch" /\ UNCHANGED written
        BY <1>5 DEF LineToAgent, More
    <2>2. ~NewTask /\ ~stopping
        BY <2>1 DEF NewTask, PlaceInv
    <2> QED
        BY <1>0, <1>2, <1>3, <1>5, <2>1, <2>2, LineToAgentOneLine
<1>6. CASE LocalLine
    <2>1. /\ place = "dispatch" /\ UNCHANGED <<written, inbox, outbox, pc>>
          /\ awaited' = 0 /\ place' \in {"reply", "dispatch", "unload"}
        BY <1>6 DEF LocalLine, More, SetVerbose, GoTo, AfterLine
    <2>2. ~NewTask /\ ~stopping
        BY <2>1 DEF NewTask, PlaceInv
    <2>3. (pc = "dead" /\ outbox = <<>>) \/ NothingLeft
        BY <1>2, <2>1, <2>2 DEF OneLine, Waiting
    <2>4. OneLine'
        BY <2>1, <2>3 DEF OneLine, NothingLeft
    <2> QED
        BY <1>3, <2>1, <2>2, <2>4
<1>7. CASE Quit \/ Interrupt
    <2>1. /\ place \in {"role", "dispatch", "control"} \cup Waiting
          /\ stopping' = TRUE /\ UNCHANGED written
        BY <1>7 DEF Quit, Interrupt
    <2>2. ~NewTask
        BY <2>1 DEF NewTask, Waiting
    <2> QED
        BY <1>3, <2>1, <2>2
<1>8. CASE WriteReply
    <2>1. /\ place \in {"reply", "control"} /\ TakeReply /\ place' = AfterLine
          /\ written' = [asked |-> awaited, to |-> Head(outbox).to,
                         kind |-> Head(outbox).kind]
        BY <1>8 DEF WriteReply, GoTo
    <2>2. ~NewTask /\ ~stopping
        BY <2>1 DEF NewTask, PlaceInv
    <2>3. InOnePlace /\ awaited = sent
        BY <1>2, <2>1, <2>2 DEF OneLine, NothingLeft, TakeReply
    <2>4. NothingLeft' /\ Head(outbox) = [to |-> sent, kind |-> "final"]
        BY <2>1, <2>3, TakenIsFinal
    <2>5. written' = [asked |-> sent, to |-> sent, kind |-> "final"]
        BY <2>1, <2>3, <2>4
    <2>6. place' \notin Waiting \cup {"control"}
        BY <2>1 DEF AfterLine, Waiting
    <2> QED
        BY <2>4, <2>5, <2>6 DEF ReplyUnderItsLine, OneLine
<1>9. CASE NoAcknowledgement
    <2>1. /\ place = "control" /\ outbox = <<>> /\ place' = AfterLine
          /\ late' /\ mode' = mode
          /\ UNCHANGED <<written, inbox, outbox, pc, sent, awaited>>
        BY <1>9 DEF NoAcknowledgement, GoTo
    <2>2. ~NewTask /\ ~stopping
        BY <2>1 DEF NewTask, PlaceInv
    <2>3. place' = "unload"
        BY <2>1 DEF Late, OneAgent, AfterLine
    <2>4. OneLine'
        BY <1>2, <2>1, <2>2, <2>3 DEF OneLine, NothingLeft, InOnePlace, Waiting
    <2> QED
        BY <1>3, <2>1, <2>2, <2>4
<1>10. CASE LookForRequest \/ NoRequest \/ TakeRequest \/ Approve
    <2>1. /\ place \in Waiting /\ place' \in Waiting
          /\ UNCHANGED <<written, inbox, outbox, pc, sent, awaited, late>>
        BY <1>10 DEF LookForRequest, NoRequest, TakeRequest, ShowRequest,
                     Approve, Answer, GoTo, Waiting
    <2>2. ~NewTask /\ ~stopping
        BY <2>1 DEF NewTask, PlaceInv, Waiting
    <2>3. OneLine'
        BY <1>2, <2>1, <2>2 DEF OneLine, NothingLeft, InOnePlace, Waiting
    <2> QED
        BY <1>3, <2>1, <2>2, <2>3
<1>11. CASE LoadRole \/ UnloadRole \/ Close \/ Join \/ NoMoreTasks
    <2>1. /\ place \notin Waiting \cup {"control"}
          /\ place' \notin Waiting \cup {"control"} /\ place' # "role"
          /\ place \in {"unload", "close", "join", "task", "ended"} =>
                 place' \in {"unload", "close", "join", "task", "ended"}
          /\ UNCHANGED <<written, stopping, inbox, outbox, pc, sent, awaited,
                         late>>
        BY <1>11 DEF LoadRole, UnloadRole, Close, Shutdown, Join, NoMoreTasks,
                     GoTo, Waiting
    <2>2. ~NewTask
        BY <2>1 DEF NewTask, GoTo
    <2>3. OneLine => OneLine'
        BY <2>1 DEF OneLine, NothingLeft, InOnePlace
    <2> QED
        BY <1>2, <1>3, <2>1, <2>2, <2>3
<1>12. CASE UNCHANGED allVars
    <2>1. UNCHANGED <<written, stopping, place, inbox, outbox, pc, sent,
                      awaited, late>>
        BY <1>12 DEF allVars, scriptVars
    <2>2. ~NewTask
        BY <2>1 DEF NewTask, GoTo
    <2>3. OneLine => OneLine'
        BY <2>1 DEF OneLine, NothingLeft, InOnePlace
    <2> QED
        BY <1>2, <1>3, <2>1, <2>2, <2>3
<1> QED
    BY <1>1, <1>4, <1>5, <1>6, <1>7, <1>8, <1>9, <1>10, <1>11, <1>12
    DEF ScriptNext, ScriptMoves

LEMMA ScriptInvariant == ScriptSpec => [](PlaceInv /\ LineInv)
<1>1. AgentInv /\ ScriptInit => PlaceInv /\ LineInv
    BY DEF ScriptInit, Init, PlaceInv, LineInv, OneLine, NothingLeft,
           ReplyUnderItsLine, Nothing, Unseen, OneAgent, Waiting, InTurn
<1>2. AgentInv => TypeOK
    BY DEF AgentInv
<1> QED
    BY <1>1, <1>2, ScriptAgentInvariant, StepPlaceInv, StepLineInv, PTL
    DEF ScriptSpec

-----------------------------------------------------------------------------
(***************************************************************************)
(* The theorems.                                                           *)
(***************************************************************************)

\* Whatever a file holds, and in each of the four loops, what is written
\* under a line is the final reply to it (frontend/batch_loop.py:19-27),
\* until, in batch and lines, an acknowledgement is given up after 30 seconds,
\* or in any of them a request for approval is not looked for.
THEOREM RepliesStandUnderTheirLines == ScriptSpec => []ReplyUnderItsLine
<1>1. LineInv => ReplyUnderItsLine
    BY DEF LineInv, ReplyUnderItsLine
<1> QED
    BY <1>1, ScriptInvariant, PTL

\* No task begins before the agent is done with the requests of the one
\* before, and in todo and tasks none is worked on without the role of its
\* task (frontend/todo_loop.py:3-4), with the exceptions TaskIsAlone names.
THEOREM TasksDoNotOverlap == ScriptSpec => []TaskIsAlone
<1>1. PlaceInv /\ LineInv => TaskIsAlone
    <2> SUFFICES ASSUME PlaceInv, LineInv, AtWork, ~stopping, ~Unseen,
                        ~Late
                 PROVE  place \in Waiting /\ (OneAgent \/ role)
        BY DEF TaskIsAlone
    <2>1. place \in Waiting
        BY DEF LineInv, OneLine, NothingLeft, InTurn, AtWork
    <2> QED
        BY <2>1 DEF PlaceInv, OneAgent
<1> QED
    BY <1>1, ScriptInvariant, PTL

\* From file to file and agent to agent: no model is sent a call without its
\* results, and what is saved can be continued from (utils/agent.py:316-322).
THEOREM ScriptContextsArePaired == ScriptSpec => []ContextInv
<1>1. AgentInv => ContextInv
    BY DEF AgentInv
<1> QED
    BY <1>1, ScriptAgentInvariant, PTL

\* ... and every agent answers each of its messages once.
THEOREM ScriptMessagesAnsweredOnce == ScriptSpec => []AnsweredOnce
<1>1. AgentInv => AnsweredOnce
    BY DEF AgentInv, AnswerInv
<1> QED
    BY <1>1, ScriptAgentInvariant, PTL

=============================================================================
