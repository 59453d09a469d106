---------------------------- MODULE Session_proofs ----------------------------
(***************************************************************************)
(* A session is an agent whose frontend behaves: every step of module      *)
(* Session is a step of module Agent or leaves the agent's variables alone,*)
(* so what is proved of Agent for any frontend holds of the TUI's.         *)
(***************************************************************************)
EXTENDS Session, Agent_proofs

\* The user's line, whichever it is, is a step of the frontend in Agent.
LEMMA UserMovesAreFrontendSteps ==
    UserMoves => FrontendStep
<1> SUFFICES ASSUME UserMoves PROVE FrontendStep
    OBVIOUS
<1>1. Typed \subseteq Inputs
    BY SessionAssumption
<1>2. CASE TypeRequest
    BY <1>1, <1>2 DEF TypeRequest, FrontendStep
<1>3. CASE TypeCommand
    BY <1>1, <1>3 DEF TypeCommand, FrontendStep
<1>4. CASE TypeConfig
    BY <1>4 DEF TypeConfig, FrontendStep
<1>5. CASE Quit
    BY <1>5 DEF Quit, FrontendStep
<1>6. CASE Interrupt
    BY <1>6 DEF Interrupt, FrontendStep
<1> QED
    BY <1>2, <1>3, <1>4, <1>5, <1>6 DEF UserMoves

\* The TUI's own steps take from the connector what Agent's frontend may
\* take, or only move the TUI.
LEMMA TuiMovesAreFrontendSteps ==
    TuiMoves => FrontendStep \/ UNCHANGED vars
<1> SUFFICES ASSUME TuiMoves PROVE FrontendStep \/ UNCHANGED vars
    OBVIOUS
<1>1. CASE PrintReply \/ PrintAcknowledgement \/ PrintExtra
    BY <1>1 DEF PrintReply, PrintAcknowledgement, PrintExtra, PrintNext,
                FrontendStep
<1>2. CASE LookForRequest \/ NoRequest \/ GiveUpControl \/ NothingMore
    BY <1>2 DEF LookForRequest, NoRequest, GiveUpControl, NothingMore
<1>3. CASE PromptForApproval
    BY <1>3 DEF PromptForApproval, FrontendStep
<1>4. CASE Decide
    <2>1. PICK approved \in Decisions : Answer(approved)
        BY <1>4 DEF Decide
    <2>2. approved \in BOOLEAN
        BY SessionAssumption
    <2> QED
        BY <2>1, <2>2 DEF FrontendStep
<1> QED
    BY <1>1, <1>2, <1>3, <1>4 DEF TuiMoves

\* Every session is a behaviour of Agent (frontend/agent_loop.py:77-169 uses
\* the connector only as module Agent allows).
THEOREM SessionImplementsAgent == SessionSpec => Spec
<1>1. SessionInit => Init
    BY DEF SessionInit
<1>2. [SessionNext]_allVars => [Next]_vars
    <2> SUFFICES ASSUME [SessionNext]_allVars PROVE [Next]_vars
        OBVIOUS
    <2>1. CASE AgentMoves
        BY <2>1 DEF AgentMoves, Next
    <2>2. CASE UserMoves
        BY <2>2, UserMovesAreFrontendSteps DEF Next
    <2>3. CASE TuiMoves
        BY <2>3, TuiMovesAreFrontendSteps DEF Next
    <2>4. CASE UNCHANGED allVars
        BY <2>4 DEF allVars
    <2> QED
        BY <2>1, <2>2, <2>3, <2>4 DEF SessionNext
<1> QED
    BY <1>1, <1>2, PTL DEF SessionSpec, Spec

\* What the TUI adds to the types of Agent is inductive, given those types
\* before and after the step.
LEMMA SessionStepTyped ==
    TypeOK /\ TypeOK' /\ SessionTypeOK /\ [SessionNext]_allVars
        => SessionTypeOK'
<1> SUFFICES ASSUME TypeOK, TypeOK', SessionTypeOK, [SessionNext]_allVars
             PROVE SessionTypeOK'
    OBVIOUS
<1> USE DEF SessionTypeOK
<1>1. CASE AgentMoves
    BY <1>1, Zenon DEF AgentMoves
<1>2. CASE TypeRequest \/ TypeCommand
    <2>1. sent \in 0..MaxMessages
        BY DEF TypeOK
    <2>2. sent < MaxMessages
        BY <1>2 DEF TypeRequest, TypeCommand, Send
    <2>3. sent + 1 \in 0..MaxMessages
        BY <2>1, <2>2, AgentAssumption
    <2> QED
        BY <1>2, <2>3 DEF TypeRequest, TypeCommand, TuiGoesTo
<1>3. CASE TypeConfig
    BY <1>3 DEF TypeConfig, tuiVars
<1>4. CASE Quit \/ Interrupt
    BY <1>4 DEF Quit, Interrupt, TuiGoesTo
<1>5. CASE PrintReply \/ PrintAcknowledgement \/ PrintExtra
    <2>1. PrintNext
        BY <1>5 DEF PrintReply, PrintAcknowledgement, PrintExtra
    <2>2. outbox # <<>> /\ outbox \in Seq(Published)
        BY <2>1 DEF PrintNext, TakeReply, TypeOK
    <2>3. Head(outbox) \in Published
        BY <2>2
    <2>4. Head(outbox).to \in 0..MaxMessages
          /\ Head(outbox).kind \in {"final", "rejected"}
        BY <2>3, AgentAssumption DEF Published
    <2>5. shown' \in [asked : 0..MaxMessages, to : 0..MaxMessages,
                      kind : {"none", "final", "rejected"}]
        BY <2>1, <2>4 DEF PrintNext, SessionTypeOK
    <2> QED
        BY <1>5, <2>1, <2>5 DEF PrintReply, PrintAcknowledgement, PrintExtra,
                                PrintNext, TuiGoesTo
<1>6. CASE LookForRequest \/ NoRequest \/ PromptForApproval \/ Decide
               \/ NothingMore
    BY <1>6 DEF LookForRequest, NoRequest, PromptForApproval, Decide,
                NothingMore, TuiGoesTo
<1>7. CASE GiveUpControl
    BY <1>7 DEF GiveUpControl
<1>8. CASE UNCHANGED allVars
    BY <1>8 DEF allVars, tuiVars
<1> QED
    BY <1>1, <1>2, <1>3, <1>4, <1>5, <1>6, <1>7, <1>8
    DEF SessionNext, UserMoves, TuiMoves

\* Types of the agent and the TUI: what is printed comes from a message of the
\* agent, of either kind (frontend/agent_loop.py:95-163).
THEOREM SessionTypeCorrect == SessionSpec => []SessionTypeOK
<1>1. TypeOK /\ SessionInit => SessionTypeOK
    <2> SUFFICES ASSUME TypeOK, SessionInit PROVE SessionTypeOK
        OBVIOUS
    <2>1. verbose \in BOOLEAN
        BY DEF TypeOK
    <2>2. 0 \in 0..MaxMessages
        BY AgentAssumption
    <2> QED
        BY <2>1, <2>2 DEF SessionInit, SessionTypeOK
<1>2. SessionSpec => []TypeOK
    BY SessionImplementsAgent, AgentTypeCorrect, PTL
<1> QED
    BY <1>1, <1>2, SessionStepTyped, PTL DEF SessionSpec

\* In a session, too, no model is sent a call without its results or results
\* without their call (utils/agent.py:316-322).
THEOREM SessionRequestsArePaired == SessionSpec => []RequestsPaired
BY SessionImplementsAgent, RequestsArePaired, PTL

\* In a session, too, every message the agent is done with got exactly one
\* final reply (utils/agent.py:411-469).
THEOREM SessionMessagesAnsweredOnce == SessionSpec => []AnsweredOnce
BY SessionImplementsAgent, EachMessageAnsweredOnce, PTL

-----------------------------------------------------------------------------
(***************************************************************************)
(* One line at a time: while nothing went astray, what the frontend waits  *)
(* for is in one place only.                                               *)
(***************************************************************************)

USE DEF queues, frontend, turn, store, vars

\* A notice of rejection goes astray at once.
LEMMA RejectionGoesAstray ==
    ASSUME TypeOK, AgentMoves, RejectedNotice
    PROVE  astray'
<1>1. outbox \in Seq(Published)
    BY DEF TypeOK
<1>2. outbox' = Append(outbox, [to |-> current, kind |-> "rejected"])
    BY DEF RejectedNotice
<1>3. /\ Len(outbox) + 1 \in DOMAIN outbox'
      /\ outbox'[Len(outbox) + 1].kind = "rejected"
    BY <1>1, <1>2
<1> QED
    BY <1>3 DEF AgentMoves

LEMMA AgentKeepsAskingInv ==
    TypeOK /\ AskingInv /\ AgentMoves => AskingInv'
<1> SUFFICES ASSUME TypeOK, AskingInv, AgentMoves, ~astray'
             PROVE  /\ (grant # 0 => grant = asks /\ pc = "run")'
                    /\ (pc \in {"asked", "approval"} => OneRequest)'
                    /\ (pc \notin {"asked", "approval"} => NoRequestLeft)'
    BY DEF AskingInv
<1>1. /\ grant # 0 => grant = asks /\ pc = "run"
      /\ pc \in {"asked", "approval"} => OneRequest
      /\ pc \notin {"asked", "approval"} => NoRequestLeft
    BY DEF AskingInv, AgentMoves
<1>2. ~RejectedNotice
    BY RejectionGoesAstray
<1>3. CASE /\ pc \notin {"asked", "approval"} /\ pc' \notin {"asked", "approval"}
           /\ UNCHANGED <<approvalReqs, approvalResps, prompted, asks>>
           /\ grant' = 0 \/ (grant' = grant /\ pc # "run")
    BY <1>1, <1>3 DEF NoRequestLeft
<1>4. CASE AskApproval
    <2>1. NoRequestLeft /\ grant = 0
        BY <1>1, <1>4 DEF AskApproval, CallPending
    <2>2. approvalReqs' = <<asks'>>
        BY <1>4, <2>1 DEF AskApproval, NoRequestLeft
    <2> QED
        BY <1>4, <2>1, <2>2 DEF AskApproval, NoRequestLeft, OneRequest
<1>5. CASE CheckBeforeApproval
    BY <1>1, <1>2, <1>5 DEF CheckBeforeApproval, RejectCall, OneRequest
<1>6. CASE TakeApproval
    <2>1. pc = "approval" /\ approvalResps # <<>>
        BY <1>6 DEF TakeApproval
    <2>2. PICK approved \in BOOLEAN :
              /\ approvalReqs = <<>> /\ prompted = 0
              /\ approvalResps = <<[ask |-> asks, approved |-> approved]>>
        BY <1>1, <2>1 DEF OneRequest
    <2>3. approvalResps' = <<>>
        BY <1>6, <2>2 DEF TakeApproval
    <2>4. Head(approvalResps).ask = asks
        BY <2>2
    <2>5. /\ grant' = Head(approvalResps).ask /\ pc' = "run"
          /\ UNCHANGED <<approvalReqs, prompted, asks>>
        BY <1>2, <1>6 DEF TakeApproval, RejectCall
    <2> QED
        BY <2>2, <2>3, <2>4, <2>5 DEF NoRequestLeft
<1>7. CASE ApprovalTimeout
    BY <1>2, <1>7 DEF ApprovalTimeout, RejectCall
<1>8. CASE Start \/ CheckShutdown \/ WakeForShutdown \/ ReceiveUser
    BY <1>3, <1>8 DEF Start, CheckShutdown, WakeForShutdown, ReceiveUser,
                      Received
<1>9. CASE ControlStep
    BY <1>3, <1>9 DEF ControlStep, Reset, Notice, Save, SaveFails, CommandDies,
                      Load, SavePoint, Restore, Control, Received
<1>10. CASE \/ BeginStep \/ BeginStepFails \/ ReplyText \/ EndWithoutMessage
            \/ ReplyCalls \/ BadCall \/ StartTool \/ RunTool \/ FinishCalls
    BY <1>3, <1>10 DEF BeginStep, BeginStepFails, ReplyText,
        EndWithoutMessage, ReplyCalls, BadCall, StartTool, RunTool,
        FinishCalls, CallPending, CallDone, EndTurn
<1> QED
    BY <1>4, <1>5, <1>6, <1>7, <1>8, <1>9, <1>10
    DEF AgentMoves, AgentStep, TurnStep

LEMMA StepAskingInv ==
    TypeOK /\ AskingInv /\ [SessionNext]_allVars => AskingInv'
<1> SUFFICES ASSUME TypeOK, AskingInv, [SessionNext]_allVars PROVE AskingInv'
    OBVIOUS
<1>1. CASE AgentMoves
    BY <1>1, AgentKeepsAskingInv
<1>2. CASE /\ UNCHANGED <<approvalReqs, approvalResps, prompted, asks, grant, pc>>
           /\ astray' \in {astray, TRUE}
    BY <1>2 DEF AskingInv, OneRequest, NoRequestLeft
<1>3. CASE UserMoves
    BY <1>2, <1>3 DEF UserMoves, TypeRequest, TypeCommand, TypeConfig, Quit,
        Interrupt, Send, SetVerbose, Shutdown, TuiGoesTo, tuiVars
<1>4. CASE PromptForApproval
    <2>1. /\ prompted = 0 /\ approvalReqs # <<>>
          /\ prompted' = Head(approvalReqs) /\ approvalReqs' = Tail(approvalReqs)
          /\ UNCHANGED <<approvalResps, asks, grant, pc, astray>>
        BY <1>4 DEF PromptForApproval, ShowRequest, TuiGoesTo
    <2>2. ASSUME OneRequest PROVE OneRequest'
        <3>1. approvalReqs = <<asks>> /\ approvalResps = <<>>
            BY <2>1, <2>2 DEF OneRequest
        <3>2. approvalReqs' = <<>> /\ prompted' = asks
            BY <2>1, <3>1
        <3> QED
            BY <2>1, <3>1, <3>2 DEF OneRequest
    <2> QED
        BY <2>1, <2>2 DEF AskingInv, NoRequestLeft
<1>5. CASE Decide
    <2>1. PICK approved \in BOOLEAN : Answer(approved)
        BY <1>5, SessionAssumption DEF Decide
    <2>2. /\ prompted # 0 /\ prompted' = 0
          /\ approvalResps' = Append(approvalResps,
                                 [ask |-> prompted, approved |-> approved])
          /\ UNCHANGED <<approvalReqs, asks, grant, pc>>
        BY <2>1 DEF Answer
    <2>3. UNCHANGED astray
        BY <1>5 DEF Decide, TuiGoesTo
    <2>4. ASSUME OneRequest PROVE OneRequest'
        <3>1. /\ approvalReqs = <<>> /\ prompted = asks
              /\ approvalResps = <<>>
            BY <2>2, <2>4 DEF OneRequest
        <3>2. approvalResps' = <<[ask |-> asks', approved |-> approved]>>
            BY <2>2, <3>1
        <3> QED
            BY <2>2, <3>1, <3>2 DEF OneRequest
    <2> QED
        BY <2>2, <2>3, <2>4 DEF AskingInv, NoRequestLeft
<1>6. CASE TuiMoves /\ ~PromptForApproval /\ ~Decide
    BY <1>2, <1>6 DEF TuiMoves, PrintReply, PrintAcknowledgement, PrintExtra,
        PrintNext, TakeReply, LookForRequest, NoRequest, GiveUpControl,
        NothingMore, TuiGoesTo
<1>7. CASE UNCHANGED allVars
    BY <1>2, <1>7 DEF allVars, tuiVars
<1> QED
    BY <1>1, <1>3, <1>4, <1>5, <1>6, <1>7 DEF SessionNext

LEMMA AskingInvariant == SessionSpec => []AskingInv
<1>1. SessionInit => AskingInv
    BY DEF SessionInit, Init, AskingInv, NoRequestLeft
<1>2. SessionSpec => []TypeOK
    BY SessionImplementsAgent, AgentTypeCorrect, PTL
<1> QED
    BY <1>1, <1>2, StepAskingInv, PTL DEF SessionSpec

\* However slow the user is, an approval reaches the very call it was asked
\* for as long as no rejection and no reply given up upset the order: it
\* carries no number (utils/connector.py:196-240).
THEOREM ApprovalsMeetTheirCall ==
    SessionSpec => []ApprovalIsForThisCallUntilAstray
<1>1. AskingInv => ApprovalIsForThisCallUntilAstray
    BY DEF AskingInv, ApprovalIsForThisCallUntilAstray, ApprovalIsForThisCall
<1> QED
    BY <1>1, AskingInvariant, PTL

LEMMA StepLineInv ==
    TypeOK /\ AnswerInv /\ LineInv /\ [SessionNext]_allVars => LineInv'
<1> SUFFICES ASSUME TypeOK, AnswerInv, LineInv, [SessionNext]_allVars, ~astray'
             PROVE  /\ ReplyAnswersRequest'
                    /\ (tui \in {"input", "drain"} => NothingLeft)'
                    /\ (tui \in {"reply", "requests", "ask", "control"} =>
                            awaited = sent /\ InOnePlace)'
    BY DEF LineInv
<1>0. /\ inbox \in Seq(Posted) /\ outbox \in Seq(Published)
      /\ sent \in Nat /\ current \in Nat
    BY AgentAssumption DEF TypeOK
<1>1. ~astray
    BY DEF SessionNext, AgentMoves, UserMoves, TuiMoves, TypeRequest,
        TypeCommand, TypeConfig, Quit, Interrupt, PrintReply, LookForRequest,
        NoRequest, PromptForApproval, Decide, PrintAcknowledgement,
        GiveUpControl, PrintExtra, NothingMore, TuiGoesTo, tuiVars, allVars
<1>2. /\ ReplyAnswersRequest
      /\ tui \in {"input", "drain"} => NothingLeft
      /\ tui \in {"reply", "requests", "ask", "control"} =>
             awaited = sent /\ InOnePlace
    BY <1>1 DEF LineInv
<1>3. CASE AgentMoves
    <2>1. UNCHANGED <<tui, awaited, shown>>
        BY <1>3 DEF AgentMoves
    <2>2. sent' = sent
        BY <1>3, AgentLeavesFrontend DEF AgentMoves
    <2> QED
        BY <1>2, <1>3, <2>1, <2>2, RejectionGoesAstray, AgentKeepsInOnePlace,
           AgentKeepsNothingLeft
        DEF ReplyAnswersRequest, AgentMoves, RejectCall
<1>4. CASE TypeRequest \/ TypeCommand
    <2>1. PICK input \in Typed : Send(input)
        BY <1>4 DEF TypeRequest, TypeCommand
    <2>2. /\ tui = "input" /\ tui' \in {"reply", "control"}
          /\ awaited' = sent + 1 /\ UNCHANGED shown
        BY <1>4 DEF TypeRequest, TypeCommand, TuiGoesTo
    <2>3. NothingLeft
        BY <1>2, <2>2
    <2>4. InOnePlace' /\ sent' = sent + 1
        BY <2>1, <2>3, SentIsInOnePlace
    <2> QED
        BY <1>2, <2>2, <2>4 DEF ReplyAnswersRequest
<1>5. CASE TypeConfig \/ UNCHANGED allVars
    <2>1. UNCHANGED <<inbox, outbox, pc, sent, tui, awaited, shown>>
        BY <1>5 DEF TypeConfig, SetVerbose, tuiVars, allVars
    <2> QED
        BY <1>2, <2>1 DEF ReplyAnswersRequest, NothingLeft, InOnePlace
<1>6. CASE Quit \/ Interrupt
    BY <1>2, <1>6 DEF Quit, Interrupt, TuiGoesTo, ReplyAnswersRequest
<1>7. CASE PrintReply \/ PrintAcknowledgement
    <2>1. /\ tui \in {"reply", "control"} /\ tui' \in {"input", "drain"}
          /\ PrintNext
        BY <1>7 DEF PrintReply, PrintAcknowledgement, TuiGoesTo
    <2>2. awaited = sent /\ InOnePlace
        BY <1>2, <2>1
    <2>3. NothingLeft' /\ Head(outbox) = [to |-> sent, kind |-> "final"]
        BY <2>1, <2>2, TakenIsFinal DEF PrintNext
    <2>4. shown' = [asked |-> sent, to |-> sent, kind |-> "final"]
        BY <2>1, <2>2, <2>3 DEF PrintNext
    <2>5. ReplyAnswersRequest'
        BY <2>4 DEF ReplyAnswersRequest
    <2> QED
        BY <2>1, <2>3, <2>5
<1>8. CASE PrintExtra \/ GiveUpControl
    BY <1>2, <1>8 DEF PrintExtra, PrintNext, TakeReply, GiveUpControl,
                      NothingLeft
<1>9. CASE \/ LookForRequest \/ NoRequest \/ PromptForApproval \/ Decide
           \/ NothingMore
    <2>1. UNCHANGED <<inbox, outbox, pc, sent, awaited, shown>>
        BY <1>9 DEF LookForRequest, NoRequest, PromptForApproval, ShowRequest,
                    Decide, Answer, NothingMore
    <2>2. \/ /\ tui \in {"reply", "requests", "ask"}
             /\ tui' \in {"reply", "requests", "ask"}
          \/ tui = "drain" /\ tui' = "input"
        BY <1>9 DEF LookForRequest, NoRequest, PromptForApproval, Decide,
                    NothingMore, TuiGoesTo
    <2> QED
        BY <1>2, <2>1, <2>2 DEF ReplyAnswersRequest, NothingLeft, InOnePlace
<1> QED
    BY <1>3, <1>4, <1>5, <1>6, <1>7, <1>8, <1>9
    DEF SessionNext, UserMoves, TuiMoves

LEMMA LineInvariant == SessionSpec => []LineInv
<1>1. SessionInit => LineInv
    BY DEF SessionInit, Init, LineInv, ReplyAnswersRequest, NothingLeft, InTurn
<1>2. AgentInv => TypeOK /\ AnswerInv
    BY DEF AgentInv
<1>3. SessionSpec => []AgentInv
    BY SessionImplementsAgent, AgentInvariant, PTL
<1> QED
    BY <1>1, <1>2, <1>3, StepLineInv, PTL DEF SessionSpec

\* The TUI counts one reply per line; the reply it prints is the final one to
\* the line it awaits (frontend/agent_loop.py:38-52, 114-163).
THEOREM RepliesAnswerTheirRequests ==
    SessionSpec => []ReplyAnswersRequestUntilAstray
<1>1. LineInv => ReplyAnswersRequestUntilAstray
    BY DEF LineInv, ReplyAnswersRequestUntilAstray
<1> QED
    BY <1>1, LineInvariant, PTL

\* A command the TUI runs in its own thread finds the agent idle and every
\* queue empty: nothing else guards the configuration
\* (utils/config_manager.py:288-292).
THEOREM AgentIdlesAtThePrompt == SessionSpec => []PromptMeansIdle
<1>1. LineInv /\ AskingInv => PromptMeansIdle
    <2> SUFFICES ASSUME LineInv, AskingInv, tui = "input", ~astray
                 PROVE  /\ NothingLeft
                        /\ approvalReqs = <<>> /\ approvalResps = <<>>
        BY DEF PromptMeansIdle, NothingLeft
    <2>1. NothingLeft
        BY DEF LineInv
    <2>2. pc \notin {"asked", "approval"}
        BY <2>1 DEF NothingLeft, InTurn
    <2> QED
        BY <2>1, <2>2 DEF AskingInv, NoRequestLeft
<1> QED
    BY <1>1, LineInvariant, AskingInvariant, PTL

=============================================================================
