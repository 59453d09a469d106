------------------------------- MODULE Session -------------------------------
(***************************************************************************)
(* An interactive session: the TUI of frontend/agent_loop.py with the      *)
(* agent of module Agent.  Here the frontend does what the TUI does: one   *)
(* line at a time, one reply awaited for each line that goes to the agent, *)
(* approval prompts only while it waits for the reply to a request.        *)
(***************************************************************************)
EXTENDS Agent

CONSTANTS
    Typed,          \* the inputs the user types
    Decisions,      \* what the user answers to an approval prompt
    SlowUser,       \* whether an answer may take more than 60 seconds
    SlowControl,    \* whether a control command may take more than 10
    Reconfigures    \* whether the user changes VERBOSE_MODE

ASSUME SessionAssumption ==
    /\ Typed \subseteq Inputs
    /\ Decisions \subseteq BOOLEAN
    /\ {SlowUser, SlowControl, Reconfigures} \subseteq BOOLEAN

VARIABLES
    tui,            \* where the TUI is
    tuiVerbose,     \* VERBOSE_MODE as imported by the TUI, once
    awaited,        \* the message whose reply the TUI waits for
    shown,          \* history: the last reply printed, and what for
    astray          \* history: a reply nobody waits for was published, or
                    \* one that is still to come was given up

tuiVars == <<tui, tuiVerbose, awaited, shown, astray>>
allVars == <<vars, tuiVars>>

SessionTypeOK ==
    /\ TypeOK
    /\ tui \in {"input", "reply", "requests", "ask", "control", "drain",
                "closed"}
    /\ tuiVerbose \in BOOLEAN
    /\ awaited \in 0..MaxMessages
    /\ shown \in [asked : 0..MaxMessages, to : 0..MaxMessages,
                  kind : {"none", "final", "rejected"}]
    /\ astray \in BOOLEAN

SessionInit ==
    /\ Init
    /\ tui = "input"
    /\ tuiVerbose = verbose
    /\ awaited = 0
    /\ shown = [asked |-> 0, to |-> 0, kind |-> "none"]
    /\ astray = FALSE

TuiGoesTo(place) == tui' = place /\ UNCHANGED <<tuiVerbose, astray>>

-----------------------------------------------------------------------------
(***************************************************************************)
(* The prompt: one line, dispatched by frontend/common.py.                 *)
(***************************************************************************)

TypeRequest ==
    /\ tui = "input"
    /\ \E input \in Typed :
           /\ input.command = "user"
           /\ Send(input)
    /\ TuiGoesTo("reply")
    /\ awaited' = sent + 1
    /\ UNCHANGED shown

\* Mutant: the acknowledgement of a command is not waited for.
TypeCommandAndGoOn ==
    /\ tui = "input"
    /\ \E input \in Typed :
           /\ input.command # "user"
           /\ Send(input)
    /\ UNCHANGED tuiVars

TypeCommand ==
    /\ tui = "input"
    /\ \E input \in Typed :
           /\ input.command # "user"
           /\ Send(input)
    /\ TuiGoesTo("control")
    /\ awaited' = sent + 1
    /\ UNCHANGED shown

\* Answered by the TUI itself; of those only /config changes anything here.
TypeConfig ==
    /\ tui = "input" /\ Reconfigures
    /\ \E b \in VerboseModes : SetVerbose(b)
    /\ UNCHANGED tuiVars

\* /quit or end of input.
Quit ==
    /\ tui = "input"
    /\ Shutdown
    /\ TuiGoesTo("closed")
    /\ UNCHANGED <<awaited, shown>>

\* Ctrl-C while waiting: out of the loop, into the finally.
Interrupt ==
    /\ tui \in {"reply", "requests", "control", "drain"}
    /\ Shutdown
    /\ TuiGoesTo("closed")
    /\ UNCHANGED <<awaited, shown>>

-----------------------------------------------------------------------------
(***************************************************************************)
(* Waiting for the reply to a request.                                     *)
(***************************************************************************)

PrintNext ==
    /\ TakeReply
    /\ shown' = [asked |-> awaited, to |-> Head(outbox).to,
                 kind |-> Head(outbox).kind]
    /\ UNCHANGED awaited

PrintReply ==
    /\ tui = "reply"
    /\ PrintNext
    /\ TuiGoesTo("input")

\* Mutant: the test for the mode is the wrong way round.
LookForRequestIfQuiet ==
    /\ tui = "reply" /\ ~tuiVerbose /\ outbox = <<>>
    /\ TuiGoesTo("requests")
    /\ UNCHANGED <<vars, awaited, shown>>

\* 0.1 seconds without a reply: look for an approval request, if the mode
\* was on when the TUI started ...
LookForRequest ==
    /\ tui = "reply" /\ tuiVerbose /\ outbox = <<>>
    /\ TuiGoesTo("requests")
    /\ UNCHANGED <<vars, awaited, shown>>

\* ... for 0.05 seconds.
NoRequest ==
    /\ tui = "requests" /\ approvalReqs = <<>>
    /\ TuiGoesTo("reply")
    /\ UNCHANGED <<vars, awaited, shown>>

PromptForApproval ==
    /\ tui = "requests"
    /\ ShowRequest
    /\ TuiGoesTo("ask")
    /\ UNCHANGED <<awaited, shown>>

Decide ==
    /\ tui = "ask"
    /\ \E approved \in Decisions : Answer(approved)
    /\ TuiGoesTo("reply")
    /\ UNCHANGED <<awaited, shown>>

-----------------------------------------------------------------------------
(***************************************************************************)
(* _wait_and_print_reply: the acknowledgement, for at most 10 seconds, and *)
(* whatever else is there by then.                                         *)
(***************************************************************************)

PrintAcknowledgement ==
    /\ tui = "control"
    /\ PrintNext
    /\ TuiGoesTo("drain")

\* A command is fast, but behind a turn it has to wait for its end.
ControlMayBeLate == SlowControl \/ pc \in InTurn \cup {"dead"}

GiveUpControl ==
    /\ tui = "control" /\ outbox = <<>> /\ ControlMayBeLate
    /\ tui' = "drain"
    /\ astray' = TRUE
    /\ UNCHANGED <<vars, tuiVerbose, awaited, shown>>

PrintExtra ==
    /\ tui = "drain"
    /\ PrintNext
    /\ TuiGoesTo("drain")

NothingMore ==
    /\ tui = "drain" /\ outbox = <<>>
    /\ TuiGoesTo("input")
    /\ UNCHANGED <<vars, awaited, shown>>

-----------------------------------------------------------------------------

\* The agent's 60 seconds pass only while a slow user is asked, or if nobody
\* shows the request, or if the connector was shut down.  Once a reply went
\* astray the user may have been asked about a request given up before, for
\* most of the 60 seconds of this one; before, the TUI looks within 0.15.
ApprovalMayBeLate ==
    \/ SlowUser /\ (tui = "ask" \/ astray)
    \/ shutdown
    \/ ~tuiVerbose \/ tui \notin {"reply", "requests", "ask"}

AgentMoves ==
    /\ AgentStep
    /\ pc = "approval" /\ approvalResps = <<>> => ApprovalMayBeLate
    /\ astray' = (astray \/ \E i \in DOMAIN outbox' :
                                 outbox'[i].kind = "rejected")
    /\ UNCHANGED <<tui, tuiVerbose, awaited, shown>>

UserMoves == TypeRequest \/ TypeCommand \/ TypeConfig \/ Quit \/ Interrupt

TuiMoves ==
    \/ PrintReply \/ LookForRequest \/ NoRequest \/ PromptForApproval
    \/ Decide
    \/ PrintAcknowledgement \/ GiveUpControl \/ PrintExtra \/ NothingMore

SessionNext == AgentMoves \/ UserMoves \/ TuiMoves

SessionSpec == SessionInit /\ [][SessionNext]_allVars

\* Both threads are scheduled, the model and the tools return (they have
\* timeouts), and a model does not call tools more than MaxRounds times in
\* one turn: the code sets no limit of its own.  The user answers approval
\* prompts, but need not type anything.
FairSession ==
    /\ SessionSpec
    /\ WF_allVars(AgentMoves)
    /\ WF_allVars(TuiMoves)

-----------------------------------------------------------------------------
(***************************************************************************)
(* Properties.                                                             *)
(***************************************************************************)

\* What is printed for a request is the final reply to that very request:
\* "runs the inner tool-execution loop until the LLM produces a plain
\* (non-tool) response, publishes it" (utils/agent.py:414-418).
ReplyAnswersRequest ==
    shown.kind # "none" => shown.kind = "final" /\ shown.to = shown.asked

\* The TUI pairs lines with replies by counting: one message put, one message
\* taken.  The count is right, for slow users, slow commands and changes of
\* VERBOSE_MODE alike, until a notice of rejection adds a reply of its own or
\* a reply that was given up arrives after all; nothing else breaks it
\* (frontend/agent_loop.py:38-52, 114-163).
ReplyAnswersRequestUntilAstray == ~astray => ReplyAnswersRequest

\* At the prompt nothing is left of what went before: a command run in the
\* TUI's own thread (/config, /provider) finds the agent idle, although
\* nothing locks the configuration (utils/config_manager.py:288-292).
PromptMeansIdle ==
    tui = "input" /\ ~astray =>
        /\ pc \notin InTurn
        /\ inbox = <<>> /\ outbox = <<>>
        /\ approvalReqs = <<>> /\ approvalResps = <<>>

\* A tool that needed approval runs on the answer to its own request
\* ("Verbose mode lets you approve every tool call before it runs",
\* README.md:356).
ApprovalIsForThisCall == pc = "run" => grant \in {0, asks}

\* An answer meets the request it was given to as long as no request was
\* given up before its answer (utils/connector.py:196-240): approvals carry
\* no id, so the queues' order is all that pairs them.
ApprovalIsForThisCallUntilAstray == ~astray => ApprovalIsForThisCall

\* What makes the first two so: the line typed last is in one place only.
LineInv ==
    ~astray =>
        /\ ReplyAnswersRequest
        /\ tui \in {"input", "drain"} => NothingLeft
        /\ tui \in {"reply", "requests", "ask", "control"} =>
               awaited = sent /\ InOnePlace

\* What makes the third so: the request for approval the agent waits on is
\* the only one, asked, shown or answered; otherwise there is none.
OneRequest ==
    \/ approvalReqs = <<asks>> /\ prompted = 0 /\ approvalResps = <<>>
    \/ approvalReqs = <<>> /\ prompted = asks /\ approvalResps = <<>>
    \/ /\ approvalReqs = <<>> /\ prompted = 0
       /\ \E approved \in BOOLEAN :
              approvalResps = <<[ask |-> asks, approved |-> approved]>>

NoRequestLeft == approvalReqs = <<>> /\ prompted = 0 /\ approvalResps = <<>>

AskingInv ==
    ~astray =>
        /\ grant # 0 => grant = asks /\ pc = "run"
        /\ pc \in {"asked", "approval"} => OneRequest
        /\ pc \notin {"asked", "approval"} => NoRequestLeft

\* Every request is printed an answer to, unless the user interrupts it or
\* the agent's thread died.
RequestIsAnswered ==
    tui = "reply" ~> tui \in {"input", "closed"} \/ pc = "dead"

\* A request for approval is shown to the user, and in time ("Enable
\* interactive tool-approval prompts before each tool runs",
\* utils/config_manager.py:200), if the mode was on when the TUI started,
\* which is when it was imported (frontend/agent_loop.py:21).
RequestsAreShown ==
    tuiVerbose /\ ~astray /\ approvalReqs # <<>> ~> prompted # 0 \/ shutdown

=============================================================================
