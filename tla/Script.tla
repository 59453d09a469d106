------------------------------- MODULE Script -------------------------------
(***************************************************************************)
(* The frontends that run a file, with the agent of module Agent:          *)
(*   batch   frontend/batch_loop.py, one agent for all the lines           *)
(*   todo    frontend/todo_loop.py, one agent and one role for each task   *)
(*   lines, tasks   frontend/task_loop.py, both in one; its parser leaves  *)
(*                  out tasks without a role, as that of todo does         *)
(* In all of them the main thread hands one line (a task's prompt) to      *)
(* dispatch_line and waits for the reply before it goes on; requests for   *)
(* approval are approved unseen, if VERBOSE_MODE was on when the frontend  *)
(* was imported.                                                           *)
(*                                                                         *)
(* The file is chosen line by line.  What is printed is one entry per      *)
(* reply; replies are not empty, so that the loops' tests for an empty     *)
(* one, which stands for a closed connector, never hold.                   *)
(***************************************************************************)
EXTENDS Agent

CONSTANTS
    Modes,          \* the frontends
    Lines,          \* the lines that go to the agent
    MaxLines        \* bound: lines of the file

ASSUME ScriptAssumption ==
    /\ Modes \subseteq {"batch", "todo", "lines", "tasks"}
    /\ Lines \subseteq Inputs
    /\ MaxLines \in Nat

VARIABLES
    mode,           \* which of the frontends runs
    place,          \* where its main thread is
    stopping,       \* whether it leaves its loop
    scriptVerbose,  \* VERBOSE_MODE as imported by the frontend, once
    role,           \* whether the role of a task is active
    line,           \* number of the current line
    awaited,        \* the message whose reply is waited for, 0 if none
    written,        \* history: the last reply written for this agent's
                    \* messages, and what for
    late            \* history: an acknowledgement of this agent was given up

scriptVars == <<mode, place, stopping, scriptVerbose, role, line, awaited,
                written, late>>
allVars == <<vars, scriptVars>>

Waiting == {"reply", "requests", "approve"}

OneAgent == mode \in {"batch", "lines"}

Nothing == [asked |-> 0, to |-> 0, kind |-> "none"]

ScriptInit ==
    /\ Init
    /\ mode \in Modes
    /\ place = IF OneAgent THEN "dispatch" ELSE "role"
    /\ stopping = FALSE
    /\ scriptVerbose = verbose
    /\ role = FALSE
    /\ line = 1
    /\ awaited = 0
    /\ written = Nothing
    /\ late = FALSE

GoTo(there) == place' = there /\ UNCHANGED <<mode, scriptVerbose>>

\* Where a line is done: a task leaves its try statement.
AfterLine == IF OneAgent THEN "dispatch" ELSE "unload"

\* Where the loop is left.
AfterLoop == IF OneAgent THEN "close" ELSE "unload"

NextLine == line' = IF OneAgent THEN line + 1 ELSE line

-----------------------------------------------------------------------------
(***************************************************************************)
(* todo and tasks: from one task to the next.                              *)
(***************************************************************************)

\* A new connector and a new thread; what is on disk, and the settings, stay.
NewAgent ==
    /\ inbox' = <<>> /\ outbox' = <<>>
    /\ approvalReqs' = <<>> /\ approvalResps' = <<>>
    /\ shutdown' = FALSE
    /\ sent' = 0 /\ prompted' = 0
    /\ pc' = "starting" /\ current' = 0
    /\ results' = <<>> /\ rounds' = 0 /\ asks' = 0 /\ grant' = 0
    /\ conversation' = <<>>
    /\ savePoints' = [n \in Names |-> [set |-> FALSE, msgs |-> <<>>]]
    /\ replied' = [n \in 1..MaxMessages |-> 0]
    /\ UNCHANGED <<verbose, files, newest>>

NewTask ==
    /\ place = "task" /\ line < MaxLines
    /\ NewAgent
    /\ line' = line + 1
    /\ written' = Nothing
    /\ late' = FALSE
    /\ GoTo("role")
    /\ UNCHANGED <<stopping, role, awaited>>

NoMoreTasks ==
    /\ place = "task"
    /\ GoTo("ended")
    /\ UNCHANGED <<vars, stopping, role, line, awaited, written, late>>

\* Mutant: a role that cannot be loaded is only reported.
LoadRoleOrNot ==
    /\ place = "role"
    /\ role' \in BOOLEAN
    /\ GoTo("dispatch")
    /\ UNCHANGED <<vars, stopping, line, awaited, written, late>>

\* load_role raises if there is no such role or it cannot be applied; the
\* task is given up and the loop goes on.
LoadRole ==
    /\ place = "role"
    /\ role' \in BOOLEAN
    /\ GoTo(IF role' THEN "dispatch" ELSE "unload")
    /\ UNCHANGED <<vars, stopping, line, awaited, written, late>>

UnloadRole ==
    /\ place = "unload"
    /\ role' = FALSE
    /\ GoTo("close")
    /\ UNCHANGED <<vars, stopping, line, awaited, written, late>>

-----------------------------------------------------------------------------
(***************************************************************************)
(* dispatch_line and what each outcome leads to.                           *)
(***************************************************************************)

More == place = "dispatch" /\ line <= MaxLines

\* Mutant: the acknowledgement of a command is not waited for.
ControlUnawaited(input) ==
    IF input.command = "user" THEN "reply" ELSE "dispatch"

\* All but todo wait 30 seconds for the acknowledgement of a command; the wait
\* of the verbose mode has no end, whatever it is told, and todo sets none.
WaitFor(input) ==
    IF mode # "todo" /\ input.command # "user" /\ ~scriptVerbose
    THEN "control" ELSE "reply"

LineToAgent ==
    /\ More
    /\ \E input \in Lines : Send(input) /\ GoTo(WaitFor(input))
    /\ awaited' = sent + 1
    /\ NextLine
    /\ UNCHANGED <<stopping, role, written, late>>

\* Mutant: all wait for the reply to a local command, like todo.
LocalLineAwaited ==
    /\ More
    /\ awaited' = 0
    /\ NextLine
    /\ GoTo("reply")
    /\ UNCHANGED <<vars, stopping, role, written, late>>

\* A command answered by dispatch_line itself, which may be a /config that
\* changes VERBOSE_MODE.  Todo does not look at the outcome, and waits.
LocalLine ==
    /\ More
    /\ \/ UNCHANGED vars
       \/ \E b \in VerboseModes : SetVerbose(b)
    /\ awaited' = 0
    /\ NextLine
    /\ GoTo(IF mode = "todo" THEN "reply" ELSE AfterLine)
    /\ UNCHANGED <<stopping, role, written, late>>

\* /quit; in batch also the end of the file.
Quit ==
    /\ place = "dispatch"
    /\ stopping' = TRUE
    /\ GoTo(AfterLoop)
    /\ UNCHANGED <<vars, role, line, awaited, written, late>>

\* Ctrl-C, or in batch and todo an output file that cannot be written (lines
\* and tasks report that and go on).  In lines there is no finally that would
\* shut the connector down.
Interrupt ==
    /\ place \in {"role", "dispatch", "control"} \cup Waiting
    /\ stopping' = TRUE
    /\ GoTo(IF mode = "lines" THEN "ended" ELSE AfterLoop)
    /\ UNCHANGED <<vars, role, line, awaited, written, late>>

-----------------------------------------------------------------------------
(***************************************************************************)
(* _wait_for_reply.                                                        *)
(***************************************************************************)

WriteReply ==
    /\ place \in {"reply", "control"}
    /\ TakeReply
    /\ written' = [asked |-> awaited, to |-> Head(outbox).to,
                   kind |-> Head(outbox).kind]
    /\ GoTo(AfterLine)
    /\ UNCHANGED <<stopping, role, line, awaited, late>>

\* After 30 seconds, whatever the agent does: it may still be starting, or at
\* the command.
NoAcknowledgement ==
    /\ place = "control" /\ outbox = <<>>
    /\ late' = TRUE
    /\ GoTo(AfterLine)
    /\ UNCHANGED <<vars, stopping, role, line, awaited, written>>

LookForRequest ==
    /\ place = "reply" /\ scriptVerbose /\ outbox = <<>>
    /\ GoTo("requests")
    /\ UNCHANGED <<vars, stopping, role, line, awaited, written, late>>

NoRequest ==
    /\ place = "requests" /\ approvalReqs = <<>>
    /\ GoTo("reply")
    /\ UNCHANGED <<vars, stopping, role, line, awaited, written, late>>

TakeRequest ==
    /\ place = "requests"
    /\ ShowRequest
    /\ GoTo("approve")
    /\ UNCHANGED <<stopping, role, line, awaited, written, late>>

Approve ==
    /\ place = "approve"
    /\ Answer(TRUE)
    /\ GoTo("reply")
    /\ UNCHANGED <<stopping, role, line, awaited, written, late>>

-----------------------------------------------------------------------------
(***************************************************************************)
(* finally: shut the connector down and wait two seconds for the thread.   *)
(***************************************************************************)

Close ==
    /\ place = "close"
    /\ Shutdown
    /\ GoTo("join")
    /\ UNCHANGED <<stopping, role, line, awaited, written, late>>

Join ==
    /\ place = "join"
    /\ GoTo(IF stopping THEN "ended" ELSE "task")
    /\ UNCHANGED <<vars, stopping, role, line, awaited, written, late>>

-----------------------------------------------------------------------------

\* The 60 seconds of the agent pass only if nobody looks at its request.
ApprovalMayBeLate == shutdown \/ ~scriptVerbose \/ place \notin Waiting

\* The thread is a daemon: it ends with the program.
AgentMoves ==
    /\ place # "ended"
    /\ AgentStep
    /\ pc = "approval" /\ approvalResps = <<>> => ApprovalMayBeLate
    /\ UNCHANGED scriptVars

ScriptMoves ==
    \/ NewTask \/ NoMoreTasks \/ LoadRole \/ UnloadRole
    \/ LineToAgent \/ LocalLine \/ Quit
    \/ WriteReply \/ NoAcknowledgement
    \/ LookForRequest \/ NoRequest \/ TakeRequest \/ Approve
    \/ Close \/ Join

ScriptNext == AgentMoves \/ ScriptMoves \/ Interrupt

ScriptSpec == ScriptInit /\ [][ScriptNext]_allVars

\* As in Session: both threads are scheduled, models and tools return, and a
\* model does not call tools more than MaxRounds times in one turn.
FairScript ==
    /\ ScriptSpec
    /\ WF_allVars(AgentMoves)
    /\ WF_allVars(ScriptMoves)

-----------------------------------------------------------------------------
(***************************************************************************)
(* Properties.                                                             *)
(***************************************************************************)

\* The two ways in which a reply comes that is not waited for; in batch and
\* lines it is then taken for the reply to the next line, and from there on
\* all is off by one.  A request for approval was made that this frontend does
\* not look for (VERBOSE_MODE was turned on by a line of the file): the notice
\* of its rejection comes before the reply.
Unseen == asks > 0 /\ ~scriptVerbose

\* An acknowledgement was given up after 30 seconds, and may still come.  In
\* tasks it ends with the connector.
Late == OneAgent /\ late

\* What is written under a line is the final reply to that very line
\* (frontend/batch_loop.py:19-27).
ReplyUnderItsLine ==
    written.kind # "none" /\ ~Unseen /\ ~Late =>
        written.kind = "final" /\ written.to = written.asked

\* A request is being worked on, or is yet to be.
AtWork ==
    \/ pc \in InTurn
    \/ pc # "dead" /\ \E i \in DOMAIN inbox : inbox[i].input.command = "user"

\* The agent has a request only while the frontend waits for the reply, and in
\* todo and tasks under the role of its task: tasks do not overlap ("executes
\* them sequentially with a fresh context for each task",
\* frontend/todo_loop.py:3-4).  Not so after an interrupt: the role is unloaded
\* first, then the agent told.
TaskIsAlone ==
    AtWork /\ ~stopping /\ ~Unseen /\ ~Late =>
        /\ place \in Waiting
        /\ OneAgent \/ role

\* What makes both so: the current line is in one place only, unless a local
\* line has todo wait for nothing or the agent is dead.  A command that was
\* given up is the last of its task; ...
OneLine ==
    \/ pc = "dead" /\ outbox = <<>>
    \/ NothingLeft /\ (place \notin Waiting \cup {"control"} \/ awaited = 0)
    \/ /\ InOnePlace /\ awaited = sent
       /\ \/ place \in Waiting
          \/ /\ \/ place = "control"
                \/ late /\ place \in {"unload", "close", "join", "task", "ended"}
             /\ pc \notin InTurn
             /\ \A i \in DOMAIN inbox : inbox[i].input.command # "user"

LineInv == ~Unseen /\ ~Late => ReplyUnderItsLine /\ (stopping \/ OneLine)

\* ... and no request for approval that is looked for is ever rejected.
PlaceInv ==
    /\ stopping => place \in {"unload", "close", "join", "ended"}
    /\ shutdown => place \in {"join", "task", "ended"}
    /\ place \in {"dispatch", "control"} \cup Waiting => OneAgent \/ role
    /\ \A i \in DOMAIN approvalResps : approvalResps[i].approved
    /\ pc \in {"asked", "approval"} => asks > 0

\* The two ways to wait for ever: for an agent that died, and in todo for
\* the reply to a local command, which nobody sends.
Stuck ==
    /\ place \in Waiting
    /\ pc = "dead" \/ (mode = "todo" /\ awaited = 0)

\* In all other cases the file is worked through to its end.
ScriptEnds == <>(place = "ended" \/ Stuck)

=============================================================================
