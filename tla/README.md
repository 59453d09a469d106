# ntCode: models, checks and proofs

ntCode is a coding assistant for the terminal: a frontend and an agent thread
exchange messages through a `Connector`; the agent keeps a conversation, calls
a language model through a provider adapter, runs the tools the model asks for
and sends the model their results.  This directory holds TLA+ modules that
model its stateful parts, TLC runs over small instances of them, and proofs,
checked by TLAPS, that hold for every value of the constants.

Every run is `tlc -config <run>.cfg <MC module>`; every proof is
`tlapm <Module>_proofs.tla`.  `PROJECT.json` lists the runs, the source lines of
every definition, the mutated definitions each property catches, the hazards
with the properties aimed at them, and the theorems.

## 1. The system

| Component | State | Operations | Talks to |
|---|---|---|---|
| Connector (`utils/connector.py`) | four deques (user, agent, approval request, approval response), an event for each, one lock, a shutdown flag, history, role name | `send_*`, blocking and polling `receive_*`, `drain`, `shutdown` | called by both threads |
| Agent loop (`utils/agent.py`) | position in the turn, calls left, results so far; save points; files in `saves/` | receive, the control commands (reset, save, load, savepoint, restore, role, ...), one model call after the other until no tool is called, approval or rejection of each call | Connector, conversation, provider, registry |
| Conversation (`utils/llm.py:104-297`) | list of messages, save points | add user / calls / results, prune to `MAX_CONVERSATION_LENGTH`, save, load, restore | agent only |
| Interactive TUI (`frontend/agent_loop.py`, `frontend/common.py`) | what it waits for; `VERBOSE_MODE` as it was at import | prompt, dispatch, wait for a reply with approval prompts in between, wait 10 s for an acknowledgement, interrupt, shutdown | Connector, configuration |
| Batch loop (`frontend/batch_loop.py`) | current line, what it waits for | read, dispatch, wait, approve unseen, write, close | Connector |
| Todo loop (`frontend/todo_loop.py`) | current task, its connector, thread and role | the same for one task after the other, loading and unloading roles | Connector, roles |
| Configuration, roles, active provider (`utils/config_manager.py`, `utils/config.py`, `utils/roles.py`, `utils/llm.py:305-504`) | values of the settings, their mirror in `utils.config`, role and what it replaced, the provider built, the configuration file | `/config set, reset, save, load`, `/provider`, `/role` load and unload | written by the frontend thread and (`/role`) by the agent thread |
| Rate limiter (`utils/rate_limiter.py`) | deque of reservations | wait and reserve, correct a reservation, expire | provider adapters |
| Provider adapters (`providers/`) | none; the history they convert | request out of the history, reply into the history | agent |
| Text dialects (`providers/text_tools.py`) | none | find calls in plain text, render calls as text | the text-tool adapter |
| Task loop (`frontend/task_loop.py`) | current task; connector, thread and role of the task or of all of them | the batch and the todo loop in one; no entry point starts it yet | Connector, roles |
| Registry (`tools/registry.py`) | tool table | offer what the role allows, bind arguments, run | agent, roles, tools |
| Tools (`tools/`) | files, `backups/`, `storage/memory/` | edit with a backup; store, list and search notes; read, search, git, web | registry |

Not modelled, and why: generated tool schemas and path/git predicates
(`core/tool_schema.py`, `utils/security.py`: pure conversions and predicates on
strings), the tools that read files, run git or fetch pages (no state of their
own), the scripted model (a test double; an arbitrary model does all it does),
program entry, installers and experiments (no state).

### What makes it hard

* Two threads, and a connector that hands over between them with events it
  clears itself; a shutdown that does not take the lock.
* One queue for replies of all kinds: final replies, notices in the middle of
  a turn, acknowledgements of commands.  The frontends tell them apart only by
  their order, so one too many or too few shifts all that follow.
* Timeouts on both sides (60 s for an approval, 10 or 30 s for an
  acknowledgement)
  that give up waiting without taking back what they waited for.
* A conversation that is cut, restored and loaded at any point while the model
  APIs insist on calls and results side by side; failed saves and foreign files.
* Calls that a model writes as text, and not always well: whatever is in the
  text, a call must be run as it was meant or reported, never dropped.
* Files emptied before they are written, by a daemon thread that ends with the
  process at any step; backups and notes that are named by the second.
* Settings that are changed one by one with hand-written rollback, mirrored in a
  second module, imported by value in others, and shadowed by roles.

`PROJECT.json` lists the hazards one by one, at their lines.

## 2. Modules

```
Conversation <- Agent <- Session            FifoChannel <. Connector
                   ^---- Script             Settings
             ^---- Wire                     RateLimiter, TextReply, Storage
        (<- EXTENDS or INSTANCE, <. refined by)
```

| Module | Models | Correspondence |
|---|---|---|
| `Conversation` | messages, `Prune`, `Paired` | a message is its role and, for calls and results, the sequence of call ids; text is reduced to the number of the request it belongs to |
| `Agent` | `run_agent`, `_handle_control`, `_native_step`, `_execute_tool_call` | `pc` is the place in `run_agent`; each action is what happens between two points where the other thread, the model, a tool or the file system can interfere. The frontend is an arbitrary environment that sends, answers and shuts down at any time |
| `FifoChannel` | what the connector promises | four FIFO queues; a receive takes the head, gives up after its timeout, or on shutdown |
| `Connector` | each method in steps: one action for what runs under the lock, one for each wait, and one for each flag and event `shutdown()` sets without the lock | two threads, either of which may be in any method |
| `Session` | the TUI with `Agent` | `tui` is the place in the loop of `agent_loop.py`; the environment of `Agent` is replaced by what the TUI does |
| `Script` | batch, todo and task loop with `Agent` | `mode` is the loop and `place` the place in it; a file is chosen line by line; todo, and the task loop for tasks with a fresh context, start a new connector and agent for every task |
| `Wire` | the three kinds of adapter: what of the history each puts into a request, what of a reply it puts into the history | blocks by kind; ids by what the adapters do to them (kept, made up, rewritten). It has a coarser agent of its own rather than the whole of `Agent` (one turn: request, reply, results) |
| `Settings` | `ConfigManager`, its mirror, roles and the active provider | one action per command; a rollback is part of the command that fails |
| `TextReply` | `find_calls` and `render_call` of the four dialects of `text_tools.py`, and `to_text` | a text is a sequence of tokens: what opens and ends a call, JSON values of the kinds the code treats differently, line breaks, prose. The model writes calls, prose and slips (pieces of calls) in any order; one action per turn of the loop of `find_calls`; the calls found are written back and read again |
| `Storage` | `edit_file` with its backups, `memory_store`, `memory_list`, `memory_search`, and the registry's defaults for missing arguments | one action per effect on the disk (copy, open, write); a tool may stop, and the user may save a file, between any two; the clock counts seconds |
| `RateLimiter` | reservations and the callers waiting for them | one action per critical section; time is the age of each reservation; `granted` is the history of all reservations, by their identity |

`MC*` modules give constants their values.  `*_proofs` modules hold theorems.

`Agent` takes the connector as FIFO queues with a shutdown flag.  `Connector`
is checked and proved to implement exactly that (`DeliversInOrder`,
`ConnectorRefinesFifo`), and that no message and no shutdown leaves a receiver
asleep (`MessageEndsReceive`, `ShutdownEndsReceive`, checked).  `Session` is
proved to be a special case of `Agent`, so `Agent`'s theorems hold of it.

## 3. Runs

| Run | Checks | What it shows |
|---|---|---|
| `agent` (`MCAgent`) | `TypeOK RequestsPaired ContextInv RequestKept OnlyTheTurnExceedsTheLimit AnsweredOnce ApprovalUsedOnce` | For any frontend: no request to a model separates calls and results; what is saved can be continued; pruning keeps the request being worked on; each message gets one final reply; one approval, one tool |
| `connector` | `WakeupInv NoSpinning DeliversInOrder MessageEndsReceive ShutdownEndsReceive` | No lost wakeup, no busy loop, FIFO order, and waits end |
| `session` | `ReplyAnswersRequestUntilAstray PromptMeansIdle ApprovalIsForThisCallUntilAstray RequestIsAnswered EveryMessageAnswered ShutdownEndsAgent RequestsAreShown` | With any user (slow, rejecting, interrupting, reconfiguring) and slow commands: replies and approvals meet their requests, and the agent is idle at the prompt, until a wait was given up or a tool was rejected; messages are answered and shutdown ends the agent even after that |
| `settings` | `TypeOK SettingsValid ProviderFollowsSettings UnloadRestores` | Valid settings stay valid; provider and settings stay in step; unloading restores what was there before the first role |
| `limiter` | `UsageIsTrue WithinLimit WaitIsExact EveryoneProceeds` | The deque accounts for the window exactly; the limit holds among requests that fit; a wait is as long as needed; every caller gets through, with up to `MaxRequests` requests to overtake it |
| `wire` | `WirePaired WireComplete WireAlternates` | A history written by any adapters is turned by each of them into a request that pairs, alternates and leaves nothing out that it can express |
| `script` | `ReplyUnderItsLine TaskIsAlone ScriptEnds` | Each reply stands under its own line; tasks do not overlap and keep their role; the file is worked through. The first two until a reply comes that is not waited for (`Unseen`, `Late`) |
| `dialects` (`MCTextReply`) | `CallsAreReadAsMeant NoCallDisappears WrittenBackAsRead ReadingEnds` | Calls are read with the arguments they were given, whatever is in their strings; a call written in full is read or reported, whatever stands before it; what is written back is read as the same calls, but for raw arguments in xml; no text makes a loop run for ever |
| `storage` | `NoVersionIsLost NotesAreKept NewestNotesFirst` | Wherever a tool stops, what a file held is in the file or in a backup; a stored note stays as it was; limits cut off the oldest notes |
| `stale_approval`, `rejected_notice`, `role_failed` | one property each, violated | the findings of section 6 |

### Bounds, and why they are enough

* `agent`: four messages, two model calls with tools per turn, replies with one
  or two calls of which one may be bad, one queued message, limits of 2 and 3.
  A turn of two rounds holds five messages at its last model call, more than
  either limit, so pruning meets a cut before, inside and at the start of a turn,
  and a turn that alone exceeds the limit; four messages let a save, a load, a
  restore and a request follow one another.  `MCFewWithApprovals` restricts behaviours in which an
  approval was ever asked for to two messages and no files: approvals read and
  write neither files nor save points.
* `connector`: two messages in one queue, one in each of two others, one queue
  that stays empty.  Two in one queue are needed for order and for an event
  cleared under a remaining message; the empty queue for a receive that only a
  shutdown or timeout ends.
* `session`: three messages, one round, queue of two.  A stale reply or approval
  needs one command or request to leave it and one to meet it; a third message
  follows.  `stale_approval` and `rejected_notice` have four messages, for their
  counterexamples are longer.
* `script`: four lines and two rounds in each of the four modes, so that an
  acknowledgement given up is followed by a line it is written under and by
  more, and a role that cannot be loaded comes between two that can.
* `dialects`: replies of up to three pieces (calls, prose, slips) in each
  dialect: a slip, the call it takes with it, and one behind that.  Four pieces
  were checked too, in some minutes.
* `storage`: two paths that share the name of their backups, two keys, two
  seconds, five calls and one file saved by the user: a backup is replaced by
  the second edit, a note by the second note of its key, and a limit of one or
  two cuts off something.
* `settings`: three keys with two valid values and an invalid one, three roles
  (one with a prompt, one overriding the prompt file, one invalid) and a
  combination for which no provider can be built; unbounded sequences of commands.
* `limiter`: two callers, three requests, limit 4, window of 3 ticks, estimates
  that fit together, alone and never; actual use below and above the estimate.
  Ages are cut off at the window, where nothing looks at them any more.
* `wire`: three requests, two rounds each, limits of 3 and 9, every shape of
  reply the adapters treat differently, a provider chosen anew for each request.

Deadlock checking is off only where the system may stop: `connector` (all sent,
all returned), the sessions (closed), `script` (file done) and `storage` (no
calls left).  `Agent` has a
`Rest` step for a stopped thread instead.

### Fairness, and why the code justifies it

* `Connector`: weak fairness of each thread's `Continue`, which runs a method
  that has begun; no thread need begin one.  Threads are scheduled, and a lock
  is held for a few statements only.
* `Session`, `Script`: weak fairness of the agent's moves and of the frontend's
  moves, not of the user's (typing, interrupting, closing).  Models and tools
  return because the adapters and tools have timeouts.  An approval prompt is
  answered at last: the TUI blocks in `input()` and has nothing else to do.
  `MaxRounds` is an assumption, not a fact of the code: nothing there limits
  how often a model may call tools in one turn.
* `TextReply`: weak fairness of the turns of the reading loop, which runs on its
  own; `ReadingEnds` would fail for a turn that ends where it began.
* `RateLimiter`: time passes, and a caller whose sleep is over looks again
  (`time.sleep` returns).  Nothing is assumed about the order among callers.

Where a property excuses something, its definition names it: `RequestIsAnswered`
an agent thread that died, `ProviderFollowsSettings` the commands that do not
rebuild (`unbuilt`), `UnloadRestores` what the user set meanwhile (`touched`),
`ReplyUnderItsLine` and `TaskIsAlone` approval requests the frontend does not
look for (`Unseen`) and, in the loops with one agent for all lines, an
acknowledgement given up after 30 seconds (`Late`), the latter also an interrupt,
`ScriptEnds` the two ways to hang (`Stuck`), the properties of `Session` that a
reply went astray (`astray`: a tool was rejected, an acknowledgement or an
approval given up; what happens then is in section 6), `NoCallDisappears` and
`CallsAreReadAsMeant` what the dialects are known to drop, `WrittenBackAsRead`
raw arguments in xml, `NoVersionIsLost` a
backup replaced in its second and a save by the user between backup and write,
`NotesAreKept` a note of the same key in the same second, `StartupValid` values from the
environment, which nothing validates.

## 4. Proofs

* **Conversation** (in `Agent_proofs`).  `PrunePaired`: pruning a paired context leaves it paired,
  for any length and limit, because a cut is made only before a clean start
  (a user message that carries no results).  Three lemmas say what appending
  text, calls and results does.
* **Agent.**  `AgentInv` = `TypeOK /\ ContextInv /\ AnswerInv` is inductive.
  `RequestsPaired` is not inductive alone: between a reply with calls and the
  message of its results the context is open at its end, so `ContextInv` says
  what holds there (all but the last message is paired, and the results so far
  are a prefix of the calls), and that save points and files are paired, since a
  restore or load makes them the context.  `AnsweredOnce` needs that the queue
  holds the messages numbered on from the current one (`AnswerInv`).
  `ApprovalUsedOnce` follows from `ApprovalInv`: request numbers increase along
  the way from the request queue over the prompt and the answers to the last one
  used.  `RequestKept` and `OnlyTheTurnExceedsTheLimit` are about the last clean
  start of the context: a cut is made at a clean start, so never behind the last
  one (`PruneKeepsLastStart`), and what a turn adds opens none, as a call that
  was run has its result (`TurnInv`).  The frontend is arbitrary in all of them.
* **Connector.**  `ConnectorInv` (who is inside the lock; for every queue
  that has messages either its event is set or a send is about to set it; before
  shutdown a set event has a message or a receiver about to clear it) is
  inductive.  `ConnectorRefinesFifo` maps it to `FifoChannel`: the queues are
  the queues, and a receive takes effect where it pops under the lock.
* **Session.**  `SessionImplementsAgent`: each step of the TUI is a step of
  `Agent`'s frontend or leaves its variables alone.  `SessionTypeCorrect` adds
  the types of what the TUI keeps.  What pairs replies with lines is that the
  line typed last is in one place only: the inbox, the agent or the outbox
  (`LineInv`); what pairs approvals with calls, that the request the agent waits
  on is asked, shown or answered, and is the only one (`AskingInv`).  Each holds
  until something goes astray, and the proofs show that the three events that set
  `astray` are the only ones that break it.
* **Script.**  The same line in one place (`LineInv`), for an agent that may be
  replaced by a new one between two tasks, in a loop that approves unseen; and
  that no approval is ever refused, no place of the loop is reached without the
  agent and the role it needs, and an interrupt only leads to the end
  (`PlaceInv`).  A command may be given up at any time, whatever the agent does:
  with one agent for all lines this is one of the two exceptions, `Late`; with an
  agent per task the command is the last its agent gets (`OneLine`), so nothing is
  written under a later line and no request is left when the next task begins.
  `ReplyUnderItsLine` and `TaskIsAlone` follow.  A script is not a
  special case of `Agent`, since it starts agents anew, so pairing and
  `AnsweredOnce` are proved again from `Agent`'s lemmas.
* **Settings.**  `SettingsInv` = types, validity, provider in step and
  `SavedInv` is inductive for any keys, roles and switches; the rollback lemma
  (`RollbackRestores`) is where valid values are needed, since a rollback goes
  through the validating setter.  `UnloadingRestores` is an action property that
  follows from it.
* **Storage.**  `NoVersionIsLost` needs that, once the backup is made, every
  version of the file is already secured, for the file is emptied next, and that
  backups are copies (`EditInv`).  `NotesAreKept` needs that the name of a note
  is its key and second (`NoteInv`).  `NewestNotesFirst` needs that times,
  contents and the order of writing grow together over the notes stored
  (`OrderInv`), and that a finite set has a sorted enumeration, which is shown by
  counting: what comes before has fewer before it, so the count is an injection
  into as many places, hence onto them (`EachPlaceIsTaken`).
* **Rate limiter.**  `UsageInv`: the deque is in the order of time and identity,
  each entry is what was granted, what is missing has expired, and each caller
  owns a reservation nobody has corrected.  `UsageIsTrue` follows.
  `WithinLimit` is inductive with it: a reservation is made only where the sum
  of the deque, no less than what counts of the window, leaves room for it, and a
  correction counts at most the estimate.  `WaitIsExact` shows that the walk
  from the oldest entry stops at the first that makes room, and that no tick
  before its expiry has room.  The facts about sums (`Total` of a sequence,
  of its parts, of one with an entry replaced) are proved by taking the least
  place at which they fail (`CountingUp`), as no induction rule of the library
  can be instantiated.
* **Wire.**  `TypeOK /\ HistoryInv` is inductive (`WireTypeCorrect`): a history
  is a sequence of requests, replies and results, results are those of the
  message before them, and a reply follows a message of the user.  Pruning keeps
  this because it cuts at a request (`PruneHistory`), and a failed call or an
  empty reply because it only leaves two messages of the user in a row.  The
  properties are then about what each adapter makes of such a history, and are
  proved by adding one message to it:
  * `WirePaired`: what is written of a history awaits the results of the calls
    of its last message (`Awaits`), and the next message, before anything else,
    supplies them under the names they were sent with (`WrittenGood`).  Merging
    takes nothing apart, as only turns of the user are ever merged, which make
    no calls.
  * `WireComplete`: what is sent of a message is all of its blocks the provider
    can express (`ContentComplete`), merging keeps the blocks in order
    (`BlocksOfAdd`), and completeness survives concatenation (`WrittenComplete`).
  * `WireAlternates`: no item is empty, the first is a request's, and two of one
    role meet only where merging leaves them (`Fine`).

  The operators on sequences are recursive functions (`Concat`, `Those`,
  `Merged`), and what they do at a longer sequence is proved from the least
  place at which it would fail (`CountingUp`, `Lengthening`).

Assumptions are the named `ASSUME`s of the modules; TLC evaluates each of them.

The type invariants of `Storage`, `RateLimiter`, `Session` and `Wire` and the
inductive invariants (`TurnInv`, `LineInv`, `AskingInv`, `PlaceInv`, `EditInv`,
`NoteInv`, `OrderInv`, `UsageInv`, `ConnectorInv`, `SavedInv`, `HistoryInv`) are
proved and therefore in no run; TLC checked each of them on the instance of its
run first.

Only model-checked:

* Liveness (fairness and `ENABLED` are out of TLAPS's reach): `MessageEndsReceive`,
  `ShutdownEndsReceive`, `RequestIsAnswered`, `EveryMessageAnswered`,
  `ShutdownEndsAgent`, `RequestsAreShown`, `EveryoneProceeds`, `ScriptEnds`,
  `ReadingEnds`.
* `TextReply`: what its loops find in a text is a computation over tokens, and
  the properties compare its end with what the model meant.

## 5. What is abstracted or left out

* Text: of messages, notices, prompts and files only what the properties tell
  apart.  The system prompt is rebuilt before every model call and is left out,
  but for its failing (`BeginStepFails`).
* Tools are their calls and results; an unknown or invalid call (`BadCalls`)
  gets an error result.  All exceptions of a provider are one, as in the agent.
* `Connector`: the history and the role name are written and read under the
  lock in one step and are left out; so is `drain`.
* `Wire`: what a text dialect writes and reads is taken to be the call; its
  syntax is `TextReply`'s.  The ids of one history are assumed to stay different
  when rewritten to the characters Anthropic allows.
* `TextReply`: the characters of a token; names and ids of calls; the prose
  between them.  A string in xml holds an object or no JSON at all, and nothing
  that begins or ends a call.
* `Storage`: tags and the text of notes.  Searches are for whole keys: a match in
  the text of a note, or in what there is of a torn one, is left out, and so is a
  torn note that is no UTF-8, with which the search fails
  (`tools/memory_search.py:85`).  Left out too: the paths' checks; the web, git and
  reading tools.  Backups and notes are not deleted by anything in the code.
* `Script`: an agent that is still in a turn when its task is closed, because
  nobody looked at its request (`Unseen`), may outlive the two seconds of the
  join and go on beside the next one; the model drops it with its connector.  So
  does a command that a task gave up on after 30 seconds: it may still be carried
  out beside the next task, and if it is `/role`, change the role of that task.  A
  list that mixes tasks with and without a fresh context is left out: neither
  parser makes one.
* The limiter's limit is a constant, as in the program: it is read at import,
  and `/config set` does not change it.  Nothing bounds the rounds of one turn.
* Settings at startup are assumed valid (`StartupValid`) where a property needs
  it.  Where they are not, the rollback of `/provider` stops at the first value
  that cannot be put back (`utils/llm.py:481-482`), and its settings may stop half
  way (`:476-477`); the model goes on to the next.  A configuration file that
  holds JSON but no object ends the frontend (`utils/config_manager.py:492`), with
  the settings as they were.

## 6. Where code and documents disagree

1. `stale_approval`, `utils/agent.py:340`.  The agent gives up on an approval
   after 60 seconds, but takes neither the request nor a later answer out of the
   queues: the answer meets the next request, and a tool runs on an approval
   given for another (README.md:356).
2. `rejected_notice`, `utils/agent.py:343`.  The notice of a rejected tool goes
   through the queue of final replies; the TUI takes it for the reply and every
   later reply is one behind (`utils/agent.py:416-418`).
3. `role_failed`, `utils/roles.py:286`.  A role that cannot be loaded takes away
   the settings of the role that stays active (`utils/roles.py:312`).
Met while modelling and kept as hazards or as excuses of a property:

* The TUI imports the value of `VERBOSE_MODE` (`frontend/agent_loop.py:21`), the
  agent reads the setting: after `/config set VERBOSE_MODE true` (README.md:207)
  the agent asks for approvals nobody shows (`tuiVerbose` in `RequestsAreShown`).
* Text dialects.  A json_block whose object cannot be decoded stays prose, and a
  fence too many turns code and calls around, where
  `providers/text_tools.py:17-19` promises a call with `raw_arguments`.  In
  gemma an opening tag without a name hides all up to the next closing tag.  In
  xml `raw_arguments` are all that was between the tags and are wrapped in a new
  object when written back, against `:8-9`; what a string for arguments says
  becomes `raw_arguments` and is put back without its quotes (`:201`, `:218`), so
  that the call cannot be decoded the next time.
* Two edits in one second keep one backup, also of two paths that differ only in
  `/` and `_` ("edits keep a backup", README.md:18); two notes with one key in
  one second keep the later (`tools/memory_store.py:34-35`).
* A failing write leaves the file empty or torn; only the backup, made before,
  has its content.  A call of `edit_file` without `old_str` gets the default ""
  and overwrites the file (`tools/registry.py:104`).
* `memory_search` sorts by file name, and so by key before time, whatever its
  comment says (`tools/memory_search.py:79`).
* The task loop does not shut its connector down when it is interrupted over
  persistent tasks (`frontend/task_loop.py:225`).
* Values from the environment are not validated, and a rollback refuses to put
  an invalid one back (`utils/config_manager.py:297`); after `/config set
  SYSTEM_PROMPT_FILE` under a role, unloading leaves `ConfigManager` and
  `utils.config` with different files (`utils/roles.py:357`).
* If every estimate is above the limit, nothing is evicted and the deque grows
  (`utils/rate_limiter.py:109`).
* `/config reset` and `/config load` do not rebuild the provider, though
  README.md:194 says that changing a provider setting rebuilds the client at
  once (`unbuilt`).
* The todo loop waits without end for the reply to a task that is a local
  command (`frontend/todo_loop.py:122-128`, `Stuck`), and the TUI for an agent
  that has died: the branch at `frontend/agent_loop.py:153` is never reached
  (`pc = "dead"` in `RequestIsAnswered`).
* In batch, and in the task loop with one agent for all lines, an acknowledgement
  given up after 30 seconds still comes: it is written under the next line, whose
  own reply comes under the one after it (`frontend/batch_loop.py:94`, `Late`),
  where `:21-22` promise the response to the instruction.
* A batch file that turns `VERBOSE_MODE` on is not auto-approved from then on,
  though `frontend/batch_loop.py:28-31` says so (`Unseen`).
* On an interrupt the todo loop unloads the role before it shuts the connector
  down (`TaskIsAlone` excludes interrupts).

## 7. Plan

The order is by how much of the program depends on a part.  Done: conversation
and agent; connector; session; settings and roles; rate limiter; adapters;
scripts; text dialects; edits and notes; the proofs of every safety property but
those of the text dialects.  To come:

1. `Registry`: the list of tools a role allows, offered to the model and looked
   at again when the call runs; composed with `Settings`.
2. `Connector`: `drain` and the history.
3. `TextReply`: proofs about its loops, one dialect at a time, as far as they
   can be stated without computing over tokens.
