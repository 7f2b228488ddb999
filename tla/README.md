# strange-loop in TLA+

A verification project for the `strange-loop` agent: TLA+ modules that model
its core, TLC configurations that check them on small instances, and TLAPS
proofs of the properties that matter most for every value of the parameters.
Paths are relative to the repository root (`crates/...`, `docs/...`).

    tlc -config MCChatSafety.cfg MCChat       # model-check a run
    tlapm ChatProofs.tla                      # check the proofs of a module

## 1. The system

strange-loop is a single-process agent. An owner types messages; each becomes
a task; a scheduler runs a few tasks at a time; a task's runner builds a
prompt, alternates between a language model and tools until it has an answer,
stores it and prints it. A SQLite store survives the process, and several
processes may share one: the documents say single process (`docs/PRD.md:80`),
nothing in the code keeps a second `chat` or a `charter approve` out.

| Component | Code | State it keeps | Operations |
|---|---|---|---|
| Task lifecycle | `core/src/task.rs` | the `tasks` rows, `task_*` events | `record_pending`, `mark_running`, `mark_done`, `mark_failed`, `recover_crashed_tasks` (`mark_cancelled`, `as_child_of` have no caller) |
| Task runner | `core/src/task_runner.rs` | none of its own | `run_task`: mark running, build the context, tool loop, persist the reply, send it, mark done |
| Scheduler | `core/src/scheduler.rs` | bounded channel, semaphore, join handles | `start`, `submit`, `close`, `scheduler_loop` |
| Chat binary | `strange-loop/src/main.rs` | the task in hand | `cmd_chat`: boot, recover, receive, record, submit, drain; also `charter status`, `charter approve`, `events`, `self-test`, `version` |
| Tool loop | `core/src/tool_loop.rs` | conversation, rounds, usage, stop reason | `run_tool_loop`, `call_with_retry_and_fallback`, `force_final_answer` |
| Budget | `core/src/budget.rs` | none: reads the `llm_usage` events back | `query_session_spent`, `check_budget` |
| Tool dispatcher | `tools/src/dispatcher.rs`, `registry.rs` | the registry | `dispatch`, `run_with_timeout` |
| File tools | `tools/src/fs.rs`, `tool.rs` | files under the repository root | `fs_read`, `fs_list`, `fs_write`, `fs_delete`, `is_protected` |
| Context builder | `core/src/context.rs` | none | `build_context`: read soul files and the store, estimate, prune |
| Governance, boot | `core/src/governance.rs`, `runtime.rs` | `kv['charter_hash']` | `check_charter`, `approve_current_charter`, `Runtime::open` |
| Store | `store/src/*.rs` | one SQLite connection behind a mutex | `with_conn`, `append`, `tail`, `kv::*`, migrations |
| CLI adapter | `adapter-cli/src/lib.rs`, `core/src/adapter.rs` | stdin line buffer | `send`, `receive` |
| LLM clients | `llm/src/*.rs` | an HTTP client | `chat` |
| Configuration, logging | `core/src/config.rs`, `logging.rs` | none | load, validate, log |

**Interactions.** `cmd_chat` records a task in the store and passes it to the
scheduler over an mpsc channel. The scheduler loop spawns a tokio task per
runner with a semaphore permit it owns. Runners share the store (a mutex
around one connection: one SQL statement at a time), standard output, the
budget ledger (the session's `llm_usage` events) and the files. The tool loop
calls the model client and the dispatcher and awaits each call.

**What is hard.** A transition of a task is two statements without a
transaction, so a crash or an error can separate them; the reply is persisted,
sent and reported in three steps; a failing runner may be reported twice or
not at all; a panic bypasses every error arm; the loop takes a task off the
channel before it has a permit; boot recovers what it did not write; concurrent
tasks check a shared ledger after they have spent; several writers append to
one conversation whose shape the provider insists on; retries nest in
fallbacks inside rounds; token counts are rounded in unsigned arithmetic; tools
of several tasks work on the same files; the charter is a file its owner edits
while sessions read it; processes write the same tables.
`PROJECT.json` lists these as hazards, each at its line with the properties
that watch it.

**What makes each component correct.**

* Task lifecycle: the log never runs ahead of the rows; one verdict per task;
  verdicts do not change; recovery touches dead tasks only.
* Runner: what is called done was delivered and stored; every error is turned
  into a failed row if that is possible at all.
* Scheduler: first in, first out; never more than `max_concurrent_tasks`
  runners; permits neither leak nor multiply; close drains.
* Tool loop: well-formed requests; the fallback order; the round cap; it ends.
* Budget: the ledger agrees with the tasks' own sums; overspending is bounded
  whatever the interleaving.
* Context builder: the count does not underflow; the prompt fits or nothing is
  left to drop; sections go in order.
* Conversation between processes: a follow-up is shown what it follows; a
  second process does not undo finished work.
* Client: the provider is told what it has said; each request extends the one
  before; a price that was not told is flagged.
* Governance: a session runs under a charter that was on record; a verdict is
  right unless something changed under it; an approval records what was shown.
* File tools: each call is atomic, whatever the other tasks do, as long as two
  writers of a file do not read the same nanosecond; nothing is left over
  without a failure; the log tells what was called and what was changed.

## 2. The modules

    TaskService                         abstract: a counter with one line
        ^ refined by
    Chat  -> Scheduler -> TaskRunner -> TaskStore     (-> is EXTENDS)
    Conversation ----------^                          several chat processes
    Exchange -> ToolLoop -> Budget                    the statement "tool_loop"
    ContextPruning                                    inside build_context
    AtomicFiles                         abstract: atomic calls on files
        ^ refined by
    FileTools                                         one dispatch, per task
    Governance                                        boot, approve, prompt

    MCChat, MCConversation, MCToolLoop, MCExchange, MCContextPruning,
    MCFileTools, MCGovernance                         instances for TLC
    ChatProofs, ChatRefinement, ConversationProofs, ToolLoopProofs,
    ExchangeProofs, ContextPruningProofs, FileToolsProofs, GovernanceProofs

**TaskStore** has the durable side of a task: `row` (`tasks.state`),
`events` (its `task_*` events, in order) and `replied` (an outgoing row in
`messages`). `SetState` and `Emit` are the two halves of each `mark_*`
function; both are unconditional, as the `UPDATE ... WHERE id = ?` of the code
is. `RecoverRows` is the one statement of `recover_crashed_tasks`. `Replay` is
what a reader of the log alone would make of a task.

**TaskRunner** is `run_task` inside the closure the scheduler spawns.
`runner[t]` names the statement about to be executed; each statement is an
action and runners interleave between any two.

| action | code |
|---|---|
| `MarkRunning`, `TaskStarted` | the two statements of `mark_running` |
| `ToolLoopReturns` | `build_context` and `run_tool_loop` |
| `Persist`, `Send` | `persist_agent_message`, `adapter.send` |
| `MarkDone`, `TaskDone` | the two statements of `mark_done` |
| `MarkFailed`, `TaskFailed` | the scheduler's `mark_failed` after an `Err` |
| `StatementFails` | `?` at any of them; a failed flush may have delivered |

**Scheduler** adds the channel (`queue`), the task the loop has taken off it
without a permit (`held`), `permits`, the join handles (`inFlight`) and the
await the loop is at. `Recv` also drops the finished handles, `Spawn` is
everything between the permit and the next `recv`. `RunnerReturns` and
`RunnerPanics` drop the permit. `queue_capacity.max(1)` is `Capacity`.

**Chat** is `cmd_chat` over successive processes. `Boot` starts the scheduler
before `Recover` runs, as the code does; `Receive` .. `SubmitTask` are one turn
of the input loop; `EndOfInput` is `close()`; `AbnormalEnd` is a kill or an
error that leaves `cmd_chat`: rows, log, replies and the owner's screen stay,
the channel, the semaphore and the runners are gone.

**TaskService** is what the scheduler promises: work is accepted into one
bounded line, begun in order, at most `Slots` pieces at a time, never twice; a
restart empties the counter. `Chat!ImplementsTaskService` maps the line to
`held \o queue`, its room to `Capacity + 1` (the loop holds one task more than
the channel) and what is being served to the live runners.

**Conversation** puts several `cmd_chat` over one store, with the runners of
TaskRunner as they are. A process is interactive, and stores each message it
receives (`Receive`), or one-shot, and does not. `messages` is the table with
its millisecond stamps; `BuildContext` is the query of `build_recent_messages`,
which may return any of the rows that share the oldest stamp it reaches.
`Recover` of one process meets the rows of the other. `of` is the process a task
belongs to; runners of a dead process stop. Within a process runners start in
any order and number, which allows what Scheduler does and more.

**Budget** has the ledger. `RecordUsage` is the best-effort append of an
`llm_usage` event; `HardStop` and `SoftNudge` are the answers of
`check_budget`. **ToolLoop** opens up the runner's statement `tool_loop`, for
all tasks in flight at once: a loop is between `Start` and
`returned`/`panicked` while `runner[t] = "tool_loop"` in TaskRunner; `returned`
is `ToolLoopReturns` there and `panicked` is `RunnerPanics`. The two modules
are checked apart (together they would multiply each other's states without a
property that needs both).

| action | code |
|---|---|
| `NextRound` | the round counter, the cap, the self-check note |
| `RetryModel`, `FallBack`, `GiveUp` | the two loops of `call_with_retry_and_fallback` |
| `Answer` | a non-empty response: usage, event, assistant message, `ContentOnly` |
| `Dispatch`, `ToolPanics` | one tool call of the round |
| `OverBudget`, `WithinBudget`, `BudgetUnread` | `check_budget` and the max_tokens nudge |
| `ForcedAnswer` | `force_final_answer` |

`Positions` is the model sequence: the default model first, then the chain
without the default and without repetitions.

**Exchange** takes every step of ToolLoop together with its words: `talk` is
the conversation in full, `Send` makes the JSON body of a request
(`build_body`, `message_to_json`, the cache mark on the last tool, the provider
pin), `Reply` is a response through `openrouter_message_to_internal`, the usage
and the finish reason. `HttpError` and `EmptyReply` are the two ways an attempt
yields no answer. A text is a name for what it says. The history variables
`sent` and `heard` keep the last body per model and the replies taken.

**FileTools** is `Dispatcher::dispatch` and the four tools. Each system call is
an action, so that the calls of two tasks interleave; each may fail.

| action | code |
|---|---|
| `Unroutable`, `BadArgs`, `Invoke`, `Report` | `dispatch`: lookup, arguments, the `tool_call` event and the call, its outcome as an event and a text |
| `FsRead`, `ReadLines`, `ReadPanics` | `fs_read`: open, read with a range of lines, the slice out of bounds |
| `FsList` | `fs_list` |
| `FsWrite`, `CreateTemp`, `FillTemp`, `RenameTemp` | `fs_write`: protection and parent, the temporary file, its content, the rename |
| `FsDelete`, `RemoveFile` | `fs_delete`: protection and metadata, the removal |
| `Crash` | the process dies, files and events stay |

Paths lead to inodes and inodes hold contents, so that a reader keeps the file
it has opened while another task replaces it. `Partial` is what a file holds
between its creation and its last write, `Mixed` what it holds where the bytes
of two writers meet. A temporary file is called after its target and what the
clock reads, and the clock may read anything in `Instants` at any time, the same
twice included: `OpenTemp` then empties and shares the file that is there, as
`std::fs::write` does, and the path goes into the history variable `shared`.
**AtomicFiles** is the promise: each call takes effect at one instant between
its beginning and its end, or is refused and changes nothing; but a path may
be waived (`Waive`), and nothing is promised of it from then on. The refinement
waives a path when two writers share a temporary file of it and in no other
case, and takes a read to have its answer once the file is open.

**Governance** has the charter file, the `charter_hash` row and processes that
are booting, running a session, or approving. Every read of the file and every
`kv` statement is an action of its own; `Edit` is the owner with an editor or
git, at any time. `Boot` .. `FirstBoot` is `Runtime::open` with `check_charter`,
`ReadCharter` and `HealthLine` are what `build_context` reads of it for a task,
`Show`, `Confirm` and `ApproveCurrent` are `charter approve`. `still` and
`quiet` record whether the file or the row has been changed by somebody else.

**ContextPruning** is the pruning loop of `build_context`. A section is its
length in bytes; `tokens` is the code's `dynamic_tokens`, estimated once over
the joined text and then reduced by separately rounded estimates. What may be
dropped is what the code's `prune_order` has; the runtime section, which the
documents would drop last, is in `fixed` with `kv_snapshot` and `health`.

Definitions named `X_Something` before a definition `X` are faulty variants of
it, each a plausible mistake in that code. Nothing uses them in a specification:
substituting one for `X` makes a property fail, which shows that the property
depends on the code being right.

### What is abstracted

Texts are names. Arguments, task ids and reasoning efforts are left out. In
ToolLoop a message keeps its role and which calls it answers, an answer its
number of tool calls, its cost and whether it was cut off; Exchange gives them
their contents back. Different charters have different hashes. Money is an
integer and the thresholds are whole percents: rounding of `f64` sums is not
modelled. The model provider, the tools and standard output are external: they
may fail, come back empty or answer anything in range. `from_owner` gives every
message a fresh id, so a task id is received at most once. Of the events of a
dispatch FileTools keeps the `tool_call` and the successful `tool_result` of
`fs_write` and `fs_delete`. The range of lines of an `fs_read` is left out, so
any of them may be the one that panics.

## 3. What is checked

| run | instance | what it shows |
|---|---|---|
| `chat_safety` | 3 tasks, 2 permits, channel of 1, 2 errors per task, 2 boots, 1 crash; tasks symmetric | `TypeOK`, `PermitsAccounted`, `AnswersKeepOrder`, `LogNeverAhead`, `OneVerdict`, `CleanExitSettles`, `RunningRowsAreLive`, `StartsFromPending`, `VerdictsStick`, and the refinement `ImplementsTaskService` |
| `chat_liveness` | 3 tasks, 1 permit, 1 error per task, 1 boot, 1 crash; no symmetry | `RecordedTasksRun`, `CloseLeadsToExit` under `FairSpec` |
| `conversation` | 2 processes of either mode, 2 tasks, a limit of 2 rows, 2 instants, 1 error per task; symmetric | `TypeOK`, `FollowUpsSeeAnswers`, `FinishedWorkIsDone` |
| `loop_budget` | 2 tasks, 2 rounds, 2 attempts, one fallback, budget 4 and answers of 0 or 3, 1 store error; tasks symmetric | `BooksBalance`, `OverspendBounded`, `TaskShareBounded`, `LoopsWindDown` |
| `exchange` | 1 task, 2 rounds, 2 attempts, a chain that repeats itself and the default, replies of 6 shapes with or without a price, 1 store error | `TypeOK`, `ToolCallsAnswered`, `RoundsAreAnswers`, `FallbackInOrder`, `EchoesTheProvider`, `PricesAreFlagged`, `RequestsExtend`, and `LoopsReturn` under `FairExchange` |
| `context_pruning` | section lengths of each remainder modulo four and absent, caps 0..9 | `TypeOK`, `NeverUnderestimates`, `EstimateDrift`, `FitsOrNothingLeft`, `LeastImportantFirst` |
| `file_tools` | 2 tasks with 3 calls, a file, a directory and a protected directory, 2 contents, 2 clock readings in any order, 1 failure, 1 crash; symmetric | `TypeOK`, `LitterHasACause`, `EffectsAreLogged`, and the refinement `ToolsAreAtomic` |
| `governance` | 3 processes, 4 runs, 2 edits of 2 charters; symmetric | `TypeOK`, `SessionsRunOnRecord`, `VerdictsAreCurrent`, `ShownIsRecorded` |

What the less obvious ones say:

* `FollowUpsSeeAnswers`: an answer the owner had read when typing a message is
  among the recent messages of that message's task, in whatever process, or as
  many rows as the limit are not older. It rests on the order of persist and
  send, and says precisely what a tie of timestamps may do.
* `FinishedWorkIsDone`: the recovery of a second process may flip a live
  task's row to failed, but the runner's own verdict comes later.
* `RequestsExtend`: the prompt cache of the provider holds from round to round.
* `LoopsWindDown`: `StepsLeft` counts what is left of the request, the round and
  the rounds after it; each step of the loops takes from one loop's and from no
  other's.
* `EchoesTheProvider`: what goes back has been through two conversions. The
  n-th assistant message of a request has the calls and the text of the n-th
  answer, and the messages right after it are the results of its calls, in
  order; there is no result elsewhere.
* `ToolsAreAtomic`: no interleaving of system calls, no failure, no crash and no
  clock lets a task read half a file, or makes an error of a change, on a path
  where two writers have not met on one temporary file. What they lose when they
  have is `NoHalfFiles` in section 5. Meeting takes a second `fs_write` of the
  same path, and the same reading, between another's open and its rename; a
  name that was left over from a failure or a crash may be met without harm.
* `EffectsAreLogged`: the log is one failed append, or one death, behind the
  files at the worst, and has the call before its change.
* `FitsOrNothingLeft` speaks of the sections in the code's `prune_order`: a
  prompt over the cap keeps its runtime section (section 5).
* `VerdictsAreCurrent`: in the window between the read of the row and the
  write of a first baseline another process may write; otherwise a boot is
  refused exactly if the charter is not the one on record.

### Bounds and why they are enough

* Three tasks and two permits let two runners interleave while a third waits
  in `held` or in the channel; with one permit (`chat_liveness`) the channel
  fills and `submit` blocks. `QueueCapacity = 0` also exercises the `max(1)`.
* `MaxErrors = 2` per task allows a statement and then the scheduler's
  `mark_failed` to fail, the worst case that the code can tell apart; a panic
  counts as an error. `MaxBoots = 2` and `MaxCrashes = 1` give one crash and
  one recovery over rows of the earlier process; recovery is one statement and
  looks at nothing but the rows, so a second one meets no new kind of row.
* `conversation` has as many rows as two tasks can make, four, which is more
  than its limit of two, and two instants give ties and proper orders; two
  processes are one that recovers and one that is recovered from.
* `MaxRounds = 2` in `exchange` has a round without the self-check and one with
  it, and a soft nudge is possible in each (the code's interval is 10); the
  second request extends the first, and the third is the forced one. The
  replies have every branch of the conversions. `loop_budget` has the loops side
  by side.
* In `loop_budget` an answer costs most of the budget, so two tasks pass the
  guard together, or the second starts with nothing left; the proofs have any
  number of tasks.
* `MaxStoreErrors` bounds failing appends and failing ledger reads together;
  the proofs hold for every value.
* Three calls of two tasks give two that overlap and one after them; a failure
  and a crash each leave a temporary file. The paths are one of each kind whose
  arms differ: to read or list what is protected is to read or list, and
  protection comes first in a write or a deletion. Two clock readings are the
  same or different, in either order.
* Four runs of three processes give two first boots beside an approval and a
  boot after them; two edits change the charter and change it back.
* Pruning depends on lengths modulo four; 0 is absent, and 4, 5, 7 and 10 have
  the remainders 0, 1, 3 and 2.

Deadlock is checked in the passing runs except `conversation` and `governance`,
where all processes may have ended and none is left to start. A model that has
ended elsewhere (no more boots, all loops over, nothing to prune, no calls left)
takes an explicit idle step.

### Fairness

`Chat!FairSpec` is weak fairness for `cmd_chat` between its inputs, for the
scheduler loop and for each runner. tokio polls a task whose await is ready;
every await of a runner becomes ready: an HTTP call has the client's timeout
(`llm/src/openrouter.rs:69`), rounds are capped, and store calls hold the mutex
for one statement. A tool runs without an await, so `run_with_timeout`
(`tools/src/dispatcher.rs:195`) never gets to interrupt it: the assumption is
that the system calls of a tool return, as they do on a local disk. `Boot` is
fair because the owner restarts an agent that went down; receiving a message and
the end of input are not fair: the owner need not type. `Exchange!FairExchange`
is weak fairness of each loop, for the same reasons. Nothing is assumed of which
runner or which outcome comes first, so `LoopsReturn` has to hold when every
call fails or every answer asks for tools.

## 4. What is proved

For every set of tasks and every value of the parameters, from the named
assumptions on the constants alone (they are evaluated in each run).

* **`ChatProofs`**: `IInv` is inductive (`Invariance`), and with it
  `TypeCorrect`, `PermitsAreAccounted`, `ConcurrencyIsBounded` and
  `RunnersStartFromPending`. `permits + live runners = MaxConcurrent` is not
  inductive as it stands: starting a runner must not start one that is alive
  already. `IInv` therefore follows a task on its way in: in main's hand, in
  the channel and in `held` it is in one place only, its row is pending with
  the single event `task_received`, and its runner is idle;
  the loop holds a task exactly while it awaits a permit. Two lemmas about
  `Append` and `Tail` carry "nobody waits twice" through the channel; then one
  lemma per action.
  The other safety properties follow from `StoryInv` (`StoryInvariance`), where a runner is tells what its row, its
  log, its errors and its answer are. There are six logs a task can have, and
  each stands beside a few rows only (`LogFits`): a crash may leave the row one
  state ahead, never the log. From it come `AnswersComeInOrder`, `LogFollowsRow`
  and `VerdictIsLast`; `RunningMeansAlive` needs that recovery runs
  before the process has runners of its own (`RecoveryComesFirst`), and
  `ExitSettles` that a recorded task is in hand, in the channel, in `held` or has
  a runner in `inFlight` (`NothingIsLost`). `EndsAreFinal` is read off the
  statements: `mark_failed` is reached from `task_done`, with the row at done, by
  an error only.
* **`ChatRefinement`**: `ChatImplementsTaskService`. `SubmitTask` is `Accept`,
  `Spawn` is `Begin`, a runner's end is `End`, boot and abnormal end are
  `Restart`, every other step stutters. `Recv` moves a task from the head of
  the channel into `held`, which leaves `held \o queue` as it is; `Spawn` needs
  `IInv'` to know that a permit means a free slot.
* **`ToolLoopProofs`**: `BudgetOverrunIsBounded` and `TaskShareIsBounded`. The
  bounds are not inductive: a task may be past its answer when another one
  records its own. `SpendingInv` counts the *late* tasks, those past the model
  call of their present round: each one may account for one answer beyond the
  budget, and so may each store failure. An answer makes its task late and
  pays for it; the guard makes a task punctual only when it has read a ledger
  below the budget, which pays back, or when the read failed, which a store
  error pays for.
  `LoopInv` (`LoopInvariance`) is about each loop by itself and gives
  `LoopTypeCorrect`, `ModelsInOrder`, `OutcomesCountAnswers` and
  `CallsAreAnswered`. `RequestFits` says that a request has gone through the
  positions before `at` and made `attempt - 1` calls there; that the order of
  the positions is the order of the configured chain, whatever it repeats, needs
  a least position for each model (`LeastOf`, from the well-foundedness of `<`).
  `AnswersFit` relates the round counter to the assistant messages at each
  statement, the four exits included. `ResultsFit` says that everything before the
  next request is answered, and in the middle of a dispatch everything before
  the last answer, with one result for each call dispatched.
  `BooksAlwaysBalance` is about a sum over all tasks, which the model
  computes by a fold over a set. That there is a function with the fold's
  equation follows by induction on the size of the set (`FoldExists`, from the
  well-foundedness of `<`, for the one equation rather than for any recursion);
  then two sums whose summands agree but for one task differ as that task's
  do (`SumOfOneMore`), and an answer adds the same amount to either side.
  `LoopsAlwaysWindDown` is the variant of the loop: a step that resets the
  attempt moves the position on, one that resets the position starts a round or
  forces the answer, and the weights of the three in `StepsLeft` pay for that.
  With `LoopInv` none of them goes below zero.
* **`ContextPruningProofs`**: all five properties of the pruning. For
  `PruningNeverUnderflows`, the estimate is
  superadditive up to the separator: dropping a section of `n` bytes and its
  blank line lowers the estimate of the whole by at least the estimate of `n`
  (`DropRounding`), so `tokens >= Estimate(Joined)` is kept, and with
  `Estimate(Joined) >= Estimate(section)` the subtraction stays unsigned.
  `OrderInv` (`OrderInvariance`) adds that one dropped section puts the count off
  by at most two tokens (`DriftIsBounded`), and that the loop has come as far in
  the order of importance as what is missing, which gives `EndsUnderTheCap` and
  `DropsInOrder`.
* **`ConversationProofs`**: `FinishedWorkEndsDone` and `FollowUpsAreShown`, for
  any number of processes. `WorkInv` says what a runner's next statement implies
  about its row: after `mark_done` without a failure the row is done, and
  recovery touches running rows only. For the second, `TalkInv` adds that
  what was delivered is a row of the table, that rows are only added, and that
  no row is newer than the clock: rows that come after a context was built
  cannot push an answer out of it, and of the rows the query chose against it
  as many as the limit are not older. `ConversationTypesCorrect` takes its types
  from both.
* **`ExchangeProofs`**: `ExchangeImplementsToolLoop`, step by step, which carries
  the bound on spending over (`ExchangeOverrunIsBounded`) and the safety of each
  loop by itself (`ExchangeKeepsTheLoop`); and `RequestsAlwaysExtend`. The latter
  rests on `SentInv`: the last body sent to a model is the conversion, message by
  message, of the beginning of the present conversation, and a body without tools was only sent by a task that
  is forced to answer and sends no other.
  `PricesAlwaysFlagged` needs that a fold over the answers grows by the price of
  the answer appended (`OneMorePrice`, by induction on the beginnings of the
  list). `TheProviderIsEchoed` rests on `EchoInv`
  (`EchoInvariance`): at each statement of the loop the conversation is
  `InTurn` (its n-th assistant message is the conversion of the n-th answer) and
  `Fed` (each answer's results follow it, in order, as far as dispatched),
  and it is `Closed`, with no result missing, whenever a body is made of it. The
  text survives both conversions because they keep the same blocks
  (`TextsComeBack`), and a result's id is that of the call at its place, so
  repeated ids do no harm.
* **`FileToolsProofs`**: `ToolsImplementAtomicFiles`, for a clock of which nothing
  is assumed. `FilesInv` says who owns what. Of any path: the inodes its name,
  its temporary names, its writers and its readers lead to are no other path's,
  and no two temporary names lead to one (`Apart`), so that what happens on a
  shared path stays there. Of a path that is not shared: a writer's inode is
  its own until the rename (`Owned`), and an inode that the path or a reader
  leads to is whole and nobody's temporary file (`Published`). Then nothing
  writes to what a reader has open, each rename publishes exactly what the call
  was asked to write, opening a name that another writer has is `Waive`, and
  every other system call is a stutter or a refusal.
  `ChangesAreLogged` counts the change that waits for its event (`LogInv`) and
  the one that is still to come after its call was logged (`AheadInv`).
  `LitterIsAccountedFor` compares the set of temporary files nobody works on
  before and after a step: a step of a task adds at most that task's own file,
  and only by giving it up, which is a failed call or the rename that takes the
  name away (`OneLeft`); a crash adds those of the tasks that were writing.
* **`GovernanceProofs`**: `SessionsOnRecord`, `VerdictsCorrect` and
  `ApprovalsRecordShown`. `GovInv` adds to the three what each step on the way
  has established while nobody else has changed the file or the row.

**Model-checked only.** Every invariant of the runs and every refinement is a
theorem. The liveness properties `RecordedTasksRun`, `CloseLeadsToExit` and
`LoopsReturn` stay with TLC: TLAPS proves neither properties under fairness nor
facts about ENABLED. Of `LoopsReturn` the variant is proved; that a loop which is
not over can take a step is the deadlock check of the run. The four properties of
section 5 are refuted by a run, so there is nothing to prove. What a fold computes is proved for the folds used
here, not once for every operator: the library's induction rules take an operator
as a parameter, which the provers cannot instantiate.

## 5. Where the code and its documentation disagree

Four have a run in which TLC finds the behaviour.

| run | the repository says | the code does |
|---|---|---|
| `chat_pending_lost` | `docs/PRD.md:175`: restart loses nothing beyond the in-flight LLM round | a pending task recorded before a crash is never submitted again |
| `loop_usage` | `tool_loop.rs:74`: usage across every LLM call the loop made | the usage of empty and forced answers is dropped |
| `file_half_written` | `fs.rs:174`: `fs_write` is "Atomic via temp-file-and-rename" | the temporary name is the target's and `SystemTime::now()` (`fs.rs:219`): two writers that read the same nanosecond share the file, and the rename of one publishes what the other has just truncated |
| `governance_pinned` | `docs/SYSTEM_SPEC.md:839`: "charter hash pinned" means that file and row agree | the health line (`context.rs:455`) looks at the row only, and each task reads the charter anew |

Others were met while modelling and need no run, because a line or two of the
code shows them:

* `task.rs:8` has the events suffice to reconstruct the tasks;
  `recover_crashed_tasks` fails rows without an event (compare `Replay`).
* `docs/SYSTEM_SPEC.md:519-522` has the runner `emit task_done`, `store_result`
  and `send_via_adapter`; the code persists the reply, sends it and then marks
  the task done (`task_runner.rs:116-136`, as its header says), and within
  `mark_done` updates the row before it appends the event. `AnswersKeepOrder` and
  `LogNeverAhead` state the order of the code; under the document's a crash could
  leave a task reported done whose answer nobody has.
* `context.rs:150` and `docs/SYSTEM_SPEC.md:651` end the order of pruning with the
  runtime section; the code's `prune_order` (`context.rs:151`) does not have it,
  so a prompt that is still over the cap keeps it. (Only the code and its comment
  have `scratch`.) `FitsOrNothingLeft` and `LeastImportantFirst` are about the
  list of the code.
* `docs/SYSTEM_SPEC.md:206` has the dispatcher return the result or the error to
  the tool loop; an `fs_read` whose `end_line` is before its `start_line`, in a
  file long enough to have the latter, slices out of bounds (`fs.rs:85`) and
  panics (`ReadPanics`).
* `task.rs:19` has done and failed as last states; `mark_done` may update the
  row and fail at its event, and `mark_failed` then turns done into failed.
* `task.rs:287` describes recovery as the way rows left by a crash are cleaned;
  a panicking tool leaves a row running after a clean exit too (the exemption
  for `panicked` in `RunningRowsAreLive`).
* `scheduler.rs:44` has the loop complete once the channel closes;
  `max_concurrent_tasks = 0` is accepted and waits for a permit for ever.
* `docs/SYSTEM_SPEC.md:689` has no call dispatched once the budget is spent; the
  guard runs after a round's tools, so forced answers and first rounds still call.
* `tool_loop.rs:317` has a model that hit max_tokens continue; an answer without
  tool calls returns before that line.
* `docs/SYSTEM_SPEC.md:604` describes an exponential backoff between retries;
  there is none. Section 9.5 there fails a task whose fallbacks are exhausted;
  the code answers with the error text and marks it done. Section 9.6 has a corrupt
  database renamed at boot; the code logs a warning and goes on (`store/src/lib.rs:79`).
* `types.rs:282` and the warning of the client speak of a pricing table; a cost
  that is not told counts as zero (`openrouter.rs:207`).
* `docs/SYSTEM_SPEC.md:108` has `charter approve` record an event; it does not.
  The message of a refused boot (`runtime.rs:101`) suggests
  `charter approve --hash`, an argument the command does not take.
* `docs/PRD.md:80` says single process; see Conversation and Governance.

## 6. What is not modelled

* **Governance**: the other checks of `self-test`, and `charter status`, only
  read and print.
* **File tools**: symbolic links, edits by other programs, directories that
  come and go, and time: how long a system call takes.
* **Dispatcher**: truncation and previews of results are layout.
* **Context builder**: the sections other than the charter, the recent messages
  and the health line format what they read. Conversation takes the section of
  recent messages not to be pruned away (what pruning drops is ContextPruning's).
* **Store**: migrations and `tail`; SQLite itself is external.
* **CLI adapter**: line buffering of `receive`.
* **LLM clients**: HTTP and JSON parsing; the mock client is a test double.
* **Configuration, logging, the `events` and `version` commands**: input and
  output; their results are the constants of the modules.

## 7. Plan

Done: TaskStore, TaskRunner, Scheduler, Chat, TaskService and the refinement;
Budget and ToolLoop; ContextPruning; FileTools, AtomicFiles and the refinement;
Governance; Conversation; Exchange; and the proofs of each that section 4 lists.

Left, in this order:

1. ToolLoop composed with TaskRunner, so that the loop is shown to implement
   the runner's single step.
2. *CLI adapter*: line buffering, blank lines, end of input.
