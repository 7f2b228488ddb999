----------------------------- MODULE TaskRunner -----------------------------
(***************************************************************************)
(* One runner per task: run_task (crates/core/src/task_runner.rs) inside   *)
(* the closure the scheduler spawns for it.  runner[t] names the statement *)
(* the runner is about to execute; runners of different tasks interleave   *)
(* between any two statements.                                             *)
(*                                                                         *)
(* Every statement that reaches the store or the adapter can fail, and `?` *)
(* takes the runner to the scheduler's mark_failed.  The context build and *)
(* the tool loop return Ok on every path of the present code, so the       *)
(* runner's arm for an Err from the tool loop is dead and left out; what   *)
(* can stop a runner inside the loop is a panic in a tool.                 *)
(***************************************************************************)
EXTENDS TaskStore

CONSTANT MaxErrors   \* bound: failing statements per task

ASSUME MaxErrorsAssumption == MaxErrors \in Nat

VARIABLES
  runner,     \* the statement each task's runner is about to execute
  delivered,  \* tasks whose answer the owner has seen (external: stdout)
  errors,     \* how many statements have failed for each task
  panicked    \* tasks whose runner panicked

runnerVars == <<runner, delivered, errors, panicked>>

Fallible ==
  {"mark_running", "task_started", "persist_reply", "send",
   "mark_done", "task_done", "mark_failed", "task_failed"}
Running  == Fallible \cup {"tool_loop", "return"}
RunnerPc == Running \cup {"idle", "finished"}

Active == {t \in Tasks : runner[t] \in Running}

RunnerInit ==
  /\ runner = [t \in Tasks |-> "idle"]
  /\ delivered = {}
  /\ errors = [t \in Tasks |-> 0]
  /\ panicked = {}

Goto(t, from, to) ==
  /\ runner[t] = from
  /\ runner' = [runner EXCEPT ![t] = to]

Quietly == UNCHANGED <<delivered, errors, panicked>>

MarkRunning(t) ==
  /\ Goto(t, "mark_running", "task_started")
  /\ SetState(t, "running")
  /\ Quietly

TaskStarted(t) ==
  /\ Goto(t, "task_started", "tool_loop")
  /\ Emit(t, "task_started")
  /\ Quietly

\* run_tool_loop returns; LlmExhausted is an outcome like the others, with a
\* default text, and goes down the same path.
ToolLoopReturns(t) ==
  /\ Goto(t, "tool_loop", "persist_reply")
  /\ UNCHANGED storeVars
  /\ Quietly

Persist(t) ==
  /\ Goto(t, "persist_reply", "send")
  /\ PersistReply(t)
  /\ Quietly

Send(t) ==
  /\ Goto(t, "send", "mark_done")
  /\ delivered' = delivered \cup {t}
  /\ UNCHANGED <<storeVars, errors, panicked>>

MarkDone_NoUpdate(t) ==
  /\ Goto(t, "mark_done", "task_done")
  /\ UNCHANGED storeVars
  /\ Quietly
MarkDone_IfRunning(t) ==
  /\ Goto(t, "mark_done", "task_done")
  /\ SetState(t, IF row[t] = "running" THEN "done" ELSE row[t])
  /\ Quietly
MarkDone(t) ==
  /\ Goto(t, "mark_done", "task_done")
  /\ SetState(t, "done")
  /\ Quietly

TaskDone_ThenFails(t) ==
  /\ Goto(t, "task_done", "mark_failed")
  /\ Emit(t, "task_done_ok")
  /\ Quietly
TaskDone(t) ==
  /\ Goto(t, "task_done", "return")
  /\ Emit(t, "task_done_ok")
  /\ Quietly

\* The scheduler's mark_failed, after run_task returned Err.
MarkFailed(t) ==
  /\ Goto(t, "mark_failed", "task_failed")
  /\ SetState(t, "failed")
  /\ Quietly

TaskFailed(t) ==
  /\ Goto(t, "task_failed", "return")
  /\ Emit(t, "task_done_err")
  /\ Quietly

\* Where `?` leads from each statement: the scheduler's error arm, whose own
\* errors are discarded (let _ = task::mark_failed(..)).
OnError_KeepsGoing(pc) == IF pc = "persist_reply" THEN "send" ELSE "return"
OnError(pc) ==
  IF pc \in {"mark_failed", "task_failed"} THEN "return" ELSE "mark_failed"

StatementFails(t) ==
  /\ runner[t] \in Fallible
  /\ errors[t] < MaxErrors
  /\ Goto(t, runner[t], OnError(runner[t]))
  /\ errors' = [errors EXCEPT ![t] = @ + 1]
  /\ \/ UNCHANGED delivered
     \/ /\ runner[t] = "send"   \* written, and then the flush failed
        /\ delivered' = delivered \cup {t}
  /\ UNCHANGED <<storeVars, panicked>>

RunnerStep(t) ==
  \/ MarkRunning(t)
  \/ TaskStarted(t)
  \/ ToolLoopReturns(t)
  \/ Persist(t)
  \/ Send(t)
  \/ MarkDone(t)
  \/ TaskDone(t)
  \/ MarkFailed(t)
  \/ TaskFailed(t)
  \/ StatementFails(t)

RunnerTypeOK ==
  /\ runner \in [Tasks -> RunnerPc]
  /\ delivered \subseteq Tasks
  /\ errors \in [Tasks -> 0..MaxErrors]
  /\ panicked \subseteq Tasks
=============================================================================
