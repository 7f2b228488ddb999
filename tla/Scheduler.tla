----------------------------- MODULE Scheduler -----------------------------
(***************************************************************************)
(* The scheduler (crates/core/src/scheduler.rs): a bounded channel of      *)
(* submitted tasks, a semaphore, and one loop that takes a task off the    *)
(* channel, waits for a permit and spawns the task's runner with it.  The  *)
(* loop takes the task off BEFORE it waits, so one task more than the      *)
(* channel holds can be waiting: it is in `held`.                          *)
(***************************************************************************)
EXTENDS TaskRunner, FiniteSets

CONSTANTS
  MaxConcurrent,   \* tool_loop.max_concurrent_tasks; 0 is not rejected
  QueueCapacity    \* the queue_capacity argument of Scheduler::start

ASSUME MaxConcurrentAssumption == MaxConcurrent \in Nat
ASSUME QueueCapacityAssumption == QueueCapacity \in Nat

\* mpsc::channel(queue_capacity.max(1))
Capacity == IF QueueCapacity = 0 THEN 1 ELSE QueueCapacity

VARIABLES
  queue,      \* the channel, oldest task first
  held,       \* <<t>> while the loop has t and no permit for it, else <<>>
  permits,    \* permits left in the semaphore
  inFlight,   \* tasks whose JoinHandle the loop keeps
  loop        \* the await the loop is at

schedulerVars == <<queue, held, permits, inFlight, loop>>

LoopPc == {"recv", "acquire", "join", "exited"}

SchedulerInit ==
  /\ queue = <<>>
  /\ held = <<>>
  /\ permits = MaxConcurrent
  /\ inFlight = {}
  /\ loop = "recv"

\* Scheduler::submit: `send` waits while the channel is full.
Submit_Unbounded(t) ==
  /\ queue' = Append(queue, t)
  /\ UNCHANGED <<held, permits, inFlight, loop>>
Submit(t) ==
  /\ Len(queue) < Capacity
  /\ queue' = Append(queue, t)
  /\ UNCHANGED <<held, permits, inFlight, loop>>

Unfinished_PanicNeverEnds(handles) ==
  {t \in handles : runner[t] # "finished" \/ t \in panicked}
Unfinished(handles) == {t \in handles : runner[t] # "finished"}

\* recv() yields a task; the finished handles are dropped from the vector
\* before the loop asks for a permit.
Recv_Peeks ==
  /\ loop = "recv"
  /\ queue # <<>>
  /\ held' = <<Head(queue)>>
  /\ loop' = "acquire"
  /\ UNCHANGED <<queue, inFlight, permits, runnerVars, storeVars>>
Recv ==
  /\ loop = "recv"
  /\ queue # <<>>
  /\ held' = <<Head(queue)>>
  /\ queue' = Tail(queue)
  /\ inFlight' = Unfinished(inFlight)
  /\ loop' = "acquire"
  /\ UNCHANGED <<permits, runnerVars, storeVars>>

\* acquire_owned() yields; the runner is spawned with the permit and its
\* handle pushed, with no await in between.
Spawn ==
  /\ loop = "acquire"
  /\ permits > 0
  /\ permits' = permits - 1
  /\ runner' = [runner EXCEPT ![Head(held)] = "mark_running"]
  /\ inFlight' = inFlight \cup {Head(held)}
  /\ held' = <<>>
  /\ loop' = "recv"
  /\ UNCHANGED <<queue, delivered, errors, panicked, storeVars>>

\* recv() yields None: every sender is gone and the channel is empty.
RecvClosed(closed) ==
  /\ loop = "recv"
  /\ closed
  /\ queue = <<>>
  /\ loop' = "join"
  /\ UNCHANGED <<queue, held, permits, inFlight, runnerVars, storeVars>>

\* Every remaining handle has been awaited, in the vector's order; a handle of
\* a runner that panicked yields an error, which is discarded.
JoinAll_NoWait ==
  /\ loop = "join"
  /\ loop' = "exited"
  /\ UNCHANGED <<queue, held, permits, inFlight, runnerVars, storeVars>>
JoinAll ==
  /\ loop = "join"
  /\ Unfinished(inFlight) = {}
  /\ loop' = "exited"
  /\ UNCHANGED <<queue, held, permits, inFlight, runnerVars, storeVars>>

\* `let _permit = permit`: dropped when the closure ends, however it ends.
ReturnPermit_Twice == permits' = permits + 2
ReturnPermit_Leaks == UNCHANGED permits
ReturnPermit == permits' = permits + 1

\* The spawned closure ends and drops the permit it was given.
RunnerReturns(t) ==
  /\ Goto(t, "return", "finished")
  /\ ReturnPermit
  /\ UNCHANGED <<queue, held, inFlight, loop, delivered, errors, panicked,
                 storeVars>>

\* A tool panics inside the loop: unwinding drops the permit, and neither
\* run_task nor the closure's error arm sees anything.
RunnerPanics(t) ==
  /\ errors[t] < MaxErrors
  /\ Goto(t, "tool_loop", "finished")
  /\ errors' = [errors EXCEPT ![t] = @ + 1]
  /\ panicked' = panicked \cup {t}
  /\ ReturnPermit
  /\ UNCHANGED <<queue, held, inFlight, loop, delivered, storeVars>>

RunnerNext(t) ==
  \/ RunnerStep(t) /\ UNCHANGED schedulerVars
  \/ RunnerReturns(t)
  \/ RunnerPanics(t)

SchedulerTypeOK ==
  /\ queue \in Seq(Tasks)
  /\ held \in Seq(Tasks)
  /\ permits \in 0..MaxConcurrent
  /\ inFlight \subseteq Tasks
  /\ loop \in LoopPc
=============================================================================
