-------------------------------- MODULE Chat --------------------------------
(***************************************************************************)
(* The whole of `strange-loop chat` (cmd_chat, crates/strange-loop/src/    *)
(* main.rs) over successive processes: boot, crash recovery, the loop that *)
(* records and submits the owner's messages, the drain at end of input,    *)
(* and the abnormal ends in between.  The store and the owner's screen     *)
(* survive a process; the channel, the semaphore and the runners do not.   *)
(*                                                                         *)
(* Piped and one-shot mode are the interactive loop with the end of input  *)
(* after the first message.                                                *)
(***************************************************************************)
EXTENDS Scheduler

CONSTANTS
  NoTask,     \* main has no task in hand
  MaxBoots,   \* bound: processes started
  MaxCrashes  \* bound: processes that end abnormally

ASSUME NoTaskAssumption == NoTask \notin Tasks
ASSUME BootsAssumption == MaxBoots \in Nat /\ MaxCrashes \in Nat

VARIABLES
  main,     \* where cmd_chat is, or how the last process ended
  cur,      \* the task cmd_chat has in hand
  boots,    \* processes started so far
  crashes,  \* processes ended abnormally so far
  mine      \* history: tasks this process has recorded

mainVars == <<main, cur, boots, crashes, mine>>
vars == <<mainVars, schedulerVars, runnerVars, storeVars>>

MainPc == {"off", "recover", "receive", "insert", "task_received", "submit",
           "drain", "exited", "crashed"}
Ended == {"off", "exited", "crashed"}
Up == main \notin Ended

Init ==
  /\ StoreInit
  /\ RunnerInit
  /\ SchedulerInit
  /\ main = "off"
  /\ cur = NoTask
  /\ boots = 0
  /\ crashes = 0
  /\ mine = {}

\* The memory of a fresh process.
FreshMemory ==
  /\ queue' = <<>>
  /\ held' = <<>>
  /\ permits' = MaxConcurrent
  /\ inFlight' = {}
  /\ loop' = "recv"
  /\ runner' = [t \in Tasks |-> "idle"]
  /\ cur' = NoTask
  /\ mine' = {}

\* Runtime::open and Scheduler::start: the loop is up before recovery runs.
Boot ==
  /\ ~Up
  /\ boots < MaxBoots
  /\ main' = "recover"
  /\ boots' = boots + 1
  /\ FreshMemory
  /\ UNCHANGED <<crashes, delivered, errors, panicked, storeVars>>

Recover ==
  /\ main = "recover"
  /\ RecoverRows
  /\ main' = "receive"
  /\ UNCHANGED <<cur, boots, crashes, mine, schedulerVars, runnerVars>>

\* adapter.receive() yields a message and Task::from_owner makes a task of it.
Receive(t) ==
  /\ main = "receive"
  /\ row[t] = "none"
  /\ cur' = t
  /\ main' = "insert"
  /\ UNCHANGED <<boots, crashes, mine, schedulerVars, runnerVars, storeVars>>

\* record_pending, its two statements.
RecordPending ==
  /\ main = "insert"
  /\ SetState(cur, "pending")
  /\ mine' = mine \cup {cur}
  /\ main' = "task_received"
  /\ UNCHANGED <<cur, boots, crashes, schedulerVars, runnerVars>>

TaskReceived ==
  /\ main = "task_received"
  /\ Emit(cur, "task_received")
  /\ main' = "submit"
  /\ UNCHANGED <<cur, boots, crashes, mine, schedulerVars, runnerVars>>

SubmitTask ==
  /\ main = "submit"
  /\ Submit(cur)
  /\ cur' = NoTask
  /\ main' = "receive"
  /\ UNCHANGED <<boots, crashes, mine, runnerVars, storeVars>>

\* End of input: close() drops the only sender and main awaits the loop.
EndOfInput ==
  /\ main = "receive"
  /\ main' = "drain"
  /\ UNCHANGED <<cur, boots, crashes, mine, schedulerVars, runnerVars,
                 storeVars>>

Exit ==
  /\ main = "drain"
  /\ loop = "exited"
  /\ main' = "exited"
  /\ UNCHANGED <<cur, boots, crashes, mine, schedulerVars, runnerVars,
                 storeVars>>

\* SIGKILL, or an error from recovery, receive, record_pending or submit that
\* `?` carries out of cmd_chat: the runtime is dropped and every runner with
\* it, at whatever statement it was.
AbnormalEnd ==
  /\ Up
  /\ crashes < MaxCrashes
  /\ crashes' = crashes + 1
  /\ main' = "crashed"
  /\ FreshMemory
  /\ UNCHANGED <<boots, delivered, errors, panicked, storeVars>>

Main ==
  \/ Recover
  \/ RecordPending
  \/ TaskReceived
  \/ SubmitTask
  \/ Exit

SchedulerLoop ==
  /\ Up
  /\ Recv \/ Spawn \/ RecvClosed(main = "drain") \/ JoinAll
  /\ UNCHANGED mainVars

Runner(t) ==
  /\ Up
  /\ RunnerNext(t)
  /\ UNCHANGED mainVars

\* The last process has ended and no other is started.
Stopped ==
  /\ ~Up
  /\ boots = MaxBoots
  /\ UNCHANGED vars

Next ==
  \/ Boot
  \/ Main
  \/ \E t \in Tasks : Receive(t)
  \/ EndOfInput
  \/ AbnormalEnd
  \/ SchedulerLoop
  \/ \E t \in Tasks : Runner(t)
  \/ Stopped

Spec == Init /\ [][Next]_vars

(***************************************************************************)
(* Fairness: the three kinds of tokio task are polled until they finish    *)
(* (every await they wait on does become ready: an LLM call has a client   *)
(* timeout, the tool loop has a last round, and a tool, which awaits       *)
(* nothing and so is never timed out, returns if its system calls do), and *)
(* the owner restarts an agent that went down.  The owner need not type    *)
(* anything, nor end the input.                                            *)
(***************************************************************************)
FairSpec ==
  /\ Spec
  /\ WF_vars(Boot)
  /\ WF_vars(Main)
  /\ WF_vars(SchedulerLoop)
  /\ \A t \in Tasks : WF_vars(Runner(t))

-----------------------------------------------------------------------------
(***************************************************************************)
(* Every variable of the store, the runners, the scheduler and cmd_chat    *)
(* stays in its range.                                                     *)
(***************************************************************************)
TypeOK ==
  /\ StoreTypeOK
  /\ RunnerTypeOK
  /\ SchedulerTypeOK
  /\ main \in MainPc
  /\ cur \in Tasks \cup {NoTask}
  /\ boots \in 0..MaxBoots
  /\ crashes \in 0..MaxCrashes
  /\ mine \subseteq Tasks

(***************************************************************************)
(* A permit is out exactly while a runner is alive: errors, panics and     *)
(* restarts neither leak a permit nor mint one, so at most MaxConcurrent   *)
(* runners are ever alive (the RAII permit of scheduler_loop).             *)
(***************************************************************************)
PermitsAccounted == permits + Cardinality(Active) = MaxConcurrent

(***************************************************************************)
(* The strengthening of TypeOK and PermitsAccounted that every step keeps: *)
(* the loop holds a task exactly while it awaits a permit; a task that     *)
(* waits, or that main has in hand, has no runner yet; and no task waits   *)
(* twice.                                                                  *)
(***************************************************************************)
Queued == {queue[i] : i \in DOMAIN queue}
Held   == {held[i] : i \in DOMAIN held}

LoopHoldsWhileAcquiring ==
  IF loop = "acquire" THEN \E t \in Tasks : held = <<t>> ELSE held = <<>>

HandIsFresh ==
  IF main \in {"insert", "task_received", "submit"}
  THEN /\ cur \in Tasks \ (Queued \cup Held)
       /\ runner[cur] = "idle"
       /\ row[cur] = IF main = "insert" THEN "none" ELSE "pending"
       /\ events[cur] = IF main = "submit" THEN <<"task_received">> ELSE <<>>
  ELSE cur = NoTask

UnrecordedIsIdle ==
  \A t \in Tasks : row[t] = "none" => runner[t] = "idle" /\ events[t] = <<>>

WaitingIsPending ==
  \A t \in Queued \cup Held :
    row[t] = "pending" /\ events[t] = <<"task_received">> /\ runner[t] = "idle"

NoneWaitsTwice ==
  /\ Queued \cap Held = {}
  /\ \A i, j \in DOMAIN queue : queue[i] = queue[j] => i = j

IInv ==
  /\ TypeOK
  /\ LoopHoldsWhileAcquiring
  /\ HandIsFresh
  /\ UnrecordedIsIdle
  /\ WaitingIsPending
  /\ NoneWaitsTwice
  /\ IsFiniteSet(Active)
  /\ PermitsAccounted

(***************************************************************************)
(* After crash recovery a row that says "running" has a live runner, unless*)
(* its runner panicked or both its work and its mark_failed failed: what   *)
(* recover_crashed_tasks is for, through every interleaving with runners.  *)
(***************************************************************************)
RunningRowsAreLive ==
  Up /\ main # "recover" =>
    \A t \in Tasks :
      row[t] = "running" => t \in Active \cup panicked \/ errors[t] > 1

(***************************************************************************)
(* The order persist, send, mark_done in run_task, through every crash and *)
(* error: what the owner has seen is in the messages table, and a task is  *)
(* called done only when the owner has seen its answer.  (The order is the *)
(* code's and task_runner.rs:3-10's; SYSTEM_SPEC.md:519-522 has task_done  *)
(* first and the owner last.)                                              *)
(***************************************************************************)
AnswersKeepOrder ==
  /\ delivered \subseteq replied
  /\ \A t \in Tasks : row[t] = "done" => t \in delivered

(***************************************************************************)
(* Row first, event second: whatever is lost between the two statements of *)
(* a transition, the event log never reports a state the row has not been  *)
(* in.                                                                     *)
(***************************************************************************)
LogNeverAhead ==
  \A t \in Tasks :
    /\ Replay(t) = "pending" => row[t] # "none"
    /\ Replay(t) = "running" => row[t] \notin {"none", "pending"}
    /\ Replay(t) \in Terminal => row[t] = Replay(t)

(***************************************************************************)
(* task_done is the one event that counts a task: however a task ends, and *)
(* although both run_task and the scheduler can report its end, it is      *)
(* reported at most once and nothing about the task follows.               *)
(***************************************************************************)
OneVerdict ==
  \A t \in Tasks : \A i \in DOMAIN events[t] :
    events[t][i] \in {"task_done_ok", "task_done_err"} => i = Len(events[t])

(***************************************************************************)
(* When cmd_chat has drained and returns, every task it recorded has been  *)
(* run to its end: answered and reported done if nothing failed, reported  *)
(* failed if one statement did.                                            *)
(***************************************************************************)
CleanExitSettles ==
  main = "exited" =>
    \A t \in mine :
      /\ runner[t] = "finished"
      /\ errors[t] = 0 =>
           t \in delivered /\ row[t] = "done" /\ Replay(t) = "done"
      /\ errors[t] = 1 /\ t \notin panicked =>
           row[t] = "failed" /\ Replay(t) = "failed"

(***************************************************************************)
(* A runner is only ever started on a task that waits: no restart, error   *)
(* or recovery brings a finished, failed or running task to a runner.      *)
(***************************************************************************)
StartsFromPending ==
  [][\A t \in Tasks :
       runner[t] # "mark_running" /\ runner'[t] = "mark_running"
         => row[t] = "pending" /\ Replay(t) = "pending"]_vars

(***************************************************************************)
(* Although no UPDATE looks at the state it replaces, a failed task stays  *)
(* failed, and a done task turns into a failed one only when reporting it  *)
(* done went wrong.                                                        *)
(***************************************************************************)
VerdictsStick ==
  [][\A t \in Tasks :
       /\ row[t] = "failed" => row'[t] = "failed"
       /\ row[t] = "done" => row'[t] = "done" \/ errors[t] > 0]_vars

(***************************************************************************)
(* The scheduler is a counter with MaxConcurrent slots and one first-in    *)
(* first-out line.  Its line is the channel preceded by the task the loop  *)
(* holds, so it has room for one task more than the channel.               *)
(***************************************************************************)
WaitingLine == held \o queue
Waiting == {WaitingLine[i] : i \in DOMAIN WaitingLine}

Service == INSTANCE TaskService WITH
  Slots   <- MaxConcurrent,
  Room    <- Capacity + 1,
  line    <- WaitingLine,
  serving <- Active,
  over    <- {t \in Tasks : row[t] # "none"} \ (Waiting \cup Active \cup {cur})

ImplementsTaskService == Service!Spec

(***************************************************************************)
(* Every task the process has recorded is eventually run to its end, unless*)
(* the process goes down first: no task is starved behind the channel, the *)
(* semaphore or a panicked runner.                                         *)
(***************************************************************************)
RecordedTasksRun ==
  \A t \in Tasks : t \in mine ~> runner[t] = "finished" \/ ~Up

(***************************************************************************)
(* Scheduler::start's promise: once the submit channel is closed the loop  *)
(* drains it, waits for the runners and completes, and the process ends.   *)
(***************************************************************************)
CloseLeadsToExit == main = "drain" ~> ~Up

-----------------------------------------------------------------------------
(* What the repository says of the program and the program does not do.    *)

(***************************************************************************)
(* PRD.md, restart safety: "after a crash or SIGKILL, next launch resumes  *)
(* from last known state without data loss beyond the in-flight LLM round."*)
(* A task recorded as pending is therefore run by a process that stays up. *)
(***************************************************************************)
PendingTasksResume ==
  \A t \in Tasks : Up /\ row[t] = "pending" ~> row[t] # "pending" \/ ~Up
=============================================================================
