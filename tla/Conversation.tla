---------------------------- MODULE Conversation ----------------------------
(***************************************************************************)
(* One owner in several terminals: `chat` processes that share a data      *)
(* directory, the `messages` table they all write, and what each task is   *)
(* shown of it (build_recent_messages in crates/core/src/context.rs,       *)
(* CliAdapter::receive in crates/adapter-cli/src/lib.rs).  Nothing keeps a *)
(* second process out: its recovery at boot finds the first one's rows,    *)
(* and its recent messages are everybody's.                                *)
(*                                                                         *)
(* Runners are those of TaskRunner, statement by statement, and within a   *)
(* process they start in any order and number: Scheduler's order is one of *)
(* these.  A process is booted once; a restart is another process.         *)
(***************************************************************************)
EXTENDS TaskRunner, FiniteSetsExt

CONSTANTS
  Processes,
  NoProcess,
  NoTask,
  NoContext,     \* no context built yet
  RecentLimit,   \* rows of messages in a context (20 in the code)
  MaxClock       \* bound: the clock

ASSUME ConversationAssumption ==
  /\ NoProcess \notin Processes
  /\ NoTask \notin Tasks
  /\ RecentLimit \in Nat
  /\ MaxClock \in Nat

VARIABLES
  main,      \* where cmd_chat of each process is, or how it ended
  mode,      \* interactive, or one-shot: the message on the command line
  cur,       \* the task it has in hand
  of,        \* the process each task belongs to
  messages,  \* the rows of the messages table, in the order of insertion
  clock,     \* milliseconds; several rows may bear the same
  context,   \* the rows each task has been shown
  seen       \* the answers the owner had when typing it (history)

processVars == <<main, mode, cur, of>>
tableVars   == <<messages, clock>>
taskVars    == <<context, seen>>
vars == <<processVars, tableVars, taskVars, runnerVars, storeVars>>

MainPc == {"off", "recover", "receive", "insert", "task_received", "drain",
           "exited", "dead"}
Modes  == {"interactive", "one_shot"}
Alive  == {p \in Processes : main[p] \notin {"off", "exited", "dead"}}

Init ==
  /\ StoreInit
  /\ RunnerInit
  /\ main = [p \in Processes |-> "off"]
  /\ mode \in [Processes -> Modes]
  /\ cur = [p \in Processes |-> NoTask]
  /\ of = [t \in Tasks |-> NoProcess]
  /\ messages = <<>>
  /\ clock = 0
  /\ context = [t \in Tasks |-> NoContext]
  /\ seen = [t \in Tasks |-> {}]

Step(p, from, to) ==
  /\ main[p] = from
  /\ main' = [main EXCEPT ![p] = to]

\* An INSERT INTO messages with the present time.
Insert(t, direction) ==
  messages' = Append(messages, [task |-> t, dir |-> direction, ts |-> clock])

-----------------------------------------------------------------------------
(* cmd_chat.                                                               *)

Boot(p) ==
  /\ Step(p, "off", "recover")
  /\ UNCHANGED <<mode, cur, of, tableVars, taskVars, runnerVars, storeVars>>

Recover(p) ==
  /\ Step(p, "recover", "receive")
  /\ RecoverRows
  /\ UNCHANGED <<mode, cur, of, tableVars, taskVars, runnerVars>>

\* receive() stores what it returns; a message from the command line does not
\* come through it.
Receive(p, t) ==
  /\ Step(p, "receive", "insert")
  /\ of[t] = NoProcess
  /\ of' = [of EXCEPT ![t] = p]
  /\ cur' = [cur EXCEPT ![p] = t]
  /\ seen' = [seen EXCEPT ![t] = delivered]
  /\ IF mode[p] = "interactive" THEN Insert(t, "in") ELSE UNCHANGED messages
  /\ UNCHANGED <<mode, clock, context, runnerVars, storeVars>>

RecordPending(p) ==
  /\ Step(p, "insert", "task_received")
  /\ SetState(cur[p], "pending")
  /\ UNCHANGED <<mode, cur, of, tableVars, taskVars, runnerVars>>

TaskReceived(p) ==
  /\ Step(p, "task_received", IF mode[p] = "one_shot" THEN "drain" ELSE "receive")
  /\ Emit(cur[p], "task_received")
  /\ cur' = [cur EXCEPT ![p] = NoTask]
  /\ UNCHANGED <<mode, of, tableVars, taskVars, runnerVars>>

EndOfInput(p) ==
  /\ mode[p] = "interactive"
  /\ Step(p, "receive", "drain")
  /\ UNCHANGED <<mode, cur, of, tableVars, taskVars, runnerVars, storeVars>>

\* The drain is over: each of its tasks has had its runner.
Exit(p) ==
  /\ Step(p, "drain", "exited")
  /\ \A t \in Tasks : of[t] = p => runner[t] = "finished"
  /\ UNCHANGED <<mode, cur, of, tableVars, taskVars, runnerVars, storeVars>>

\* The process dies, or an error from record_pending or receive ends it.
Die(p) ==
  /\ p \in Alive
  /\ main' = [main EXCEPT ![p] = "dead"]
  /\ UNCHANGED <<mode, cur, of, tableVars, taskVars, runnerVars, storeVars>>

-----------------------------------------------------------------------------
(* The runners.                                                            *)

\* The row is pending, reported and submitted.
Spawn(t) ==
  /\ of[t] \in Alive
  /\ row[t] = "pending"
  /\ cur[of[t]] # t
  /\ Goto(t, "idle", "mark_running")
  /\ UNCHANGED <<processVars, tableVars, taskVars, delivered, errors, panicked,
                 storeVars>>

\* SELECT .. FROM messages ORDER BY ts DESC LIMIT: rows of the same time come
\* in any order.
Recents_NoLimit == {DOMAIN messages}
Recents ==
  {R \in SUBSET DOMAIN messages :
     /\ Cardinality(R) = IF Len(messages) < RecentLimit THEN Len(messages)
                         ELSE RecentLimit
     /\ \A i \in R, j \in DOMAIN messages \ R : messages[i].ts >= messages[j].ts}

BuildContext(t) ==
  /\ runner[t] = "tool_loop"
  /\ context[t] = NoContext
  /\ \E R \in Recents : context' = [context EXCEPT ![t] = R]
  /\ UNCHANGED <<processVars, tableVars, seen, runnerVars, storeVars>>

\* The query failed: the section is left out, and nobody is told.
ContextUnread(t) ==
  /\ runner[t] = "tool_loop"
  /\ context[t] = NoContext
  /\ errors[t] < MaxErrors
  /\ errors' = [errors EXCEPT ![t] = @ + 1]
  /\ context' = [context EXCEPT ![t] = {}]
  /\ UNCHANGED <<processVars, tableVars, seen, runner, delivered, panicked,
                 storeVars>>

PersistMessage(t) ==
  /\ Persist(t)
  /\ Insert(t, "out")
  /\ UNCHANGED <<processVars, clock, taskVars>>

OtherStatement(t) ==
  /\ RunnerStep(t)
  /\ UNCHANGED replied
  /\ runner[t] = "tool_loop" => context[t] # NoContext
  /\ UNCHANGED <<processVars, tableVars, taskVars>>

RunnerReturns(t) ==
  /\ Goto(t, "return", "finished")
  /\ UNCHANGED <<processVars, tableVars, taskVars, delivered, errors, panicked,
                 storeVars>>

ToolPanics(t) ==
  /\ context[t] # NoContext
  /\ errors[t] < MaxErrors
  /\ Goto(t, "tool_loop", "finished")
  /\ errors' = [errors EXCEPT ![t] = @ + 1]
  /\ panicked' = panicked \cup {t}
  /\ UNCHANGED <<processVars, tableVars, taskVars, delivered, storeVars>>

Runner(t) ==
  /\ of[t] \in Alive
  /\ \/ BuildContext(t)
     \/ ContextUnread(t)
     \/ PersistMessage(t)
     \/ OtherStatement(t)
     \/ RunnerReturns(t)
     \/ ToolPanics(t)

-----------------------------------------------------------------------------
\* Utc::now(), which is taken not to step back.
Tick ==
  /\ clock < MaxClock
  /\ clock' = clock + 1
  /\ UNCHANGED <<processVars, messages, taskVars, runnerVars, storeVars>>

Main(p) ==
  \/ Boot(p)
  \/ Recover(p)
  \/ \E t \in Tasks : Receive(p, t)
  \/ RecordPending(p)
  \/ TaskReceived(p)
  \/ EndOfInput(p)
  \/ Exit(p)
  \/ Die(p)

Next ==
  \/ Tick
  \/ \E p \in Processes : Main(p)
  \/ \E t \in Tasks : Spawn(t) \/ Runner(t)

Spec == Init /\ [][Next]_vars

-----------------------------------------------------------------------------
(* Properties.                                                             *)

Rows == [task : Tasks, dir : {"in", "out"}, ts : 0..MaxClock]

\* Every variable stays in its range; a context is rows of the table and no more
\* of them than the limit: the type invariant.
TypeOK ==
  /\ StoreTypeOK
  /\ RunnerTypeOK
  /\ main \in [Processes -> MainPc]
  /\ mode \in [Processes -> Modes]
  /\ cur \in [Processes -> Tasks \cup {NoTask}]
  /\ of \in [Tasks -> Processes \cup {NoProcess}]
  /\ messages \in Seq(Rows)
  /\ clock \in 0..MaxClock
  /\ \A t \in Tasks : context[t] # NoContext =>
       context[t] \subseteq DOMAIN messages /\ Cardinality(context[t]) <= RecentLimit
  /\ seen \in [Tasks -> SUBSET Tasks]

\* What the owner has read before typing a message, the task of that message is
\* shown, whichever process answered it: the answer is among its recent messages
\* unless as many as the limit are not older.
FollowUpsSeeAnswers ==
  \A u \in Tasks : context[u] # NoContext /\ errors[u] = 0 =>
    \A t \in seen[u] : \E i \in DOMAIN messages :
      /\ messages[i].task = t
      /\ messages[i].dir = "out"
      /\ \/ i \in context[u]
         \/ Cardinality({j \in context[u] : messages[j].ts >= messages[i].ts})
              >= RecentLimit

\* A runner none of whose statements has failed leaves its task done: a recovery
\* by another process while it was running is undone by its verdict, and one
\* after it no longer finds it.
FinishedWorkIsDone ==
  \A t \in Tasks :
    runner[t] = "finished" /\ errors[t] = 0 => row[t] = "done"
=============================================================================
