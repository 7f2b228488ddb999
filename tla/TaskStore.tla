----------------------------- MODULE TaskStore -----------------------------
(***************************************************************************)
(* The durable side of a task (crates/core/src/task.rs): its row in the    *)
(* `tasks` table, its entries in the event log and its reply in the        *)
(* `messages` table.  The store serialises its callers behind one mutex    *)
(* (Store::with_conn), so one SQL statement is one step; but a state       *)
(* transition is an UPDATE and then an event, two statements with no       *)
(* transaction around them, so each transition is two operators here.      *)
(*                                                                         *)
(* Every UPDATE names only the id: it does not look at the state it        *)
(* replaces.                                                               *)
(***************************************************************************)
EXTENDS Naturals, Sequences

CONSTANT Tasks   \* task ids; each Task is given a fresh one

VARIABLES
  row,      \* tasks.state of each id, "none" while there is no row
  events,   \* the task_* events of each id, in the order they were appended
  replied   \* ids with an outgoing row in the messages table

storeVars == <<row, events, replied>>

\* "cancelled" is not here: mark_cancelled has no caller in the program.
TaskState == {"none", "pending", "running", "done", "failed"}
Terminal  == {"done", "failed"}
EventKind == {"task_received", "task_started", "task_done_ok", "task_done_err"}

StoreInit ==
  /\ row = [t \in Tasks |-> "none"]
  /\ events = [t \in Tasks |-> <<>>]
  /\ replied = {}

\* The first half of a transition: the INSERT or UPDATE of the row.
SetState(t, s) ==
  /\ row' = [row EXCEPT ![t] = s]
  /\ UNCHANGED <<events, replied>>

\* The second half: the event that reports it.
Emit(t, kind) ==
  /\ events' = [events EXCEPT ![t] = Append(@, kind)]
  /\ UNCHANGED <<row, replied>>

\* persist_agent_message of task_runner.rs.
PersistReply(t) ==
  /\ replied' = replied \cup {t}
  /\ UNCHANGED <<row, events>>

\* recover_crashed_tasks: one UPDATE over every row in state 'running',
\* whoever wrote it; it appends no event.
RecoverRows_Skipped == UNCHANGED storeVars
RecoverRows_NoWhere ==
  /\ row' = [t \in Tasks |-> IF row[t] = "none" THEN "none" ELSE "failed"]
  /\ UNCHANGED <<events, replied>>
RecoverRows ==
  /\ row' = [t \in Tasks |-> IF row[t] = "running" THEN "failed" ELSE row[t]]
  /\ UNCHANGED <<events, replied>>

\* The state a reader of the event log alone would give a task.
Replay(t) ==
  IF events[t] = <<>> THEN "none"
  ELSE LET last == events[t][Len(events[t])] IN
       CASE last = "task_received" -> "pending"
         [] last = "task_started"  -> "running"
         [] last = "task_done_ok"  -> "done"
         [] last = "task_done_err" -> "failed"

StoreTypeOK ==
  /\ row \in [Tasks -> TaskState]
  /\ events \in [Tasks -> Seq(EventKind)]
  /\ replied \subseteq Tasks
=============================================================================
