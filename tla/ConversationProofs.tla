-------------------------- MODULE ConversationProofs --------------------------
(***************************************************************************)
(* For any number of processes and tasks, of failing statements, and for   *)
(* every limit on the recent messages: finished work ends as done although *)
(* every boot fails what others are running, and a follow-up is shown what *)
(* the owner had read.                                                     *)
(*                                                                         *)
(* WorkInv is for the first.  Past mark_done without an error a row is     *)
(* done; recovery only takes rows that are running, and the INSERT of      *)
(* record_pending only one that nobody has begun, because the id is fresh. *)
(* TalkInv is for the second.  An answer is a row of messages before it is *)
(* sent, so what was seen when a task was typed was in the table when its  *)
(* context was built; rows are only ever added, with the same or a later   *)
(* time, and the context keeps meaning what it meant.                      *)
(***************************************************************************)
EXTENDS Conversation, FiniteSetTheorems, TLAPS

-----------------------------------------------------------------------------
(* Finished work.                                                          *)

WorkTyped ==
  /\ row \in [Tasks -> TaskState]
  /\ runner \in [Tasks -> RunnerPc]
  /\ errors \in [Tasks -> 0..MaxErrors]
  /\ main \in [Processes -> MainPc]
  /\ cur \in [Processes -> Tasks \cup {NoTask}]
  /\ of \in [Tasks -> Processes \cup {NoProcess}]

\* Only a fresh id is inserted: nobody has begun it.
FreshIds ==
  /\ \A t \in Tasks : row[t] = "none" => runner[t] = "idle"
  /\ \A t \in Tasks : of[t] = NoProcess => row[t] = "none"
  /\ \A p \in Processes : main[p] = "insert" =>
       /\ cur[p] \in Tasks
       /\ of[cur[p]] = p
       /\ row[cur[p]] = "none"

Verdict(t) ==
  /\ runner[t] \in {"idle", "mark_running", "task_started", "tool_loop",
                    "persist_reply"} => t \notin replied
  /\ runner[t] \in {"mark_failed", "task_failed"} => errors[t] > 0
  /\ runner[t] \in {"task_done", "return", "finished"} /\ errors[t] = 0
       => row[t] = "done"

WorkInv == WorkTyped /\ FreshIds /\ \A t \in Tasks : Verdict(t)

LEMMA WorkInit == Init => WorkInv
  BY MaxErrorsAssumption, ConversationAssumption
  DEF Init, StoreInit, RunnerInit, WorkInv, WorkTyped, FreshIds, Verdict,
      TaskState, RunnerPc, Running, Fallible, MainPc

\* cmd_chat of any process keeps it.
LEMMA WorkMain ==
  ASSUME WorkInv, NEW p \in Processes, Main(p)
  PROVE  WorkInv'
  <1> USE ConversationAssumption
  <1> USE DEF WorkInv, WorkTyped, FreshIds, Verdict, TaskState, MainPc, Step,
              tableVars, taskVars, runnerVars, storeVars
  <1>1. CASE Boot(p)
    BY <1>1 DEF Boot
  <1>2. CASE Recover(p)
    BY <1>2 DEF Recover, RecoverRows
  <1>3. ASSUME NEW t \in Tasks, Receive(p, t)
        PROVE  WorkInv'
    BY <1>3 DEF Receive
  <1>4. CASE RecordPending(p)
    BY <1>4 DEF RecordPending, SetState
  <1>5. CASE TaskReceived(p)
    BY <1>5 DEF TaskReceived, Emit
  <1>6. CASE EndOfInput(p)
    BY <1>6 DEF EndOfInput
  <1>7. CASE Exit(p)
    BY <1>7 DEF Exit
  <1>8. CASE Die(p)
    BY <1>8 DEF Die
  <1> QED
    BY <1>1, <1>2, <1>3, <1>4, <1>5, <1>6, <1>7, <1>8 DEF Main

\* So does every statement of every runner.
LEMMA WorkRunner ==
  ASSUME WorkInv, NEW t \in Tasks, Spawn(t) \/ Runner(t)
  PROVE  WorkInv'
  <1> USE ConversationAssumption, MaxErrorsAssumption
  <1> USE DEF WorkInv, WorkTyped, FreshIds, Verdict, TaskState, RunnerPc, Running,
              Fallible, processVars, tableVars, taskVars, storeVars, Goto, Quietly,
              SetState, Emit
  <1>1. CASE Spawn(t)
    BY <1>1 DEF Spawn
  <1>2. CASE BuildContext(t)
    BY <1>2 DEF BuildContext, runnerVars
  <1>3. CASE ContextUnread(t)
    BY <1>3 DEF ContextUnread
  <1>4. CASE PersistMessage(t)
    BY <1>4 DEF PersistMessage, Persist, PersistReply
  <1>5. CASE OtherStatement(t)
    <2> USE <1>5 DEF OtherStatement
    <2>1. CASE MarkRunning(t)
      BY <2>1 DEF MarkRunning
    <2>2. CASE TaskStarted(t)
      BY <2>2 DEF TaskStarted
    <2>3. CASE ToolLoopReturns(t)
      BY <2>3 DEF ToolLoopReturns
    <2>4. CASE Persist(t)
      BY <2>4 DEF Persist, PersistReply
    <2>5. CASE Send(t)
      BY <2>5 DEF Send
    <2>6. CASE MarkDone(t)
      BY <2>6 DEF MarkDone
    <2>7. CASE TaskDone(t)
      BY <2>7 DEF TaskDone
    <2>8. CASE MarkFailed(t)
      BY <2>8 DEF MarkFailed
    <2>9. CASE TaskFailed(t)
      BY <2>9 DEF TaskFailed
    <2>10. CASE StatementFails(t)
      BY <2>10 DEF StatementFails, OnError
    <2> QED
      BY <2>1, <2>2, <2>3, <2>4, <2>5, <2>6, <2>7, <2>8, <2>9, <2>10
      DEF RunnerStep
  <1>6. CASE RunnerReturns(t)
    BY <1>6 DEF RunnerReturns
  <1>7. CASE ToolPanics(t)
    BY <1>7 DEF ToolPanics
  <1> QED
    BY <1>1, <1>2, <1>3, <1>4, <1>5, <1>6, <1>7 DEF Runner

LEMMA WorkStep == WorkInv /\ [Next]_vars => WorkInv'
  <1> SUFFICES ASSUME WorkInv, [Next]_vars
               PROVE  WorkInv'
    OBVIOUS
  <1>1. CASE Tick
    BY <1>1 DEF Tick, processVars, runnerVars, storeVars, WorkInv, WorkTyped,
                FreshIds, Verdict
  <1>2. CASE UNCHANGED vars
    BY <1>2 DEF vars, processVars, runnerVars, storeVars, WorkInv, WorkTyped,
                FreshIds, Verdict
  <1> QED
    BY <1>1, <1>2, WorkMain, WorkRunner DEF Next

THEOREM WorkInvariance == Spec => []WorkInv
  BY WorkInit, WorkStep, PTL DEF Spec

\* A runner that meets no error leaves its task done, whatever the recoveries of
\* other processes do to the row meanwhile (recover_crashed_tasks of task.rs,
\* which takes every running row).
THEOREM FinishedWorkEndsDone == Spec => []FinishedWorkIsDone
  <1>1. WorkInv => FinishedWorkIsDone
    BY DEF WorkInv, Verdict, FinishedWorkIsDone
  <1> QED
    BY <1>1, WorkInvariance, PTL

-----------------------------------------------------------------------------
(* Follow-ups.                                                             *)

IsAnswer(i, t) == messages[i].task = t /\ messages[i].dir = "out"
HasAnswer(t)   == \E i \in DOMAIN messages : IsAnswer(i, t)

NotOlder(u, i) == {j \in context[u] : messages[j].ts >= messages[i].ts}

\* The answer to t is shown to u, or crowded out.
Shown(u, t) ==
  \E i \in DOMAIN messages :
    /\ IsAnswer(i, t)
    /\ i \in context[u] \/ Cardinality(NotOlder(u, i)) >= RecentLimit

TalkTyped ==
  /\ messages \in Seq(Rows)
  /\ clock \in 0..MaxClock
  /\ delivered \subseteq Tasks
  /\ seen \in [Tasks -> SUBSET Tasks]
  /\ runner \in [Tasks -> RunnerPc]
  /\ errors \in [Tasks -> 0..MaxErrors]
  /\ context \in [Tasks -> {NoContext} \cup SUBSET Nat]
  /\ of \in [Tasks -> Processes \cup {NoProcess}]
  /\ \A t \in Tasks : context[t] # NoContext => context[t] \subseteq DOMAIN messages

SentIsStored ==
  /\ \A t \in Tasks : runner[t] = "send" \/ t \in delivered => HasAnswer(t)
  /\ \A u \in Tasks : \A t \in seen[u] : HasAnswer(t)

\* A task nobody has typed has seen nothing and has no context.
Untyped ==
  \A u \in Tasks : of[u] = NoProcess => row[u] = "none" /\ context[u] = NoContext

ShownIsShown ==
  \A u \in Tasks : context[u] # NoContext /\ errors[u] = 0 =>
    \A t \in seen[u] : Shown(u, t)

TalkInv == TalkTyped /\ SentIsStored /\ Untyped /\ ShownIsShown

\* What the table and the contexts say of an answer stays, while rows are only
\* added.
Grows ==
  /\ messages' \in Seq(Rows)
  /\ Len(messages) <= Len(messages')
  /\ \A i \in DOMAIN messages : messages'[i] = messages[i]

LEMMA AnswersStay ==
  ASSUME TalkTyped, Grows, NEW t \in Tasks, HasAnswer(t)
  PROVE  HasAnswer(t)'
  BY DEF TalkTyped, Grows, HasAnswer, IsAnswer

LEMMA ShownStays ==
  ASSUME TalkTyped, Grows, NEW u \in Tasks, NEW t \in Tasks,
         context[u] # NoContext, context'[u] = context[u], Shown(u, t)
  PROVE  Shown(u, t)'
  <1>1. PICK i \in DOMAIN messages :
          /\ IsAnswer(i, t)
          /\ i \in context[u] \/ Cardinality(NotOlder(u, i)) >= RecentLimit
    BY DEF Shown
  <1>2. i \in DOMAIN messages' /\ IsAnswer(i, t)'
    BY <1>1 DEF TalkTyped, Grows, IsAnswer
  <1>3. NotOlder(u, i)' = NotOlder(u, i)
    BY <1>1 DEF TalkTyped, Grows, NotOlder
  <1> QED
    BY <1>1, <1>2, <1>3 DEF Shown

\* An INSERT adds a row.
LEMMA InsertGrows ==
  ASSUME TalkTyped, NEW t \in Tasks, NEW d \in {"in", "out"}, Insert(t, d)
  PROVE  /\ Grows
         /\ d = "out" => HasAnswer(t)'
  <1> DEFINE new == [task |-> t, dir |-> d, ts |-> clock]
  <1>1. new \in Rows
    BY DEF TalkTyped, Rows
  <1>2. messages' = Append(messages, new)
    BY DEF Insert
  <1>3. Grows
    BY <1>1, <1>2 DEF TalkTyped, Grows
  <1>4. Len(messages') \in DOMAIN messages' /\ messages'[Len(messages')] = new
    BY <1>1, <1>2 DEF TalkTyped
  <1>5. d = "out" => HasAnswer(t)'
    BY <1>4 DEF HasAnswer, IsAnswer
  <1> QED
    BY <1>3, <1>5

\* The rows of a fresh context are those of the table if there are no more than
\* the limit, and otherwise as many as the limit, none older than one left out.
LEMMA RecentsShow ==
  ASSUME TalkTyped, NEW R \in Recents, NEW i \in DOMAIN messages, i \notin R
  PROVE  Cardinality({j \in R : messages[j].ts >= messages[i].ts}) >= RecentLimit
  <1> USE ConversationAssumption
  <1>1. /\ IsFiniteSet(DOMAIN messages)
        /\ Cardinality(DOMAIN messages) = Len(messages)
        /\ Len(messages) \in Nat
    <2>1. DOMAIN messages = 1..Len(messages) /\ Len(messages) \in Nat
      BY DEF TalkTyped
    <2>2. ASSUME NEW n \in Nat
          PROVE  IsFiniteSet(1..n) /\ Cardinality(1..n) = n
      BY FS_Interval
    <2> QED
      BY <2>1, <2>2
  <1>2. R \subseteq DOMAIN messages /\ R # DOMAIN messages
    BY DEF Recents
  <1>3. Cardinality(R) < Len(messages)
    <2>1. IsFiniteSet(R) /\ Cardinality(R) <= Cardinality(DOMAIN messages)
      BY <1>1, <1>2, FS_Subset
    <2>2. Cardinality(DOMAIN messages) # Cardinality(R)
      BY <1>1, <1>2, FS_Subset
    <2>3. Cardinality(R) \in Nat
      BY <2>1, FS_CardinalityType
    <2> QED
      BY <1>1, <2>1, <2>2, <2>3
  <1>4. Cardinality(R) = RecentLimit
    BY <1>1, <1>3 DEF Recents
  <1>5. {j \in R : messages[j].ts >= messages[i].ts} = R
    BY DEF Recents
  <1> QED
    BY <1>4, <1>5

LEMMA FreshContextShows ==
  ASSUME TalkTyped, NEW R \in Recents, NEW u \in Tasks, NEW t \in Tasks,
         HasAnswer(t), messages' = messages, context'[u] = R
  PROVE  Shown(u, t)'
  <1>1. PICK i \in DOMAIN messages : IsAnswer(i, t)
    BY DEF HasAnswer
  <1>2. i \in R \/ Cardinality({j \in R : messages[j].ts >= messages[i].ts}) >= RecentLimit
    BY RecentsShow
  <1>3. NotOlder(u, i)' = {j \in R : messages[j].ts >= messages[i].ts}
    BY DEF NotOlder
  <1> QED
    BY <1>1, <1>2, <1>3 DEF Shown, IsAnswer

LEMMA TalkInit == Init => TalkInv
  BY MaxErrorsAssumption, ConversationAssumption
  DEF Init, StoreInit, RunnerInit, TalkInv, TalkTyped, SentIsStored, Untyped,
      ShownIsShown, HasAnswer, RunnerPc
-----------------------------------------------------------------------------
(* The steps.                                                              *)

\* Where an answer may be on its way: a step adds at most rows, it sends only
\* what is stored, and it does not touch what was typed or shown.
Ordinary ==
  /\ UNCHANGED messages \/ Grows
  /\ UNCHANGED <<context, seen, of>>
  /\ runner' \in [Tasks -> RunnerPc]
  /\ errors' \in [Tasks -> 0..MaxErrors]
  /\ clock' \in 0..MaxClock
  /\ delivered' \subseteq Tasks
  /\ \A t \in Tasks : errors'[t] = 0 => errors[t] = 0
  /\ \A t \in Tasks : t \in delivered' => t \in delivered \/ runner[t] = "send"
  /\ \A t \in Tasks : runner'[t] = "send" => runner[t] = "send" \/ HasAnswer(t)'
  /\ \A t \in Tasks : of[t] = NoProcess => row'[t] = row[t]

LEMMA OrdinaryStep ==
  ASSUME TalkInv, Ordinary
  PROVE  TalkInv'
  <1>1. Grows
    BY DEF Ordinary, Grows, TalkInv, TalkTyped
  <1>2. \A t \in Tasks : HasAnswer(t) => HasAnswer(t)'
    BY <1>1, AnswersStay DEF TalkInv
  <1>3. TalkTyped'
    BY <1>1 DEF Ordinary, Grows, TalkInv, TalkTyped
  <1>4. SentIsStored'
    BY <1>2 DEF Ordinary, TalkInv, TalkTyped, SentIsStored
  <1>5. Untyped'
    BY DEF Ordinary, TalkInv, Untyped
  <1>6. ShownIsShown'
    <2> SUFFICES ASSUME NEW u \in Tasks, context'[u] # NoContext, errors'[u] = 0,
                        NEW t \in seen'[u]
                 PROVE  Shown(u, t)'
      BY DEF ShownIsShown
    <2>1. t \in Tasks /\ t \in seen[u]
      BY DEF Ordinary, TalkInv, TalkTyped
    <2>2. Shown(u, t)
      BY <2>1 DEF Ordinary, TalkInv, ShownIsShown
    <2> QED
      BY <1>1, <2>1, <2>2, ShownStays DEF Ordinary, TalkInv
  <1> QED
    BY <1>3, <1>4, <1>5, <1>6 DEF TalkInv

\* cmd_chat: only receive touches the table, and it records what has been read.
LEMMA TalkReceive ==
  ASSUME TalkInv, NEW p \in Processes, NEW u \in Tasks, Receive(p, u)
  PROVE  TalkInv'
  <1> USE DEF Receive, storeVars, runnerVars
  <1>1. Grows
    <2>1. CASE mode[p] = "interactive"
      BY <2>1, InsertGrows DEF TalkInv
    <2>2. CASE mode[p] # "interactive"
      BY <2>2 DEF Grows, TalkInv, TalkTyped
    <2> QED
      BY <2>1, <2>2
  <1>2. \A t \in Tasks : HasAnswer(t) => HasAnswer(t)'
    BY <1>1, AnswersStay DEF TalkInv
  <1>3. TalkTyped'
    BY <1>1 DEF Grows, TalkInv, TalkTyped
  <1>4. SentIsStored'
    BY <1>2 DEF TalkInv, TalkTyped, SentIsStored
  <1>5. Untyped'
    BY ConversationAssumption DEF TalkInv, TalkTyped, Untyped
  <1>6. ShownIsShown'
    <2> SUFFICES ASSUME NEW v \in Tasks, context'[v] # NoContext, errors'[v] = 0,
                        NEW t \in seen'[v]
                 PROVE  Shown(v, t)'
      BY DEF ShownIsShown
    <2>1. v # u
      BY DEF TalkInv, Untyped
    <2>2. t \in Tasks /\ t \in seen[v]
      BY <2>1 DEF TalkInv, TalkTyped
    <2>3. Shown(v, t)
      BY <2>2 DEF TalkInv, ShownIsShown
    <2> QED
      BY <1>1, <2>2, <2>3, ShownStays DEF TalkInv
  <1> QED
    BY <1>3, <1>4, <1>5, <1>6 DEF TalkInv

\* A context is built, or the section is left out and counts as an error.
LEMMA TalkContext ==
  ASSUME TalkInv, WorkInv, NEW u \in Tasks, of[u] # NoProcess,
         BuildContext(u) \/ ContextUnread(u)
  PROVE  TalkInv'
  <1> USE DEF processVars, tableVars, runnerVars, storeVars
  <1>1. /\ UNCHANGED <<messages, clock, delivered, seen, of, row, runner>>
        /\ errors' \in [Tasks -> 0..MaxErrors]
        /\ \A t \in Tasks : errors'[t] = 0 => errors[t] = 0
        /\ \A v \in Tasks : v # u => context'[v] = context[v]
    BY MaxErrorsAssumption
    DEF BuildContext, ContextUnread, TalkInv, TalkTyped
  <1>2. /\ context'[u] \in SUBSET DOMAIN messages
        /\ context' \in [Tasks -> {NoContext} \cup SUBSET Nat]
        /\ errors'[u] = 0 => context'[u] \in Recents
    <2>0. DOMAIN messages \subseteq Nat
      BY DEF TalkInv, TalkTyped
    <2>1. CASE BuildContext(u)
      BY <2>0, <2>1 DEF BuildContext, Recents, TalkInv, TalkTyped
    <2>2. CASE ContextUnread(u)
      BY <2>0, <2>2, MaxErrorsAssumption DEF ContextUnread, TalkInv, TalkTyped
    <2> QED
      BY <2>1, <2>2
  <1>3. TalkTyped'
    BY <1>1, <1>2 DEF TalkInv, TalkTyped
  <1>4. SentIsStored'
    BY <1>1 DEF TalkInv, SentIsStored, HasAnswer, IsAnswer
  <1>5. Untyped'
    BY <1>1 DEF TalkInv, Untyped
  <1>6. ShownIsShown'
    <2> SUFFICES ASSUME NEW v \in Tasks, context'[v] # NoContext, errors'[v] = 0,
                        NEW t \in seen'[v]
                 PROVE  Shown(v, t)'
      BY DEF ShownIsShown
    <2>1. t \in Tasks /\ t \in seen[v] /\ HasAnswer(t)
      BY <1>1 DEF TalkInv, TalkTyped, SentIsStored
    <2>2. CASE v = u
      BY <1>1, <1>2, <2>1, <2>2, FreshContextShows DEF TalkInv
    <2>3. CASE v # u
      <3>1. Grows
        BY <1>1 DEF Grows, TalkInv, TalkTyped
      <3>2. Shown(v, t)
        BY <1>1, <2>1, <2>3 DEF TalkInv, ShownIsShown
      <3> QED
        BY <1>1, <2>1, <2>3, <3>1, <3>2, ShownStays DEF TalkInv
    <2> QED
      BY <2>2, <2>3
  <1> QED
    BY <1>3, <1>4, <1>5, <1>6 DEF TalkInv

\* The other steps of cmd_chat and the clock are ordinary.
LEMMA TalkMain ==
  ASSUME TalkInv, WorkInv, NEW p \in Processes, Main(p)
  PROVE  TalkInv'
  <1>1. ASSUME NEW t \in Tasks, Receive(p, t)
        PROVE  TalkInv'
    BY <1>1, TalkReceive
  <1>2. CASE RecordPending(p)
    <2>1. of[cur[p]] # NoProcess /\ cur[p] \in Tasks
      BY <1>2, ConversationAssumption DEF RecordPending, Step, WorkInv, FreshIds
    <2> QED
      BY <1>2, <2>1, OrdinaryStep
      DEF RecordPending, SetState, Ordinary, tableVars, taskVars, runnerVars,
          TalkInv, TalkTyped, WorkInv, WorkTyped
  <1>3. CASE Recover(p)
    <2>1. \A t \in Tasks : of[t] = NoProcess => row'[t] = row[t]
      BY <1>3 DEF Recover, RecoverRows, TalkInv, Untyped
    <2> QED
      BY <1>3, <2>1, OrdinaryStep
      DEF Recover, RecoverRows, Ordinary, tableVars, taskVars, runnerVars,
          TalkInv, TalkTyped
  <1>4. CASE \/ Boot(p) \/ TaskReceived(p) \/ EndOfInput(p) \/ Exit(p) \/ Die(p)
    BY <1>4, OrdinaryStep
    DEF Boot, TaskReceived, EndOfInput, Exit, Die, Emit, Ordinary, tableVars,
        taskVars, runnerVars, storeVars, TalkInv, TalkTyped
  <1> QED
    BY <1>1, <1>2, <1>3, <1>4 DEF Main

\* A runner stores its answer before it sends it.
LEMMA TalkRunner ==
  ASSUME TalkInv, WorkInv, NEW t \in Tasks, Spawn(t) \/ Runner(t)
  PROVE  TalkInv'
  <1> USE MaxErrorsAssumption, ConversationAssumption
  <1>0. of[t] # NoProcess
    BY DEF Spawn, Runner, Alive
  <1>1. CASE BuildContext(t) \/ ContextUnread(t)
    BY <1>0, <1>1, TalkContext
  <1>2. CASE PersistMessage(t)
    <2>1. Grows /\ HasAnswer(t)'
      BY <1>2, InsertGrows DEF PersistMessage, TalkInv
    <2> QED
      BY <1>2, <2>1, OrdinaryStep
      DEF PersistMessage, Persist, PersistReply, Goto, Quietly, Ordinary,
          processVars, taskVars, TalkInv, TalkTyped, RunnerPc, Running, Fallible
  <1>3. CASE Spawn(t) \/ RunnerReturns(t) \/ ToolPanics(t)
    <2> USE <1>3 DEF Goto, Ordinary, processVars, tableVars, taskVars, storeVars,
            TalkInv, TalkTyped, RunnerPc, Running, Fallible
    <2>1. CASE Spawn(t)
      BY <2>1, OrdinaryStep DEF Spawn
    <2>2. CASE RunnerReturns(t)
      BY <2>2, OrdinaryStep DEF RunnerReturns
    <2>3. CASE ToolPanics(t)
      BY <2>3, OrdinaryStep DEF ToolPanics
    <2> QED
      BY <1>3, <2>1, <2>2, <2>3
  <1>4. CASE OtherStatement(t)
    <2> USE <1>0, <1>4 DEF OtherStatement, Ordinary, processVars, tableVars,
            taskVars, storeVars, TalkInv, TalkTyped, RunnerPc, Running, Fallible,
            Goto, Quietly, SetState, Emit
    <2>1. CASE MarkRunning(t) \/ MarkDone(t) \/ MarkFailed(t)
      <3>1. \A u \in Tasks : of[u] = NoProcess => row'[u] = row[u]
        BY <2>1 DEF MarkRunning, MarkDone, MarkFailed, WorkInv, WorkTyped
      <3> QED
        BY <2>1, <3>1, OrdinaryStep DEF MarkRunning, MarkDone, MarkFailed
    <2>2. CASE TaskStarted(t) \/ TaskDone(t) \/ TaskFailed(t)
      BY <2>2, OrdinaryStep DEF TaskStarted, TaskDone, TaskFailed
    <2>3. CASE ToolLoopReturns(t) \/ Send(t)
      BY <2>3, OrdinaryStep DEF ToolLoopReturns, Send
    <2>4. CASE Persist(t)
      <3>1. runner[t] = "persist_reply" /\ t \in replied
        BY <2>4 DEF Persist, PersistReply
      <3> QED
        BY <3>1 DEF WorkInv, Verdict
    <2>5. CASE StatementFails(t)
      BY <2>5, OrdinaryStep DEF StatementFails, OnError
    <2> QED
      BY <2>1, <2>2, <2>3, <2>4, <2>5 DEF RunnerStep
  <1> QED
    BY <1>1, <1>2, <1>3, <1>4 DEF Runner
LEMMA TalkStep == WorkInv /\ TalkInv /\ [Next]_vars => TalkInv'
  <1> SUFFICES ASSUME WorkInv, TalkInv, [Next]_vars
               PROVE  TalkInv'
    OBVIOUS
  <1>1. CASE Tick
    BY <1>1, OrdinaryStep, ConversationAssumption
    DEF Tick, processVars, taskVars, runnerVars, storeVars, Ordinary, TalkInv,
        TalkTyped
  <1>2. CASE UNCHANGED vars
    BY <1>2, OrdinaryStep
    DEF vars, processVars, tableVars, taskVars, runnerVars, storeVars, Ordinary,
        TalkInv, TalkTyped
  <1> QED
    BY <1>1, <1>2, TalkMain, TalkRunner DEF Next

THEOREM TalkInvariance == Spec => []TalkInv
  BY TalkInit, TalkStep, WorkInvariance, PTL DEF Spec

\* The answers the owner had read before typing a message are among the recent
\* messages of its task (build_recent_messages of context.rs), whoever gave
\* them, unless enough later rows crowd them out.
THEOREM FollowUpsAreShown == Spec => []FollowUpsSeeAnswers
  <1>1. TalkInv => FollowUpsSeeAnswers
    <2> SUFFICES ASSUME TalkInv, NEW u \in Tasks, context[u] # NoContext,
                        errors[u] = 0, NEW t \in seen[u]
                 PROVE  \E i \in DOMAIN messages :
                          /\ messages[i].task = t
                          /\ messages[i].dir = "out"
                          /\ \/ i \in context[u]
                             \/ Cardinality({j \in context[u] :
                                  messages[j].ts >= messages[i].ts}) >= RecentLimit
      BY Zenon DEF FollowUpsSeeAnswers
    <2>1. Shown(u, t)
      BY DEF TalkInv, ShownIsShown
    <2> QED
      BY <2>1, Zenon DEF Shown, IsAnswer, NotOlder
  <1> QED
    BY <1>1, TalkInvariance, PTL

-----------------------------------------------------------------------------
(* Types.  What the two invariants leave out.                              *)

Logged ==
  /\ events \in [Tasks -> Seq(EventKind)]
  /\ replied \subseteq Tasks
  /\ panicked \subseteq Tasks
  /\ mode \in [Processes -> Modes]

Limited ==
  \A t \in Tasks : context[t] # NoContext => Cardinality(context[t]) <= RecentLimit

\* Only two statements write a context.
Written(t) ==
  \E R \in Recents \cup {{}} : context' = [context EXCEPT ![t] = R]

\* An event is appended to the log of a task.
LEMMA EmitLogs ==
  ASSUME Logged, NEW t, NEW k \in EventKind, Emit(t, k),
         UNCHANGED <<panicked, mode>>
  PROVE  Logged'
  <1>1. ASSUME NEW u \in Tasks
        PROVE  Append(events[u], k) \in Seq(EventKind)
    <2>1. events[u] \in Seq(EventKind)
      BY DEF Logged
    <2> HIDE DEF EventKind
    <2> QED
      BY <2>1
  <1>2. \A u \in Tasks : events'[u] \in Seq(EventKind)
    BY <1>1 DEF Logged, Emit
  <1>3. events' \in [Tasks -> Seq(EventKind)]
    BY <1>2 DEF Logged, Emit
  <1> QED
    BY <1>3 DEF Logged, Emit

LEMMA LoggedStep == WorkInv /\ Logged /\ [Next]_vars => Logged'
  <1> SUFFICES ASSUME WorkInv, Logged, [Next]_vars
               PROVE  Logged'
    OBVIOUS
  <1> USE DEF Logged, processVars, tableVars, taskVars, runnerVars, storeVars
  <1>1. CASE Tick \/ UNCHANGED vars
    BY <1>1 DEF Tick, vars
  <1>2. ASSUME NEW p \in Processes, Main(p)
        PROVE  Logged'
    <2>1. CASE TaskReceived(p)
      BY <2>1, EmitLogs DEF TaskReceived, EventKind
    <2> QED
      BY <1>2, <2>1 DEF Main, Boot, Recover, RecoverRows, Receive, RecordPending,
                        SetState, EndOfInput, Exit, Die
  <1>3. ASSUME NEW t \in Tasks, Spawn(t)
        PROVE  Logged'
    BY <1>3 DEF Spawn
  <1>4. ASSUME NEW t \in Tasks, Runner(t)
        PROVE  Logged'
    <2>1. CASE BuildContext(t) \/ ContextUnread(t) \/ RunnerReturns(t) \/ ToolPanics(t)
      BY <2>1 DEF BuildContext, ContextUnread, RunnerReturns, ToolPanics
    <2>2. CASE PersistMessage(t)
      BY <2>2 DEF PersistMessage, Persist, PersistReply, Quietly
    <2>3. CASE OtherStatement(t)
      <3> USE <2>3 DEF OtherStatement
      <3>1. CASE TaskStarted(t)
        BY <3>1, EmitLogs DEF TaskStarted, Quietly, EventKind
      <3>2. CASE TaskDone(t)
        BY <3>2, EmitLogs DEF TaskDone, Quietly, EventKind
      <3>3. CASE TaskFailed(t)
        BY <3>3, EmitLogs DEF TaskFailed, Quietly, EventKind
      <3>4. CASE MarkRunning(t) \/ MarkDone(t) \/ MarkFailed(t)
        BY <3>4 DEF MarkRunning, MarkDone, MarkFailed, SetState, Quietly
      <3>5. CASE ToolLoopReturns(t) \/ Persist(t) \/ Send(t) \/ StatementFails(t)
        BY <3>5 DEF ToolLoopReturns, Persist, PersistReply, Send, StatementFails,
                    OnError, Quietly
      <3> QED
        BY <3>1, <3>2, <3>3, <3>4, <3>5 DEF RunnerStep
    <2> QED
      BY <1>4, <2>1, <2>2, <2>3 DEF Runner
  <1> QED
    BY <1>1, <1>2, <1>3, <1>4 DEF Next

LEMMA ContextsAreWritten ==
  ASSUME [Next]_vars
  PROVE  UNCHANGED context \/ \E t \in Tasks : Written(t)
  <1> USE DEF processVars, tableVars, taskVars, runnerVars, storeVars
  <1>1. CASE Tick \/ UNCHANGED vars
    BY <1>1 DEF Tick, vars
  <1>2. ASSUME NEW p \in Processes, Main(p)
        PROVE  UNCHANGED context
    BY <1>2 DEF Main, Boot, Recover, Receive, RecordPending, TaskReceived,
                EndOfInput, Exit, Die
  <1>3. ASSUME NEW t \in Tasks, Spawn(t) \/ Runner(t)
        PROVE  UNCHANGED context \/ Written(t)
    BY <1>3 DEF Spawn, Runner, BuildContext, ContextUnread, PersistMessage,
                OtherStatement, RunnerReturns, ToolPanics, Written
  <1> QED
    BY <1>1, <1>2, <1>3 DEF Next

LEMMA LimitedStep == TalkInv /\ Limited /\ [Next]_vars => Limited'
  <1> SUFFICES ASSUME TalkInv, Limited, [Next]_vars, NEW t \in Tasks, Written(t)
               PROVE  Limited'
    BY ContextsAreWritten DEF Limited
  <1>1. PICK R \in Recents \cup {{}} : context' = [context EXCEPT ![t] = R]
    BY DEF Written
  <1>2. Cardinality(R) <= RecentLimit
    <2>1. Len(messages) \in Nat
      BY DEF TalkInv, TalkTyped
    <2>2. Cardinality({}) = 0
      BY FS_EmptySet
    <2> QED
      BY <2>1, <2>2, ConversationAssumption DEF Recents
  <1> QED
    BY <1>1, <1>2 DEF Limited, TalkInv, TalkTyped

\* Type correctness for any number of processes and tasks, and no context
\* longer than the LIMIT of build_recent_messages (context.rs).
THEOREM ConversationTypesCorrect == Spec => []TypeOK
  <1>1. Init => Logged /\ Limited
    BY DEF Init, StoreInit, RunnerInit, Logged, Limited
  <1>2. WorkInv /\ TalkInv /\ Logged /\ Limited => TypeOK
    BY DEF WorkInv, WorkTyped, TalkInv, TalkTyped, Logged, Limited, TypeOK,
           StoreTypeOK, RunnerTypeOK
  <1> QED
    BY <1>1, <1>2, LoggedStep, LimitedStep, WorkInvariance, TalkInvariance, PTL
    DEF Spec
=============================================================================
