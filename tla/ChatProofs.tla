----------------------------- MODULE ChatProofs -----------------------------
(***************************************************************************)
(* Proofs about Chat, for every set of tasks and every value of the bounds.*)
(***************************************************************************)
EXTENDS Chat, FiniteSetTheorems, SequenceTheorems, TLAPS

-----------------------------------------------------------------------------
(* What one step does to the elements of the channel.                      *)

Elems(q) == {q[i] : i \in DOMAIN q}

\* Appending to a sequence adds the one element to its elements; without
\* duplicates before, and the element new, there are none after.
LEMMA ElemsOfAppend ==
  ASSUME NEW S, NEW q \in Seq(S), NEW e \in S
  PROVE  /\ Append(q, e) \in Seq(S)
         /\ Elems(Append(q, e)) = Elems(q) \cup {e}
         /\ e \notin Elems(q) /\ (\A i, j \in DOMAIN q : q[i] = q[j] => i = j)
              => \A i, j \in DOMAIN Append(q, e) :
                   Append(q, e)[i] = Append(q, e)[j] => i = j
<1> DEFINE a == Append(q, e)
<1>1. /\ a \in Seq(S)
      /\ Len(a) = Len(q) + 1
      /\ \A i \in 1..Len(q) : a[i] = q[i]
      /\ a[Len(q) + 1] = e
      /\ DOMAIN a = 1..(Len(q) + 1)
      /\ DOMAIN q = 1..Len(q)
      /\ Len(q) \in Nat
  BY AppendProperties, LenProperties
<1> HIDE DEF a
<1>2. Elems(a) = Elems(q) \cup {e}
  BY <1>1 DEF Elems
<1>3. ASSUME e \notin Elems(q), \A i, j \in DOMAIN q : q[i] = q[j] => i = j,
             NEW i \in DOMAIN a, NEW j \in DOMAIN a, a[i] = a[j]
      PROVE  i = j
  BY <1>1, <1>3 DEF Elems
<1>4. QED
  BY <1>1, <1>2, <1>3 DEF a

\* Taking the head off a nonempty sequence splits its elements; without
\* duplicates before, the head is gone and there are none after.
LEMMA ElemsOfTail ==
  ASSUME NEW S, NEW q \in Seq(S), q # <<>>,
         \A i, j \in DOMAIN q : q[i] = q[j] => i = j
  PROVE  /\ Tail(q) \in Seq(S)
         /\ Head(q) \in S
         /\ Elems(q) = Elems(Tail(q)) \cup {Head(q)}
         /\ Head(q) \notin Elems(Tail(q))
         /\ \A i, j \in DOMAIN Tail(q) : Tail(q)[i] = Tail(q)[j] => i = j
<1> DEFINE r == Tail(q)
<1>1. /\ r \in Seq(S)
      /\ Head(q) \in S
      /\ Head(q) = q[1]
      /\ Len(r) = Len(q) - 1
      /\ \A i \in 1..Len(r) : r[i] = q[i + 1]
      /\ DOMAIN r = 1..Len(r)
      /\ DOMAIN q = 1..Len(q)
      /\ Len(q) \in Nat \ {0}
  BY HeadTailProperties, LenProperties, EmptySeq
<1> HIDE DEF r
<1>2. \A i \in DOMAIN q : i # 1 => i - 1 \in DOMAIN r /\ r[i - 1] = q[i]
  BY <1>1
<1>3. \A i \in DOMAIN r : i + 1 \in DOMAIN q /\ r[i] = q[i + 1]
  BY <1>1
<1>4. Elems(q) = Elems(r) \cup {Head(q)}
  <2>1. Elems(q) \subseteq Elems(r) \cup {Head(q)}
    BY <1>1, <1>2 DEF Elems
  <2>2. Elems(r) \cup {Head(q)} \subseteq Elems(q)
    BY <1>1, <1>3 DEF Elems
  <2>3. QED
    BY <2>1, <2>2
<1>5. Head(q) \notin Elems(r)
  BY <1>1, <1>3 DEF Elems
<1>6. \A i, j \in DOMAIN r : r[i] = r[j] => i = j
  BY <1>1, <1>3
<1>7. QED
  BY <1>1, <1>4, <1>5, <1>6 DEF r

-----------------------------------------------------------------------------
(* The inductive invariant, one lemma per group of actions.                *)

LEMMA InitIInv == Init => IInv
<1> SUFFICES ASSUME Init PROVE IInv
  OBVIOUS
<1> USE DEF Init, StoreInit, RunnerInit, SchedulerInit
<1>1. TypeOK
  BY MaxConcurrentAssumption, MaxErrorsAssumption, BootsAssumption
  DEF TypeOK, StoreTypeOK, RunnerTypeOK, SchedulerTypeOK, TaskState, EventKind,
      RunnerPc, LoopPc, MainPc
<1>2. Active = {}
  BY DEF Active, Running, Fallible
<1>3. IsFiniteSet(Active) /\ PermitsAccounted
  BY <1>2, FS_EmptySet, MaxConcurrentAssumption DEF PermitsAccounted
<1>4. LoopHoldsWhileAcquiring /\ HandIsFresh /\ UnrecordedIsIdle
  BY DEF LoopHoldsWhileAcquiring, HandIsFresh, UnrecordedIsIdle
<1>5. WaitingIsPending /\ NoneWaitsTwice
  BY DEF WaitingIsPending, NoneWaitsTwice, Queued, Held
<1>6. QED
  BY <1>1, <1>3, <1>4, <1>5 DEF IInv

\* A process that starts, or ends abnormally, leaves no runner and no queue.
LEMMA FreshIInv ==
  ASSUME IInv, FreshMemory, UNCHANGED <<delivered, errors, panicked, storeVars>>,
         main' \in {"recover", "crashed"},
         boots' \in 0..MaxBoots, crashes' \in 0..MaxCrashes
  PROVE  IInv'
<1> USE DEF FreshMemory
<1>1. TypeOK'
  BY MaxConcurrentAssumption
  DEF IInv, TypeOK, StoreTypeOK, RunnerTypeOK, SchedulerTypeOK, storeVars,
      RunnerPc, LoopPc, MainPc
<1>2. Active' = {}
  BY DEF Active, Running, Fallible
<1>3. IsFiniteSet(Active') /\ PermitsAccounted'
  BY <1>2, FS_EmptySet, MaxConcurrentAssumption DEF PermitsAccounted
<1>4. (LoopHoldsWhileAcquiring /\ HandIsFresh)'
  BY DEF LoopHoldsWhileAcquiring, HandIsFresh
<1>5. UnrecordedIsIdle'
  BY DEF IInv, UnrecordedIsIdle, storeVars
<1>6. (WaitingIsPending /\ NoneWaitsTwice)'
  BY DEF WaitingIsPending, NoneWaitsTwice, Queued, Held
<1>7. QED
  BY <1>1, <1>3, <1>4, <1>5, <1>6 DEF IInv

\* The steps of cmd_chat itself that leave the scheduler alone.
LEMMA RecoverIInv == IInv /\ Recover => IInv'
<1> SUFFICES ASSUME IInv, Recover PROVE IInv'
  OBVIOUS
<1> USE DEF Recover, RecoverRows, schedulerVars, runnerVars
<1>1. TypeOK'
  BY DEF IInv, TypeOK, StoreTypeOK, RunnerTypeOK, SchedulerTypeOK, TaskState, MainPc
<1>2. Active' = Active /\ Queued' = Queued /\ Held' = Held
  BY DEF Active, Queued, Held
<1>3. IsFiniteSet(Active)' /\ PermitsAccounted'
  BY <1>2 DEF IInv, PermitsAccounted
<1>4. (LoopHoldsWhileAcquiring /\ HandIsFresh /\ UnrecordedIsIdle)'
  BY DEF IInv, LoopHoldsWhileAcquiring, HandIsFresh, UnrecordedIsIdle, TypeOK, StoreTypeOK
<1>5. Queued \cup Held \subseteq Tasks
  BY ElementOfSeq, LenProperties DEF IInv, TypeOK, SchedulerTypeOK, Queued, Held
<1>6. WaitingIsPending'
  BY <1>2, <1>5 DEF IInv, WaitingIsPending
<1>7. NoneWaitsTwice'
  BY <1>2 DEF IInv, NoneWaitsTwice
<1>8. QED
  BY <1>1, <1>3, <1>4, <1>6, <1>7 DEF IInv

LEMMA ReceiveIInv ==
  ASSUME IInv, NEW t \in Tasks, Receive(t)
  PROVE  IInv'
<1> USE DEF Receive, schedulerVars, runnerVars, storeVars
<1>1. TypeOK'
  BY DEF IInv, TypeOK, StoreTypeOK, RunnerTypeOK, SchedulerTypeOK, MainPc
<1>2. Active' = Active /\ Queued' = Queued /\ Held' = Held
  BY DEF Active, Queued, Held
<1>3. IsFiniteSet(Active)' /\ PermitsAccounted'
  BY <1>2 DEF IInv, PermitsAccounted
<1>4. t \notin Queued \cup Held
  BY DEF IInv, WaitingIsPending
<1>5. (LoopHoldsWhileAcquiring /\ HandIsFresh /\ UnrecordedIsIdle)'
  BY <1>2, <1>4 DEF IInv, LoopHoldsWhileAcquiring, HandIsFresh, UnrecordedIsIdle
<1>6. (WaitingIsPending /\ NoneWaitsTwice)'
  BY <1>2 DEF IInv, WaitingIsPending, NoneWaitsTwice
<1>7. QED
  BY <1>1, <1>3, <1>5, <1>6 DEF IInv

LEMMA RecordPendingIInv == IInv /\ RecordPending => IInv'
<1> SUFFICES ASSUME IInv, RecordPending PROVE IInv'
  OBVIOUS
<1> USE DEF RecordPending, SetState, schedulerVars, runnerVars
<1>1. cur \in Tasks \ (Queued \cup Held) /\ runner[cur] = "idle" /\ events[cur] = <<>>
  BY DEF IInv, HandIsFresh
<1>2. TypeOK'
  BY <1>1 DEF IInv, TypeOK, StoreTypeOK, RunnerTypeOK, SchedulerTypeOK, TaskState, MainPc
<1>3. Active' = Active /\ Queued' = Queued /\ Held' = Held
  BY DEF Active, Queued, Held
<1>4. IsFiniteSet(Active)' /\ PermitsAccounted'
  BY <1>3 DEF IInv, PermitsAccounted
<1>5. (LoopHoldsWhileAcquiring /\ HandIsFresh /\ UnrecordedIsIdle)'
  BY <1>1, <1>3 DEF IInv, LoopHoldsWhileAcquiring, HandIsFresh, UnrecordedIsIdle,
                    TypeOK, StoreTypeOK
<1>6. WaitingIsPending' /\ NoneWaitsTwice'
  BY <1>1, <1>3 DEF IInv, WaitingIsPending, NoneWaitsTwice, TypeOK, StoreTypeOK
<1>7. QED
  BY <1>2, <1>4, <1>5, <1>6 DEF IInv

LEMMA TaskReceivedIInv == IInv /\ TaskReceived => IInv'
<1> SUFFICES ASSUME IInv, TaskReceived PROVE IInv'
  OBVIOUS
<1> USE DEF TaskReceived, Emit, schedulerVars, runnerVars
<1>1. /\ cur \in Tasks \ (Queued \cup Held)
      /\ runner[cur] = "idle"
      /\ events[cur] = <<>>
      /\ row[cur] = "pending"
  BY DEF IInv, HandIsFresh
<1>2. TypeOK'
  BY <1>1, AppendProperties
  DEF IInv, TypeOK, StoreTypeOK, RunnerTypeOK, SchedulerTypeOK, EventKind, MainPc
<1>3. Active' = Active /\ Queued' = Queued /\ Held' = Held
  BY DEF Active, Queued, Held
<1>4. IsFiniteSet(Active)' /\ PermitsAccounted'
  BY <1>3 DEF IInv, PermitsAccounted
<1>5. Append(<<>>, "task_received") = <<"task_received">>
  OBVIOUS
<1>6. (LoopHoldsWhileAcquiring /\ HandIsFresh /\ UnrecordedIsIdle)'
  BY <1>1, <1>3, <1>5 DEF IInv, LoopHoldsWhileAcquiring, HandIsFresh, UnrecordedIsIdle,
                          TypeOK, StoreTypeOK
<1>7. WaitingIsPending' /\ NoneWaitsTwice'
  BY <1>1, <1>3 DEF IInv, WaitingIsPending, NoneWaitsTwice, TypeOK, StoreTypeOK
<1>8. QED
  BY <1>2, <1>4, <1>6, <1>7 DEF IInv

LEMMA SubmitTaskIInv == IInv /\ SubmitTask => IInv'
<1> SUFFICES ASSUME IInv, SubmitTask PROVE IInv'
  OBVIOUS
<1> USE DEF SubmitTask, Submit, runnerVars, storeVars
<1>1. /\ cur \in Tasks \ (Queued \cup Held)
      /\ runner[cur] = "idle"
      /\ events[cur] = <<"task_received">>
      /\ row[cur] = "pending"
  BY DEF IInv, HandIsFresh
<1>2. /\ queue' \in Seq(Tasks)
      /\ Queued' = Queued \cup {cur}
      /\ \A i, j \in DOMAIN queue' : queue'[i] = queue'[j] => i = j
  <2>1. queue \in Seq(Tasks) /\ cur \in Tasks /\ cur \notin Elems(queue)
    BY <1>1 DEF IInv, TypeOK, SchedulerTypeOK, Queued, Elems
  <2>2. \A i, j \in DOMAIN queue : queue[i] = queue[j] => i = j
    BY DEF IInv, NoneWaitsTwice
  <2>3. queue' = Append(queue, cur) /\ Queued' = Elems(queue') /\ Queued = Elems(queue)
    BY DEF Queued, Elems
  <2>4. QED
    BY <2>1, <2>2, <2>3, ElemsOfAppend
<1>3. TypeOK'
  BY <1>2 DEF IInv, TypeOK, StoreTypeOK, RunnerTypeOK, SchedulerTypeOK, MainPc
<1>4. Active' = Active /\ Held' = Held
  BY DEF Active, Held
<1>5. IsFiniteSet(Active)' /\ PermitsAccounted'
  BY <1>4 DEF IInv, PermitsAccounted
<1>6. (LoopHoldsWhileAcquiring /\ HandIsFresh /\ UnrecordedIsIdle)'
  BY DEF IInv, LoopHoldsWhileAcquiring, HandIsFresh, UnrecordedIsIdle
<1>7. WaitingIsPending' /\ NoneWaitsTwice'
  BY <1>1, <1>2, <1>4 DEF IInv, WaitingIsPending, NoneWaitsTwice
<1>8. QED
  BY <1>3, <1>5, <1>6, <1>7 DEF IInv

\* End of input, the exit of main, and the loop's steps at the end.
LEMMA DrainIInv ==
  ASSUME IInv, UNCHANGED <<cur, boots, crashes, mine, queue, held, permits,
                           inFlight, runnerVars, storeVars>>,
         main' = main \/ (main \in {"receive", "drain"} /\ main' \in {"drain", "exited"}),
         loop' = loop \/ (loop \in {"recv", "join"} /\ loop' \in {"join", "exited"})
  PROVE  IInv'
<1> USE DEF runnerVars, storeVars
<1>1. TypeOK'
  BY DEF IInv, TypeOK, StoreTypeOK, RunnerTypeOK, SchedulerTypeOK, MainPc, LoopPc
<1>2. Active' = Active /\ Queued' = Queued /\ Held' = Held
  BY DEF Active, Queued, Held
<1>3. IsFiniteSet(Active)' /\ PermitsAccounted'
  BY <1>2 DEF IInv, PermitsAccounted
<1>4. (LoopHoldsWhileAcquiring /\ HandIsFresh /\ UnrecordedIsIdle)'
  BY <1>2 DEF IInv, LoopHoldsWhileAcquiring, HandIsFresh, UnrecordedIsIdle
<1>5. (WaitingIsPending /\ NoneWaitsTwice)'
  BY <1>2 DEF IInv, WaitingIsPending, NoneWaitsTwice
<1>6. QED
  BY <1>1, <1>3, <1>4, <1>5 DEF IInv

LEMMA RecvIInv ==
  ASSUME IInv, Recv, UNCHANGED mainVars
  PROVE  IInv'
<1> USE DEF Recv, runnerVars, storeVars, mainVars
<1>1. held = <<>> /\ Held = {}
  BY DEF IInv, LoopHoldsWhileAcquiring, Held
<1>2. /\ queue' \in Seq(Tasks)
      /\ Head(queue) \in Tasks
      /\ Queued = Queued' \cup {Head(queue)}
      /\ Head(queue) \notin Queued'
      /\ \A i, j \in DOMAIN queue' : queue'[i] = queue'[j] => i = j
  <2>1. queue \in Seq(Tasks) /\ queue # <<>>
    BY DEF IInv, TypeOK, SchedulerTypeOK
  <2>2. \A i, j \in DOMAIN queue : queue[i] = queue[j] => i = j
    BY DEF IInv, NoneWaitsTwice
  <2>3. queue' = Tail(queue) /\ Queued' = Elems(queue') /\ Queued = Elems(queue)
    BY DEF Queued, Elems
  <2>4. QED
    BY <2>1, <2>2, <2>3, ElemsOfTail
<1>3. held' = <<Head(queue)>> /\ Held' = {Head(queue)}
  BY DEF Held
<1>4. TypeOK'
  BY <1>2, <1>3 DEF IInv, TypeOK, StoreTypeOK, RunnerTypeOK, SchedulerTypeOK, LoopPc,
                    Unfinished
<1>5. Active' = Active
  BY DEF Active
<1>6. IsFiniteSet(Active)' /\ PermitsAccounted'
  BY <1>5 DEF IInv, PermitsAccounted
<1>7. LoopHoldsWhileAcquiring' /\ UnrecordedIsIdle'
  BY <1>2 DEF IInv, LoopHoldsWhileAcquiring, UnrecordedIsIdle
<1>8. (HandIsFresh /\ WaitingIsPending /\ NoneWaitsTwice)'
  BY <1>1, <1>2, <1>3 DEF IInv, HandIsFresh, WaitingIsPending, NoneWaitsTwice
<1>9. QED
  BY <1>4, <1>6, <1>7, <1>8 DEF IInv

\* The permit taken is the one the new runner holds.
LEMMA SpawnIInv ==
  ASSUME IInv, Spawn, UNCHANGED mainVars
  PROVE  IInv'
<1> USE DEF Spawn, storeVars, mainVars
<1>1. PICK t \in Tasks : held = <<t>>
  BY DEF IInv, LoopHoldsWhileAcquiring
<1>2. Head(held) = t /\ Held = {t} /\ Held' = {} /\ Queued' = Queued
  BY <1>1 DEF Held, Queued
<1>3. runner[t] = "idle" /\ row[t] = "pending" /\ t \notin Queued
  BY <1>2 DEF IInv, WaitingIsPending, NoneWaitsTwice
<1>4. runner' = [runner EXCEPT ![t] = "mark_running"] /\ runner \in [Tasks -> RunnerPc]
  BY <1>2 DEF IInv, TypeOK, RunnerTypeOK
<1>5. TypeOK'
  BY <1>2, <1>4, EmptySeq, MaxConcurrentAssumption
  DEF IInv, TypeOK, StoreTypeOK, RunnerTypeOK, SchedulerTypeOK, LoopPc,
      RunnerPc, Running, Fallible
<1>6. t \notin Active /\ Active' = Active \cup {t}
  BY <1>3, <1>4 DEF Active, Running, Fallible
<1>7. /\ IsFiniteSet(Active')
      /\ Cardinality(Active') = Cardinality(Active) + 1
      /\ Cardinality(Active) \in Nat
  BY <1>6, FS_AddElement, FS_CardinalityType DEF IInv
<1>8. PermitsAccounted'
  BY <1>7, MaxConcurrentAssumption DEF IInv, PermitsAccounted, TypeOK, SchedulerTypeOK
<1>9. LoopHoldsWhileAcquiring'
  BY DEF LoopHoldsWhileAcquiring
<1>10. HandIsFresh' /\ UnrecordedIsIdle'
  BY <1>2, <1>3, <1>4 DEF IInv, HandIsFresh, UnrecordedIsIdle
<1>11. (WaitingIsPending /\ NoneWaitsTwice)'
  BY <1>2, <1>3, <1>4 DEF IInv, WaitingIsPending, NoneWaitsTwice
<1>12. QED
  BY <1>5, <1>7, <1>8, <1>9, <1>10, <1>11 DEF IInv

\* A step of a runner that neither starts nor ends it disturbs its own task
\* only, which is past the waiting line and out of main's hand.
LEMMA RunnerStepFrame ==
  ASSUME IInv, NEW t \in Tasks, RunnerStep(t)
  PROVE  /\ RunnerTypeOK' /\ StoreTypeOK'
         /\ runner[t] \in Running /\ runner'[t] \in Running
         /\ row'[t] # "none" \/ row'[t] = row[t]
         /\ \A u \in Tasks \ {t} :
              runner'[u] = runner[u] /\ row'[u] = row[u] /\ events'[u] = events[u]
<1> USE DEF Goto, SetState, Emit, PersistReply, Quietly, storeVars,
            TypeOK, RunnerTypeOK, StoreTypeOK, RunnerPc, Running, Fallible
<1>0. TypeOK
  BY DEF IInv
<1>1. CASE MarkRunning(t)
  BY <1>0, <1>1 DEF MarkRunning, TaskState
<1>2. CASE TaskStarted(t)
  BY <1>0, <1>2, AppendProperties DEF TaskStarted, EventKind
<1>3. CASE ToolLoopReturns(t)
  BY <1>0, <1>3 DEF ToolLoopReturns
<1>4. CASE Persist(t)
  BY <1>0, <1>4 DEF Persist
<1>5. CASE Send(t)
  BY <1>0, <1>5 DEF Send
<1>6. CASE MarkDone(t)
  BY <1>0, <1>6 DEF MarkDone, TaskState
<1>7. CASE TaskDone(t)
  BY <1>0, <1>7, AppendProperties DEF TaskDone, EventKind
<1>8. CASE MarkFailed(t)
  BY <1>0, <1>8 DEF MarkFailed, TaskState
<1>9. CASE TaskFailed(t)
  BY <1>0, <1>9, AppendProperties DEF TaskFailed, EventKind
<1>10. CASE StatementFails(t)
  BY <1>0, <1>10, MaxErrorsAssumption DEF StatementFails, OnError
<1>11. QED
  BY <1>1, <1>2, <1>3, <1>4, <1>5, <1>6, <1>7, <1>8, <1>9, <1>10 DEF RunnerStep

LEMMA RunnerStepIInv ==
  ASSUME IInv, NEW t \in Tasks, RunnerStep(t), UNCHANGED schedulerVars, UNCHANGED mainVars
  PROVE  IInv'
<1> USE DEF schedulerVars, mainVars
<1>1. /\ RunnerTypeOK' /\ StoreTypeOK'
      /\ runner[t] \in Running /\ runner'[t] \in Running
      /\ row'[t] # "none" \/ row'[t] = row[t]
      /\ \A u \in Tasks \ {t} :
           runner'[u] = runner[u] /\ row'[u] = row[u] /\ events'[u] = events[u]
  BY RunnerStepFrame
<1>2. runner[t] # "idle"
  BY <1>1 DEF Running, Fallible
<1>3. TypeOK'
  BY <1>1 DEF IInv, TypeOK, SchedulerTypeOK
<1>4. Active' = Active /\ Queued' = Queued /\ Held' = Held
  BY <1>1 DEF Active, Queued, Held
<1>5. IsFiniteSet(Active)' /\ PermitsAccounted'
  BY <1>4 DEF IInv, PermitsAccounted
<1>6. Queued \cup Held \subseteq Tasks
  BY ElementOfSeq, LenProperties DEF IInv, TypeOK, SchedulerTypeOK, Queued, Held
<1>7. (LoopHoldsWhileAcquiring /\ HandIsFresh /\ UnrecordedIsIdle)'
  BY <1>1, <1>2, <1>4 DEF IInv, LoopHoldsWhileAcquiring, HandIsFresh, UnrecordedIsIdle
<1>8. (WaitingIsPending /\ NoneWaitsTwice)'
  BY <1>1, <1>2, <1>4, <1>6 DEF IInv, WaitingIsPending, NoneWaitsTwice
<1>9. QED
  BY <1>3, <1>5, <1>7, <1>8 DEF IInv

\* The end of a runner, by return or by panic, gives its permit back.
LEMMA RunnerEndsIInv ==
  ASSUME IInv, NEW t \in Tasks, RunnerReturns(t) \/ RunnerPanics(t), UNCHANGED mainVars
  PROVE  IInv'
<1> USE DEF storeVars, mainVars, ReturnPermit
<1>1. /\ runner[t] \in {"return", "tool_loop"}
      /\ runner' = [runner EXCEPT ![t] = "finished"]
      /\ permits' = permits + 1
      /\ UNCHANGED <<queue, held, inFlight, loop, delivered, storeVars>>
      /\ \/ UNCHANGED <<errors, panicked>>
         \/ /\ errors' = [errors EXCEPT ![t] = @ + 1] /\ errors[t] < MaxErrors
            /\ panicked' = panicked \cup {t}
  BY DEF RunnerReturns, RunnerPanics, Goto
<1>2. TypeOK
  BY DEF IInv
<1>3. /\ t \in Active /\ Active' = Active \ {t}
      /\ Queued' = Queued /\ Held' = Held
  BY <1>1, <1>2 DEF Active, Running, Fallible, Queued, Held, TypeOK, RunnerTypeOK
<1>4. /\ IsFiniteSet(Active')
      /\ Cardinality(Active') = Cardinality(Active) - 1
      /\ Cardinality(Active) \in Nat /\ Cardinality(Active') \in Nat
  BY <1>3, FS_RemoveElement, FS_CardinalityType DEF IInv
<1>5. PermitsAccounted' /\ permits' \in 0..MaxConcurrent
  BY <1>1, <1>2, <1>4, MaxConcurrentAssumption
  DEF IInv, PermitsAccounted, TypeOK, SchedulerTypeOK
<1>6. TypeOK'
  <2>1. errors' \in [Tasks -> 0..MaxErrors]
    <3>1. errors \in [Tasks -> 0..MaxErrors]
      BY <1>2 DEF TypeOK, RunnerTypeOK
    <3>2. CASE errors' = errors
      BY <3>1, <3>2
    <3>3. CASE errors' = [errors EXCEPT ![t] = @ + 1] /\ errors[t] < MaxErrors
      BY <3>1, <3>3, MaxErrorsAssumption
    <3>4. QED
      BY <1>1, <3>2, <3>3
  <2>2. RunnerTypeOK'
    BY <1>1, <1>2, <2>1 DEF TypeOK, RunnerTypeOK, RunnerPc
  <2>3. QED
    BY <1>1, <1>2, <1>5, <2>2 DEF TypeOK, StoreTypeOK, SchedulerTypeOK
<1>7. (LoopHoldsWhileAcquiring /\ HandIsFresh /\ UnrecordedIsIdle)'
  BY <1>1, <1>2, <1>3 DEF IInv, LoopHoldsWhileAcquiring, HandIsFresh, UnrecordedIsIdle,
                          TypeOK, RunnerTypeOK
<1>8. (WaitingIsPending /\ NoneWaitsTwice)'
  BY <1>1, <1>2, <1>3 DEF IInv, WaitingIsPending, NoneWaitsTwice, TypeOK, RunnerTypeOK
<1>9. QED
  BY <1>4, <1>5, <1>6, <1>7, <1>8 DEF IInv

LEMMA NextIInv == IInv /\ [Next]_vars => IInv'
<1> SUFFICES ASSUME IInv, [Next]_vars PROVE IInv'
  OBVIOUS
<1>1. CASE Boot
  <2>1. boots' \in 0..MaxBoots /\ crashes' \in 0..MaxCrashes
    BY <1>1, BootsAssumption DEF Boot, IInv, TypeOK
  <2>2. QED
    BY <1>1, <2>1, FreshIInv DEF Boot
<1>2. CASE AbnormalEnd
  <2>1. boots' \in 0..MaxBoots /\ crashes' \in 0..MaxCrashes
    BY <1>2, BootsAssumption DEF AbnormalEnd, IInv, TypeOK
  <2>2. QED
    BY <1>2, <2>1, FreshIInv DEF AbnormalEnd
<1>3. CASE Main
  <2>1. CASE Exit
    BY <2>1, DrainIInv DEF Exit, schedulerVars
  <2>2. QED
    BY <1>3, <2>1, RecoverIInv, RecordPendingIInv, TaskReceivedIInv, SubmitTaskIInv
    DEF Main
<1>4. CASE \E t \in Tasks : Receive(t)
  BY <1>4, ReceiveIInv
<1>5. CASE EndOfInput
  BY <1>5, DrainIInv DEF EndOfInput, schedulerVars
<1>6. CASE SchedulerLoop
  <2>1. CASE Recv
    BY <1>6, <2>1, RecvIInv DEF SchedulerLoop
  <2>2. CASE Spawn
    BY <1>6, <2>2, SpawnIInv DEF SchedulerLoop
  <2>3. CASE RecvClosed(main = "drain") \/ JoinAll
    BY <1>6, <2>3, DrainIInv DEF SchedulerLoop, RecvClosed, JoinAll, mainVars
  <2>4. QED
    BY <1>6, <2>1, <2>2, <2>3 DEF SchedulerLoop
<1>7. CASE \E t \in Tasks : Runner(t)
  BY <1>7, RunnerStepIInv, RunnerEndsIInv DEF Runner, RunnerNext
<1>8. CASE UNCHANGED vars
  BY <1>8, DrainIInv DEF vars, mainVars, schedulerVars
<1>9. QED
  BY <1>1, <1>2, <1>3, <1>4, <1>5, <1>6, <1>7, <1>8 DEF Next, Stopped

\* The inductive invariant holds in every reachable state.
THEOREM Invariance == Spec => []IInv
<1>1. Init => IInv
  BY InitIInv
<1>2. IInv /\ [Next]_vars => IInv'
  BY NextIInv
<1>3. QED
  BY <1>1, <1>2, PTL DEF Spec

-----------------------------------------------------------------------------
(* The results.                                                            *)

\* Every variable of the chat process and of the store keeps its type.
THEOREM TypeCorrect == Spec => []TypeOK
<1>1. IInv => TypeOK
  BY DEF IInv
<1>2. QED
  BY <1>1, Invariance, PTL

\* A permit is out exactly while a runner is alive, however runners end.
THEOREM PermitsAreAccounted == Spec => []PermitsAccounted
<1>1. IInv => PermitsAccounted
  BY DEF IInv
<1>2. QED
  BY <1>1, Invariance, PTL

\* At most max_concurrent_tasks runners are alive at any time.
THEOREM ConcurrencyIsBounded == Spec => [](Cardinality(Active) <= MaxConcurrent)
<1>1. IInv => Cardinality(Active) <= MaxConcurrent
  BY FS_CardinalityType, MaxConcurrentAssumption
  DEF IInv, PermitsAccounted, TypeOK, SchedulerTypeOK
<1>2. QED
  BY <1>1, Invariance, PTL

\* A runner is only ever started on a task that is recorded as pending.
THEOREM RunnersStartFromPending == Spec => StartsFromPending
<1> DEFINE Starts(t) == runner[t] # "mark_running" /\ runner'[t] = "mark_running"
<1>1. ASSUME IInv, [Next]_vars, NEW t \in Tasks, Starts(t)
      PROVE  row[t] = "pending" /\ Replay(t) = "pending"
  <2>1. CASE Boot \/ AbnormalEnd
    BY <1>1, <2>1 DEF Boot, AbnormalEnd, FreshMemory
  <2>2. CASE UNCHANGED runner
    BY <1>1, <2>2
  <2>3. CASE Spawn
    <3>1. PICK u \in Tasks : held = <<u>>
      BY <1>1, <2>3 DEF IInv, LoopHoldsWhileAcquiring, Spawn
    <3>2. t = u
      BY <1>1, <2>3, <3>1 DEF Spawn, IInv, TypeOK, RunnerTypeOK
    <3>3. row[t] = "pending" /\ events[t] = <<"task_received">>
      BY <1>1, <3>1, <3>2 DEF IInv, WaitingIsPending, Held
    <3>4. QED
      BY <3>3 DEF Replay
  <2>4. CASE \E u \in Tasks : RunnerNext(u)
    BY <1>1, <2>4
    DEF RunnerNext, RunnerStep, MarkRunning, TaskStarted, ToolLoopReturns, Persist, Send,
        MarkDone, TaskDone, MarkFailed, TaskFailed, StatementFails, OnError,
        RunnerReturns, RunnerPanics, Goto, IInv, TypeOK, RunnerTypeOK
  <2>5. QED
    BY <1>1, <2>1, <2>2, <2>3, <2>4
    DEF Next, Main, Recover, Receive, RecordPending, TaskReceived, SubmitTask, EndOfInput,
        Exit, SchedulerLoop, Runner, Stopped, Recv, RecvClosed, JoinAll, runnerVars, vars
<1>2. IInv /\ [Next]_vars => [\A t \in Tasks : Starts(t) => row[t] = "pending" /\ Replay(t) = "pending"]_vars
  BY <1>1
<1>3. QED
  BY <1>2, Invariance, PTL DEF Spec, StartsFromPending

-----------------------------------------------------------------------------
(* The story of a task: what the statement its runner is about to execute  *)
(* says of its row, its log, its errors and its answer.                    *)

Received  == <<"task_received">>
Started   == <<"task_received", "task_started">>
ToldDone  == <<"task_received", "task_started", "task_done_ok">>
ToldEarly == <<"task_received", "task_done_err">>
ToldLate  == <<"task_received", "task_started", "task_done_err">>

\* Every log there is, with the rows it may stand beside.
LogFits(t) ==
  \/ events[t] = <<>> /\ row[t] \in {"none", "pending"}
  \/ events[t] = Received /\ row[t] # "none"
  \/ events[t] = Started /\ row[t] \in {"running", "done", "failed"}
  \/ events[t] = ToldDone /\ row[t] = "done"
  \/ events[t] \in {ToldEarly, ToldLate} /\ row[t] = "failed"

AnswerFits(t) ==
  /\ t \in delivered => t \in replied
  /\ row[t] = "done" => t \in delivered

\* A runner on its way, at its error arm, and at its end.
OnTheWay(t) ==
  /\ runner[t] = "mark_running" =>
       events[t] = Received /\ row[t] = "pending" /\ errors[t] = 0
  /\ runner[t] = "task_started" =>
       events[t] = Received /\ row[t] = "running" /\ errors[t] = 0
  /\ runner[t] \in {"tool_loop", "persist_reply", "send", "mark_done"} =>
       events[t] = Started /\ row[t] = "running" /\ errors[t] = 0
  /\ runner[t] = "task_done" =>
       events[t] = Started /\ row[t] = "done" /\ errors[t] = 0
  /\ runner[t] = "send" => t \in replied
  /\ runner[t] = "mark_done" => t \in delivered

AtErrorArm(t) ==
  /\ runner[t] \in {"mark_failed", "task_failed"} =>
       events[t] \in {Received, Started} /\ errors[t] = 1
  /\ runner[t] = "task_failed" => row[t] = "failed"

AtTheEnd(t) ==
  runner[t] \in {"return", "finished"} /\ t \notin panicked =>
    /\ errors[t] = 0 => row[t] = "done" /\ events[t] = ToldDone
    /\ errors[t] = 1 => row[t] = "failed" /\ events[t] \in {ToldEarly, ToldLate}

PanicEnds(t) == runner[t] \in Running => t \notin panicked

Story(t) ==
  LogFits(t) /\ AnswerFits(t) /\ OnTheWay(t) /\ AtErrorArm(t) /\ AtTheEnd(t)
    /\ PanicEnds(t)

\* What has not begun has had no error, and a panic is counted as one.
Unbegun == Queued \cup Held \cup {cur}
UnbegunIsClean ==
  \A t \in Tasks :
    /\ row[t] = "none" \/ t \in Unbegun => errors[t] = 0 /\ t \notin panicked
    /\ t \in panicked => errors[t] # 0

\* Recovery meets no runner of its own process, and leaves no running row
\* without one.
RecoveryComesFirst ==
  /\ main = "recover" =>
       queue = <<>> /\ held = <<>> /\ \A t \in Tasks : runner[t] = "idle"
  /\ Up /\ main # "recover" =>
       \A t \in Tasks : runner[t] = "idle" => row[t] # "running"

\* No task of this process is lost sight of before the loop has ended.
NothingIsLost ==
  /\ \A t \in mine : t \in Unbegun \/ runner[t] # "idle"
  /\ Active \subseteq inFlight
  /\ loop \in {"join", "exited"} => main \in {"drain", "exited"} /\ queue = <<>>
  /\ loop = "exited" => Active = {}
  /\ main = "exited" => loop = "exited"

StoryInv ==
  /\ \A t \in Tasks : Story(t)
  /\ UnbegunIsClean
  /\ RecoveryComesFirst
  /\ NothingIsLost

\* The logs are different, and the next is the last with its event.
LEMMA Logs ==
  /\ Append(<<>>, "task_received") = Received
  /\ Append(Received, "task_started") = Started
  /\ Append(Started, "task_done_ok") = ToldDone
  /\ Append(Received, "task_done_err") = ToldEarly
  /\ Append(Started, "task_done_err") = ToldLate
  /\ Received # <<>> /\ Started # <<>> /\ Received # Started
  /\ ToldDone \notin {<<>>, Received, Started, ToldEarly, ToldLate}
  /\ ToldEarly \notin {<<>>, Received, Started}
  /\ ToldLate \notin {<<>>, Received, Started}
<1> USE DEF Received, Started, ToldDone, ToldEarly, ToldLate
<1> DEFINE Kinds == {"task_received", "task_started", "task_done_ok", "task_done_err"}
<1>1. /\ Received \in Seq(Kinds) /\ Started \in Seq(Kinds)
      /\ ToldDone \in Seq(Kinds) /\ ToldEarly \in Seq(Kinds) /\ ToldLate \in Seq(Kinds)
  OBVIOUS
<1>2. /\ Len(<<>>) = 0 /\ Len(Received) = 1 /\ Len(Started) = 2
      /\ Len(ToldEarly) = 2 /\ Len(ToldLate) = 3 /\ Len(ToldDone) = 3
  OBVIOUS
<1>3. /\ Received[1] = "task_received"
      /\ Started[1] = "task_received" /\ Started[2] = "task_started"
      /\ ToldEarly[1] = "task_received" /\ ToldEarly[2] = "task_done_err"
  OBVIOUS
<1>4. ToldLate[1] = "task_received" /\ ToldLate[2] = "task_started"
      /\ ToldLate[3] = "task_done_err"
  OBVIOUS
<1>5. ToldDone[1] = "task_received" /\ ToldDone[2] = "task_started"
      /\ ToldDone[3] = "task_done_ok"
  OBVIOUS
<1>6. Append(<<>>, "task_received") = Received
  OBVIOUS
<1> HIDE DEF Received, Started, ToldDone, ToldEarly, ToldLate
<1>7. ASSUME NEW log \in Seq(Kinds), NEW next \in Seq(Kinds), NEW kind \in Kinds,
             Len(next) = Len(log) + 1, next[Len(log) + 1] = kind,
             \A i \in 1..Len(log) : next[i] = log[i]
      PROVE  Append(log, kind) = next
  <2> HIDE DEF Kinds
  <2>1. /\ Append(log, kind) \in Seq(Kinds)
        /\ Len(Append(log, kind)) = Len(log) + 1
        /\ \A i \in 1..Len(log) : Append(log, kind)[i] = log[i]
        /\ Append(log, kind)[Len(log) + 1] = kind
    BY AppendProperties
  <2>2. Len(log) \in Nat
    BY LenProperties
  <2>3. \A i \in 1..Len(next) : i \in 1..Len(log) \/ i = Len(log) + 1
    BY <1>7, <2>2
  <2>4. \A i \in 1..Len(next) : Append(log, kind)[i] = next[i]
    BY <1>7, <2>1, <2>3
  <2>5. QED
    BY <1>7, <2>1, <2>4, SeqEqual
<1>8. Append(Received, "task_started") = Started
  <2>1. \A i \in 1..Len(Received) : Started[i] = Received[i]
    BY <1>2, <1>3
  <2>2. /\ Len(Started) = Len(Received) + 1
        /\ Started[Len(Received) + 1] = "task_started"
        /\ "task_started" \in Kinds
    BY <1>2, <1>3
  <2>3. QED
    <3> HIDE DEF Kinds
    <3> QED BY <1>1, <1>7, <2>1, <2>2
<1>9. Append(Started, "task_done_ok") = ToldDone
  <2>1. \A i \in 1..Len(Started) : ToldDone[i] = Started[i]
    BY <1>2, <1>3, <1>5
  <2>2. /\ Len(ToldDone) = Len(Started) + 1
        /\ ToldDone[Len(Started) + 1] = "task_done_ok"
        /\ "task_done_ok" \in Kinds
    BY <1>2, <1>5
  <2>3. QED
    <3> HIDE DEF Kinds
    <3> QED BY <1>1, <1>7, <2>1, <2>2
<1>10. Append(Received, "task_done_err") = ToldEarly
  <2>1. \A i \in 1..Len(Received) : ToldEarly[i] = Received[i]
    BY <1>2, <1>3
  <2>2. /\ Len(ToldEarly) = Len(Received) + 1
        /\ ToldEarly[Len(Received) + 1] = "task_done_err"
        /\ "task_done_err" \in Kinds
    BY <1>2, <1>3
  <2>3. QED
    <3> HIDE DEF Kinds
    <3> QED BY <1>1, <1>7, <2>1, <2>2
<1>11. Append(Started, "task_done_err") = ToldLate
  <2>1. \A i \in 1..Len(Started) : ToldLate[i] = Started[i]
    BY <1>2, <1>3, <1>4
  <2>2. /\ Len(ToldLate) = Len(Started) + 1
        /\ ToldLate[Len(Started) + 1] = "task_done_err"
        /\ "task_done_err" \in Kinds
    BY <1>2, <1>4
  <2>3. QED
    <3> HIDE DEF Kinds
    <3> QED BY <1>1, <1>7, <2>1, <2>2
<1>12. Received # <<>> /\ Started # <<>> /\ Received # Started
  BY <1>2
<1>13. ToldDone \notin {<<>>, Received, Started, ToldEarly, ToldLate}
  BY <1>2, <1>4, <1>5
<1>14. ToldEarly \notin {<<>>, Received, Started}
  BY <1>2, <1>3
<1>15. ToldLate \notin {<<>>, Received, Started}
  BY <1>2
<1>16. QED
  BY <1>6, <1>8, <1>9, <1>10, <1>11, <1>12, <1>13, <1>14, <1>15

\* A task nobody has touched keeps its story.
LEMMA SameStory ==
  ASSUME NEW u \in Tasks, Story(u),
         row'[u] = row[u], events'[u] = events[u], runner'[u] = runner[u],
         errors'[u] = errors[u],
         u \in delivered' <=> u \in delivered,
         u \in replied' <=> u \in replied,
         u \in panicked' <=> u \in panicked
  PROVE  Story(u)'
BY DEF Story, LogFits, AnswerFits, OnTheWay, AtErrorArm, AtTheEnd, PanicEnds

\* So does one whose runner is gone, as long as its row and its log agree.
LEMMA IdleStory ==
  ASSUME NEW u \in Tasks, runner'[u] = "idle", LogFits(u)', AnswerFits(u)'
  PROVE  Story(u)'
BY DEF Story, OnTheWay, AtErrorArm, AtTheEnd, PanicEnds, Running, Fallible

LEMMA StoryInit == Init => StoryInv
<1> SUFFICES ASSUME Init PROVE StoryInv
  OBVIOUS
<1> USE DEF Init, StoreInit, RunnerInit, SchedulerInit
<1>1. \A t \in Tasks : Story(t)
  BY DEF Story, LogFits, AnswerFits, OnTheWay, AtErrorArm, AtTheEnd, PanicEnds,
         Running, Fallible
<1>2. UnbegunIsClean
  BY DEF UnbegunIsClean
<1>3. RecoveryComesFirst
  BY DEF RecoveryComesFirst, Up, Ended
<1>4. NothingIsLost
  BY DEF NothingIsLost, Active, Running, Fallible
<1>5. QED
  BY <1>1, <1>2, <1>3, <1>4 DEF StoryInv

\* A process that starts or goes down takes its runners with it.
LEMMA FreshStory ==
  ASSUME IInv, StoryInv, FreshMemory,
         UNCHANGED <<delivered, errors, panicked, storeVars>>,
         main' \in {"recover", "crashed"}
  PROVE  StoryInv'
<1> USE DEF FreshMemory, storeVars
<1>1. ASSUME NEW t \in Tasks PROVE Story(t)'
  <2>1. runner'[t] = "idle"
    OBVIOUS
  <2>2. LogFits(t)' /\ AnswerFits(t)'
    BY DEF StoryInv, Story, LogFits, AnswerFits
  <2>3. QED
    BY <2>1, <2>2, IdleStory
<1>2. UnbegunIsClean'
  <2>1. Unbegun' = {NoTask}
    BY DEF Unbegun, Queued, Held
  <2>2. QED
    BY <2>1, NoTaskAssumption DEF StoryInv, UnbegunIsClean
<1>3. RecoveryComesFirst'
  BY DEF RecoveryComesFirst, Up, Ended
<1>4. NothingIsLost'
  BY DEF NothingIsLost, Active, Running, Fallible
<1>5. QED
  BY <1>1, <1>2, <1>3, <1>4 DEF StoryInv

\* Recovery flips rows whose runners are gone.
LEMMA RecoverStory == IInv /\ StoryInv /\ Recover => StoryInv'
<1> SUFFICES ASSUME IInv, StoryInv, Recover PROVE StoryInv'
  OBVIOUS
<1> USE DEF Recover, RecoverRows, schedulerVars, runnerVars
<1>1. \A t \in Tasks : runner[t] = "idle" /\ runner'[t] = "idle"
  BY DEF StoryInv, RecoveryComesFirst
<1>2. ASSUME NEW t \in Tasks PROVE Story(t)'
  <2>1. row'[t] = IF row[t] = "running" THEN "failed" ELSE row[t]
    OBVIOUS
  <2>2. LogFits(t) /\ AnswerFits(t)
    BY DEF StoryInv, Story
  <2>3. LogFits(t)' /\ AnswerFits(t)'
    BY <2>1, <2>2 DEF LogFits, AnswerFits
  <2>4. QED
    BY <1>1, <2>3, IdleStory
<1>3. Unbegun' = Unbegun /\ Active' = Active
  BY DEF Unbegun, Queued, Held, Active
<1>4. UnbegunIsClean'
  BY <1>3 DEF StoryInv, UnbegunIsClean
<1>5. RecoveryComesFirst'
  BY DEF RecoveryComesFirst
<1>6. NothingIsLost'
  BY <1>3 DEF StoryInv, NothingIsLost
<1>7. QED
  BY <1>2, <1>4, <1>5, <1>6 DEF StoryInv

\* Main's steps with the task it has in hand.
LEMMA HandStory ==
  ASSUME IInv, StoryInv,
         RecordPending \/ TaskReceived \/ SubmitTask \/ \E t \in Tasks : Receive(t)
  PROVE  StoryInv'
<1> USE DEF runnerVars
<1>1. /\ UNCHANGED <<runner, errors, panicked, delivered, replied>>
      /\ UNCHANGED <<held, inFlight, loop>>
      /\ main \in {"receive", "insert", "task_received", "submit"}
      /\ main' \in {"receive", "insert", "task_received", "submit"}
      /\ Active' = Active
  BY DEF RecordPending, TaskReceived, SubmitTask, Receive, SetState, Emit, Submit,
         schedulerVars, storeVars, Active
<1>2. \A t \in Tasks :
        \/ row'[t] = row[t] /\ events'[t] = events[t]
        \/ /\ t = cur /\ runner[t] = "idle"
           /\ \/ row[t] = "none" /\ row'[t] = "pending" /\ events'[t] = <<>>
              \/ row'[t] = "pending" /\ events'[t] = Received
  <2>1. CASE RecordPending
    BY <2>1 DEF RecordPending, SetState, IInv, HandIsFresh, TypeOK, StoreTypeOK
  <2>2. CASE TaskReceived
    BY <2>2, Logs DEF TaskReceived, Emit, IInv, HandIsFresh, TypeOK, StoreTypeOK
  <2>3. CASE SubmitTask \/ \E t \in Tasks : Receive(t)
    BY <2>3 DEF SubmitTask, Receive, storeVars
  <2>4. QED
    BY <2>1, <2>2, <2>3
<1>3. ASSUME NEW t \in Tasks PROVE Story(t)'
  <2>1. Story(t)
    BY DEF StoryInv
  <2>2. CASE row'[t] = row[t] /\ events'[t] = events[t]
    BY <1>1, <2>1, <2>2, SameStory
  <2>3. CASE runner[t] = "idle" /\ row'[t] = "pending" /\ events'[t] \in {<<>>, Received}
    <3>1. LogFits(t)'
      BY <2>3 DEF LogFits
    <3>2. AnswerFits(t)'
      BY <1>1, <2>1, <2>3 DEF Story, AnswerFits
    <3>3. QED
      BY <1>1, <2>3, <3>1, <3>2, IdleStory
  <2>4. QED
    BY <1>2, <2>2, <2>3
<1>4. ASSUME NEW t \in Tasks, row'[t] = "none" \/ t \in Unbegun'
      PROVE  row[t] = "none" \/ t \in Unbegun
  <2>1. CASE SubmitTask
    <3>1. Queued' = Queued \cup {cur} /\ cur' = NoTask /\ Held' = Held /\ row' = row
      <4>1. queue' = Append(queue, cur) /\ queue \in Seq(Tasks) /\ cur \in Tasks
        BY <2>1 DEF SubmitTask, Submit, IInv, HandIsFresh, TypeOK, SchedulerTypeOK
      <4>2. Queued' = Elems(queue') /\ Queued = Elems(queue)
        BY DEF Queued, Elems
      <4>3. QED
        BY <1>1, <2>1, <4>1, <4>2, ElemsOfAppend DEF SubmitTask, Held, storeVars
    <3>2. QED
      BY <1>4, <3>1, NoTaskAssumption DEF Unbegun
  <2>2. CASE RecordPending \/ TaskReceived \/ \E u \in Tasks : Receive(u)
    <3>1. Queued' = Queued /\ Held' = Held
      BY <2>2 DEF RecordPending, TaskReceived, Receive, schedulerVars, Queued, Held
    <3>2. cur' = cur \/ row[cur'] = "none"
      BY <2>2 DEF RecordPending, TaskReceived, Receive
    <3>3. row'[t] = "none" => row[t] = "none"
      BY <1>2
    <3>4. QED
      BY <1>4, <3>1, <3>2, <3>3 DEF Unbegun
  <2>3. QED
    BY <2>1, <2>2
<1>5. UnbegunIsClean'
  BY <1>1, <1>4 DEF StoryInv, UnbegunIsClean
<1>6. RecoveryComesFirst'
  BY <1>1, <1>2 DEF StoryInv, RecoveryComesFirst, Up, Ended
<1>7. \A t \in mine' : t \in Unbegun' \/ runner'[t] # "idle"
  <2>1. \A t \in mine : t \in Tasks /\ t # NoTask /\ (t \in Unbegun \/ runner[t] # "idle")
    BY NoTaskAssumption DEF StoryInv, NothingIsLost, IInv, TypeOK
  <2>2. CASE SubmitTask
    <3>1. queue' = Append(queue, cur) /\ queue \in Seq(Tasks) /\ cur \in Tasks
      BY <2>2 DEF SubmitTask, Submit, IInv, HandIsFresh, TypeOK, SchedulerTypeOK
    <3>2. Queued' = Elems(queue') /\ Queued = Elems(queue)
      BY DEF Queued, Elems
    <3>3. Queued' = Queued \cup {cur} /\ Held' = Held /\ mine' = mine
      BY <1>1, <2>2, <3>1, <3>2, ElemsOfAppend DEF SubmitTask, Held
    <3>4. QED
      BY <1>1, <2>1, <3>3 DEF Unbegun
  <2>3. CASE RecordPending \/ TaskReceived
    <3>1. Unbegun' = Unbegun /\ cur \in Unbegun /\ mine' \subseteq mine \cup {cur}
      BY <2>3 DEF RecordPending, TaskReceived, schedulerVars, Unbegun, Queued, Held
    <3>2. QED
      BY <1>1, <2>1, <3>1
  <2>4. CASE \E t \in Tasks : Receive(t)
    <3>1. cur = NoTask /\ Queued' = Queued /\ Held' = Held /\ mine' = mine
      BY <2>4 DEF Receive, IInv, HandIsFresh, schedulerVars, Queued, Held
    <3>2. QED
      BY <1>1, <2>1, <3>1 DEF Unbegun
  <2>5. QED
    BY <2>2, <2>3, <2>4
<1>8. NothingIsLost'
  BY <1>1, <1>7 DEF StoryInv, NothingIsLost
<1>9. QED
  BY <1>3, <1>5, <1>6, <1>8 DEF StoryInv

\* The scheduler loop moves a task along, and knows of all that run.
LEMMA RecvStory ==
  ASSUME IInv, StoryInv, Up, Recv, UNCHANGED mainVars
  PROVE  StoryInv'
<1> USE DEF Recv, runnerVars, storeVars, mainVars
<1>1. \A t \in Tasks : Story(t)'
  BY SameStory DEF StoryInv
<1>2. Queued' \cup Held' = Queued \cup Held
  <2>1. queue \in Seq(Tasks) /\ queue # <<>> /\ held = <<>>
    BY DEF IInv, TypeOK, SchedulerTypeOK, LoopHoldsWhileAcquiring
  <2>2. \A i, j \in DOMAIN queue : queue[i] = queue[j] => i = j
    BY DEF IInv, NoneWaitsTwice
  <2>3. queue' = Tail(queue) /\ Queued' = Elems(queue') /\ Queued = Elems(queue)
    BY DEF Queued, Elems
  <2>4. Held' = {Head(queue)} /\ Held = {}
    BY <2>1 DEF Held
  <2>5. QED
    BY <2>1, <2>2, <2>3, <2>4, ElemsOfTail
<1>3. Unbegun' = Unbegun /\ Active' = Active
  BY <1>2 DEF Unbegun, Active
<1>4. UnbegunIsClean'
  BY <1>3 DEF StoryInv, UnbegunIsClean
<1>5. main # "recover"
  BY DEF StoryInv, RecoveryComesFirst
<1>6. RecoveryComesFirst'
  BY <1>5 DEF StoryInv, RecoveryComesFirst, Up
<1>7. Active \subseteq Unfinished(inFlight)
  BY DEF StoryInv, NothingIsLost, Active, Running, Fallible, Unfinished
<1>8. NothingIsLost'
  BY <1>3, <1>7 DEF StoryInv, NothingIsLost
<1>9. QED
  BY <1>1, <1>4, <1>6, <1>8 DEF StoryInv

LEMMA SpawnStory ==
  ASSUME IInv, StoryInv, Up, Spawn, UNCHANGED mainVars
  PROVE  StoryInv'
<1> USE DEF Spawn, storeVars, mainVars
<1>1. PICK t \in Tasks : held = <<t>>
  BY DEF IInv, LoopHoldsWhileAcquiring
<1>2. Head(held) = t /\ Held = {t} /\ Held' = {} /\ Queued' = Queued
  BY <1>1 DEF Held, Queued
<1>3. row[t] = "pending" /\ events[t] = Received /\ errors[t] = 0 /\ t \notin panicked
  BY <1>2 DEF IInv, WaitingIsPending, Received, StoryInv, UnbegunIsClean, Unbegun
<1>4. runner' = [runner EXCEPT ![t] = "mark_running"] /\ runner \in [Tasks -> RunnerPc]
  BY <1>2 DEF IInv, TypeOK, RunnerTypeOK
<1>5. ASSUME NEW u \in Tasks PROVE Story(u)'
  <2>1. CASE u # t
    BY <1>4, <2>1, SameStory DEF StoryInv
  <2>2. CASE u = t
    <3>1. LogFits(t)' /\ AnswerFits(t)'
      BY DEF StoryInv, Story, LogFits, AnswerFits
    <3>2. QED
      BY <1>3, <1>4, <2>2, <3>1
      DEF Story, OnTheWay, AtErrorArm, AtTheEnd, PanicEnds
  <2>3. QED
    BY <2>1, <2>2
<1>6. Unbegun' \subseteq Unbegun /\ Unbegun \subseteq Unbegun' \cup {t}
  BY <1>2 DEF Unbegun
<1>7. UnbegunIsClean'
  BY <1>6 DEF StoryInv, UnbegunIsClean
<1>8. main # "recover"
  BY <1>1 DEF StoryInv, RecoveryComesFirst
<1>9. RecoveryComesFirst'
  BY <1>4, <1>8 DEF StoryInv, RecoveryComesFirst, Up
<1>10. Active' \subseteq Active \cup {t}
  BY <1>4 DEF Active
<1>11. mine \subseteq Tasks
  BY DEF IInv, TypeOK
<1>12. NothingIsLost'
  BY <1>2, <1>4, <1>6, <1>10, <1>11 DEF StoryInv, NothingIsLost
<1>13. QED
  BY <1>5, <1>7, <1>9, <1>12 DEF StoryInv

\* Steps at the end of a process, with the loop drained and joined.
LEMMA DrainStory ==
  ASSUME IInv, StoryInv,
         UNCHANGED <<cur, mine, queue, held, inFlight, runnerVars, storeVars>>,
         \/ main = "receive" /\ main' = "drain" /\ loop' = loop
         \/ main = "drain" /\ loop = "exited" /\ main' = "exited" /\ loop' = loop
         \/ main = "drain" /\ queue = <<>> /\ main' = main /\ loop' = "join"
         \/ /\ loop = "join" /\ Unfinished(inFlight) = {}
            /\ main' = main /\ loop' = "exited"
         \/ main' = main /\ loop' = loop
  PROVE  StoryInv'
<1> USE DEF runnerVars, storeVars
<1>1. \A t \in Tasks : Story(t)'
  BY SameStory DEF StoryInv
<1>2. Unbegun' = Unbegun /\ Active' = Active
  BY DEF Unbegun, Queued, Held, Active
<1>3. UnbegunIsClean'
  BY <1>2 DEF StoryInv, UnbegunIsClean
<1>4. RecoveryComesFirst'
  BY DEF StoryInv, RecoveryComesFirst, Up, Ended
<1>5. Active \subseteq Unfinished(inFlight)
  BY DEF StoryInv, NothingIsLost, Active, Running, Fallible, Unfinished
<1>6. NothingIsLost'
  BY <1>2, <1>5 DEF StoryInv, NothingIsLost
<1>7. QED
  BY <1>1, <1>3, <1>4, <1>6 DEF StoryInv

\* A statement of a runner: the log and the row go on together.
LEMMA StatementStory ==
  ASSUME IInv, NEW t \in Tasks, Story(t), RunnerStep(t)
  PROVE  /\ Story(t)'
         /\ row[t] = "failed" => row'[t] = "failed"
         /\ row[t] = "done" => row'[t] = "done" \/ errors[t] > 0
         /\ \A u \in Tasks \ {t} :
              /\ errors'[u] = errors[u]
              /\ u \in delivered' <=> u \in delivered
              /\ u \in replied' <=> u \in replied
         /\ panicked' = panicked
<1> USE DEF Goto, SetState, Emit, PersistReply, Quietly, storeVars
<1>1. /\ row \in [Tasks -> TaskState]
      /\ events \in [Tasks -> Seq(EventKind)]
      /\ runner \in [Tasks -> RunnerPc]
      /\ errors \in [Tasks -> 0..MaxErrors]
  BY DEF IInv, TypeOK, StoreTypeOK, RunnerTypeOK
<1>2. /\ LogFits(t) /\ AnswerFits(t) /\ OnTheWay(t) /\ AtErrorArm(t) /\ AtTheEnd(t)
      /\ PanicEnds(t)
  BY DEF Story
<1>3. t \notin panicked
  BY <1>2, RunnerStepFrame DEF PanicEnds
<1> USE DEF Story, LogFits, AnswerFits, OnTheWay, AtErrorArm, AtTheEnd, PanicEnds
<1>4. CASE MarkRunning(t)
  BY <1>1, <1>2, <1>3, <1>4 DEF MarkRunning
<1>5. CASE TaskStarted(t)
  BY <1>1, <1>2, <1>3, <1>5, Logs DEF TaskStarted
<1>6. CASE ToolLoopReturns(t)
  BY <1>1, <1>2, <1>3, <1>6 DEF ToolLoopReturns
<1>7. CASE Persist(t)
  BY <1>1, <1>2, <1>3, <1>7 DEF Persist
<1>8. CASE Send(t)
  BY <1>1, <1>2, <1>3, <1>8 DEF Send
<1>9. CASE MarkDone(t)
  BY <1>1, <1>2, <1>3, <1>9 DEF MarkDone
<1>10. CASE TaskDone(t)
  BY <1>1, <1>2, <1>3, <1>10, Logs DEF TaskDone
<1>11. CASE MarkFailed(t)
  BY <1>1, <1>2, <1>3, <1>11, Logs DEF MarkFailed
<1>12. CASE TaskFailed(t)
  BY <1>1, <1>2, <1>3, <1>12, Logs DEF TaskFailed
<1>13. CASE StatementFails(t)
  BY <1>1, <1>2, <1>3, <1>13, Logs DEF StatementFails, OnError, Fallible
<1>14. QED
  BY <1>4, <1>5, <1>6, <1>7, <1>8, <1>9, <1>10, <1>11, <1>12, <1>13 DEF RunnerStep

LEMMA RunnerStory ==
  ASSUME IInv, StoryInv, NEW t \in Tasks, Up, RunnerStep(t),
         UNCHANGED schedulerVars, UNCHANGED mainVars
  PROVE  StoryInv'
<1> USE DEF schedulerVars, mainVars
<1>1. /\ runner[t] \in Running /\ runner'[t] \in Running
      /\ row'[t] # "none" \/ row'[t] = row[t]
      /\ \A u \in Tasks \ {t} :
           runner'[u] = runner[u] /\ row'[u] = row[u] /\ events'[u] = events[u]
  BY RunnerStepFrame
<1>2. /\ Story(t)'
      /\ \A u \in Tasks \ {t} :
           /\ errors'[u] = errors[u]
           /\ u \in delivered' <=> u \in delivered
           /\ u \in replied' <=> u \in replied
      /\ panicked' = panicked
  BY StatementStory DEF StoryInv
<1>3. \A u \in Tasks : Story(u)'
  BY <1>1, <1>2, SameStory DEF StoryInv
<1>4. runner[t] # "idle" /\ runner'[t] # "idle"
  BY <1>1 DEF Running, Fallible
<1>5. Unbegun' = Unbegun /\ t \notin Unbegun /\ row[t] # "none"
  BY <1>4, NoTaskAssumption
  DEF Unbegun, Queued, Held, IInv, HandIsFresh, WaitingIsPending, UnrecordedIsIdle
<1>6. UnbegunIsClean'
  BY <1>1, <1>2, <1>4, <1>5 DEF StoryInv, Story, PanicEnds, UnbegunIsClean
<1>7. RecoveryComesFirst'
  BY <1>1, <1>4 DEF StoryInv, RecoveryComesFirst, Up
<1>8. Active' = Active
  BY <1>1 DEF Active
<1>9. \A u \in mine : u \in Tasks
  BY DEF IInv, TypeOK
<1>10. NothingIsLost'
  BY <1>1, <1>4, <1>5, <1>8, <1>9 DEF StoryInv, NothingIsLost
<1>11. QED
  BY <1>3, <1>6, <1>7, <1>10 DEF StoryInv

LEMMA RunnerEndsStory ==
  ASSUME IInv, StoryInv, NEW t \in Tasks, Up, RunnerReturns(t) \/ RunnerPanics(t),
         UNCHANGED mainVars
  PROVE  StoryInv'
<1> USE DEF storeVars, mainVars
<1>1. /\ runner[t] \in {"return", "tool_loop"}
      /\ runner' = [runner EXCEPT ![t] = "finished"]
      /\ UNCHANGED <<queue, held, inFlight, loop, delivered, storeVars>>
      /\ \/ runner[t] = "return" /\ UNCHANGED <<errors, panicked>>
         \/ errors' = [errors EXCEPT ![t] = @ + 1] /\ panicked' = panicked \cup {t}
  BY DEF RunnerReturns, RunnerPanics, Goto
<1>2. runner \in [Tasks -> RunnerPc] /\ errors \in [Tasks -> 0..MaxErrors]
  BY DEF IInv, TypeOK, RunnerTypeOK
<1>3. ASSUME NEW u \in Tasks PROVE Story(u)'
  <2>1. Story(u)
    BY DEF StoryInv
  <2>2. CASE u # t
    BY <1>1, <1>2, <2>1, <2>2, SameStory
  <2>3. CASE u = t
    <3>1. runner'[t] = "finished"
      BY <1>1, <1>2
    <3>2. LogFits(t)' /\ AnswerFits(t)'
      BY <1>1, <2>1, <2>3 DEF Story, LogFits, AnswerFits
    <3>3. AtTheEnd(t)'
      BY <1>1, <2>1, <2>3 DEF Story, AtTheEnd
    <3>4. QED
      BY <2>3, <3>1, <3>2, <3>3 DEF Story, OnTheWay, AtErrorArm, PanicEnds, Running, Fallible
  <2>4. QED
    BY <2>2, <2>3
<1>4. Unbegun' = Unbegun /\ t \notin Unbegun /\ row[t] # "none"
  BY <1>1, NoTaskAssumption
  DEF Unbegun, Queued, Held, IInv, HandIsFresh, WaitingIsPending, UnrecordedIsIdle
<1>5. /\ \A u \in Tasks \ {t} : runner'[u] = runner[u] /\ errors'[u] = errors[u]
                               /\ (u \in panicked' => u \in panicked)
      /\ t \in panicked' => errors'[t] # 0
  BY <1>1, <1>2, MaxErrorsAssumption DEF StoryInv, UnbegunIsClean
<1>6. UnbegunIsClean'
  BY <1>1, <1>4, <1>5 DEF StoryInv, UnbegunIsClean
<1>7. RecoveryComesFirst'
  BY <1>1, <1>2 DEF StoryInv, RecoveryComesFirst, Up
<1>8. Active' \subseteq Active
  BY <1>1, <1>2 DEF Active, Running, Fallible
<1>9. \A u \in mine : u \in Tasks
  BY DEF IInv, TypeOK
<1>10. NothingIsLost'
  BY <1>1, <1>2, <1>4, <1>8, <1>9 DEF StoryInv, NothingIsLost
<1>11. QED
  BY <1>3, <1>6, <1>7, <1>10 DEF StoryInv

LEMMA NextStory == IInv /\ StoryInv /\ [Next]_vars => StoryInv'
<1> SUFFICES ASSUME IInv, StoryInv, [Next]_vars PROVE StoryInv'
  OBVIOUS
<1>1. CASE Boot \/ AbnormalEnd
  BY <1>1, FreshStory DEF Boot, AbnormalEnd
<1>2. CASE Main \/ \E t \in Tasks : Receive(t)
  <2>1. CASE Exit
    BY <2>1, DrainStory DEF Exit, schedulerVars
  <2>2. QED
    BY <1>2, <2>1, RecoverStory, HandStory DEF Main
<1>3. CASE EndOfInput
  BY <1>3, DrainStory DEF EndOfInput, schedulerVars
<1>4. CASE SchedulerLoop
  <2>1. CASE Recv
    BY <1>4, <2>1, RecvStory DEF SchedulerLoop
  <2>2. CASE Spawn
    BY <1>4, <2>2, SpawnStory DEF SchedulerLoop
  <2>3. CASE RecvClosed(main = "drain") \/ JoinAll
    BY <1>4, <2>3, DrainStory DEF SchedulerLoop, RecvClosed, JoinAll, mainVars
  <2>4. QED
    BY <1>4, <2>1, <2>2, <2>3 DEF SchedulerLoop
<1>5. CASE \E t \in Tasks : Runner(t)
  BY <1>5, RunnerStory, RunnerEndsStory DEF Runner, RunnerNext
<1>6. CASE UNCHANGED vars
  BY <1>6, DrainStory DEF vars, mainVars, schedulerVars
<1>7. QED
  BY <1>1, <1>2, <1>3, <1>4, <1>5, <1>6 DEF Next, Stopped

\* Where a runner is tells what its task's row, log and answer are.
THEOREM StoryInvariance == Spec => [](IInv /\ StoryInv)
<1>1. Init => IInv /\ StoryInv
  BY InitIInv, StoryInit
<1>2. IInv /\ StoryInv /\ [Next]_vars => (IInv /\ StoryInv)'
  BY NextIInv, NextStory
<1>3. QED
  BY <1>1, <1>2, PTL DEF Spec

\* What each log amounts to: its last event, the one place a verdict can be.
LEMMA LogsReplayed ==
  ASSUME NEW t
  PROVE  /\ events[t] = <<>> => Replay(t) = "none"
         /\ events[t] = Received => Replay(t) = "pending"
         /\ events[t] = Started => Replay(t) = "running"
         /\ events[t] = ToldDone => Replay(t) = "done"
         /\ events[t] \in {ToldEarly, ToldLate} => Replay(t) = "failed"
         /\ events[t] \in {<<>>, Received, Started, ToldDone, ToldEarly, ToldLate} =>
              \A i \in DOMAIN events[t] :
                events[t][i] \in {"task_done_ok", "task_done_err"} => i = Len(events[t])
<1> USE DEF Received, Started, ToldDone, ToldEarly, ToldLate
<1>1. CASE events[t] = <<>>
  BY <1>1 DEF Replay
<1>2. CASE events[t] = Received
  BY <1>2 DEF Replay
<1>3. CASE events[t] = Started
  BY <1>3 DEF Replay
<1>4. CASE events[t] = ToldDone
  BY <1>4 DEF Replay
<1>5. CASE events[t] = ToldEarly
  BY <1>5 DEF Replay
<1>6. CASE events[t] = ToldLate
  BY <1>6 DEF Replay
<1> HIDE DEF Received, Started, ToldDone, ToldEarly, ToldLate
<1>7. QED
  BY <1>1, <1>2, <1>3, <1>4, <1>5, <1>6, Logs

\* What the owner has seen is in the messages table, and a task is done only
\* when the owner has seen its answer.
THEOREM AnswersComeInOrder == Spec => []AnswersKeepOrder
<1>1. IInv /\ StoryInv => AnswersKeepOrder
  BY DEF IInv, TypeOK, RunnerTypeOK, StoryInv, Story, AnswerFits, AnswersKeepOrder
<1>2. QED
  BY <1>1, StoryInvariance, PTL

\* The event log never reports a state the row has not been in.
THEOREM LogFollowsRow == Spec => []LogNeverAhead
<1>1. IInv /\ StoryInv => LogNeverAhead
  <2> SUFFICES ASSUME StoryInv, NEW t \in Tasks
               PROVE  /\ Replay(t) = "pending" => row[t] # "none"
                      /\ Replay(t) = "running" => row[t] \notin {"none", "pending"}
                      /\ Replay(t) \in Terminal => row[t] = Replay(t)
    BY DEF LogNeverAhead
  <2>1. LogFits(t)
    BY DEF StoryInv, Story
  <2>2. QED
    BY <2>1, LogsReplayed DEF LogFits, Terminal
<1>2. QED
  BY <1>1, StoryInvariance, PTL

\* A task's end is reported at most once, and nothing about it follows.
THEOREM VerdictIsLast == Spec => []OneVerdict
<1>1. IInv /\ StoryInv => OneVerdict
  BY LogsReplayed DEF StoryInv, Story, LogFits, OneVerdict
<1>2. QED
  BY <1>1, StoryInvariance, PTL

\* After recovery, a running row has a live runner, or one whose end two
\* errors or a panic kept from being recorded.
THEOREM RunningMeansAlive == Spec => []RunningRowsAreLive
<1>1. IInv /\ StoryInv => RunningRowsAreLive
  <2> SUFFICES ASSUME IInv, StoryInv, Up, main # "recover",
                      NEW t \in Tasks, row[t] = "running"
               PROVE  t \in Active \cup panicked \/ errors[t] > 1
    BY DEF RunningRowsAreLive
  <2>1. runner[t] # "idle"
    BY DEF StoryInv, RecoveryComesFirst
  <2>2. runner[t] \in RunnerPc /\ errors[t] \in 0..MaxErrors
    BY DEF IInv, TypeOK, RunnerTypeOK
  <2>3. CASE runner[t] \in Running
    BY <2>3 DEF Active
  <2>4. CASE runner[t] = "finished"
    <3>1. t \notin panicked => errors[t] # 0 /\ errors[t] # 1
      BY <2>4 DEF StoryInv, Story, AtTheEnd
    <3>2. QED
      BY <2>2, <3>1, MaxErrorsAssumption
  <2>5. QED
    BY <2>1, <2>2, <2>3, <2>4 DEF RunnerPc
<1>2. QED
  BY <1>1, StoryInvariance, PTL

\* A process that ends at the end of its input has run every task it recorded
\* to its end.
THEOREM ExitSettles == Spec => []CleanExitSettles
<1>1. IInv /\ StoryInv => CleanExitSettles
  <2> SUFFICES ASSUME IInv, StoryInv, main = "exited", NEW t \in mine
               PROVE  /\ runner[t] = "finished"
                      /\ errors[t] = 0 =>
                           t \in delivered /\ row[t] = "done" /\ Replay(t) = "done"
                      /\ errors[t] = 1 /\ t \notin panicked =>
                           row[t] = "failed" /\ Replay(t) = "failed"
    BY DEF CleanExitSettles
  <2>1. t \in Tasks /\ runner[t] \in RunnerPc
    BY DEF IInv, TypeOK, RunnerTypeOK
  <2>2. loop = "exited" /\ queue = <<>> /\ Active = {}
    BY DEF StoryInv, NothingIsLost
  <2>3. held = <<>> /\ cur = NoTask
    BY <2>2 DEF IInv, LoopHoldsWhileAcquiring, HandIsFresh
  <2>4. Unbegun = {NoTask}
    BY <2>2, <2>3 DEF Unbegun, Queued, Held
  <2>5. runner[t] = "finished"
    BY <2>1, <2>2, <2>4, NoTaskAssumption
    DEF StoryInv, NothingIsLost, Active, RunnerPc
  <2>6. AtTheEnd(t) /\ AnswerFits(t)
    BY <2>1 DEF StoryInv, Story
  <2>7. t \in panicked => errors[t] # 0
    BY <2>1 DEF StoryInv, UnbegunIsClean
  <2>8. QED
    BY <2>5, <2>6, <2>7, LogsReplayed DEF AtTheEnd, AnswerFits
<1>2. QED
  BY <1>1, StoryInvariance, PTL

\* No UPDATE looks at the state it replaces, yet a failed task stays failed,
\* and a done one fails only when reporting it went wrong.
THEOREM EndsAreFinal == Spec => VerdictsStick
<1> DEFINE Sticks(t) ==
      /\ row[t] = "failed" => row'[t] = "failed"
      /\ row[t] = "done" => row'[t] = "done" \/ errors[t] > 0
<1>1. ASSUME IInv, StoryInv, [Next]_vars, NEW t \in Tasks
      PROVE  Sticks(t)
  <2>1. CASE RecordPending
    BY <1>1, <2>1 DEF RecordPending, SetState, IInv, HandIsFresh, TypeOK, StoreTypeOK
  <2>2. CASE Recover
    BY <1>1, <2>2 DEF Recover, RecoverRows
  <2>3. CASE \E u \in Tasks : RunnerStep(u)
    <3>1. PICK u \in Tasks : RunnerStep(u)
      BY <2>3
    <3>2. CASE t = u
      BY <1>1, <3>1, <3>2, StatementStory DEF StoryInv
    <3>3. CASE t # u
      BY <1>1, <3>1, <3>3, RunnerStepFrame
    <3>4. QED
      BY <3>2, <3>3
  <2>4. CASE UNCHANGED row
    BY <2>4
  <2>5. QED
    BY <1>1, <2>1, <2>2, <2>3, <2>4
    DEF Next, Main, Boot, AbnormalEnd, Receive, TaskReceived, SubmitTask, EndOfInput, Exit,
        SchedulerLoop, Runner, RunnerNext, RunnerReturns, RunnerPanics, Stopped, Emit,
        Recv, Spawn, RecvClosed, JoinAll, storeVars, vars
<1>2. IInv /\ StoryInv /\ [Next]_vars => [\A t \in Tasks : Sticks(t)]_vars
  BY <1>1
<1>3. QED
  BY <1>2, StoryInvariance, PTL DEF Spec, VerdictsStick

=============================================================================
