--------------------------- MODULE ChatRefinement ---------------------------
(***************************************************************************)
(* The chat process implements TaskService: every step is a step of the    *)
(* service counter or leaves the counter alone, for every set of tasks,    *)
(* every concurrency limit and every channel capacity.                     *)
(***************************************************************************)
EXTENDS ChatProofs

OverTasks == {t \in Tasks : row[t] # "none"} \ (Waiting \cup Active \cup {cur})

-----------------------------------------------------------------------------
(* The waiting line as a sequence.                                         *)

\* The line is a sequence of tasks, and its elements are those of the channel
\* and of the loop's hand.
LEMMA WaitingElems ==
  ASSUME IInv
  PROVE  /\ WaitingLine \in Seq(Tasks)
         /\ Waiting = Queued \cup Held
         /\ Waiting \subseteq Tasks
<1>1. /\ queue \in Seq(Tasks) /\ held \in Seq(Tasks)
      /\ DOMAIN queue = 1..Len(queue) /\ DOMAIN held = 1..Len(held)
      /\ Len(queue) \in Nat /\ Len(held) \in Nat
  BY LenProperties DEF IInv, TypeOK, SchedulerTypeOK
<1>2. /\ WaitingLine \in Seq(Tasks)
      /\ DOMAIN WaitingLine = 1..(Len(held) + Len(queue))
      /\ \A i \in 1..(Len(held) + Len(queue)) :
           WaitingLine[i] = IF i <= Len(held) THEN held[i] ELSE queue[i - Len(held)]
  BY <1>1, ConcatProperties, LenProperties DEF WaitingLine
<1>3. Held \subseteq Waiting
  BY <1>1, <1>2 DEF Held, Waiting
<1>4. Queued \subseteq Waiting
  <2> SUFFICES ASSUME NEW i \in DOMAIN queue PROVE queue[i] \in Waiting
    BY DEF Queued
  <2>1. i + Len(held) \in DOMAIN WaitingLine /\ WaitingLine[i + Len(held)] = queue[i]
    BY <1>1, <1>2
  <2>2. QED
    BY <2>1 DEF Waiting
<1>5. Waiting \subseteq Queued \cup Held
  <2> SUFFICES ASSUME NEW i \in DOMAIN WaitingLine PROVE WaitingLine[i] \in Queued \cup Held
    BY DEF Waiting
  <2>1. CASE i <= Len(held)
    BY <1>1, <1>2, <2>1 DEF Held
  <2>2. CASE ~(i <= Len(held))
    <3>1. i - Len(held) \in DOMAIN queue /\ WaitingLine[i] = queue[i - Len(held)]
      BY <1>1, <1>2, <2>2
    <3>2. QED
      BY <3>1 DEF Queued
  <2>3. QED
    BY <2>1, <2>2
<1>6. Waiting \subseteq Tasks
  BY <1>2, ElementOfSeq, LenProperties DEF Waiting
<1>7. QED
  BY <1>2, <1>3, <1>4, <1>5, <1>6

\* Taking a task from the channel into the loop's hand leaves the line as it
\* is.
LEMMA LineOfRecv ==
  ASSUME NEW S, NEW q \in Seq(S), q # <<>>
  PROVE  <<Head(q)>> \o Tail(q) = q
<1>1. /\ Head(q) \in S /\ Tail(q) \in Seq(S) /\ Head(q) = q[1]
      /\ Len(Tail(q)) = Len(q) - 1 /\ Len(q) \in Nat \ {0}
      /\ \A i \in 1..Len(Tail(q)) : Tail(q)[i] = q[i + 1]
  BY HeadTailProperties, LenProperties, EmptySeq
<1>2. <<Head(q)>> \in Seq(S) /\ Len(<<Head(q)>>) = 1 /\ <<Head(q)>>[1] = q[1]
  BY <1>1
<1>3. DEFINE c == <<Head(q)>> \o Tail(q)
<1>4. /\ c \in Seq(S) /\ Len(c) = Len(q)
      /\ \A i \in 1..Len(q) : c[i] = IF i <= 1 THEN q[1] ELSE Tail(q)[i - 1]
  <2>1. /\ c \in Seq(S)
        /\ Len(c) = Len(<<Head(q)>>) + Len(Tail(q))
        /\ \A i \in 1..(Len(<<Head(q)>>) + Len(Tail(q))) :
             c[i] = IF i <= Len(<<Head(q)>>) THEN <<Head(q)>>[i]
                                             ELSE Tail(q)[i - Len(<<Head(q)>>)]
    BY <1>1, <1>2, ConcatProperties
  <2> HIDE DEF c
  <2>2. QED
    BY <1>1, <1>2, <2>1
<1> HIDE DEF c
<1>5. \A i \in 1..Len(q) : c[i] = q[i]
  BY <1>1, <1>4
<1>6. c = q
  BY <1>4, <1>5, SeqEqual
<1>7. QED
  BY <1>6 DEF c

\* The task in the loop's hand is the head of the line, the channel its tail.
LEMMA LineOfSpawn ==
  ASSUME NEW S, NEW q \in Seq(S), NEW t \in S
  PROVE  /\ <<t>> \o q # <<>>
         /\ Head(<<t>> \o q) = t
         /\ Tail(<<t>> \o q) = q
<1> DEFINE c == <<t>> \o q
<1>1. <<t>> \in Seq(S) /\ Len(<<t>>) = 1 /\ <<t>>[1] = t /\ Len(q) \in Nat
  BY LenProperties
<1>2. /\ c \in Seq(S)
      /\ Len(c) = 1 + Len(q)
      /\ \A i \in 1..(1 + Len(q)) : c[i] = IF i <= 1 THEN t ELSE q[i - 1]
  <2>1. /\ c \in Seq(S)
        /\ Len(c) = Len(<<t>>) + Len(q)
        /\ \A i \in 1..(Len(<<t>>) + Len(q)) :
             c[i] = IF i <= Len(<<t>>) THEN <<t>>[i] ELSE q[i - Len(<<t>>)]
    BY <1>1, ConcatProperties
  <2> HIDE DEF c
  <2>2. QED
    BY <1>1, <2>1
<1> HIDE DEF c
<1>3. c # <<>>
  BY <1>1, <1>2, EmptySeq
<1>4. Head(c) = t
  BY <1>1, <1>2, <1>3
<1>5. /\ Tail(c) \in Seq(S) /\ Len(Tail(c)) = Len(q)
      /\ \A i \in 1..Len(q) : Tail(c)[i] = q[i]
  BY <1>1, <1>2, <1>3, HeadTailProperties
<1>6. Tail(c) = q
  BY <1>5, SeqEqual
<1>7. QED
  BY <1>3, <1>4, <1>6 DEF c

-----------------------------------------------------------------------------
(* Each step of the process, seen at the counter.                          *)

\* The counter's state is untouched.
Stutters == WaitingLine' = WaitingLine /\ Active' = Active /\ OverTasks' = OverTasks

\* A step that leaves queue and runners alone, and at most records or picks up
\* the task in main's hand, is none of the counter's business.
LEMMA MainStutters ==
  ASSUME IInv, UNCHANGED <<queue, held, runner>>,
         \A t \in Tasks \ {cur, cur'} : (row'[t] = "none") = (row[t] = "none"),
         \/ cur' = cur
         \/ cur' \in Tasks /\ cur = NoTask /\ row[cur'] = "none" /\ row'[cur'] = "none"
  PROVE  Stutters
<1>1. WaitingLine' = WaitingLine /\ Waiting' = Waiting /\ Active' = Active
  BY DEF WaitingLine, Waiting, Active
<1>2. OverTasks' = OverTasks
  <2>1. CASE cur' = cur
    BY <1>1, <2>1 DEF OverTasks
  <2>2. CASE cur' \in Tasks /\ cur = NoTask /\ row[cur'] = "none" /\ row'[cur'] = "none"
    BY <1>1, <2>2, NoTaskAssumption DEF OverTasks
  <2>3. QED
    BY <2>1, <2>2
<1>3. QED
  BY <1>1, <1>2 DEF Stutters

LEMMA FreshIsRestart ==
  ASSUME IInv, FreshMemory, UNCHANGED row
  PROVE  Service!Restart
<1>1. WaitingLine' = <<>>
  BY EmptySeq, ConcatEmptySeq DEF FreshMemory, WaitingLine
<1>2. Waiting' = {}
  BY <1>1 DEF Waiting
<1>3. Active' = {}
  BY DEF FreshMemory, Active, Running, Fallible
<1>4. OverTasks' = {t \in Tasks : row[t] # "none"}
  BY <1>2, <1>3, NoTaskAssumption DEF FreshMemory, OverTasks
<1>5. Active \subseteq {t \in Tasks : row[t] # "none"}
  BY DEF IInv, UnrecordedIsIdle, Active, Running, Fallible
<1>6. Waiting \subseteq {t \in Tasks : row[t] # "none"}
  BY WaitingElems DEF IInv, WaitingIsPending
<1>7. QED
  BY <1>1, <1>3, <1>4, <1>5, <1>6 DEF Service!Restart, Service!InLine, OverTasks, Waiting

LEMMA SubmitIsAccept ==
  ASSUME IInv, IInv', SubmitTask
  PROVE  Service!Accept(cur)
<1> USE DEF SubmitTask, Submit
<1>1. cur \in Tasks \ (Queued \cup Held) /\ runner[cur] = "idle"
  BY DEF IInv, HandIsFresh
<1>2. /\ queue \in Seq(Tasks) /\ held \in Seq(Tasks)
      /\ queue' = Append(queue, cur) /\ held' = held
  BY DEF IInv, TypeOK, SchedulerTypeOK
<1>3. WaitingLine' = Append(WaitingLine, cur)
  <2>1. <<cur>> \in Seq(Tasks)
    BY <1>1
  <2>2. WaitingLine' = held \o (queue \o <<cur>>)
    BY <1>1, <1>2, AppendIsConcat DEF WaitingLine
  <2>3. WaitingLine' = WaitingLine \o <<cur>>
    BY <1>2, <2>1, <2>2, ConcatAssociative DEF WaitingLine
  <2>4. WaitingLine \in Seq(Tasks)
    BY WaitingElems
  <2>5. QED
    BY <1>1, <2>3, <2>4, AppendIsConcat
<1>4. Len(WaitingLine) < Capacity + 1
  <2>1. Len(held) \in 0..1
    BY DEF IInv, LoopHoldsWhileAcquiring
  <2>2. Len(WaitingLine) = Len(held) + Len(queue)
    BY <1>2, ConcatProperties DEF WaitingLine
  <2>3. Capacity \in Nat /\ Len(queue) \in Nat /\ Len(queue) < Capacity
    BY <1>2, LenProperties, QueueCapacityAssumption DEF Capacity
  <2>4. \A h \in 0..1, n, c \in Nat : n < c => h + n < c + 1
    OBVIOUS
  <2>5. QED
    BY <2>1, <2>2, <2>3, <2>4
<1>5. Active' = Active
  BY DEF Active, runnerVars
<1>6. Waiting = Queued \cup Held
  BY WaitingElems
<1>7. cur \notin Waiting \cup Active \cup OverTasks
  BY <1>1, <1>6 DEF Active, Running, Fallible, OverTasks
<1>8. Waiting' = Waiting \cup {cur}
  <2>1. Queued' = Queued \cup {cur} /\ Held' = Held
    BY <1>1, <1>2, ElemsOfAppend DEF Queued, Elems, Held
  <2>2. Waiting' = Queued' \cup Held'
    <3>1. IInv' => /\ (WaitingLine \in Seq(Tasks))'
                  /\ (Waiting = Queued \cup Held)'
                  /\ (Waiting \subseteq Tasks)'
      BY WaitingElems, PTL
    <3>2. QED
      BY <3>1
  <2>3. QED
    BY <1>6, <2>1, <2>2
<1>9. OverTasks' = OverTasks
  BY <1>1, <1>5, <1>8, NoTaskAssumption DEF OverTasks, storeVars
<1>10. QED
  BY <1>3, <1>4, <1>5, <1>7, <1>9
  DEF Service!Accept, Service!InLine, Waiting, OverTasks

LEMMA RecvStutters ==
  ASSUME IInv, Recv, UNCHANGED mainVars
  PROVE  Stutters
<1> USE DEF Recv, runnerVars, storeVars, mainVars
<1>1. queue \in Seq(Tasks) /\ held = <<>>
  BY DEF IInv, TypeOK, SchedulerTypeOK, LoopHoldsWhileAcquiring
<1>2. WaitingLine = queue
  BY <1>1, ConcatEmptySeq DEF WaitingLine
<1>3. WaitingLine' = queue
  BY <1>1, LineOfRecv DEF WaitingLine
<1>4. Waiting' = Waiting /\ Active' = Active
  BY <1>2, <1>3 DEF Waiting, Active
<1>5. QED
  BY <1>2, <1>3, <1>4 DEF Stutters, OverTasks

LEMMA SpawnIsBegin ==
  ASSUME IInv, IInv', Spawn, UNCHANGED mainVars
  PROVE  Service!Begin
<1> USE DEF Spawn, storeVars, mainVars
<1>1. PICK t \in Tasks : held = <<t>>
  BY DEF IInv, LoopHoldsWhileAcquiring
<1>2. queue \in Seq(Tasks) /\ queue' = queue /\ held' = <<>> /\ Head(held) = t
  BY <1>1 DEF IInv, TypeOK, SchedulerTypeOK
<1>3. WaitingLine # <<>> /\ Head(WaitingLine) = t /\ Tail(WaitingLine) = queue
  BY <1>1, <1>2, LineOfSpawn DEF WaitingLine
<1>4. WaitingLine' = queue
  BY <1>2, ConcatEmptySeq DEF WaitingLine
<1>5. Active' = Active \cup {t}
  BY <1>2 DEF Active, Running, Fallible, IInv, TypeOK, RunnerTypeOK
<1>6. Cardinality(Active) < MaxConcurrent
  BY FS_CardinalityType, MaxConcurrentAssumption
  DEF IInv, PermitsAccounted, TypeOK, SchedulerTypeOK
<1>7. Waiting = Waiting' \cup {t}
  <2>1. Waiting = Queued \cup {t}
    BY <1>1, WaitingElems DEF Held
  <2>2. Waiting' = Queued
    BY <1>4 DEF Waiting, Queued
  <2>3. QED
    BY <2>1, <2>2
<1>8. OverTasks' = OverTasks
  BY <1>5, <1>7 DEF OverTasks
<1>9. WaitingLine' = Tail(WaitingLine) /\ Active' = Active \cup {Head(WaitingLine)}
  BY <1>3, <1>4, <1>5
<1> HIDE DEF Spawn
<1>10. Service!Cardinality(Active) = Cardinality(Active)
  BY DEF Service!Cardinality, Cardinality
<1>11. QED
  BY <1>3, <1>6, <1>8, <1>9, <1>10 DEF Service!Begin, OverTasks

LEMMA RunnerStepStutters ==
  ASSUME IInv, NEW t \in Tasks, RunnerStep(t), UNCHANGED schedulerVars, UNCHANGED mainVars
  PROVE  Stutters
<1> USE DEF schedulerVars, mainVars
<1>1. /\ runner[t] \in Running /\ runner'[t] \in Running
      /\ row'[t] # "none" \/ row'[t] = row[t]
      /\ \A u \in Tasks \ {t} : runner'[u] = runner[u] /\ row'[u] = row[u]
  BY RunnerStepFrame
<1>2. row[t] # "none"
  BY <1>1 DEF IInv, UnrecordedIsIdle, Running, Fallible
<1>3. Active' = Active /\ WaitingLine' = WaitingLine /\ Waiting' = Waiting
  BY <1>1 DEF Active, WaitingLine, Waiting
<1>4. OverTasks' = OverTasks
  BY <1>1, <1>2, <1>3 DEF OverTasks
<1>5. QED
  BY <1>3, <1>4 DEF Stutters

LEMMA RunnerEndsIsEnd ==
  ASSUME IInv, NEW t \in Tasks, RunnerReturns(t) \/ RunnerPanics(t), UNCHANGED mainVars
  PROVE  Service!End(t)
<1> USE DEF storeVars, mainVars
<1>1. /\ runner[t] \in {"return", "tool_loop"}
      /\ runner' = [runner EXCEPT ![t] = "finished"]
      /\ UNCHANGED <<queue, held, row>>
  BY DEF RunnerReturns, RunnerPanics, Goto
<1>2. t \in Active /\ Active' = Active \ {t}
  BY <1>1 DEF IInv, TypeOK, RunnerTypeOK, Active, Running, Fallible
<1>3. WaitingLine' = WaitingLine /\ Waiting' = Waiting
  BY <1>1 DEF WaitingLine, Waiting
<1>4. row[t] # "none"
  BY <1>1 DEF IInv, UnrecordedIsIdle
<1>5. t \notin Waiting
  BY <1>1, WaitingElems DEF IInv, WaitingIsPending
<1>6. t # cur
  BY <1>1, NoTaskAssumption DEF IInv, HandIsFresh
<1>7. OverTasks' = OverTasks \cup {t}
  BY <1>1, <1>2, <1>3, <1>4, <1>5, <1>6 DEF OverTasks
<1>8. QED
  BY <1>2, <1>3, <1>7 DEF Service!End, OverTasks

LEMMA NextIsServiceNext ==
  IInv /\ IInv' /\ [Next]_vars => [Service!Next]_<<WaitingLine, Active, OverTasks>>
<1> SUFFICES ASSUME IInv, IInv', [Next]_vars
             PROVE  Service!Next \/ Stutters
  BY DEF Stutters
<1>1. CASE Boot \/ AbnormalEnd
  BY <1>1, FreshIsRestart DEF Boot, AbnormalEnd, storeVars, Service!Next
<1>2. CASE Main
  <2>1. CASE Recover
    BY <2>1, MainStutters
    DEF Recover, RecoverRows, schedulerVars, runnerVars, IInv, TypeOK, StoreTypeOK
  <2>2. CASE RecordPending
    BY <2>2, MainStutters
    DEF RecordPending, SetState, schedulerVars, runnerVars, IInv, TypeOK, StoreTypeOK
  <2>3. CASE TaskReceived
    BY <2>3, MainStutters DEF TaskReceived, Emit, schedulerVars, runnerVars
  <2>4. CASE SubmitTask
    <3>1. cur \in Tasks
      BY <2>4 DEF SubmitTask, IInv, HandIsFresh
    <3>2. QED
      BY <2>4, <3>1, SubmitIsAccept DEF Service!Next
  <2>5. CASE Exit
    BY <2>5, MainStutters DEF Exit, schedulerVars, runnerVars, storeVars
  <2>6. QED
    BY <1>2, <2>1, <2>2, <2>3, <2>4, <2>5 DEF Main
<1>3. ASSUME NEW t \in Tasks, Receive(t)
      PROVE  Stutters
  BY <1>3, MainStutters
  DEF Receive, schedulerVars, runnerVars, storeVars, IInv, HandIsFresh
<1>4. CASE EndOfInput
  BY <1>4, MainStutters DEF EndOfInput, schedulerVars, runnerVars, storeVars
<1>5. CASE SchedulerLoop
  <2>1. CASE Recv
    BY <1>5, <2>1, RecvStutters DEF SchedulerLoop
  <2>2. CASE Spawn
    BY <1>5, <2>2, SpawnIsBegin DEF SchedulerLoop, Service!Next
  <2>3. CASE RecvClosed(main = "drain") \/ JoinAll
    BY <1>5, <2>3, MainStutters
    DEF SchedulerLoop, RecvClosed, JoinAll, mainVars, runnerVars, storeVars
  <2>4. QED
    BY <1>5, <2>1, <2>2, <2>3 DEF SchedulerLoop
<1>6. ASSUME NEW t \in Tasks, Runner(t)
      PROVE  Service!Next \/ Stutters
  BY <1>6, RunnerStepStutters, RunnerEndsIsEnd DEF Runner, RunnerNext, Service!Next
<1>7. CASE UNCHANGED vars
  BY <1>7, MainStutters DEF vars, mainVars, schedulerVars, runnerVars, storeVars
<1>8. QED
  BY <1>1, <1>2, <1>3, <1>4, <1>5, <1>6, <1>7 DEF Next, Stopped

\* The chat process implements the bounded first-in first-out service counter:
\* at most MaxConcurrent runners, one line of at most Capacity + 1 tasks served
\* in the order of submission, and no task served twice.
THEOREM ChatImplementsTaskService == Spec => ImplementsTaskService
<1>1. Init => Service!Init
  <2> SUFFICES ASSUME Init PROVE Service!Init
    OBVIOUS
  <2> USE DEF Init, StoreInit, RunnerInit, SchedulerInit
  <2>1. WaitingLine = <<>>
    BY EmptySeq, ConcatEmptySeq DEF WaitingLine
  <2>2. Active = {}
    BY DEF Active, Running, Fallible
  <2>3. QED
    BY <2>1, <2>2 DEF Service!Init
<1>2. IInv /\ IInv' /\ [Next]_vars => [Service!Next]_(Service!serviceVars)
  BY NextIsServiceNext DEF Service!serviceVars, OverTasks
<1>3. QED
  BY <1>1, <1>2, Invariance, PTL DEF Spec, Service!Spec, ImplementsTaskService
=============================================================================
