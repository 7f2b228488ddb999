------------------------------ MODULE ToolLoop ------------------------------
(***************************************************************************)
(* The tool loops of the tasks in flight (run_tool_loop in                 *)
(* crates/core/src/tool_loop.rs), one per runner, which meet in the        *)
(* session's budget ledger.  The loop is the statement "tool_loop" of      *)
(* module TaskRunner, opened up: each await on the model or on a tool is a *)
(* step, and the loops of different tasks interleave between the steps.    *)
(*                                                                         *)
(* The model provider and the tools are external: a call may fail, come    *)
(* back empty, or answer with any number of tool calls up to MaxToolCalls, *)
(* at any cost in Costs, cut off at max_tokens or not.  Texts are left     *)
(* out; of a message the conversation keeps its role and, for a tool       *)
(* request or a tool result, which calls it is about.                      *)
(***************************************************************************)
EXTENDS Budget, Sequences, FiniteSetsExt

CONSTANTS
  Tasks,
  DefaultModel,
  FallbackChain,      \* as configured: it may repeat models, or the default
  MaxRounds,
  SelfCheckInterval,
  MaxRetries,         \* calls per model before the next one (3 in the code)
  MaxToolCalls,       \* bound: tool calls in one answer
  Costs,              \* what one answer may cost
  MaxCost             \* ... and the most

ASSUME LoopAssumption ==
  /\ IsFiniteSet(Tasks)
  /\ Len(FallbackChain) \in Nat
  /\ MaxRounds \in Nat
  /\ SelfCheckInterval \in Nat
  /\ MaxRetries \in Nat \ {0}
  /\ MaxToolCalls \in Nat
  /\ MaxCost \in Nat
  /\ Costs \subseteq 0..MaxCost

VARIABLES
  pc,         \* where each loop is
  rounds,
  at,         \* position in the model sequence of the call being made
  attempt,
  usage,      \* what the loop has added up for its task
  messages,   \* the conversation after the initial messages
  toolCalls,  \* tool calls of the current answer,
  answered,   \* and how many of them have been dispatched
  cut,        \* the current answer ended at max_tokens
  stop,       \* stop reason
  reported,   \* rounds in the LoopOutcome
  tries,      \* calls per model for the current request (history)
  uncounted   \* tasks with a paid call that usage does not include (history)

callVars     == <<at, attempt, tries>>
answerVars   == <<toolCalls, answered, cut>>
outcomeVars  == <<stop, reported>>
vars == <<ledgerVars, pc, rounds, usage, messages, callVars, answerVars,
          outcomeVars, uncounted>>

LoopPc == {"idle", "top", "call", "dispatch", "budget", "forced",
           "returned", "panicked"}
StopReason == {"none", "ContentOnly", "RoundCap", "BudgetCap", "LlmExhausted"}

Msg(role, n) == [role |-> role, n |-> n]
Note         == Msg("system", 0)

-----------------------------------------------------------------------------
(* The model sequence: the default, then the chain without repetitions.    *)
(* Position 0 is the default.                                              *)

Positions_NoDedup == 0..Len(FallbackChain)
Positions ==
  {0} \cup {i \in 1..Len(FallbackChain) :
              /\ FallbackChain[i] # DefaultModel
              /\ \A j \in 1..(i - 1) : FallbackChain[j] # FallbackChain[i]}

ModelAt(i) == IF i = 0 THEN DefaultModel ELSE FallbackChain[i]
Models     == {ModelAt(i) : i \in 0..Len(FallbackChain)}
Later(i)   == {j \in Positions : j > i}
First(S)   == CHOOSE i \in S : \A j \in S : i <= j

-----------------------------------------------------------------------------
Init ==
  /\ BudgetInit
  /\ pc = [t \in Tasks |-> "idle"]
  /\ rounds = [t \in Tasks |-> 0]
  /\ at = [t \in Tasks |-> 0]
  /\ attempt = [t \in Tasks |-> 1]
  /\ usage = [t \in Tasks |-> 0]
  /\ messages = [t \in Tasks |-> <<>>]
  /\ toolCalls = [t \in Tasks |-> 0]
  /\ answered = [t \in Tasks |-> 0]
  /\ cut = [t \in Tasks |-> FALSE]
  /\ stop = [t \in Tasks |-> "none"]
  /\ reported = [t \in Tasks |-> 0]
  /\ tries = [t \in Tasks |-> [m \in Models |-> 0]]
  /\ uncounted = {}

Goto(t, from, to) ==
  /\ pc[t] = from
  /\ pc' = [pc EXCEPT ![t] = to]

Say(t, msgs) == messages' = [messages EXCEPT ![t] = @ \o msgs]

\* A request starts at the head of the model sequence.
NewRequest(t) ==
  /\ at' = [at EXCEPT ![t] = 0]
  /\ attempt' = [attempt EXCEPT ![t] = 1]
  /\ tries' = [tries EXCEPT ![t] = [m \in Models |-> 0]]

Start(t) ==
  /\ Goto(t, "idle", "top")
  /\ UNCHANGED <<ledgerVars, rounds, usage, messages, callVars, answerVars,
                 outcomeVars, uncounted>>

SelfCheck(round) ==
  /\ SelfCheckInterval > 0
  /\ round > 1
  /\ round % SelfCheckInterval = 0

\* The head of the loop: one more round, or past the cap a forced answer.
NextRound_CapLate(t) ==
  /\ rounds' = [rounds EXCEPT ![t] = @ + 1]
  /\ \/ /\ rounds[t] <= MaxRounds
        /\ Goto(t, "top", "call")
        /\ Say(t, IF SelfCheck(rounds[t] + 1) THEN <<Note>> ELSE <<>>)
        /\ UNCHANGED stop
     \/ /\ rounds[t] > MaxRounds
        /\ Goto(t, "top", "forced")
        /\ Say(t, <<Note>>)
        /\ stop' = [stop EXCEPT ![t] = "RoundCap"]
  /\ NewRequest(t)
  /\ UNCHANGED <<ledgerVars, usage, answerVars, reported, uncounted>>
NextRound(t) ==
  /\ rounds' = [rounds EXCEPT ![t] = @ + 1]
  /\ \/ /\ rounds[t] < MaxRounds
        /\ Goto(t, "top", "call")
        /\ Say(t, IF SelfCheck(rounds[t] + 1) THEN <<Note>> ELSE <<>>)
        /\ UNCHANGED stop
     \/ /\ rounds[t] >= MaxRounds
        /\ Goto(t, "top", "forced")
        /\ Say(t, <<Note>>)
        /\ stop' = [stop EXCEPT ![t] = "RoundCap"]
  /\ NewRequest(t)
  /\ UNCHANGED <<ledgerVars, usage, answerVars, reported, uncounted>>

-----------------------------------------------------------------------------
(* call_with_retry_and_fallback.  tries is counted up to one more than a   *)
(* model is allowed.                                                       *)

Ask(t) ==
  /\ pc[t] \in {"call", "forced"}
  /\ tries' = [tries EXCEPT ![t][ModelAt(at[t])] =
                 IF @ > MaxRetries THEN @ ELSE @ + 1]

\* An answer that ends the step without being added to the usage: an empty one
\* or a forced one reports what it cost, an error reports nothing.
PaidInVain(t) ==
  \/ UNCHANGED uncounted
  \/ /\ Costs \ {0} # {}
     /\ uncounted' = uncounted \cup {t}

RetryModel(t) ==
  /\ Ask(t)
  /\ PaidInVain(t)
  /\ attempt[t] < MaxRetries
  /\ attempt' = [attempt EXCEPT ![t] = @ + 1]
  /\ UNCHANGED <<ledgerVars, pc, rounds, usage, messages, at, answerVars,
                 outcomeVars>>

FallBack(t) ==
  /\ Ask(t)
  /\ PaidInVain(t)
  /\ attempt[t] >= MaxRetries
  /\ Later(at[t]) # {}
  /\ at' = [at EXCEPT ![t] = First(Later(at[t]))]
  /\ attempt' = [attempt EXCEPT ![t] = 1]
  /\ UNCHANGED <<ledgerVars, pc, rounds, usage, messages, answerVars,
                 outcomeVars>>

\* LoopOutcome.rounds: the round that only forced or tried an answer after
\* the cap, or never got one, does not count.
Return(t, reason) ==
  /\ pc' = [pc EXCEPT ![t] = "returned"]
  /\ stop' = [stop EXCEPT ![t] = reason]
  /\ reported' = [reported EXCEPT ![t] =
       IF reason \in {"RoundCap", "LlmExhausted"} THEN rounds[t] - 1
       ELSE rounds[t]]

\* Every model failed: the loop ends with a default text, as an exhausted
\* provider in an ordinary round, under the cap's own reason in a forced one.
GiveUp_StartsOver(t) ==
  /\ Ask(t)
  /\ PaidInVain(t)
  /\ attempt[t] >= MaxRetries
  /\ Later(at[t]) = {}
  /\ at' = [at EXCEPT ![t] = 0]
  /\ attempt' = [attempt EXCEPT ![t] = 1]
  /\ UNCHANGED <<ledgerVars, pc, rounds, usage, messages, answerVars,
                 outcomeVars>>
GiveUp(t) ==
  /\ Ask(t)
  /\ PaidInVain(t)
  /\ attempt[t] >= MaxRetries
  /\ Later(at[t]) = {}
  /\ Return(t, IF pc[t] = "call" THEN "LlmExhausted" ELSE stop[t])
  /\ UNCHANGED <<ledgerVars, rounds, usage, messages, at, attempt, answerVars>>

\* An answer in an ordinary round, at cost, with n tool calls.  Without any it
\* is the final one.
TakeAnswer(t, cost, n, short) ==
  /\ pc[t] = "call"
  /\ Ask(t)
  /\ usage' = [usage EXCEPT ![t] = @ + cost]
  /\ RecordUsage(cost)
  /\ Say(t, <<Msg("assistant", n)>>)
  /\ toolCalls' = [toolCalls EXCEPT ![t] = n]
  /\ cut' = [cut EXCEPT ![t] = short]
  /\ \/ /\ n = 0
        /\ Return(t, "ContentOnly")
     \/ /\ n > 0
        /\ pc' = [pc EXCEPT ![t] = "dispatch"]
        /\ UNCHANGED outcomeVars
  /\ answered' = [answered EXCEPT ![t] = 0]
  /\ UNCHANGED <<rounds, at, attempt, uncounted>>

Answer(t) ==
  \E cost \in Costs, n \in 0..MaxToolCalls, short \in BOOLEAN :
    TakeAnswer(t, cost, n, short)

\* The forced answer: its text is the outcome, its usage is dropped, and tool
\* calls in it are ignored.
ForcedAnswer(t) ==
  /\ pc[t] = "forced"
  /\ Ask(t)
  /\ PaidInVain(t)
  /\ Return(t, stop[t])
  /\ UNCHANGED <<ledgerVars, rounds, usage, messages, at, attempt, answerVars>>

-----------------------------------------------------------------------------
(* The tools of a round, one after the other, and the budget guard.        *)

\* Dispatcher::dispatch turns every failure of a tool, its timeout included,
\* into a result text.
Dispatch_FirstOnly(t) ==
  /\ Goto(t, "dispatch", "budget")
  /\ Say(t, <<Msg("tool", answered[t] + 1)>>)
  /\ answered' = [answered EXCEPT ![t] = @ + 1]
  /\ UNCHANGED <<ledgerVars, rounds, usage, callVars, toolCalls, cut,
                 outcomeVars, uncounted>>
Dispatch(t) ==
  /\ Goto(t, "dispatch",
          IF answered[t] + 1 = toolCalls[t] THEN "budget" ELSE "dispatch")
  /\ Say(t, <<Msg("tool", answered[t] + 1)>>)
  /\ answered' = [answered EXCEPT ![t] = @ + 1]
  /\ UNCHANGED <<ledgerVars, rounds, usage, callVars, toolCalls, cut,
                 outcomeVars, uncounted>>

\* ... except a panic, which takes the runner with it.
ToolPanics(t) ==
  /\ Goto(t, "dispatch", "panicked")
  /\ UNCHANGED <<ledgerVars, rounds, usage, messages, callVars, answerVars,
                 outcomeVars, uncounted>>

CutNote(t) == IF cut[t] THEN <<Note>> ELSE <<>>

OverBudget(t) ==
  /\ HardStop(usage[t])
  /\ Goto(t, "budget", "forced")
  /\ stop' = [stop EXCEPT ![t] = "BudgetCap"]
  /\ Say(t, <<Note>>)
  /\ NewRequest(t)
  /\ UNCHANGED <<ledgerVars, rounds, usage, answerVars, reported, uncounted>>

WithinBudget(t) ==
  /\ ~HardStop(usage[t])
  /\ Goto(t, "budget", "top")
  /\ Say(t, (IF SoftNudge(usage[t], rounds[t]) THEN <<Note>> ELSE <<>>)
            \o CutNote(t))
  /\ UNCHANGED <<ledgerVars, rounds, usage, callVars, answerVars, outcomeVars,
                 uncounted>>

\* The ledger could not be read: the check is skipped.
BudgetUnread(t) ==
  /\ Enforced
  /\ StoreFails
  /\ Goto(t, "budget", "top")
  /\ Say(t, CutNote(t))
  /\ UNCHANGED <<ledger, lost, rounds, usage, callVars, answerVars,
                 outcomeVars, uncounted>>

-----------------------------------------------------------------------------
LoopStep(t) ==
  \/ Start(t)
  \/ NextRound(t)
  \/ RetryModel(t)
  \/ FallBack(t)
  \/ GiveUp(t)
  \/ Answer(t)
  \/ ForcedAnswer(t)
  \/ Dispatch(t)
  \/ ToolPanics(t)
  \/ OverBudget(t)
  \/ WithinBudget(t)
  \/ BudgetUnread(t)

Over(t) == pc[t] \in {"returned", "panicked"}

\* All loops are over: the model ends here.
AllOver ==
  /\ \A t \in Tasks : Over(t)
  /\ UNCHANGED vars

Next == AllOver \/ \E t \in Tasks : LoopStep(t)

Spec == Init /\ [][Next]_vars

-----------------------------------------------------------------------------
(* Properties.                                                             *)

Message == [role : {"assistant", "tool", "system"}, n : Nat]

\* Every variable stays in its range: the type invariant of the loops.
TypeOK ==
  /\ BudgetTypeOK
  /\ pc \in [Tasks -> LoopPc]
  /\ rounds \in [Tasks -> 0..(MaxRounds + 1)]
  /\ at \in [Tasks -> 0..Len(FallbackChain)]
  /\ attempt \in [Tasks -> 1..MaxRetries]
  /\ usage \in [Tasks -> Nat]
  /\ messages \in [Tasks -> Seq(Message)]
  /\ toolCalls \in [Tasks -> 0..MaxToolCalls]
  /\ answered \in [Tasks -> 0..MaxToolCalls]
  /\ cut \in [Tasks -> BOOLEAN]
  /\ stop \in [Tasks -> StopReason]
  /\ reported \in [Tasks -> 0..(MaxRounds + 1)]
  /\ tries \in [Tasks -> [Models -> 0..(MaxRetries + 1)]]
  /\ uncounted \subseteq Tasks

\* Whenever a request goes out, the forced one included, each assistant
\* message of the conversation is followed at once by one result for each of
\* its tool calls, in order, and by no other result: no note pushed by the
\* checkpoint, the budget guard or the length check comes between them, and no
\* early way out of a round leaves a call without its answer.
ToolCallsAnswered ==
  \A t \in Tasks : pc[t] \in {"call", "forced"} =>
    LET m == messages[t]
        Result(i) == i \in DOMAIN m /\ m[i].role = "tool"
    IN \A i \in DOMAIN m : m[i].role = "assistant" =>
         /\ \A k \in 1..m[i].n : Result(i + k) /\ m[i + k].n = k
         /\ ~Result(i + m[i].n + 1)

Rounds(t) ==
  Cardinality({i \in DOMAIN messages[t] : messages[t][i].role = "assistant"})

\* The rounds of a LoopOutcome are the answers the model really gave, whichever
\* of the four exits the loop took, and never more than the cap.
RoundsAreAnswers ==
  \A t \in Tasks :
    /\ Rounds(t) <= MaxRounds
    /\ pc[t] = "returned" => reported[t] = Rounds(t)

\* Within one request no model is called more often than it may be, however
\* the configured chain repeats itself or the default model; a model is called
\* only when every model configured before it has failed all its attempts; and
\* the loop gives up on the provider only when all of them have.
FallbackInOrder ==
  \A t \in Tasks :
    /\ \A m \in Models : tries[t][m] <= MaxRetries
    /\ \A i, j \in 0..Len(FallbackChain) :
         (tries[t][ModelAt(j)] > 0 /\ \A k \in 0..i : ModelAt(k) # ModelAt(j))
           => tries[t][ModelAt(i)] = MaxRetries
    /\ stop[t] = "LlmExhausted" =>
         \A m \in Models : tries[t][m] = MaxRetries

\* At most as many steps are left to a loop: to its request, to one round, and
\* beyond the present round, the forced answer included.
RequestCalls == MaxRetries * (Len(FallbackChain) + 1)
CallsLeft(t) == MaxRetries * (Len(FallbackChain) + 1 - at[t]) - (attempt[t] - 1)
RoundSteps   == 1 + RequestCalls + MaxToolCalls + 1
Rest(t)      == RoundSteps * (MaxRounds - rounds[t]) + 1 + RequestCalls
StepsLeft(t) ==
  CASE pc[t] = "idle"     -> 1 + Rest(t)
    [] pc[t] = "top"      -> Rest(t)
    [] pc[t] = "call"     -> CallsLeft(t) + MaxToolCalls + 1 + Rest(t)
    [] pc[t] = "dispatch" -> toolCalls[t] - answered[t] + 1 + Rest(t)
    [] pc[t] = "budget"   -> 1 + Rest(t)
    [] pc[t] = "forced"   -> CallsLeft(t)
    [] OTHER              -> 0

\* Whatever the provider, the tools, the ledger and the other tasks do, each step
\* of the loops brings one of them closer to its end and sets none back: no
\* sequence of retries, fallbacks, rounds and forced answers goes on for ever,
\* or makes more calls than StepsLeft had at the start.
LoopsWindDown ==
  [][\E t \in Tasks :
       /\ StepsLeft(t)' \in 0..(StepsLeft(t) - 1)
       /\ \A u \in Tasks \ {t} : StepsLeft(u)' = StepsLeft(u)]_vars

\* The ledger the tasks share and the sums they keep for themselves agree, but
\* for the usage events that could not be appended.
BooksBalance == MapThenSumSet(LAMBDA t : usage[t], Tasks) = ledger + lost

\* However the tasks interleave, the usage of the session's rounds passes the
\* budget by at most one answer per task, and one more for each time the store
\* failed the guard: a task already past the budget gets no second round.
OverspendBounded ==
  Enforced =>
    ledger + lost < TotalUsd + MaxCost * (Cardinality(Tasks) + storeErrors)

\* No task takes more than the hard share of the whole budget by more than one
\* answer, and one more for each store failure.
TaskShareBounded ==
  Enforced => \A t \in Tasks :
    100 * usage[t] <=
      HardTaskPct * TotalUsd + 100 * MaxCost * (1 + storeErrors)

\* Why: the tasks past the model call of their present round.  Each of them has
\* had its one answer since the guard last let it through, and the guard lets
\* a task through only while the ledger is below the budget, or unread.
Late == {t \in Tasks : pc[t] \notin {"idle", "top", "call"}}

SpendingTyped ==
  /\ ledger \in Nat
  /\ lost \in Nat
  /\ storeErrors \in Nat
  /\ usage \in [Tasks -> Nat]
  /\ pc \in [Tasks -> LoopPc]

LossesAreErrors == lost <= MaxCost * storeErrors

SpentByLate ==
  Enforced =>
    ledger + lost < TotalUsd + MaxCost * (Cardinality(Late) + storeErrors)

Shares ==
  Enforced => \A t \in Tasks :
    100 * usage[t] <= HardTaskPct * TotalUsd + 100 * (MaxCost * storeErrors)
                      + (IF t \in Late THEN 100 * MaxCost ELSE 0)

\* The inductive invariant behind the two bounds on spending.
SpendingInv == SpendingTyped /\ LossesAreErrors /\ SpentByLate /\ Shares

\* Every loop that starts returns an outcome or dies with a panicking tool:
\* retries, fallbacks and rounds all run out.
LoopsReturn == \A t \in Tasks : pc[t] # "idle" ~> Over(t)

-----------------------------------------------------------------------------
(* What the documents and comments say, and the code does not do.          *)

\* tool_loop.rs:74: the usage of an outcome is "accumulated usage across every
\* LLM call the loop made".
UsageCountsEveryCall ==
  \A t \in Tasks : pc[t] = "returned" => t \notin uncounted
=============================================================================
