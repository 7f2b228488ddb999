---------------------------- MODULE ExchangeProofs ----------------------------
(***************************************************************************)
(* For every fallback chain, set of tools, provider and bound: the wording *)
(* of the exchange changes nothing of what ToolLoop decides, so all that   *)
(* is proved of the loops holds with it; each request to a model extends   *)
(* the one before; it tells the provider its own words; and a usage that   *)
(* is not the price of the answers is flagged.                             *)
(*                                                                         *)
(* The argument for the second is SentInv.  The conversation only grows,   *)
(* and every body is the conversation as it was then, message by message;  *)
(* a body without tools has only been sent by a task that is forced to     *)
(* answer, and such a task sends no other.                                 *)
(*                                                                         *)
(* For the third, EchoInv: the n-th assistant message of the conversation  *)
(* is the n-th answer, the results after it are those of its calls as far  *)
(* as they are there, and all of them are there whenever a request goes    *)
(* out; a body sent then keeps that.  Texts and prices are folds over      *)
(* lists: FoldExists gives their equation, and induction on the length of  *)
(* a beginning of the list what is needed of them.                         *)
(***************************************************************************)
EXTENDS Exchange, ToolLoopProofs

-----------------------------------------------------------------------------
(* What ToolLoop decides.                                                  *)

LEMMA StepsAreLoopSteps == [ExchangeNext]_<<vars, exchangeVars>> => [Next]_vars
  <1> SUFFICES ASSUME [ExchangeNext]_<<vars, exchangeVars>>
               PROVE  [Next]_vars
    OBVIOUS
  <1>1. CASE UNCHANGED <<vars, exchangeVars>>
    BY <1>1
  <1>2. CASE AllOver
    BY <1>2 DEF Next
  <1>3. ASSUME NEW t \in Tasks, ExchangeStep(t)
        PROVE  LoopStep(t)
    <2>1. CASE Reply(t)
      <3>1. PICK reply \in Answers :
              TakeAnswer(t, CostUsd(reply), Len(reply.calls),
                         FinishReason(reply.finish) = "Length")
        BY <2>1 DEF Reply
      <3>2. CostUsd(reply) \in Costs /\ Len(reply.calls) \in 0..MaxToolCalls
        BY ExchangeAssumption DEF Answers, Replies, CostUsd
      <3>3. (FinishReason(reply.finish) = "Length") \in BOOLEAN
        OBVIOUS
      <3> QED
        BY <3>1, <3>2, <3>3 DEF Answer, LoopStep
    <2>2. CASE ~Reply(t)
      BY <1>3, <2>2
      DEF ExchangeStep, BetweenRequests, Dispatched, Panicked, HttpError,
          EmptyReply, NoAnswer, ForcedReply, LoopStep
    <2> QED
      BY <2>1, <2>2
  <1> QED
    BY <1>1, <1>2, <1>3 DEF ExchangeNext, Next

\* A loop with all its words is a loop of ToolLoop.
THEOREM ExchangeImplementsToolLoop == ExchangeSpec => Spec
  <1>1. ExchangeInit => Init
    BY DEF ExchangeInit
  <1> QED
    BY <1>1, StepsAreLoopSteps, PTL DEF ExchangeSpec, Spec

\* Whatever the words, the overrun of the session is bounded (OverspendBounded):
\* the exchange adds no call that the loop does not make.
THEOREM ExchangeOverrunIsBounded == ExchangeSpec => []OverspendBounded
  BY ExchangeImplementsToolLoop, BudgetOverrunIsBounded, PTL

\* Whatever the provider replies, no call is left without its result, outcomes
\* count answers, models are called in order, and each step leaves fewer to go.
THEOREM ExchangeKeepsTheLoop ==
  ExchangeSpec => /\ []ToolCallsAnswered /\ []RoundsAreAnswers /\ []FallbackInOrder
                  /\ LoopsWindDown
BY ExchangeImplementsToolLoop, CallsAreAnswered, OutcomesCountAnswers, ModelsInOrder,
   LoopsAlwaysWindDown, PTL

-----------------------------------------------------------------------------
(* Sequences over any set.                                                 *)

IsSeq(s) == \E S : s \in Seq(S)

\* s is the beginning of u.
Begins(s, u) ==
  /\ Len(s) <= Len(u)
  /\ \A i \in 1..Len(s) : s[i] = u[i]

LEMMA SeqLength ==
  ASSUME NEW s, IsSeq(s)
  PROVE  Len(s) \in Nat /\ DOMAIN s = 1..Len(s)
  <1>1. PICK S : s \in Seq(S)
    BY DEF IsSeq
  <1> QED
    BY <1>1, LenProperties

\* What is pushed comes after what is there.
LEMMA Pushed ==
  ASSUME NEW s, NEW u, IsSeq(s), IsSeq(u)
  PROVE  /\ IsSeq(s \o u)
         /\ Len(s \o u) = Len(s) + Len(u)
         /\ Begins(s, s \o u)
  <1>1. PICK S, U : s \in Seq(S) /\ u \in Seq(U)
    BY DEF IsSeq
  <1>2. s \in Seq(S \cup U) /\ u \in Seq(S \cup U)
    BY <1>1, SeqMonotonic
  <1>3. Len(s) \in Nat /\ Len(u) \in Nat
    BY <1>1, LenProperties
  <1> QED
    BY <1>2, <1>3, ConcatProperties DEF IsSeq, Begins

LEMMA BeginsTransitive ==
  ASSUME NEW s, NEW u, NEW v, IsSeq(s), IsSeq(u), IsSeq(v),
         Begins(s, u), Begins(u, v)
  PROVE  Begins(s, v)
  BY SeqLength DEF Begins

\* A conversation that grows is a list of messages that grows.
LEMMA LongerRequest ==
  ASSUME NEW m, NEW s, NEW u, NEW f, NEW g, IsSeq(s), IsSeq(u), Begins(s, u)
  PROVE  IsPrefix(BuildBody(m, s, f).messages, BuildBody(m, u, g).messages)
  <1> DEFINE J(q) == [i \in DOMAIN q |-> MessageToJson(q[i])]
  <1>1. ASSUME NEW q, IsSeq(q)
        PROVE  IsSeq(J(q)) /\ Len(J(q)) = Len(q) /\ \A i \in 1..Len(q) : J(q)[i] = MessageToJson(q[i])
    <2>1. Len(q) \in Nat /\ DOMAIN q = 1..Len(q)
      BY <1>1, SeqLength
    <2> DEFINE S == {MessageToJson(q[i]) : i \in 1..Len(q)}
    <2>2. J(q) \in Seq(S) /\ Len(J(q)) = Len(q)
      BY <2>1
    <2> QED
      BY <2>1, <2>2 DEF IsSeq
  <1>2. /\ BuildBody(m, s, f).messages = J(s)
        /\ BuildBody(m, u, g).messages = J(u)
    BY DEF BuildBody
  <1> HIDE DEF J
  <1>3. /\ Len(J(s)) = Len(s) /\ Len(J(u)) = Len(u)
        /\ Len(s) \in Nat /\ Len(u) \in Nat /\ Len(s) <= Len(u)
    BY <1>1, SeqLength DEF Begins
  <1>4. \A i \in 1..Len(s) : J(s)[i] = J(u)[i]
    BY <1>1, <1>3 DEF Begins
  <1>5. SubSeq(J(s), 1, Len(J(s))) = SubSeq(J(u), 1, Len(J(s)))
    BY <1>3, <1>4
  <1> QED
    BY <1>2, <1>3, <1>5 DEF IsPrefix

-----------------------------------------------------------------------------
(* Each request extends the one before.                                    *)

ConversationsTyped ==
  /\ talk = [t \in Tasks |-> talk[t]]
  /\ messages = [t \in Tasks |-> messages[t]]
  /\ sent = [t \in Tasks |-> [m \in Models |-> sent[t][m]]]
  /\ \A t \in Tasks : IsSeq(talk[t]) /\ IsSeq(messages[t])

\* What a model was sent last: the conversation of some time ago, without tools
\* only if the task has been made to answer since.
WasSaid(t, m, said, forced) ==
  /\ IsSeq(said) /\ forced \in BOOLEAN
  /\ Begins(said, talk[t])
  /\ sent[t][m] = BuildBody(m, said, forced)
  /\ forced => pc[t] \in {"forced", "returned"}

BodiesWereSaid ==
  \A t \in Tasks, m \in Models :
    sent[t][m] # NoBody =>
      \E said, forced : WasSaid(t, m, said, forced)

\* The inductive invariant of the exchange.
SentInv ==
  /\ pc \in [Tasks -> LoopPc]
  /\ ConversationsTyped
  /\ BodiesWereSaid

LEMMA InitSent == ExchangeInit => SentInv
  <1> SUFFICES ASSUME ExchangeInit PROVE SentInv
    OBVIOUS
  <1>1. pc \in [Tasks -> LoopPc]
    BY DEF ExchangeInit, Init, LoopPc
  <1>2. IsSeq(Opening) /\ IsSeq(<<>>)
    <2>1. Opening \in Seq({Opening[1], Opening[2]})
      BY DEF Opening
    <2>2. <<>> \in Seq({})
      OBVIOUS
    <2> QED
      BY <2>1, <2>2 DEF IsSeq
  <1>3. ConversationsTyped
    BY <1>2 DEF ExchangeInit, Init, ConversationsTyped
  <1>4. BodiesWereSaid
    BY DEF ExchangeInit, BodiesWereSaid
  <1> QED
    BY <1>1, <1>3, <1>4 DEF SentInv

\* A step of t that sends nothing: the conversation grows or stays.
LEMMA QuietStep ==
  ASSUME SentInv, NEW t \in Tasks, NEW u, IsSeq(u),
         pc' \in [Tasks -> LoopPc],
         \A w \in Tasks \ {t} : pc'[w] = pc[w],
         pc[t] \notin {"forced", "returned"},
         talk' = [talk EXCEPT ![t] = @ \o u],
         messages' = [w \in Tasks |-> messages'[w]],
         \A w \in Tasks : IsSeq(messages'[w]),
         UNCHANGED sent
  PROVE  SentInv'
  <1>1. /\ talk' = [w \in Tasks |-> talk'[w]]
        /\ talk'[t] = talk[t] \o u
        /\ \A w \in Tasks \ {t} : talk'[w] = talk[w]
    BY DEF SentInv, ConversationsTyped
  <1>2. \A w \in Tasks : IsSeq(talk[w])
    BY DEF SentInv, ConversationsTyped
  <1>3. IsSeq(talk'[t]) /\ Begins(talk[t], talk'[t])
    BY <1>1, <1>2, Pushed
  <1>4. ConversationsTyped'
    BY <1>1, <1>2, <1>3 DEF SentInv, ConversationsTyped
  <1>5. ASSUME NEW w \in Tasks, NEW m \in Models, sent[w][m] # NoBody
        PROVE  \E said, forced : WasSaid(w, m, said, forced)'
    <2>1. PICK said, forced : WasSaid(w, m, said, forced)
      BY <1>5 DEF SentInv, BodiesWereSaid
    <2>2. Begins(said, talk'[w])
      BY <2>1, <1>1, <1>2, <1>3, BeginsTransitive DEF WasSaid
    <2>3. forced => pc'[w] \in {"forced", "returned"}
      BY <2>1 DEF WasSaid
    <2> QED
      BY <2>1, <2>2, <2>3 DEF WasSaid
  <1> QED
    BY <1>4, <1>5 DEF SentInv, BodiesWereSaid

\* What a request of t adds: to the conversation u, to pc where it goes on.
LEMMA SendingStep ==
  ASSUME SentInv, NEW t \in Tasks, NEW u, IsSeq(u),
         pc[t] \in {"call", "forced"}, Send(t),
         pc' \in [Tasks -> LoopPc],
         \A w \in Tasks \ {t} : pc'[w] = pc[w],
         pc[t] = "forced" => pc'[t] \in {"forced", "returned"},
         talk' = [talk EXCEPT ![t] = @ \o u],
         messages' = [w \in Tasks |-> messages'[w]],
         \A w \in Tasks : IsSeq(messages'[w])
  PROVE  SentInv'
  <1>1. /\ talk' = [w \in Tasks |-> talk'[w]]
        /\ talk'[t] = talk[t] \o u
        /\ \A w \in Tasks \ {t} : talk'[w] = talk[w]
    BY DEF SentInv, ConversationsTyped
  <1>2. \A w \in Tasks : IsSeq(talk[w])
    BY DEF SentInv, ConversationsTyped
  <1>3. IsSeq(talk'[t]) /\ Begins(talk[t], talk'[t])
    BY <1>1, <1>2, Pushed
  <1> DEFINE model == ModelAt(at[t])
             body  == BuildBody(model, talk[t], pc[t] = "forced")
  <1>4. sent' = [sent EXCEPT ![t][model] = body]
    BY DEF Send
  <1> HIDE DEF model, body
  <1>5. /\ sent' = [w \in Tasks |-> [m \in Models |-> sent'[w][m]]]
        /\ \A w \in Tasks, m \in Models :
             sent'[w][m] = IF w = t /\ m = model THEN body ELSE sent[w][m]
    BY <1>4 DEF SentInv, ConversationsTyped
  <1>6. ConversationsTyped'
    BY <1>1, <1>2, <1>3, <1>5 DEF ConversationsTyped
  <1>7. ASSUME NEW w \in Tasks, NEW m \in Models, sent'[w][m] # NoBody
        PROVE  \E said, forced : WasSaid(w, m, said, forced)'
    <2>1. CASE w = t /\ m = model
      <3>1. PICK said, forced : said = talk[w] /\ forced = (pc[w] = "forced")
        OBVIOUS
      <3>2. sent'[w][m] = BuildBody(m, said, forced)
        BY <1>5, <2>1, <3>1 DEF body
      <3>3. /\ IsSeq(said) /\ Begins(said, talk'[w])
            /\ forced \in BOOLEAN
            /\ forced => pc'[w] \in {"forced", "returned"}
        BY <1>2, <1>3, <2>1, <3>1
      <3> QED
        BY <3>2, <3>3 DEF WasSaid
    <2>2. CASE ~(w = t /\ m = model)
      <3>1. sent'[w][m] = sent[w][m]
        BY <1>5, <2>2
      <3>2. PICK said, forced : WasSaid(w, m, said, forced)
        BY <1>7, <3>1 DEF SentInv, BodiesWereSaid
      <3>3. Begins(said, talk'[w])
        BY <3>2, <1>1, <1>2, <1>3, BeginsTransitive DEF WasSaid
      <3>4. forced => pc'[w] \in {"forced", "returned"}
        BY <3>2 DEF WasSaid, SentInv
      <3> QED
        BY <3>1, <3>2, <3>3, <3>4 DEF WasSaid
    <2> QED
      BY <2>1, <2>2
  <1> QED
    BY <1>6, <1>7 DEF SentInv, BodiesWereSaid

LEMMA ShortSeqs ==
  /\ IsSeq(<<>>)
  /\ \A x : IsSeq(<<x>>)
  /\ \A x, y : IsSeq(<<x, y>>)
  <1>1. <<>> \in Seq({})
    OBVIOUS
  <1>2. \A x : <<x>> \in Seq({x})
    OBVIOUS
  <1>3. \A x, y : <<x, y>> \in Seq({x, y})
    OBVIOUS
  <1> QED
    BY <1>1, <1>2, <1>3 DEF IsSeq

\* What ToolLoop says makes its messages longer, and they stay sequences.
LEMMA Said ==
  ASSUME SentInv, NEW t \in Tasks, NEW notes, IsSeq(notes), Say(t, notes)
  PROVE  /\ messages' = [w \in Tasks |-> messages'[w]]
         /\ \A w \in Tasks : IsSeq(messages'[w])
         /\ Len(messages'[t]) - Len(messages[t]) \in Nat
  <1>1. /\ messages'[t] = messages[t] \o notes
        /\ \A w \in Tasks \ {t} : messages'[w] = messages[w]
        /\ messages' = [w \in Tasks |-> messages'[w]]
    BY DEF SentInv, ConversationsTyped, Say
  <1>2. \A w \in Tasks : IsSeq(messages[w])
    BY DEF SentInv, ConversationsTyped
  <1>3. IsSeq(messages'[t]) /\ Len(messages'[t]) = Len(messages[t]) + Len(notes)
    BY <1>1, <1>2, Pushed
  <1>4. Len(messages[t]) \in Nat /\ Len(notes) \in Nat
    BY <1>2, SeqLength
  <1>5. \A w \in Tasks : IsSeq(messages'[w])
    BY <1>1, <1>2, <1>3
  <1>6. Len(messages'[t]) - Len(messages[t]) \in Nat
    BY <1>3, <1>4
  <1> QED
    BY <1>1, <1>5, <1>6

\* A step between two requests pushes notes, or nothing.
LEMMA BetweenRequestsPush ==
  ASSUME SentInv, NEW t \in Tasks, BetweenRequests(t)
  PROVE  /\ messages' = [w \in Tasks |-> messages'[w]]
         /\ \A w \in Tasks : IsSeq(messages'[w])
         /\ Len(messages'[t]) - Len(messages[t]) \in Nat
         /\ pc[t] \notin {"forced", "returned"}
         /\ \E to \in LoopPc : pc' = [pc EXCEPT ![t] = to]
  <1>1. CASE Start(t)
    <2>1. UNCHANGED messages /\ pc[t] = "idle" /\ pc' = [pc EXCEPT ![t] = "top"]
      BY <1>1 DEF Start, Goto
    <2>2. messages = [w \in Tasks |-> messages[w]] /\ \A w \in Tasks : IsSeq(messages[w])
      BY DEF SentInv, ConversationsTyped
    <2>3. Len(messages[t]) \in Nat
      BY <2>2, SeqLength
    <2> QED
      BY <2>1, <2>2, <2>3 DEF LoopPc
  <1>2. CASE NextRound(t)
    <2>1. \E notes \in {<<>>, <<Note>>} : Say(t, notes)
      BY <1>2 DEF NextRound
    <2>2. pc[t] = "top" /\ \E to \in {"call", "forced"} : pc' = [pc EXCEPT ![t] = to]
      BY <1>2 DEF NextRound, Goto
    <2> QED
      BY <2>1, <2>2, ShortSeqs, Said DEF LoopPc
  <1>3. CASE OverBudget(t)
    <2>1. Say(t, <<Note>>)
      BY <1>3 DEF OverBudget
    <2>2. pc[t] = "budget" /\ pc' = [pc EXCEPT ![t] = "forced"]
      BY <1>3 DEF OverBudget, Goto
    <2> QED
      BY <2>1, <2>2, ShortSeqs, Said DEF LoopPc
  <1>4. CASE WithinBudget(t)
    <2> DEFINE nudge == IF SoftNudge(usage[t], rounds[t]) THEN <<Note>> ELSE <<>>
    <2>1. Say(t, nudge \o CutNote(t))
      BY <1>4 DEF WithinBudget
    <2>2. IsSeq(nudge) /\ IsSeq(CutNote(t))
      BY ShortSeqs DEF CutNote
    <2> HIDE DEF nudge
    <2>3. IsSeq(nudge \o CutNote(t))
      BY <2>2, Pushed
    <2>4. pc[t] = "budget" /\ pc' = [pc EXCEPT ![t] = "top"]
      BY <1>4 DEF WithinBudget, Goto
    <2> QED
      BY <2>1, <2>3, <2>4, Said DEF LoopPc
  <1>5. CASE BudgetUnread(t)
    <2>1. Say(t, CutNote(t)) /\ IsSeq(CutNote(t))
      BY <1>5, ShortSeqs DEF BudgetUnread, CutNote
    <2>2. pc[t] = "budget" /\ pc' = [pc EXCEPT ![t] = "top"]
      BY <1>5 DEF BudgetUnread, Goto
    <2> QED
      BY <2>1, <2>2, Said DEF LoopPc
  <1> QED
    BY <1>1, <1>2, <1>3, <1>4, <1>5 DEF BetweenRequests

LEMMA BetweenRequestsSent ==
  ASSUME SentInv, NEW t \in Tasks, BetweenRequests(t)
  PROVE  SentInv'
  <1> DEFINE n == Len(messages'[t]) - Len(messages[t])
             u == [i \in 1..n |-> SystemText("note")]
  <1>1. n \in Nat
    BY BetweenRequestsPush
  <1>2. u \in Seq({SystemText("note")})
    BY <1>1
  <1>3. PICK v : v = u
    OBVIOUS
  <1>4. IsSeq(v) /\ talk' = [talk EXCEPT ![t] = @ \o v]
    BY <1>2, <1>3 DEF IsSeq, BetweenRequests, PushNotes
  <1>5. PICK to \in LoopPc : pc' = [pc EXCEPT ![t] = to]
    BY BetweenRequestsPush
  <1>6. pc' \in [Tasks -> LoopPc] /\ \A w \in Tasks \ {t} : pc'[w] = pc[w]
    BY <1>5 DEF SentInv
  <1>7. UNCHANGED sent
    BY DEF BetweenRequests
  <1> QED
    BY <1>4, <1>6, <1>7, BetweenRequestsPush, QuietStep

\* Dispatch pushes one result, a panic nothing.
LEMMA ToolStepsSent ==
  ASSUME SentInv, NEW t \in Tasks, Dispatched(t) \/ Panicked(t)
  PROVE  SentInv'
  <1>1. CASE Dispatched(t)
    <2>1. PICK result : talk' = [talk EXCEPT ![t] = Append(@, result)]
      BY <1>1 DEF Dispatched
    <2>2. IsSeq(talk[t])
      BY DEF SentInv, ConversationsTyped
    <2>3. Append(talk[t], result) = talk[t] \o <<result>>
      BY <2>2 DEF IsSeq
    <2>4. talk' = [talk EXCEPT ![t] = @ \o <<result>>] /\ UNCHANGED sent
      BY <1>1, <2>1, <2>3 DEF Dispatched
    <2>5. PICK note : Say(t, <<note>>)
      BY <1>1 DEF Dispatched, Dispatch
    <2>6. /\ pc[t] = "dispatch"
          /\ \E to \in {"budget", "dispatch"} : pc' = [pc EXCEPT ![t] = to]
      BY <1>1 DEF Dispatched, Dispatch, Goto
    <2>7. pc' \in [Tasks -> LoopPc] /\ \A w \in Tasks \ {t} : pc'[w] = pc[w]
      BY <2>6 DEF SentInv, LoopPc
    <2>8. /\ messages' = [w \in Tasks |-> messages'[w]]
          /\ \A w \in Tasks : IsSeq(messages'[w])
      BY <2>5, Said, ShortSeqs
    <2> QED
      BY <2>4, <2>6, <2>7, <2>8, ShortSeqs, QuietStep
  <1>2. CASE Panicked(t)
    <2>1. /\ pc[t] = "dispatch" /\ pc' = [pc EXCEPT ![t] = "panicked"]
          /\ UNCHANGED <<talk, sent, messages>>
      BY <1>2 DEF Panicked, ToolPanics, Goto, exchangeVars
    <2> QED
      BY <2>1 DEF SentInv, ConversationsTyped, BodiesWereSaid, WasSaid, LoopPc
  <1> QED
    BY <1>1, <1>2

LEMMA NoAnswerSent ==
  ASSUME SentInv, NEW t \in Tasks, NoAnswer(t) \/ ForcedReply(t)
  PROVE  SentInv'
  <1>1. /\ pc[t] \in {"call", "forced"}
        /\ UNCHANGED <<talk, messages>>
        /\ Send(t)
    BY DEF NoAnswer, ForcedReply, RetryModel, FallBack, GiveUp, ForcedAnswer, Ask
  <1>2. UNCHANGED pc \/ pc' = [pc EXCEPT ![t] = "returned"]
    BY DEF NoAnswer, ForcedReply, RetryModel, FallBack, GiveUp, ForcedAnswer,
           Return
  <1>3. /\ pc' \in [Tasks -> LoopPc]
        /\ \A w \in Tasks \ {t} : pc'[w] = pc[w]
        /\ pc[t] = "forced" => pc'[t] \in {"forced", "returned"}
    BY <1>2 DEF SentInv, LoopPc
  <1>4. /\ talk = [w \in Tasks |-> talk[w]] /\ IsSeq(talk[t])
        /\ messages' = [w \in Tasks |-> messages'[w]]
        /\ \A w \in Tasks : IsSeq(messages'[w])
    BY <1>1 DEF SentInv, ConversationsTyped
  <1>5. talk[t] \o <<>> = talk[t]
    BY <1>4, ConcatEmptySeq DEF IsSeq
  <1>6. talk' = [talk EXCEPT ![t] = @ \o <<>>]
    BY <1>1, <1>4, <1>5
  <1> QED
    BY <1>1, <1>3, <1>4, <1>6, ShortSeqs, SendingStep

LEMMA ReplySent ==
  ASSUME SentInv, NEW t \in Tasks, Reply(t)
  PROVE  SentInv'
  <1>1. PICK reply, msg :
          /\ TakeAnswer(t, CostUsd(reply), Len(reply.calls),
                        FinishReason(reply.finish) = "Length")
          /\ talk' = [talk EXCEPT ![t] = Append(@, msg)]
    BY DEF Reply
  <1>2. /\ pc[t] = "call"
        /\ \E note : Say(t, <<note>>)
        /\ \E to \in {"dispatch", "returned"} : pc' = [pc EXCEPT ![t] = to]
    BY <1>1 DEF TakeAnswer, Return
  <1>3. IsSeq(talk[t])
    BY DEF SentInv, ConversationsTyped
  <1>4. Append(talk[t], msg) = talk[t] \o <<msg>>
    BY <1>3 DEF IsSeq
  <1>5. talk' = [talk EXCEPT ![t] = @ \o <<msg>>] /\ Send(t)
    BY <1>1, <1>4 DEF Reply
  <1>6. /\ messages' = [w \in Tasks |-> messages'[w]]
        /\ \A w \in Tasks : IsSeq(messages'[w])
    BY <1>2, Said, ShortSeqs
  <1>7. pc' \in [Tasks -> LoopPc] /\ \A w \in Tasks \ {t} : pc'[w] = pc[w]
    BY <1>2 DEF SentInv, LoopPc
  <1> QED
    BY <1>2, <1>5, <1>6, <1>7, ShortSeqs, SendingStep

LEMMA NextSent ==
  ASSUME SentInv, [ExchangeNext]_<<vars, exchangeVars>>
  PROVE  SentInv'
  <1>1. CASE UNCHANGED <<vars, exchangeVars>>
    <2>1. UNCHANGED <<pc, messages, talk, sent>>
      BY <1>1 DEF vars, exchangeVars
    <2> QED
      BY <2>1 DEF SentInv, ConversationsTyped, BodiesWereSaid, WasSaid
  <1>2. CASE AllOver /\ UNCHANGED exchangeVars
    BY <1>1, <1>2 DEF AllOver
  <1>3. ASSUME NEW t \in Tasks, ExchangeStep(t)
        PROVE  SentInv'
    BY <1>3, BetweenRequestsSent, ToolStepsSent, NoAnswerSent, ReplySent
    DEF ExchangeStep, HttpError, EmptyReply
  <1> QED
    BY <1>1, <1>2, <1>3 DEF ExchangeNext

\* The inductive invariant of the exchange holds.
THEOREM SentInvariance == ExchangeSpec => []SentInv
  BY InitSent, NextSent, PTL DEF ExchangeSpec

-----------------------------------------------------------------------------
\* A request compared with the last one to its model.
LEMMA StepExtends ==
  ASSUME SentInv, [ExchangeNext]_<<vars, exchangeVars>>,
         NEW t \in Tasks, NEW m \in Models, sent[t][m] # NoBody
  PROVE  /\ IsPrefix(sent[t][m].messages, sent'[t][m].messages)
         /\ sent'[t][m].tools \in {sent[t][m].tools, <<>>}
         /\ sent'[t][m].pinned = sent[t][m].pinned
  <1>1. PICK said, forced : WasSaid(t, m, said, forced)
    BY DEF SentInv, BodiesWereSaid
  <1>2. IsSeq(said) /\ Begins(said, said) /\ IsSeq(talk[t])
    BY <1>1, SeqLength DEF WasSaid, Begins, SentInv, ConversationsTyped
  <1>3. CASE sent'[t][m] = sent[t][m]
    BY <1>1, <1>2, <1>3, LongerRequest DEF WasSaid
  <1>4. CASE /\ pc[t] \in {"call", "forced"}
             /\ sent'[t][m] = BuildBody(m, talk[t], pc[t] = "forced")
    <2>1. PICK now, final : now = talk[t] /\ final = (pc[t] = "forced")
      OBVIOUS
    <2>2. /\ sent'[t][m] = BuildBody(m, now, final)
          /\ sent[t][m] = BuildBody(m, said, forced)
          /\ IsSeq(now) /\ Begins(said, now)
          /\ forced \in BOOLEAN /\ final \in BOOLEAN /\ (forced => final)
      BY <1>1, <1>2, <1>4, <2>1 DEF WasSaid
    <2>3. IsPrefix(sent[t][m].messages, sent'[t][m].messages)
      BY <1>2, <2>2, LongerRequest
    <2> QED
      BY <2>2, <2>3 DEF BuildBody
  <1>5. \/ sent'[t][m] = sent[t][m]
        \/ /\ pc[t] \in {"call", "forced"}
           /\ sent'[t][m] = BuildBody(m, talk[t], pc[t] = "forced")
    <2>1. CASE UNCHANGED sent
      BY <2>1
    <2>2. ASSUME NEW w \in Tasks, Send(w), pc[w] \in {"call", "forced"}
          PROVE  <1>5!1 \/ <1>5!2
      <3>1. sent = [v \in Tasks |-> [k \in Models |-> sent[v][k]]]
        BY DEF SentInv, ConversationsTyped
      <3> QED
        BY <2>2, <3>1 DEF Send
    <2>3. \/ UNCHANGED sent
          \/ \E w \in Tasks : Send(w) /\ pc[w] \in {"call", "forced"}
      BY DEF ExchangeNext, ExchangeStep, BetweenRequests, Dispatched, Panicked,
             HttpError, EmptyReply, NoAnswer, Reply, ForcedReply, RetryModel,
             FallBack, GiveUp, TakeAnswer, ForcedAnswer, Ask, exchangeVars
    <2> QED
      BY <2>1, <2>2, <2>3
  <1> QED
    BY <1>3, <1>4, <1>5

\* Every request to a model extends the one before to it (RequestsExtend), so the
\* provider's cache of the conversation holds over rounds, retries, fallbacks
\* and notes.
THEOREM RequestsAlwaysExtend == ExchangeSpec => RequestsExtend
  <1>1. SentInv /\ [ExchangeNext]_<<vars, exchangeVars>> =>
          [\A t \in Tasks, m \in Models :
             sent[t][m] # NoBody =>
               /\ IsPrefix(sent[t][m].messages, sent'[t][m].messages)
               /\ sent'[t][m].tools \in {sent[t][m].tools, <<>>}
               /\ sent'[t][m].pinned = sent[t][m].pinned]_sent
    BY StepExtends
  <1> QED
    BY <1>1, SentInvariance, PTL DEF ExchangeSpec, RequestsExtend

-----------------------------------------------------------------------------
(* Prices.                                                                 *)

\* The price of a list of answers.
Price(f) == FoldLeft(LAMBDA sum, reply : sum + reply.price, 0, f)

\* FoldLeft, written as the function it is computed by.
AddUp(f, n) ==
  CHOOSE g : g = [S \in SUBSET (1..n) |->
                    IF S = {} THEN 0 ELSE g[S \ {Max(S)}] + f[Max(S)].price]

\* What FoldLeft computes, by its definition.
LEMMA PriceAddsUp ==
  ASSUME NEW f, NEW n, DOMAIN f = 1..n
  PROVE  Price(f) = AddUp(f, n)[1..n]
  BY DEF Price, FoldLeft, MapThenFoldSet, AddUp

\* Max chooses the greatest of some first numbers.
LEMMA Greatest ==
  ASSUME NEW n \in Nat, NEW S \in SUBSET (1..n), S # {}
  PROVE  Max(S) \in S /\ \A x \in S : x <= Max(S)
  <1> DEFINE D == {n - x : x \in S}
  <1>0. \A x \in S : x \in Nat /\ x <= n
    OBVIOUS
  <1>1. D \subseteq Nat /\ D # {}
    <2>1. \A x \in S : n - x \in Nat
      BY <1>0
    <2>2. \E x \in S : n - x \in D
      OBVIOUS
    <2> QED
      BY <2>1, <2>2
  <1>2. PICK d \in D : \A e \in D : d <= e
    BY <1>1, LeastOf
  <1>3. PICK x \in S : d = n - x
    BY <1>2
  <1>4. ASSUME NEW y \in S PROVE x >= y
    <2>1. n - y \in D
      OBVIOUS
    <2>2. n - x <= n - y
      BY <1>2, <1>3, <2>1
    <2>3. x \in Nat /\ y \in Nat /\ n \in Nat
      BY <1>0
    <2> HIDE DEF D
    <2> QED
      BY <2>2, <2>3
  <1>5. \E z \in S : \A y \in S : z >= y
    BY <1>4
  <1>6. Max(S) \in S /\ \A y \in S : Max(S) >= y
    BY <1>5, Zenon DEF Max
  <1> QED
    BY <1>6

\* The order in which FoldLeft goes: the greatest of 1..k is k.
LEMMA GreatestFirst ==
  ASSUME NEW n \in Nat, NEW k \in 1..n
  PROVE  /\ 1..k \in SUBSET (1..n) /\ 1..k # {}
         /\ Max(1..k) = k
         /\ (1..k) \ {k} = 1..(k - 1)
  <1>1. k \in Nat /\ 1..k \in SUBSET (1..n) /\ 1..k # {} /\ k \in 1..k
    OBVIOUS
  <1>2. Max(1..k) \in 1..k /\ \A x \in 1..k : x <= Max(1..k)
    BY <1>1, Greatest
  <1> QED
    BY <1>1, <1>2

\* The sum of a beginning of the list.
LEMMA PricesOfBeginning ==
  ASSUME NEW f, NEW n \in Nat, \A i \in 1..n : f[i].price \in Nat
  PROVE  /\ AddUp(f, n)[1..0] = 0
         /\ \A k \in 1..n :
              AddUp(f, n)[1..k] = AddUp(f, n)[1..(k - 1)] + f[k].price
  <1> DEFINE Sum(h) == [S \in SUBSET (1..n) |->
                          IF S = {} THEN 0 ELSE h[S \ {Max(S)}] + f[Max(S)].price]
  <1>1. \E h : h = Sum(h)
    <2>1. PICK pick : pick = [S \in SUBSET (1..n) |-> Max(S)]
      OBVIOUS
    <2>2. PICK w : w = [i \in 1..n |-> f[i].price]
      OBVIOUS
    <2>3. w \in [1..n -> Nat] /\ Picks(pick, 1..n) /\ IsFiniteSet(1..n)
      <3>1. Picks(pick, 1..n)
        BY <2>1, Greatest DEF Picks
      <3>2. IsFiniteSet(1..n)
        BY FS_Interval
      <3> QED
        BY <2>2, <3>1, <3>2
    <2>4. PICK h \in [SUBSET (1..n) -> Nat] : Adds(h, 1..n, pick, w)
      BY <2>3, SumExists
    <2>5. ASSUME NEW S \in SUBSET (1..n)
          PROVE  h[S] = IF S = {} THEN 0 ELSE h[S \ {Max(S)}] + f[Max(S)].price
      <3>1. CASE S = {}
        BY <2>4, <3>1 DEF Adds
      <3>2. CASE S # {}
        <4>1. PICK m \in S : m = Max(S)
          BY <3>2, Greatest
        <4>2. pick[S] = m
          BY <2>1, <4>1
        <4>3. h[S] = w[m] + h[S \ {m}]
          BY <2>4, <3>2, <4>2 DEF Adds
        <4>4. w[m] = f[m].price /\ f[m].price \in Nat
          BY <2>2
        <4>5. h[S \ {m}] \in Nat
          BY <2>4
        <4>6. h[S] = h[S \ {m}] + f[m].price
          BY <4>3, <4>4, <4>5
        <4> QED
          BY <3>2, <4>1, <4>6
      <3> QED
        BY <3>1, <3>2
    <2>6. h = Sum(h)
      BY <2>4, <2>5
    <2> QED
      BY <2>6
  <1>2. AddUp(f, n) = Sum(AddUp(f, n))
    <2>1. AddUp(f, n) = CHOOSE h : h = Sum(h)
      BY DEF AddUp
    <2> HIDE DEF Sum
    <2>2. ASSUME NEW h, h = CHOOSE k : k = Sum(k)
          PROVE  h = Sum(h)
      BY <1>1, <2>2, Zenon
    <2> QED
      BY <2>1, <2>2
  <1>3. \A S \in SUBSET (1..n) :
          AddUp(f, n)[S] =
            IF S = {} THEN 0 ELSE AddUp(f, n)[S \ {Max(S)}] + f[Max(S)].price
    BY <1>2
  <1>4. ASSUME NEW k \in 1..n
        PROVE  Max(1..k) = k /\ (1..k) \ {k} = 1..(k - 1) /\ 1..k \in SUBSET (1..n)
    BY GreatestFirst
  <1>5. 1..0 = {}
    OBVIOUS
  <1> DEFINE a == AddUp(f, n)
  <1>6. 1..0 \in SUBSET (1..n) /\ a[1..0] = 0
    BY <1>3, <1>5
  <1>7. ASSUME NEW k \in 1..n
        PROVE  a[1..k] = a[1..(k - 1)] + f[k].price
    <2>1. PICK S \in SUBSET (1..n) : S = 1..k
      BY <1>4
    <2>2. S # {} /\ Max(S) = k /\ S \ {k} = 1..(k - 1)
      BY <1>4, <2>1
    <2>3. a[S] = a[S \ {Max(S)}] + f[Max(S)].price
      BY <1>3, <2>2
    <2> QED
      BY <2>1, <2>2, <2>3
  <1> QED
    BY <1>6, <1>7

\* One more answer adds its price.
LEMMA OneMorePrice ==
  ASSUME NEW f \in Seq(Replies), NEW r \in Replies
  PROVE  /\ Price(f) \in Nat
         /\ Price(Append(f, r)) = Price(f) + r.price
  <1> DEFINE n == Len(f)
             g == AddUp(f, n)
             e == Append(f, r)
             h == AddUp(e, n + 1)
             P == {k \in Nat : k <= n => g[1..k] \in Nat /\ h[1..k] = g[1..k]}
  <1>1. n \in Nat /\ DOMAIN f = 1..n /\ DOMAIN e = 1..(n + 1)
    OBVIOUS
  <1>2. \A reply \in Replies : reply.price \in Nat
    BY LoopAssumption DEF Replies
  <1>3. /\ \A i \in 1..n : f[i].price \in Nat /\ e[i] = f[i]
        /\ e[n + 1] = r /\ r.price \in Nat
    BY <1>1, <1>2
  <1>4. \A i \in 1..(n + 1) : e[i].price \in Nat
    BY <1>1, <1>3
  <1> HIDE DEF n, e
  <1>5. /\ g[1..0] = 0
        /\ \A k \in 1..n : g[1..k] = g[1..(k - 1)] + f[k].price
    BY <1>1, <1>3, PricesOfBeginning
  <1>6. /\ h[1..0] = 0
        /\ \A k \in 1..(n + 1) : h[1..k] = h[1..(k - 1)] + e[k].price
    <2>1. PICK k : k = n + 1
      OBVIOUS
    <2>2. k \in Nat /\ \A i \in 1..k : e[i].price \in Nat
      BY <1>1, <1>4, <2>1
    <2>3. /\ AddUp(e, k)[1..0] = 0
          /\ \A j \in 1..k : AddUp(e, k)[1..j] = AddUp(e, k)[1..(j - 1)] + e[j].price
      BY <2>2, PricesOfBeginning
    <2> QED
      BY <2>1, <2>3
  <1> HIDE DEF g, h
  <1>7. P = Nat
    <2>1. P \subseteq Nat /\ 0 \in P
      BY <1>5, <1>6
    <2>2. ASSUME NEW k \in Nat, k \in P, k + 1 <= n
          PROVE  g[1..(k + 1)] \in Nat /\ h[1..(k + 1)] = g[1..(k + 1)]
      <3>1. g[1..k] \in Nat /\ h[1..k] = g[1..k]
        BY <1>1, <2>2
      <3>2. /\ k + 1 \in 1..n /\ k + 1 \in 1..(n + 1) /\ (k + 1) - 1 = k
        BY <1>1, <2>2
      <3>3. /\ g[1..(k + 1)] = g[1..k] + f[k + 1].price
            /\ h[1..(k + 1)] = h[1..k] + e[k + 1].price
        BY <1>5, <1>6, <3>2
      <3> QED
        BY <1>3, <3>1, <3>2, <3>3
    <2>3. \A k \in Nat : k \in P => k + 1 \in P
      BY <2>2
    <2> HIDE DEF P
    <2> QED
      BY <2>1, <2>3, Inductive
  <1>8. g[1..n] \in Nat /\ h[1..n] = g[1..n]
    BY <1>1, <1>7
  <1>9. h[1..(n + 1)] = h[1..n] + r.price
    <2>1. n + 1 \in 1..(n + 1) /\ (n + 1) - 1 = n
      BY <1>1
    <2> QED
      BY <1>3, <1>6, <2>1
  <1>10. Price(f) = g[1..n] /\ Price(e) = h[1..(n + 1)]
    BY <1>1, PriceAddsUp DEF g, h
  <1> QED
    BY <1>8, <1>9, <1>10 DEF e

\* No answers cost nothing.
LEMMA NoPrice == Price(<<>>) = 0
  <1>1. PICK f, n : f = <<>> /\ n = 0
    OBVIOUS
  <1>2. DOMAIN f = 1..n /\ n \in Nat /\ \A i \in 1..n : f[i].price \in Nat
    BY <1>1
  <1>3. Price(f) = AddUp(f, n)[1..n]
    BY <1>2, PriceAddsUp
  <1>4. AddUp(f, n)[1..0] = 0
    BY <1>2, PricesOfBeginning
  <1> QED
    BY <1>1, <1>3, <1>4

\* The inductive invariant of the flag: every answer is one of the provider's, and
\* the property itself.
FlagInv ==
  /\ heard \in [Tasks -> Seq(Replies)]
  /\ estimated \in [Tasks -> BOOLEAN]
  /\ usage \in [Tasks -> Nat]
  /\ \A t \in Tasks : ~estimated[t] => usage[t] = Price(heard[t])

\* Before the first answer there is nothing to flag.
LEMMA InitFlag == ExchangeInit => FlagInv
  BY NoPrice DEF ExchangeInit, Init, FlagInv

\* Only an answer changes the usage or the flag, and it brings its own price.
LEMMA StepFlag == FlagInv /\ [ExchangeNext]_<<vars, exchangeVars>> => FlagInv'
  <1> SUFFICES ASSUME FlagInv, [ExchangeNext]_<<vars, exchangeVars>>
               PROVE  FlagInv'
    OBVIOUS
  <1>0. FlagInv' <=>
          /\ heard' \in [Tasks -> Seq(Replies)]
          /\ estimated' \in [Tasks -> BOOLEAN]
          /\ usage' \in [Tasks -> Nat]
          /\ \A t \in Tasks : ~estimated'[t] => usage'[t] = Price(heard'[t])
    BY DEF FlagInv, Price, FoldLeft, MapThenFoldSet
  <1>1. ASSUME NEW t \in Tasks, Reply(t)
        PROVE  FlagInv'
    <2>1. PICK reply \in Answers :
            /\ usage' = [usage EXCEPT ![t] = @ + CostUsd(reply)]
            /\ estimated' = [estimated EXCEPT ![t] = @ \/ ~reply.tells]
            /\ heard' = [heard EXCEPT ![t] = Append(@, reply)]
      BY <1>1 DEF Reply, TakeAnswer, AddFlag
    <2>2. /\ reply \in Replies
          /\ reply.price \in Nat /\ reply.tells \in BOOLEAN
          /\ CostUsd(reply) \in Nat
          /\ reply.tells => CostUsd(reply) = reply.price
      BY LoopAssumption DEF Answers, Replies, CostUsd
    <2>3. /\ heard' \in [Tasks -> Seq(Replies)]
          /\ estimated' \in [Tasks -> BOOLEAN]
          /\ usage' \in [Tasks -> Nat]
      BY <2>1, <2>2 DEF FlagInv
    <2>4. ASSUME NEW w \in Tasks, ~estimated'[w]
          PROVE  usage'[w] = Price(heard'[w])
      <3>1. CASE w # t
        BY <2>1, <2>4, <3>1 DEF FlagInv
      <3>2. CASE w = t
        <4>1. reply.tells /\ ~estimated[t]
          BY <2>1, <2>2, <2>4, <3>2 DEF FlagInv
        <4>2. usage[t] = Price(heard[t]) /\ usage[t] \in Nat /\ heard[t] \in Seq(Replies)
          BY <4>1 DEF FlagInv
        <4>3. Price(Append(heard[t], reply)) = Price(heard[t]) + reply.price
          BY <2>2, <4>2, OneMorePrice
        <4>4. usage'[t] = usage[t] + reply.price /\ heard'[t] = Append(heard[t], reply)
          BY <2>1, <2>2, <4>1 DEF FlagInv
        <4> QED
          BY <3>2, <4>2, <4>3, <4>4
      <3> QED
        BY <3>1, <3>2
    <2>5. \A w \in Tasks : ~estimated'[w] => usage'[w] = Price(heard'[w])
      BY <2>4
    <2> QED
      BY <1>0, <2>3, <2>5
  <1>2. CASE UNCHANGED <<usage, estimated, heard>>
    BY <1>0, <1>2 DEF FlagInv
  <1>3. UNCHANGED <<usage, estimated, heard>> \/ \E t \in Tasks : Reply(t)
    BY DEF vars, exchangeVars, ExchangeNext, ExchangeStep, AllOver, BetweenRequests,
           Dispatched, Panicked, HttpError, EmptyReply, NoAnswer, ForcedReply,
           Start, NextRound, OverBudget, WithinBudget, BudgetUnread, Dispatch,
           ToolPanics, RetryModel, FallBack, GiveUp, ForcedAnswer
  <1> QED
    BY <1>1, <1>2, <1>3

\* Answers stay the provider's, and the flag is never behind.
LEMMA FlagInvariance == ExchangeSpec => []FlagInv
  BY InitFlag, StepFlag, PTL DEF ExchangeSpec

\* A usage that is not the price of the answers is flagged, after any number of
\* answers at any prices.
THEOREM PricesAlwaysFlagged == ExchangeSpec => []PricesAreFlagged
  <1>1. FlagInv => PricesAreFlagged
    BY DEF FlagInv, PricesAreFlagged, Price
  <1> QED
    BY <1>1, FlagInvariance, PTL

-----------------------------------------------------------------------------
(* The text of an answer.                                                 *)

\* FoldLeft, written as the function it is computed by.
KeepTexts(f, n) ==
  CHOOSE g : g = [S \in SUBSET (1..n) |->
                    IF S = {} THEN <<>>
                    ELSE IF f[Max(S)] = "image" THEN g[S \ {Max(S)}]
                         ELSE Append(g[S \ {Max(S)}], f[Max(S)])]

\* What FoldLeft computes here, by its definition.
LEMMA TextsAreKept ==
  ASSUME NEW f, NEW n, DOMAIN f = 1..n
  PROVE  TextsOf(f) = KeepTexts(f, n)[1..n]
  BY DEF TextsOf, FoldLeft, MapThenFoldSet, KeepTexts

\* The texts of an answer are a list of its pieces.
LEMMA TextsAreASequence ==
  ASSUME NEW P, NEW f \in Seq(P)
  PROVE  TextsOf(f) \in Seq(P)
  <1> DEFINE n == Len(f)
             Keep(v, x) == IF x = "image" THEN v ELSE Append(v, x)
             K(h) == [S \in SUBSET (1..n) |->
                        IF S = {} THEN <<>>
                        ELSE IF f[Max(S)] = "image" THEN h[S \ {Max(S)}]
                             ELSE Append(h[S \ {Max(S)}], f[Max(S)])]
             g == KeepTexts(f, n)
  <1>1. n \in Nat /\ DOMAIN f = 1..n /\ \A i \in 1..n : f[i] \in P
    OBVIOUS
  <1> HIDE DEF n
  <1>2. \E h : h = K(h)
    <2>1. PICK pick : pick = [S \in SUBSET (1..n) |-> Max(S)]
      OBVIOUS
    <2>2. PICK step : step = [i \in 1..n |-> [v \in Seq(P) |-> Keep(v, f[i])]]
      OBVIOUS
    <2>3. Picks(pick, 1..n) /\ IsFiniteSet(1..n)
      <3>1. Picks(pick, 1..n)
        BY <1>1, <2>1, Greatest DEF Picks
      <3> QED
        BY <1>1, <3>1, FS_Interval
    <2>4. \A i \in 1..n, v \in Seq(P) : Keep(v, f[i]) \in Seq(P)
      BY <1>1
    <2>5. step \in [1..n -> [Seq(P) -> Seq(P)]] /\ <<>> \in Seq(P)
      BY <2>2, <2>4
    <2>6. PICK h \in [SUBSET (1..n) -> Seq(P)] : Folds(h, 1..n, pick, <<>>, step)
      BY <2>3, <2>5, FoldExists
    <2>7. ASSUME NEW S \in SUBSET (1..n)
          PROVE  h[S] = IF S = {} THEN <<>>
                        ELSE IF f[Max(S)] = "image" THEN h[S \ {Max(S)}]
                             ELSE Append(h[S \ {Max(S)}], f[Max(S)])
      <3>1. CASE S = {}
        BY <2>6, <3>1 DEF Folds
      <3>2. CASE S # {}
        <4>1. PICK m \in S : m = Max(S)
          BY <1>1, <3>2, Greatest
        <4>2. pick[S] = m
          BY <2>1, <4>1
        <4>3. h[S] = step[m][h[S \ {m}]] /\ h[S \ {m}] \in Seq(P)
          BY <2>6, <3>2, <4>2 DEF Folds
        <4>4. step[m][h[S \ {m}]] = Keep(h[S \ {m}], f[m])
          BY <2>2, <4>3
        <4> QED
          BY <3>2, <4>1, <4>3, <4>4
      <3> QED
        BY <3>1, <3>2
    <2> QED
      BY <2>6, <2>7
  <1>3. g = K(g)
    <2>1. g = CHOOSE h : h = K(h)
      BY DEF KeepTexts
    <2> HIDE DEF K
    <2>2. ASSUME NEW h, h = CHOOSE k : k = K(k)
          PROVE  h = K(h)
      BY <1>2, <2>2, Zenon
    <2> QED
      BY <2>1, <2>2
  <1>4. \A S \in SUBSET (1..n) :
          g[S] = IF S = {} THEN <<>>
                 ELSE IF f[Max(S)] = "image" THEN g[S \ {Max(S)}]
                      ELSE Append(g[S \ {Max(S)}], f[Max(S)])
    BY <1>3
  <1> HIDE DEF g
  <1> DEFINE Q == {k \in Nat : k <= n => g[1..k] \in Seq(P)}
  <1>5. 0 \in Q
    <2>1. 1..0 = {} /\ 1..0 \in SUBSET (1..n) /\ <<>> \in Seq(P)
      OBVIOUS
    <2>2. g[1..0] = <<>>
      BY <1>4, <2>1
    <2> QED
      BY <2>1, <2>2
  <1>6. ASSUME NEW k \in Nat, k \in Q, k + 1 <= n
        PROVE  g[1..(k + 1)] \in Seq(P)
    <2>1. PICK l \in 1..n : l = k + 1
      BY <1>1, <1>6
    <2>2. /\ 1..l \in SUBSET (1..n) /\ 1..l # {} /\ Max(1..l) = l
          /\ (1..l) \ {l} = 1..k
      BY <1>1, <2>1, GreatestFirst
    <2>3. g[1..l] = IF f[l] = "image" THEN g[1..k] ELSE Append(g[1..k], f[l])
      BY <1>4, <2>2
    <2>4. g[1..k] \in Seq(P) /\ f[l] \in P
      BY <1>1, <1>6
    <2> QED
      BY <2>1, <2>3, <2>4
  <1>7. Q = Nat
    <2>1. Q \subseteq Nat /\ \A k \in Nat : k \in Q => k + 1 \in Q
      BY <1>6
    <2> HIDE DEF Q
    <2> QED
      BY <1>5, <2>1, Inductive
  <1>8. g[1..n] \in Seq(P)
    BY <1>1, <1>7
  <1> QED
    BY <1>1, <1>8, TextsAreKept DEF g

\* Both conversions together keep the text of an answer.
LEMMA TextsComeBack ==
  ASSUME NEW reply \in Replies
  PROVE  Texts(MessageToJson(Heard(reply))) = TextsOf(reply.content)
  <1> DEFINE texts == TextsOf(reply.content)
             blocks == [i \in DOMAIN texts |-> Text(texts[i], NoCache)]
  <1>1. PICK P : texts \in Seq(P)
    <2>1. reply.content \in Seq({"words", "blank", "image"})
      BY ExchangeAssumption DEF Replies
    <2> QED
      BY <2>1, TextsAreASequence
  <1>2. /\ Heard(reply).role = "assistant"
        /\ Heard(reply).content = blocks
    BY DEF Heard, Message4
  <1> HIDE DEF texts
  <1>3. /\ Len(texts) \in Nat /\ DOMAIN texts = 1..Len(texts)
        /\ texts = [i \in 1..Len(texts) |-> texts[i]]
    BY <1>1
  <1>4. Len(blocks) = Len(texts) /\ DOMAIN blocks = 1..Len(texts)
    BY <1>3
  <1>5. MessageToJson(Heard(reply)).content =
          IF Len(blocks) = 1 /\ blocks[1].cache = NoCache
          THEN Flat(blocks[1].text) ELSE Blocks(blocks)
    BY <1>2 DEF MessageToJson, Content
  <1>6. CASE Len(texts) = 1
    <2>1. blocks[1].cache = NoCache /\ blocks[1].text = texts[1]
      BY <1>3, <1>6 DEF Text
    <2>2. MessageToJson(Heard(reply)).content.parts = <<Text(texts[1], NoCache)>>
      BY <1>4, <1>5, <1>6, <2>1 DEF Flat, Plain
    <2>3. Texts(MessageToJson(Heard(reply))) = [i \in 1..1 |-> texts[1]]
      BY <2>2 DEF Texts, Text
    <2>4. texts = [i \in 1..1 |-> texts[1]]
      BY <1>3, <1>6
    <2> QED
      BY <2>3, <2>4 DEF texts
  <1>7. CASE Len(texts) # 1
    <2>1. MessageToJson(Heard(reply)).content.parts = blocks
      BY <1>4, <1>5, <1>7 DEF Blocks
    <2>2. Texts(MessageToJson(Heard(reply))) = [i \in 1..Len(texts) |-> blocks[i].text]
      BY <1>4, <2>1 DEF Texts
    <2>3. \A i \in 1..Len(texts) : blocks[i].text = texts[i]
      BY <1>3 DEF Text
    <2> QED
      BY <1>3, <2>2, <2>3 DEF texts
  <1> QED
    BY <1>6, <1>7

-----------------------------------------------------------------------------
(* Answers, calls and results in a conversation c with the answers f.      *)

\* Every answer has had its results.
Closed(c) ==
  \A i \in 1..Len(c) : c[i].role = "assistant" => i + Len(c[i].calls) <= Len(c)

\* The n-th assistant message is the n-th answer.
InTurn(c, f) ==
  /\ Turn(c, Len(c)) = Len(f)
  /\ \A i \in 1..Len(c) : c[i].role = "assistant" =>
       Turn(c, i) \in 1..Len(f) /\ c[i] = Heard(f[Turn(c, i)])

\* What follows an answer are the results of its calls, as far as they are there.
Fed(c) ==
  \A i \in 1..Len(c) : c[i].role = "assistant" =>
    \A k \in 1..Len(c[i].calls) :
      i + k <= Len(c) => c[i + k] = ToolResult(c[i].calls[k])

\* Every result is one of an answer's.
Owned(c) ==
  \A i \in 1..Len(c) : c[i].role = "tool" =>
    \E k \in 1..(i - 1) :
      c[i - k].role = "assistant" /\ k <= Len(c[i - k].calls)

\* The answer whose tools are being dispatched is the last one, followed by as many
\* results as have been given; all before have had theirs.
Dispatching(c, f, n, calls) ==
  \E p \in 1..Len(c) :
    /\ p + n = Len(c)
    /\ c[p].role = "assistant"
    /\ c[p].calls = Last(f).calls
    /\ Len(c[p].calls) = calls /\ n < calls
    /\ \A i \in 1..Len(c) \ {p} :
         c[i].role = "assistant" => i + Len(c[i].calls) <= Len(c)

\* One message more, and one turn more if it is an answer.
LEMMA TurnCounts ==
  ASSUME NEW c, NEW i \in Nat
  PROVE  /\ Turn(c, i) \in Nat
         /\ Turn(c, 0) = 0
         /\ Turn(c, i + 1) =
              Turn(c, i) + (IF c[i + 1].role = "assistant" THEN 1 ELSE 0)
  <1> DEFINE S(k) == {j \in 1..k : c[j].role = "assistant"}
  <1>1. \A k \in Nat : IsFiniteSet(S(k)) /\ Cardinality(S(k)) \in Nat
    <2>1. \A k \in Nat : IsFiniteSet(1..k) /\ S(k) \in SUBSET (1..k)
      BY FS_Interval
    <2> QED
      BY <2>1, FS_Subset, FS_CardinalityType
  <1>2. S(0) = {}
    OBVIOUS
  <1>3. CASE c[i + 1].role = "assistant"
    <2>1. S(i + 1) = S(i) \cup {i + 1} /\ i + 1 \notin S(i)
      BY <1>3
    <2>2. Cardinality(S(i + 1)) = Cardinality(S(i)) + 1
      BY <1>1, <2>1, FS_AddElement
    <2> QED
      BY <1>1, <1>2, <1>3, <2>2, FS_EmptySet DEF Turn
  <1>4. CASE c[i + 1].role # "assistant"
    <2>1. S(i + 1) = S(i)
      BY <1>4
    <2>2. Cardinality(S(i)) \in Nat
      BY <1>1
    <2>3. Turn(c, i + 1) = Turn(c, i)
      BY <2>1 DEF Turn
    <2> QED
      BY <1>2, <1>4, <2>2, <2>3, FS_EmptySet DEF Turn
  <1> QED
    BY <1>3, <1>4

\* Turns depend on the roles up to there only.
LEMMA TurnOfSame ==
  ASSUME NEW c, NEW d, NEW i \in Nat, \A j \in 1..i : d[j].role = c[j].role
  PROVE  Turn(d, i) = Turn(c, i)
  BY DEF Turn

\* An answer keeps its calls.
LEMMA HeardCalls ==
  ASSUME NEW reply \in Replies
  PROVE  /\ Heard(reply).role = "assistant"
         /\ Heard(reply).calls = reply.calls
         /\ Len(reply.calls) \in Nat
  BY ExchangeAssumption DEF Heard, Message4, Replies

\* An answer in the conversation has some number of calls.
LEMMA CallsCounted ==
  ASSUME NEW c, NEW f \in Seq(Replies), InTurn(c, f),
         NEW i \in 1..Len(c), c[i].role = "assistant"
  PROVE  Len(c[i].calls) \in Nat
  BY HeardCalls DEF InTurn

\* Notes come after the results.
LEMMA NotesWorded ==
  ASSUME NEW c, IsSeq(c), NEW f \in Seq(Replies), NEW d, IsSeq(d), Begins(c, d),
         InTurn(c, f), Fed(c), Owned(c), Closed(c),
         \A i \in 1..Len(d) : i > Len(c) => d[i].role = "system"
  PROVE  InTurn(d, f) /\ Fed(d) /\ Owned(d) /\ Closed(d)
  <1>1. Len(c) \in Nat /\ Len(d) \in Nat /\ Len(c) <= Len(d)
    BY SeqLength DEF Begins
  <1>2. \A i \in 1..Len(c) : d[i] = c[i]
    BY DEF Begins
  <1>3. \A i \in 1..Len(d) : d[i].role # "system" => i \in 1..Len(c) /\ d[i] = c[i]
    BY <1>1, <1>2
  <1>4. \A i \in 1..Len(c) : Turn(d, i) = Turn(c, i)
    BY <1>1, <1>2, TurnOfSame
  <1>5. Turn(d, Len(d)) = Turn(c, Len(c))
    <2>1. {j \in 1..Len(d) : d[j].role = "assistant"} =
          {j \in 1..Len(c) : c[j].role = "assistant"}
      BY <1>1, <1>2, <1>3
    <2> QED
      BY <2>1 DEF Turn
  <1>6. InTurn(d, f)
    BY <1>3, <1>4, <1>5 DEF InTurn
  <1>7. Closed(d)
    BY <1>1, <1>3, CallsCounted DEF Closed
  <1>8. Fed(d)
    <2> SUFFICES ASSUME NEW i \in 1..Len(d), d[i].role = "assistant",
                        NEW k \in 1..Len(d[i].calls)
                 PROVE  d[i + k] = ToolResult(d[i].calls[k])
      BY DEF Fed
    <2>1. i \in 1..Len(c) /\ d[i] = c[i] /\ Len(c[i].calls) \in Nat
      BY <1>3, CallsCounted
    <2>2. i + k \in 1..Len(c)
      BY <1>1, <2>1 DEF Closed
    <2>3. c[i + k] = ToolResult(c[i].calls[k])
      BY <2>1, <2>2 DEF Fed
    <2> QED
      BY <1>2, <2>1, <2>2, <2>3
  <1>9. Owned(d)
    <2> SUFFICES ASSUME NEW i \in 1..Len(d), d[i].role = "tool"
                 PROVE  \E k \in 1..(i - 1) :
                          d[i - k].role = "assistant" /\ k <= Len(d[i - k].calls)
      BY DEF Owned
    <2>1. i \in 1..Len(c) /\ d[i] = c[i]
      BY <1>3
    <2>2. PICK k \in 1..(i - 1) :
            c[i - k].role = "assistant" /\ k <= Len(c[i - k].calls)
      BY <2>1 DEF Owned
    <2>3. i - k \in 1..Len(c)
      BY <1>1, <2>1
    <2> QED
      BY <1>2, <2>2, <2>3
  <1> QED
    BY <1>6, <1>7, <1>8, <1>9

\* What one more message changes.
LEMMA Appended ==
  ASSUME NEW c, IsSeq(c), NEW x
  PROVE  /\ IsSeq(Append(c, x))
         /\ Len(Append(c, x)) = Len(c) + 1
         /\ Begins(c, Append(c, x))
         /\ Append(c, x)[Len(c) + 1] = x
  <1>1. PICK S : c \in Seq(S)
    BY DEF IsSeq
  <1>2. c \in Seq(S \cup {x})
    BY <1>1, SeqMonotonic
  <1>3. Len(c) \in Nat
    BY <1>1, LenProperties
  <1> QED
    BY <1>2, <1>3, AppendProperties DEF IsSeq, Begins

\* An answer is the next in turn.
LEMMA AnswerWorded ==
  ASSUME NEW c, IsSeq(c), NEW f \in Seq(Replies), NEW reply \in Replies,
         InTurn(c, f), Fed(c), Owned(c), Closed(c)
  PROVE  LET d == Append(c, Heard(reply))
             g == Append(f, reply)
         IN /\ InTurn(d, g) /\ Fed(d) /\ Owned(d)
            /\ Len(reply.calls) = 0 => Closed(d)
            /\ Len(reply.calls) > 0 => Dispatching(d, g, 0, Len(reply.calls))
  <1> DEFINE d == Append(c, Heard(reply))
             g == Append(f, reply)
             n == Len(c)
  <1>1. n \in Nat /\ Len(d) = n + 1 /\ d[n + 1] = Heard(reply) /\ IsSeq(d)
    BY Appended, SeqLength
  <1>2. \A i \in 1..n : d[i] = c[i]
    BY Appended DEF Begins
  <1>3. /\ Len(f) \in Nat /\ Len(g) = Len(f) + 1 /\ g[Len(f) + 1] = reply
        /\ \A i \in 1..Len(f) : g[i] = f[i]
        /\ Last(g) = reply
    BY DEF Last
  <1>4. /\ Heard(reply).role = "assistant" /\ Heard(reply).calls = reply.calls
        /\ Len(reply.calls) \in Nat
    BY HeardCalls
  <1> HIDE DEF d, g, n
  <1>5. \A i \in 1..Len(d) : i \in 1..n \/ i = n + 1
    BY <1>1
  <1>6. \A i \in 1..n : Turn(d, i) = Turn(c, i)
    BY <1>1, <1>2, TurnOfSame
  <1>7. Turn(d, n + 1) = Len(f) + 1
    <2>1. Turn(d, n) = Turn(c, n)
      BY <1>1, <1>2, TurnOfSame
    <2>2. Turn(d, n + 1) = Turn(d, n) + 1
      BY <1>1, <1>4, TurnCounts
    <2> QED
      BY <2>1, <2>2 DEF InTurn, n
  <1>8. InTurn(d, g)
    <2> SUFFICES ASSUME NEW i \in 1..Len(d), d[i].role = "assistant"
                 PROVE  Turn(d, i) \in 1..Len(g) /\ d[i] = Heard(g[Turn(d, i)])
      BY <1>1, <1>3, <1>7 DEF InTurn
    <2>1. CASE i \in 1..n
      <3>1. Turn(c, i) \in 1..Len(f) /\ c[i] = Heard(f[Turn(c, i)])
        BY <1>2, <2>1 DEF InTurn, n
      <3> QED
        BY <1>2, <1>3, <1>6, <2>1, <3>1
    <2>2. CASE i = n + 1
      BY <1>1, <1>3, <1>7, <2>2
    <2> QED
      BY <1>5, <2>1, <2>2
  <1>9. ASSUME NEW i \in 1..n, c[i].role = "assistant"
        PROVE  Len(c[i].calls) \in Nat /\ i + Len(c[i].calls) <= n
    BY <1>9, CallsCounted DEF Closed, n
  <1>10. Fed(d)
    <2> SUFFICES ASSUME NEW i \in 1..Len(d), d[i].role = "assistant",
                        NEW k \in 1..Len(d[i].calls), i + k <= Len(d)
                 PROVE  d[i + k] = ToolResult(d[i].calls[k])
      BY DEF Fed
    <2>1. i \in 1..n
      BY <1>1, <1>5
    <2>2. d[i] = c[i] /\ i + k \in 1..n
      BY <1>1, <1>2, <1>9, <2>1
    <2>3. c[i + k] = ToolResult(c[i].calls[k])
      BY <2>1, <2>2 DEF Fed, n
    <2> QED
      BY <1>2, <2>2, <2>3
  <1>11. Owned(d)
    <2> SUFFICES ASSUME NEW i \in 1..Len(d), d[i].role = "tool"
                 PROVE  \E k \in 1..(i - 1) :
                          d[i - k].role = "assistant" /\ k <= Len(d[i - k].calls)
      BY DEF Owned
    <2>1. i \in 1..n /\ d[i] = c[i]
      BY <1>1, <1>2, <1>4, <1>5
    <2>2. PICK k \in 1..(i - 1) :
            c[i - k].role = "assistant" /\ k <= Len(c[i - k].calls)
      BY <2>1 DEF Owned, n
    <2>3. i - k \in 1..n
      BY <1>1, <2>1
    <2> QED
      BY <1>2, <2>2, <2>3
  <1>12. ASSUME Len(reply.calls) = 0
         PROVE  Closed(d)
    BY <1>1, <1>2, <1>4, <1>5, <1>9, <1>12 DEF Closed
  <1>13. ASSUME Len(reply.calls) > 0
         PROVE  Dispatching(d, g, 0, Len(reply.calls))
    <2>1. n + 1 \in 1..Len(d) /\ (n + 1) + 0 = Len(d)
      BY <1>1
    <2>2. \A i \in 1..Len(d) \ {n + 1} :
            d[i].role = "assistant" => i + Len(d[i].calls) <= Len(d)
      BY <1>1, <1>2, <1>5, <1>9
    <2> QED
      BY <1>1, <1>3, <1>4, <1>13, <2>1, <2>2 DEF Dispatching
  <1> QED
    BY <1>8, <1>10, <1>11, <1>12, <1>13 DEF d, g

\* A result belongs to the last answer, and comes at its call's place.
LEMMA ResultWorded ==
  ASSUME NEW c, IsSeq(c), NEW f \in Seq(Replies), NEW n \in Nat, NEW calls \in Nat,
         InTurn(c, f), Fed(c), Owned(c), Dispatching(c, f, n, calls)
  PROVE  LET d == Append(c, ToolResult(Last(f).calls[n + 1]))
         IN /\ InTurn(d, f) /\ Fed(d) /\ Owned(d)
            /\ n + 1 = calls => Closed(d)
            /\ n + 1 # calls => Dispatching(d, f, n + 1, calls)
  <1> DEFINE x == ToolResult(Last(f).calls[n + 1])
             d == Append(c, x)
             l == Len(c)
  <1>1. l \in Nat /\ Len(d) = l + 1 /\ d[l + 1] = x /\ IsSeq(d)
    BY Appended, SeqLength
  <1>2. \A i \in 1..l : d[i] = c[i]
    BY Appended DEF Begins
  <1>3. x.role = "tool"
    BY DEF ToolResult, Message4
  <1>4. PICK p \in 1..l :
          /\ p + n = l
          /\ c[p].role = "assistant" /\ c[p].calls = Last(f).calls
          /\ Len(c[p].calls) = calls /\ n < calls
          /\ \A i \in 1..l \ {p} :
               c[i].role = "assistant" => i + Len(c[i].calls) <= l
    BY DEF Dispatching
  <1>5. x = ToolResult(c[p].calls[n + 1])
    BY <1>4
  <1> HIDE DEF d, x, l
  <1>6. \A i \in 1..Len(d) : i \in 1..l \/ i = l + 1
    BY <1>1
  <1>7. ASSUME NEW i \in 1..Len(d), d[i].role = "assistant"
        PROVE  i \in 1..l /\ d[i] = c[i] /\ Len(c[i].calls) \in Nat
    <2>1. i \in 1..l /\ d[i] = c[i]
      BY <1>1, <1>2, <1>3, <1>6, <1>7
    <2> QED
      BY <1>7, <2>1, CallsCounted DEF l
  <1>8. \A i \in 1..l : Turn(d, i) = Turn(c, i)
    BY <1>1, <1>2, TurnOfSame
  <1>9. Turn(d, l + 1) = Turn(c, l)
    <2>1. Turn(d, l) = Turn(c, l) /\ Turn(d, l) \in Nat
      BY <1>1, <1>2, TurnOfSame, TurnCounts
    <2>2. Turn(d, l + 1) = Turn(d, l) + 0
      BY <1>1, <1>3, TurnCounts
    <2> QED
      BY <2>1, <2>2
  <1>10. InTurn(d, f)
    BY <1>1, <1>7, <1>8, <1>9 DEF InTurn, l
  <1>11. Fed(d)
    <2> SUFFICES ASSUME NEW i \in 1..Len(d), d[i].role = "assistant",
                        NEW k \in 1..Len(d[i].calls), i + k <= Len(d)
                 PROVE  d[i + k] = ToolResult(d[i].calls[k])
      BY DEF Fed
    <2>1. i \in 1..l /\ d[i] = c[i] /\ Len(c[i].calls) \in Nat
      BY <1>7
    <2>2. CASE i + k <= l
      <3>1. c[i + k] = ToolResult(c[i].calls[k]) /\ i + k \in 1..l
        BY <1>1, <2>1, <2>2 DEF Fed, l
      <3> QED
        BY <1>2, <2>1, <3>1
    <2>3. CASE ~(i + k <= l)
      <3>1. i + k = l + 1
        BY <1>1, <2>1, <2>3
      <3>2. i = p
        BY <1>1, <1>4, <2>1, <3>1
      <3>3. k = n + 1
        BY <1>1, <1>4, <3>1, <3>2
      <3> QED
        BY <1>1, <1>5, <2>1, <3>1, <3>2, <3>3
    <2> QED
      BY <2>2, <2>3
  <1>12. Owned(d)
    <2> SUFFICES ASSUME NEW i \in 1..Len(d), d[i].role = "tool"
                 PROVE  \E k \in 1..(i - 1) :
                          d[i - k].role = "assistant" /\ k <= Len(d[i - k].calls)
      BY DEF Owned
    <2>1. CASE i \in 1..l
      <3>1. PICK k \in 1..(i - 1) :
              c[i - k].role = "assistant" /\ k <= Len(c[i - k].calls)
        BY <1>2, <2>1 DEF Owned, l
      <3>2. i - k \in 1..l
        BY <1>1, <2>1
      <3> QED
        BY <1>2, <3>1, <3>2
    <2>2. CASE i = l + 1
      <3>1. n + 1 \in 1..(i - 1) /\ i - (n + 1) = p /\ d[p] = c[p]
        BY <1>1, <1>2, <1>4, <2>2
      <3>2. n + 1 <= Len(c[p].calls)
        BY <1>4
      <3> QED
        BY <1>4, <3>1, <3>2
    <2> QED
      BY <1>6, <2>1, <2>2
  <1>13. ASSUME n + 1 = calls
         PROVE  Closed(d)
    <2> SUFFICES ASSUME NEW i \in 1..Len(d), d[i].role = "assistant"
                 PROVE  i + Len(d[i].calls) <= Len(d)
      BY DEF Closed
    <2>1. i \in 1..l /\ d[i] = c[i] /\ Len(c[i].calls) \in Nat
      BY <1>7
    <2>2. CASE i = p
      <3>1. Len(d[i].calls) = n + 1 /\ i + n = l
        BY <1>4, <1>13, <2>1, <2>2
      <3> QED
        BY <1>1, <3>1
    <2>3. CASE i # p
      <3>1. i + Len(c[i].calls) <= l
        BY <1>4, <2>1, <2>3
      <3> QED
        BY <1>1, <2>1, <3>1
    <2> QED
      BY <2>2, <2>3
  <1>14. ASSUME n + 1 # calls
         PROVE  Dispatching(d, f, n + 1, calls)
    <2>0. p + n = l /\ n < calls /\ d[p] = c[p]
      BY <1>2, <1>4
    <2>1. /\ p \in 1..Len(d) /\ p + (n + 1) = Len(d) /\ d[p] = c[p]
          /\ n + 1 < calls
      BY <1>1, <1>14, <2>0
    <2>2. ASSUME NEW i \in 1..Len(d) \ {p}, d[i].role = "assistant"
          PROVE  i + Len(d[i].calls) <= Len(d)
      <3>1. i \in 1..l /\ d[i] = c[i] /\ Len(c[i].calls) \in Nat
        BY <1>7, <2>2
      <3> QED
        BY <1>1, <1>4, <2>2, <3>1
    <2> QED
      BY <1>4, <2>1, <2>2 DEF Dispatching
  <1> QED
    BY <1>10, <1>11, <1>12, <1>13, <1>14 DEF d, x

-----------------------------------------------------------------------------
(* The provider is told what it has said.                                  *)

\* How a conversation c with the answers f stands when its task is at s and n of
\* the calls of the last answer have their result.
Stands(c, f, s, n, calls) ==
  /\ InTurn(c, f)
  /\ Fed(c)
  /\ Owned(c)
  /\ s = "dispatch" => Dispatching(c, f, n, calls)
  /\ s \notin {"dispatch", "panicked"} => Closed(c)

\* The inductive invariant: every conversation stands so, and every body was sent
\* of one in which no result was missing.
EchoInv ==
  /\ \A t \in Tasks :
       Stands(talk[t], heard[t], pc[t], answered[t], toolCalls[t])
  /\ \A t \in Tasks, m \in Models : Closed(sent[t][m].messages)

\* The invariant after a step, in terms of the state after it.
LEMMA EchoInvNext ==
  EchoInv' <=>
    /\ \A t \in Tasks :
         Stands(talk'[t], heard'[t], pc'[t], answered'[t], toolCalls'[t])
    /\ \A t \in Tasks, m \in Models : Closed(sent'[t][m].messages)
  BY DEF EchoInv, Stands, InTurn, Fed, Owned, Dispatching, Closed, Turn, Heard,
         ToolResult, TextsOf, FoldLeft, MapThenFoldSet, Last

\* The body of a request, message by message.
LEMMA BodyOf ==
  ASSUME NEW m, NEW s, NEW f, IsSeq(s)
  PROVE  LET json == BuildBody(m, s, f).messages IN
         /\ Len(json) = Len(s) /\ Len(s) \in Nat /\ DOMAIN json = 1..Len(s)
         /\ \A i \in 1..Len(s) : json[i] = MessageToJson(s[i])
  <1>1. Len(s) \in Nat /\ DOMAIN s = 1..Len(s)
    BY SeqLength
  <1>2. BuildBody(m, s, f).messages = [i \in 1..Len(s) |-> MessageToJson(s[i])]
    BY <1>1 DEF BuildBody
  <1> QED
    BY <1>1, <1>2

\* A body has the results that the conversation has.
LEMMA BodyCloses ==
  ASSUME NEW m, NEW s, NEW f, IsSeq(s), Closed(s)
  PROVE  Closed(BuildBody(m, s, f).messages)
  <1>1. PICK json :
          /\ json = BuildBody(m, s, f).messages
          /\ Len(json) = Len(s) /\ Len(s) \in Nat
          /\ \A i \in 1..Len(s) : json[i] = MessageToJson(s[i])
    BY BodyOf
  <1>2. ASSUME NEW i \in 1..Len(s)
        PROVE  json[i].role = s[i].role /\ json[i].calls = s[i].calls
    <2>1. json[i] = MessageToJson(s[i])
      BY <1>1
    <2> QED
      BY <2>1 DEF MessageToJson
  <1>3. Closed(json)
    BY <1>1, <1>2 DEF Closed
  <1> QED
    BY <1>1, <1>3

\* No answer waits for results in a body that was never sent.
LEMMA NothingSaid == Closed(NoBody.messages)
  <1>1. IsSeq(<<>>) /\ Len(<<>>) = 0
    BY ShortSeqs
  <1>2. Closed(<<>>)
    BY DEF Closed
  <1> QED
    BY <1>1, <1>2, BodyCloses DEF NoBody

\* At first there is no answer.
LEMMA InitEcho == ExchangeInit => EchoInv
  <1> SUFFICES ASSUME ExchangeInit PROVE EchoInv
    OBVIOUS
  <1>1. /\ Len(Opening) = 2 /\ Opening[1].role = "system" /\ Opening[2].role = "user"
    BY DEF Opening, Message4, UserText
  <1>2. Turn(Opening, 2) = 0
    <2>1. {j \in 1..2 : Opening[j].role = "assistant"} = {}
      BY <1>1
    <2> QED
      BY <2>1, FS_EmptySet DEF Turn
  <1>3. \A i \in 1..2 : Opening[i].role \notin {"assistant", "tool"}
    BY <1>1
  <1>4. Stands(Opening, <<>>, "idle", 0, 0)
    BY <1>1, <1>2, <1>3 DEF Stands, InTurn, Fed, Owned, Closed
  <1> QED
    BY <1>4, NothingSaid DEF ExchangeInit, Init, EchoInv

\* A request in a conversation that is closed.
LEMMA SentCloses ==
  ASSUME SentInv, EchoInv, NEW t \in Tasks, Send(t), pc[t] \in {"call", "forced"}
  PROVE  \A w \in Tasks, m \in Models : Closed(sent'[w][m].messages)
  <1>1. PICK model, body :
          /\ body = BuildBody(model, talk[t], pc[t] = "forced")
          /\ sent' = [sent EXCEPT ![t][model] = body]
    BY DEF Send
  <1>2. PICK c, f : c = talk[t] /\ f = (pc[t] = "forced")
    OBVIOUS
  <1>3. IsSeq(c) /\ Closed(c)
    BY <1>2 DEF SentInv, ConversationsTyped, EchoInv, Stands
  <1>4. Closed(body.messages)
    BY <1>1, <1>2, <1>3, BodyCloses
  <1>5. \A w \in Tasks, m \in Models :
          sent'[w][m] = IF w = t /\ m = model THEN body ELSE sent[w][m]
    <2>1. sent = [w \in Tasks |-> [m \in Models |-> sent[w][m]]]
      BY DEF SentInv, ConversationsTyped
    <2> QED
      BY <1>1, <2>1
  <1>6. \A w \in Tasks, m \in Models : Closed(sent[w][m].messages)
    BY DEF EchoInv
  <1> QED
    BY <1>4, <1>5, <1>6

\* A step of t leaves the other conversations as they are.
LEMMA OthersStand ==
  ASSUME EchoInv, NEW t \in Tasks,
         \A w \in Tasks \ {t} :
           /\ talk'[w] = talk[w] /\ heard'[w] = heard[w] /\ pc'[w] = pc[w]
           /\ answered'[w] = answered[w] /\ toolCalls'[w] = toolCalls[w],
         Stands(talk'[t], heard'[t], pc'[t], answered'[t], toolCalls'[t]),
         \/ UNCHANGED sent
         \/ \A w \in Tasks, m \in Models : Closed(sent'[w][m].messages)
  PROVE  EchoInv'
  <1>1. \A w \in Tasks :
          Stands(talk'[w], heard'[w], pc'[w], answered'[w], toolCalls'[w])
    BY DEF EchoInv
  <1>2. \A w \in Tasks, m \in Models : Closed(sent'[w][m].messages)
    BY DEF EchoInv
  <1> QED
    BY <1>1, <1>2, EchoInvNext

\* A step pushes notes, one answer or one result, and sends closed conversations.
LEMMA NextEcho ==
  ASSUME TypeOK, SentInv, FlagInv, EchoInv, [ExchangeNext]_<<vars, exchangeVars>>
  PROVE  EchoInv'
  <1>1. ASSUME UNCHANGED <<vars, exchangeVars>>
        PROVE  EchoInv'
    <2>1. UNCHANGED <<talk, heard, pc, answered, toolCalls, sent>>
      BY <1>1 DEF vars, exchangeVars, answerVars
    <2> QED
      BY <2>1, EchoInvNext DEF EchoInv
  <1>2. ASSUME NEW t \in Tasks, ExchangeStep(t)
        PROVE  EchoInv'
    <2> DEFINE c == talk[t]
               f == heard[t]
    <2>1. /\ IsSeq(c) /\ f \in Seq(Replies) /\ InTurn(c, f) /\ Fed(c) /\ Owned(c)
          /\ pc[t] = "dispatch" => Dispatching(c, f, answered[t], toolCalls[t])
          /\ pc[t] \notin {"dispatch", "panicked"} => Closed(c)
      BY DEF SentInv, ConversationsTyped, FlagInv, EchoInv, Stands
    <2>2. /\ talk = [w \in Tasks |-> talk[w]] /\ heard \in [Tasks -> Seq(Replies)]
          /\ pc \in [Tasks -> LoopPc] /\ answered \in [Tasks -> 0..MaxToolCalls]
          /\ toolCalls \in [Tasks -> 0..MaxToolCalls] /\ MaxToolCalls \in Nat
      BY LoopAssumption DEF SentInv, ConversationsTyped, FlagInv, TypeOK
    <2>3. CASE BetweenRequests(t)
      <3> DEFINE n == Len(messages'[t]) - Len(messages[t])
                 u == [i \in 1..n |-> SystemText("note")]
                 d == c \o u
      <3>1. n \in Nat
        BY <2>3, BetweenRequestsPush
      <3>2. talk' = [talk EXCEPT ![t] = d]
        BY <2>3 DEF BetweenRequests, PushNotes
      <3>3. IsSeq(u) /\ Len(u) = n /\ \A i \in 1..n : u[i].role = "system"
        <4>1. u \in Seq({SystemText("note")})
          BY <3>1
        <4>2. SystemText("note").role = "system"
          BY DEF SystemText, Message4
        <4>3. Len(u) = n /\ \A i \in 1..n : u[i] = SystemText("note")
          BY <3>1
        <4> HIDE DEF u, n
        <4> QED
          BY <4>1, <4>2, <4>3 DEF IsSeq
      <3> HIDE DEF u, n
      <3>4. IsSeq(d) /\ Begins(c, d) /\ Len(d) = Len(c) + n
        BY <2>1, <3>3, Pushed
      <3>5. ASSUME NEW i \in 1..Len(d), i > Len(c)
            PROVE  d[i].role = "system"
        <4>1. PICK S, T : c \in Seq(S) /\ u \in Seq(T)
          BY <2>1, <3>3 DEF IsSeq
        <4>2. c \in Seq(S \cup T) /\ u \in Seq(S \cup T)
          BY <4>1, SeqMonotonic
        <4>3. Len(c) \in Nat
          BY <4>1
        <4>4. i - Len(c) \in 1..n /\ d[i] = u[i - Len(c)]
          BY <3>1, <3>3, <3>4, <3>5, <4>2, <4>3, ConcatProperties
        <4> QED
          BY <3>3, <4>4
      <3>6. /\ pc[t] \notin {"dispatch", "panicked"}
            /\ pc'[t] \notin {"dispatch", "panicked"}
            /\ \A w \in Tasks \ {t} : pc'[w] = pc[w]
        BY <2>2, <2>3
        DEF BetweenRequests, Start, NextRound, OverBudget, WithinBudget,
            BudgetUnread, Goto
      <3> HIDE DEF d
      <3>7. InTurn(d, f) /\ Fed(d) /\ Owned(d) /\ Closed(d)
        <4> HIDE DEF c, f
        <4> QED
          BY <2>1, <3>4, <3>5, <3>6, NotesWorded
      <3>8. UNCHANGED <<heard, sent, answered, toolCalls>>
        BY <2>3
        DEF BetweenRequests, Start, NextRound, OverBudget, WithinBudget,
            BudgetUnread, answerVars
      <3>9. Stands(talk'[t], heard'[t], pc'[t], answered'[t], toolCalls'[t])
        BY <2>2, <3>2, <3>6, <3>7, <3>8 DEF Stands
      <3> QED
        BY <2>2, <3>2, <3>6, <3>8, <3>9, OthersStand
    <2>4. CASE Dispatched(t)
      <3> DEFINE n == answered[t]
                 calls == toolCalls[t]
                 d == Append(c, ToolResult(Last(f).calls[n + 1]))
      <3>1. /\ pc[t] = "dispatch"
            /\ pc' = [pc EXCEPT ![t] = IF n + 1 = calls THEN "budget" ELSE "dispatch"]
            /\ answered' = [answered EXCEPT ![t] = n + 1]
            /\ talk' = [talk EXCEPT ![t] = d]
            /\ UNCHANGED <<toolCalls, heard, sent>>
        BY <2>2, <2>4 DEF Dispatched, Dispatch, Goto
      <3>2. n \in Nat /\ calls \in Nat
        BY <2>2
      <3>3. /\ InTurn(d, f) /\ Fed(d) /\ Owned(d)
            /\ n + 1 = calls => Closed(d)
            /\ n + 1 # calls => Dispatching(d, f, n + 1, calls)
        <4>1. PICK c0, f0, n0, calls0 : c0 = c /\ f0 = f /\ n0 = n /\ calls0 = calls
          OBVIOUS
        <4>2. /\ IsSeq(c0) /\ f0 \in Seq(Replies) /\ n0 \in Nat /\ calls0 \in Nat
              /\ InTurn(c0, f0) /\ Fed(c0) /\ Owned(c0)
              /\ Dispatching(c0, f0, n0, calls0)
          BY <2>1, <3>1, <3>2, <4>1
        <4> QED
          BY <4>1, <4>2, ResultWorded
      <3>4. /\ pc'[t] = IF n + 1 = calls THEN "budget" ELSE "dispatch"
            /\ answered'[t] = n + 1 /\ toolCalls'[t] = calls
            /\ talk'[t] = d /\ heard'[t] = f
        BY <2>2, <3>1
      <3>5. Stands(talk'[t], heard'[t], pc'[t], answered'[t], toolCalls'[t])
        <4> HIDE DEF c, f, d, n, calls
        <4> QED
          BY <3>3, <3>4 DEF Stands
      <3> QED
        BY <2>2, <3>1, <3>5, OthersStand
    <2>5. CASE Panicked(t)
      <3>1. /\ pc' = [pc EXCEPT ![t] = "panicked"]
            /\ UNCHANGED <<talk, heard, sent, answered, toolCalls>>
        BY <2>5 DEF Panicked, ToolPanics, Goto, exchangeVars, answerVars
      <3>2. Stands(talk'[t], heard'[t], pc'[t], answered'[t], toolCalls'[t])
        BY <2>1, <2>2, <3>1 DEF Stands
      <3> QED
        BY <2>2, <3>1, <3>2, OthersStand
    <2>6. CASE NoAnswer(t) \/ ForcedReply(t)
      <3>1. /\ pc[t] \in {"call", "forced"} /\ Send(t)
            /\ UNCHANGED <<talk, heard, answered, toolCalls>>
            /\ UNCHANGED pc \/ pc' = [pc EXCEPT ![t] = "returned"]
        BY <2>6
        DEF NoAnswer, ForcedReply, RetryModel, FallBack, GiveUp, ForcedAnswer, Ask,
            Return, answerVars
      <3>2. pc'[t] \notin {"dispatch", "panicked"}
            /\ \A w \in Tasks \ {t} : pc'[w] = pc[w]
        BY <2>2, <3>1
      <3>3. Stands(talk'[t], heard'[t], pc'[t], answered'[t], toolCalls'[t])
        BY <2>1, <3>1, <3>2 DEF Stands
      <3>4. \A w \in Tasks, m \in Models : Closed(sent'[w][m].messages)
        BY <3>1, SentCloses
      <3> QED
        BY <3>1, <3>2, <3>3, <3>4, OthersStand
    <2>7. CASE Reply(t)
      <3>1. PICK reply \in Replies :
              /\ talk' = [talk EXCEPT ![t] = Append(@, Heard(reply))]
              /\ heard' = [heard EXCEPT ![t] = Append(@, reply)]
              /\ toolCalls' = [toolCalls EXCEPT ![t] = Len(reply.calls)]
              /\ answered' = [answered EXCEPT ![t] = 0]
              /\ \/ /\ Len(reply.calls) = 0
                    /\ pc' = [pc EXCEPT ![t] = "returned"]
                 \/ /\ Len(reply.calls) > 0
                    /\ pc' = [pc EXCEPT ![t] = "dispatch"]
        BY <2>7 DEF Reply, Answers, TakeAnswer, Return
      <3>2. pc[t] = "call" /\ Send(t)
        BY <2>7 DEF Reply, TakeAnswer
      <3> DEFINE d == Append(c, Heard(reply))
                 g == Append(f, reply)
      <3>3. /\ InTurn(d, g) /\ Fed(d) /\ Owned(d)
            /\ Len(reply.calls) = 0 => Closed(d)
            /\ Len(reply.calls) > 0 => Dispatching(d, g, 0, Len(reply.calls))
        <4>1. PICK c0, f0 : c0 = c /\ f0 = f
          OBVIOUS
        <4>2. /\ IsSeq(c0) /\ f0 \in Seq(Replies)
              /\ InTurn(c0, f0) /\ Fed(c0) /\ Owned(c0) /\ Closed(c0)
          BY <2>1, <3>2, <4>1
        <4> QED
          BY <4>1, <4>2, AnswerWorded
      <3>4. /\ talk'[t] = d /\ heard'[t] = g
            /\ toolCalls'[t] = Len(reply.calls) /\ answered'[t] = 0
            /\ \/ Len(reply.calls) = 0 /\ pc'[t] = "returned"
               \/ Len(reply.calls) > 0 /\ pc'[t] = "dispatch"
        BY <2>2, <3>1
      <3>5. Stands(talk'[t], heard'[t], pc'[t], answered'[t], toolCalls'[t])
        <4> HIDE DEF c, f, d, g
        <4>1. Len(reply.calls) \in Nat
          BY HeardCalls
        <4> QED
          BY <3>3, <3>4, <4>1 DEF Stands
      <3>6. \A w \in Tasks, m \in Models : Closed(sent'[w][m].messages)
        BY <3>2, SentCloses
      <3>7. \A w \in Tasks \ {t} : pc'[w] = pc[w]
        BY <2>2, <3>1
      <3> QED
        BY <2>2, <3>1, <3>5, <3>6, <3>7, OthersStand
    <2> QED
      BY <1>2, <2>3, <2>4, <2>5, <2>6, <2>7 DEF ExchangeStep, HttpError, EmptyReply
  <1> QED
    BY <1>1, <1>2 DEF ExchangeNext, AllOver

\* The inductive invariant holds.
THEOREM EchoInvariance == ExchangeSpec => []EchoInv
  <1>1. ExchangeSpec => []TypeOK
    BY ExchangeImplementsToolLoop, LoopTypeCorrect, PTL
  <1> QED
    BY <1>1, FlagInvariance, SentInvariance, InitEcho, NextEcho, PTL
    DEF ExchangeSpec

\* What the invariants say of the conversation, read in a body of it.
LEMMA EchoHeard == SentInv /\ FlagInv /\ EchoInv => EchoesTheProvider
  <1> SUFFICES ASSUME SentInv, FlagInv, EchoInv, NEW t \in Tasks, NEW m \in Models,
                      NEW i \in DOMAIN sent[t][m].messages
               PROVE  LET json == sent[t][m].messages IN
                      /\ json[i].role = "assistant" =>
                           LET n == Turn(json, i) IN
                           /\ n <= Len(heard[t])
                           /\ json[i].calls = heard[t][n].calls
                           /\ Texts(json[i]) = TextsOf(heard[t][n].content)
                           /\ \A k \in 1..Len(json[i].calls) :
                                /\ i + k \in DOMAIN json
                                /\ json[i + k].role = "tool"
                                /\ json[i + k].id = json[i].calls[k]
                      /\ json[i].role = "tool" =>
                           \E k \in 1..(i - 1) :
                             /\ json[i - k].role = "assistant"
                             /\ k <= Len(json[i - k].calls)
    BY DEF EchoesTheProvider
  <1> DEFINE json == sent[t][m].messages
             c == talk[t]
             f == heard[t]
  <1>1. sent[t][m] # NoBody
    <2>1. ~(\E j \in DOMAIN NoBody.messages : TRUE)
      BY DEF NoBody, BuildBody
    <2> QED
      BY <2>1
  <1>2. PICK said, forced : WasSaid(t, m, said, forced)
    BY <1>1 DEF SentInv, BodiesWereSaid
  <1>3. IsSeq(said) /\ Begins(said, c) /\ json = BuildBody(m, said, forced).messages
    BY <1>2 DEF WasSaid
  <1>4. IsSeq(c) /\ f \in Seq(Replies) /\ InTurn(c, f) /\ Fed(c) /\ Owned(c) /\ Closed(json)
    BY DEF SentInv, ConversationsTyped, FlagInv, EchoInv, Stands
  <1> HIDE DEF json, c, f
  <1> DEFINE l == Len(json)
  <1>5. /\ l \in Nat /\ DOMAIN json = 1..l /\ l <= Len(c) /\ Len(c) \in Nat
        /\ \A j \in 1..l : json[j] = MessageToJson(c[j])
    <2>1. /\ Len(json) = Len(said) /\ Len(said) \in Nat /\ DOMAIN json = 1..Len(said)
          /\ \A j \in 1..Len(said) : json[j] = MessageToJson(said[j])
      BY <1>3, BodyOf
    <2> QED
      BY <1>3, <1>4, <2>1, SeqLength DEF Begins
  <1>6. \A j \in 1..l : /\ json[j].role = c[j].role
                        /\ json[j].calls = c[j].calls
                        /\ json[j].id = c[j].id
    BY <1>5 DEF MessageToJson
  <1>7. i \in 1..l /\ i \in 1..Len(c)
    BY <1>5 DEF json
  <1>8. ASSUME json[i].role = "assistant"
        PROVE  LET n == Turn(json, i) IN
               /\ n <= Len(f)
               /\ json[i].calls = f[n].calls
               /\ Texts(json[i]) = TextsOf(f[n].content)
               /\ \A k \in 1..Len(json[i].calls) :
                    /\ i + k \in DOMAIN json
                    /\ json[i + k].role = "tool"
                    /\ json[i + k].id = json[i].calls[k]
    <2> DEFINE n == Turn(json, i)
    <2>1. n = Turn(c, i)
      BY <1>5, <1>6, <1>7, TurnOfSame
    <2>2. c[i].role = "assistant"
      BY <1>6, <1>7, <1>8
    <2>3. n \in 1..Len(f) /\ c[i] = Heard(f[n])
      BY <1>4, <1>7, <2>1, <2>2 DEF InTurn
    <2> HIDE DEF n
    <2>4. n <= Len(f) /\ f[n] \in Replies
      BY <1>4, <2>3
    <2>5. json[i].calls = f[n].calls /\ Len(json[i].calls) \in Nat
      BY <1>6, <1>7, <2>3, <2>4, HeardCalls
    <2>6. Texts(json[i]) = TextsOf(f[n].content)
      BY <1>5, <1>7, <2>3, <2>4, TextsComeBack
    <2>7. ASSUME NEW k \in 1..Len(json[i].calls)
          PROVE  /\ i + k \in DOMAIN json
                 /\ json[i + k].role = "tool"
                 /\ json[i + k].id = json[i].calls[k]
      <3>1. i + k \in 1..l
        BY <1>4, <1>5, <1>7, <1>8, <2>5 DEF Closed
      <3>2. c[i + k] = ToolResult(c[i].calls[k])
        BY <1>4, <1>5, <1>6, <1>7, <2>2, <3>1 DEF Fed
      <3>3. c[i + k].role = "tool" /\ c[i + k].id = c[i].calls[k]
        BY <3>2 DEF ToolResult, Message4
      <3> QED
        BY <1>5, <1>6, <1>7, <3>1, <3>3
    <2> QED
      BY <2>4, <2>5, <2>6, <2>7 DEF n
  <1>9. ASSUME json[i].role = "tool"
        PROVE  \E k \in 1..(i - 1) :
                 json[i - k].role = "assistant" /\ k <= Len(json[i - k].calls)
    <2>1. PICK k \in 1..(i - 1) :
            c[i - k].role = "assistant" /\ k <= Len(c[i - k].calls)
      BY <1>4, <1>6, <1>7, <1>9 DEF Owned
    <2>2. i - k \in 1..l
      BY <1>5, <1>7
    <2> QED
      BY <1>6, <2>1, <2>2
  <1> QED
    BY <1>8, <1>9 DEF json, f

\* Whatever the provider replies, it is told its own words (EchoesTheProvider):
\* each of its answers at its place with its text and its calls, and behind it
\* one result for each of these, in order, under the id that it gave.
THEOREM TheProviderIsEchoed == ExchangeSpec => []EchoesTheProvider
  BY FlagInvariance, SentInvariance, EchoInvariance, EchoHeard, PTL
=============================================================================
