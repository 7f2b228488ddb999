------------------------------ MODULE Exchange ------------------------------
(***************************************************************************)
(* What a tool loop says to the provider and what it makes of the answers  *)
(* (crates/llm/src/openrouter.rs and types.rs).  Every step of ToolLoop    *)
(* takes its messages with it here: the conversation in full, the JSON     *)
(* body of each request, and the conversion of each reply back into a      *)
(* message, a usage and a finish reason.  ToolLoop decides what happens    *)
(* and Exchange with which words, so each behaviour of Exchange is one of  *)
(* ToolLoop.                                                               *)
(*                                                                         *)
(* A text is a name for what it says.  A reply is a record: pieces of      *)
(* content (a text, a blank text, or something that is not text), the ids  *)
(* of its tool calls, its price, whether it tells the price, and how it    *)
(* ended.                                                                  *)
(***************************************************************************)
EXTENDS ToolLoop, SequencesExt

CONSTANTS
  AnthropicModels,  \* the models whose id starts with anthropic/
  ToolSchemas,      \* what the registry advertises: [name, cache]
  Shapes,           \* what a reply may consist of: [content, calls]
  Finishes          \* finish_reason of a reply

\* The ids of the calls are the provider's own, and may repeat.
Replies ==
  {[content |-> shape.content, calls |-> shape.calls, price |-> price,
    tells |-> tells, finish |-> finish] :
     shape \in Shapes, price \in Costs, tells \in BOOLEAN, finish \in Finishes}

ASSUME ExchangeAssumption ==
  /\ AnthropicModels \subseteq Models
  /\ \A shape \in Shapes :
       /\ shape.content \in Seq({"words", "blank", "image"})
       /\ Len(shape.calls) <= MaxToolCalls
  /\ 0 \in Costs

VARIABLES
  talk,       \* `messages`, in full
  estimated,  \* usage.cost_estimated
  sent,       \* the last body sent to each model (history)
  heard       \* the replies that were taken for an answer (history)

exchangeVars == <<talk, estimated, sent, heard>>

-----------------------------------------------------------------------------
(* The vocabulary: Message, ContentBlock and CacheControl.                 *)

NoCache == "uncached"
NoCall  == "no call"

Text(text, cache) == [text |-> text, cache |-> cache]
Plain(text)       == <<Text(text, NoCache)>>

Message4(role, content, calls, id) ==
  [role |-> role, content |-> content, calls |-> calls, id |-> id]
SystemText(text) == Message4("system", Plain(text), <<>>, NoCall)
UserText(text)   == Message4("user", Plain(text), <<>>, NoCall)
ToolResult(id)   == Message4("tool", Plain("result"), <<>>, id)

\* build_context's message of three blocks, and the task's text.
Opening ==
  << Message4("system",
              << Text("charter", "1h"), Text("creed", "5m"),
                 Text("dynamic", NoCache) >>, <<>>, NoCall),
     UserText("task") >>

-----------------------------------------------------------------------------
(* The request body.                                                       *)

Flat(text)     == [flat |-> TRUE, parts |-> Plain(text)]
Blocks(blocks) == [flat |-> FALSE, parts |-> blocks]

\* One plain block goes as a string, everything else as an array of blocks; a
\* tool result is always a string.
Content(msg) ==
  IF \/ msg.role = "tool"
     \/ Len(msg.content) = 1 /\ msg.content[1].cache = NoCache
  THEN Flat(msg.content[1].text)
  ELSE Blocks(msg.content)

MessageToJson_CallsOrContent(msg) ==
  [role |-> msg.role, content |-> Content(msg),
   calls |-> IF msg.content = <<>> THEN msg.calls ELSE <<>>, id |-> msg.id]
MessageToJson(msg) ==
  [role |-> msg.role, content |-> Content(msg), calls |-> msg.calls,
   id |-> msg.id]

\* The last tool ends the cached part of the list unless a tool says otherwise.
ToolsJson ==
  IF \E i \in DOMAIN ToolSchemas : ToolSchemas[i].cache # NoCache
  THEN ToolSchemas
  ELSE [i \in DOMAIN ToolSchemas |->
          IF i = Len(ToolSchemas)
          THEN [ToolSchemas[i] EXCEPT !.cache = "1h"] ELSE ToolSchemas[i]]

\* Without tools there is no tool_choice either: such is the forced answer's.
BuildBody(model, messages_, forced) ==
  [model    |-> model,
   messages |-> [i \in DOMAIN messages_ |-> MessageToJson(messages_[i])],
   tools    |-> IF forced THEN <<>> ELSE ToolsJson,
   choice   |-> IF forced \/ ToolSchemas = <<>> THEN "absent" ELSE "auto",
   effort   |-> "medium",
   pinned   |-> model \in AnthropicModels]

NoBody == BuildBody(DefaultModel, <<>>, TRUE)

Send(t) ==
  LET model == ModelAt(at[t]) IN
  sent' = [sent EXCEPT ![t][model] =
             BuildBody(model, talk[t], pc[t] = "forced")]

-----------------------------------------------------------------------------
(* The reply.                                                              *)

\* Text in blocks stays as it is, a string only if it is not empty (an empty
\* one is no piece); what is not text is dropped.
TextsOf(content) ==
  FoldLeft(LAMBDA texts, piece :
             IF piece = "image" THEN texts ELSE Append(texts, piece),
           <<>>, content)

Heard(reply) ==
  LET texts == TextsOf(reply.content) IN
  Message4("assistant", [i \in DOMAIN texts |-> Text(texts[i], NoCache)],
           reply.calls, NoCall)

\* ChatResponse::is_empty looks at the trimmed text.
IsEmpty(reply) ==
  /\ reply.calls = <<>>
  /\ \A i \in DOMAIN reply.content : reply.content[i] # "words"

FinishReason(finish) ==
  CASE finish \in {"stop", "end_turn"}       -> "Stop"
    [] finish \in {"length", "max_tokens"}   -> "Length"
    [] finish \in {"tool_calls", "tool_use"} -> "ToolUse"
    [] finish = "content_filter"             -> "ContentFilter"
    [] OTHER                                 -> "Other"

\* A missing cost counts as nothing, and as an estimate.
CostUsd(reply) == IF reply.tells THEN reply.price ELSE 0

\* Usage::add, of the flag; the sum is ToolLoop's.
AddFlag_LastOnly(t, reply) == estimated' = [estimated EXCEPT ![t] = ~reply.tells]
AddFlag(t, reply) == estimated' = [estimated EXCEPT ![t] = @ \/ ~reply.tells]

Answers    == {reply \in Replies : ~IsEmpty(reply)}
EmptyCosts == {CostUsd(reply) : reply \in Replies \ Answers}
TextCosts  == {CostUsd(reply) : reply \in Answers}

-----------------------------------------------------------------------------
(* The steps of the loop, with their words.                                *)

ExchangeInit ==
  /\ Init
  /\ talk = [t \in Tasks |-> Opening]
  /\ estimated = [t \in Tasks |-> FALSE]
  /\ sent = [t \in Tasks |-> [m \in Models |-> NoBody]]
  /\ heard = [t \in Tasks |-> <<>>]

\* As many notes as ToolLoop has pushed.
PushNotes_LatestOnly(t) ==
  LET n == Len(messages'[t]) - Len(messages[t])
      others == SelectSeq(talk[t], LAMBDA msg : msg # SystemText("note"))
  IN talk' = IF n = 0 THEN talk
             ELSE [talk EXCEPT ![t] = others \o [i \in 1..n |-> SystemText("note")]]
PushNotes(t) ==
  LET n == Len(messages'[t]) - Len(messages[t]) IN
  talk' = [talk EXCEPT ![t] = @ \o [i \in 1..n |-> SystemText("note")]]

\* A task's steps between two requests.
BetweenRequests(t) ==
  /\ \/ Start(t)
     \/ NextRound(t)
     \/ OverBudget(t)
     \/ WithinBudget(t)
     \/ BudgetUnread(t)
  /\ PushNotes(t)
  /\ UNCHANGED <<estimated, sent, heard>>

Dispatched(t) ==
  /\ Dispatch(t)
  /\ talk' = [talk EXCEPT ![t] =
       Append(@, ToolResult(Last(heard[t]).calls[answered[t] + 1]))]
  /\ UNCHANGED <<estimated, sent, heard>>

Panicked(t) ==
  /\ ToolPanics(t)
  /\ UNCHANGED exchangeVars

\* The usage of a reply that is thrown away.
Dropped(t, cost) ==
  uncounted' = IF cost > 0 THEN uncounted \cup {t} ELSE uncounted

\* The transport fails, the status or the JSON is not right, or there is no
\* choice in it; or there is, and nothing in it.
NoAnswer(t) ==
  /\ \/ RetryModel(t)
     \/ FallBack(t)
     \/ GiveUp(t)
  /\ Send(t)
  /\ UNCHANGED <<talk, estimated, heard>>
HttpError(t) ==
  /\ NoAnswer(t)
  /\ UNCHANGED uncounted
EmptyReply(t) ==
  /\ NoAnswer(t)
  /\ \E cost \in EmptyCosts : Dropped(t, cost)

Reply(t) ==
  /\ Send(t)
  /\ \E reply \in Answers :
       /\ TakeAnswer(t, CostUsd(reply), Len(reply.calls),
                     FinishReason(reply.finish) = "Length")
       /\ AddFlag(t, reply)
       /\ talk' = [talk EXCEPT ![t] = Append(@, Heard(reply))]
       /\ heard' = [heard EXCEPT ![t] = Append(@, reply)]

\* Only the text of a forced reply is used.
ForcedReply(t) ==
  /\ ForcedAnswer(t)
  /\ Send(t)
  /\ \E cost \in TextCosts : Dropped(t, cost)
  /\ UNCHANGED <<talk, estimated, heard>>

ExchangeStep(t) ==
  \/ BetweenRequests(t)
  \/ Dispatched(t)
  \/ Panicked(t)
  \/ HttpError(t)
  \/ EmptyReply(t)
  \/ Reply(t)
  \/ ForcedReply(t)

ExchangeNext ==
  \/ AllOver /\ UNCHANGED exchangeVars
  \/ \E t \in Tasks : ExchangeStep(t)

ExchangeSpec == ExchangeInit /\ [][ExchangeNext]_<<vars, exchangeVars>>

\* A request ends by its answer or by the client's timeout of 120 seconds, a
\* tool returns, and nothing else of a loop waits.
FairExchange ==
  ExchangeSpec /\ \A t \in Tasks : WF_<<vars, exchangeVars>>(ExchangeStep(t))

-----------------------------------------------------------------------------
(* Properties.                                                             *)

\* A request to a model that has seen an earlier one of the same task begins
\* with all the messages of that one, byte for byte, whatever came between
\* (rounds answered by a fallback, tool results, notes), and has the same tools
\* unless it is the forced one: the prompt cache of the provider holds.
RequestsExtend ==
  [][\A t \in Tasks, m \in Models :
       sent[t][m] # NoBody =>
         /\ IsPrefix(sent[t][m].messages, sent'[t][m].messages)
         /\ sent'[t][m].tools \in {sent[t][m].tools, <<>>}
         /\ sent'[t][m].pinned = sent[t][m].pinned]_sent

Texts(json) == [i \in DOMAIN json.content.parts |-> json.content.parts[i].text]

\* How many of the first i messages are answers.
Turn(list, i) == Cardinality({j \in 1..i : list[j].role = "assistant"})

\* The provider is told what it has said, after both conversions: the n-th
\* assistant message of a request has the calls and the text of the n-th answer,
\* and is followed by one result for each call, in order, that bears its id,
\* repeated ids included; there are no other results.
EchoesTheProvider ==
  \A t \in Tasks, m \in Models :
    LET json == sent[t][m].messages IN
    \A i \in DOMAIN json :
      /\ json[i].role = "assistant" =>
           LET n == Turn(json, i) IN
           /\ n <= Len(heard[t])
           /\ json[i].calls = heard[t][n].calls
           /\ Texts(json[i]) = TextsOf(heard[t][n].content)
           /\ \A k \in 1..Len(json[i].calls) :
                /\ i + k \in DOMAIN json
                /\ json[i + k].role = "tool"
                /\ json[i + k].id = json[i].calls[k]
      /\ json[i].role = "tool" =>
           \E k \in 1..(i - 1) :
             json[i - k].role = "assistant" /\ k <= Len(json[i - k].calls)

\* A task whose usage is not the price of its answers says so: as soon as one of
\* them came without its price, cost_estimated is set, and stays.
PricesAreFlagged ==
  \A t \in Tasks :
    ~estimated[t] =>
      usage[t] = FoldLeft(LAMBDA sum, reply : sum + reply.price, 0, heard[t])
=============================================================================
