--------------------------- MODULE ProviderRequest ---------------------------
(***************************************************************************)
(* What inference/plugin makes of a conversation: normalize checks it, an  *)
(* adapter encodes it for the API of its provider, and the transport adds  *)
(* the endpoint and the credentials.                                       *)
(*                                                                         *)
(* A message is a record: its role and, for an assistant, whether it has   *)
(* text and reasoning, the ids of its calls and its replay; for a tool the *)
(* id of its call; for a user or a tool the number of its images, each of  *)
(* which is sound or not.  Texts, names and sizes in bytes are left out.   *)
(***************************************************************************)
EXTENDS Naturals, Sequences, FiniteSets, SequencesExt

CONSTANTS
  None,
  MaxImages   (* images of one message: 8 *)

ASSUME ImagesAssumption == MaxImages \in Nat \ {0}

(* what a sequence comes to, element by element *)
Fold(op(_, _), base, seq) ==
  LET s[i \in 0..Len(seq)] == IF i = 0 THEN base ELSE op(s[i - 1], seq[i])
  IN s[Len(seq)]

Plus(m, n) == m + n

Total(ns) == Fold(Plus, 0, ns)

SystemSays == [role |-> "system"]
User(images) == [role |-> "user", images |-> images, sound |-> TRUE]
ToolResult(call, images) ==
  [role |-> "tool", call |-> call, images |-> images, sound |-> TRUE]
Assistant(text, think, calls, replay) ==
  [role |-> "assistant", text |-> text, think |-> think, calls |-> calls, replay |-> replay]

(* a conversation as its types have it: lists of messages and of calls *)
MessageOK(m) ==
  /\ m.role \in {"system", "user", "assistant", "tool"}
  /\ m.role \in {"user", "tool"} => m.images \in Nat
  /\ m.role = "assistant" => m.calls \in Seq(ToSet(m.calls)) /\ m.text \in BOOLEAN

ConversationOK(conv) == conv \in Seq(ToSet(conv)) /\ \A i \in DOMAIN conv : MessageOK(conv[i])

(***************************************************************************)
(* normalize                                                               *)
(***************************************************************************)
ImagesFit(m) == m.role \in {"user", "tool"} => m.images <= MaxImages /\ m.sound

Speaks(m) == m.text \/ m.think \/ m.calls # <<>> \/ m.replay # None

NewIds(calls, seen) ==
  /\ \A i \in DOMAIN calls : calls[i] \notin seen \cup {<<>>}
  /\ \A i, j \in DOMAIN calls : i # j => calls[i] # calls[j]

(* what a message may follow, the calls still pending and the ids seen *)
Fits(s, m) ==
  \/ m.role = "assistant" /\ s.pending = {} /\ Speaks(m) /\ NewIds(m.calls, s.seen)
  \/ m.role = "tool" /\ m.call \in s.pending
  \/ m.role \in {"system", "user"} /\ s.pending = {}

Follow(s, m) ==
  LET new == IF m.role = "assistant" THEN ToSet(m.calls) ELSE {}
      done == IF m.role = "tool" THEN {m.call} ELSE {}
  IN [ok |-> s.ok /\ ImagesFit(m) /\ Fits(s, m),
      pending |-> (s.pending \cup new) \ done,
      seen |-> s.seen \cup new]

NothingYet == [ok |-> TRUE, pending |-> {}, seen |-> {}]

Normalize(conv, config) ==
  LET end == Fold(Follow, NothingYet, conv)
  IN config.valid /\ conv # <<>> /\ end.ok /\ end.pending = {}

(***************************************************************************)
(* Replays: the reasoning a provider wants back                            *)
(***************************************************************************)
Formats == {"chat_completions", "messages", "responses"}

ReplaysSound(conv) ==
  \A i \in DOMAIN conv : conv[i].role = "assistant" /\ conv[i].replay # None
                         => conv[i].replay.format \in Formats /\ conv[i].replay.valid

ReplayItems(replay, format) ==
  IF replay # None /\ replay.format = format THEN <<[type |-> "replay"]>> ELSE <<>>

(***************************************************************************)
(* ChatCompletionsRequest: images of tool results wait for the whole batch *)
(***************************************************************************)
(* Mutant: the images of a result follow it at once *)
FlushEach(s) ==
  IF s.images # <<>>
  THEN [s EXCEPT !.out = Append(@, [role |-> "user", images |-> s.images]), !.images = <<>>]
  ELSE s

Flush(s) ==
  IF s.pending = {} /\ s.images # <<>>
  THEN [s EXCEPT !.out = Append(@, [role |-> "user", images |-> s.images]), !.images = <<>>]
  ELSE s

ChatReasoning(m, mode) ==
  IF mode = "preserve" THEN m.think ELSE mode = "deepseek" \/ (mode = "disabled" /\ m.calls # <<>>)

ChatMessage(s, m, mode) ==
  LET add(v) == [s EXCEPT !.out = Append(@, v)]
      own == [i \in 1..(IF m.role \in {"user", "tool"} THEN m.images ELSE 0) |->
                IF m.role = "tool" THEN m.call ELSE "own"]
  IN Flush(
     IF m.role = "system" THEN add(m)
     ELSE IF m.role = "user" THEN add([role |-> "user", images |-> own])
     ELSE IF m.role = "tool"
     THEN [add([role |-> "tool", call |-> m.call])
             EXCEPT !.pending = @ \ {m.call}, !.images = @ \o own]
     ELSE [add([role |-> "assistant", calls |-> m.calls, reasoning |-> ChatReasoning(m, mode)])
             EXCEPT !.pending = @ \cup ToSet(m.calls)])

ChatStep(s, m, mode) ==
  IF m.role = "assistant" /\ mode = "omit" /\ ~m.text /\ m.calls = <<>>
  THEN s ELSE ChatMessage(s, m, mode)

ChatEncode(conv, mode) ==
  Fold(LAMBDA s, m : ChatStep(s, m, mode), [out |-> <<>>, pending |-> {}, images |-> <<>>], conv).out

(***************************************************************************)
(* MessagesRequest: neighbours of one role are one message                 *)
(***************************************************************************)
(* Mutant: every message stays by itself *)
MergeNothing(out, role, blocks) == Append(out, [role |-> role, blocks |-> blocks])

MergeMessage(out, role, blocks) ==
  IF out # <<>> /\ Last(out).role = role
  THEN [out EXCEPT ![Len(out)].blocks = @ \o blocks]
  ELSE Append(out, [role |-> role, blocks |-> blocks])

Blocks(m) ==
  IF m.role = "assistant"
  THEN ReplayItems(m.replay, "messages")
       \o (IF m.text THEN <<[type |-> "text"]>> ELSE <<>>)
       \o [i \in DOMAIN m.calls |-> [type |-> "tool_use", id |-> m.calls[i]]]
  ELSE IF m.role = "user" THEN <<[type |-> "text"]>>
  ELSE <<[type |-> "tool_result", id |-> m.call, images |-> m.images]>>

(* a system message after another is refused: the API takes them first *)
SystemFirst(conv) ==
  \A i, j \in DOMAIN conv :
     i < j /\ conv[j].role = "system"
     => conv[i].role = "system" \/ (conv[i].role = "assistant" /\ Blocks(conv[i]) = <<>>)

MessagesStep(out, m) ==
  IF m.role = "system" \/ Blocks(m) = <<>> THEN out
  ELSE MergeMessage(out, IF m.role = "assistant" THEN "assistant" ELSE "user", Blocks(m))

MessagesEncode(conv) == Fold(MessagesStep, <<>>, conv)

(***************************************************************************)
(* ResponsesRequest: a flat list of items                                  *)
(***************************************************************************)
Items(m) ==
  IF m.role = "assistant"
  THEN ReplayItems(m.replay, "responses")
       \o (IF m.text THEN <<[type |-> "message"]>> ELSE <<>>)
       \o [k \in DOMAIN m.calls |-> [type |-> "function_call", id |-> m.calls[k]]]
  ELSE IF m.role = "tool" THEN <<[type |-> "function_call_output", id |-> m.call]>>
  ELSE <<[type |-> m.role]>>

ResponsesStep(out, m) == out \o Items(m)

ResponsesEncode(conv) == Fold(ResponsesStep, <<>>, conv)

(***************************************************************************)
(* build_adapter and build_request                                         *)
(***************************************************************************)
Supports ==
  {<<"openai", "chat_completions">>, <<"openai", "responses">>, <<"anthropic", "messages">>,
   <<"openrouter", "chat_completions">>} \cup ({"deepseek"} \X Formats)

(* options of thinking: one of them exactly if it is enabled, for two adapters *)
OptionsFit(route) ==
  /\ route.thinking # None \/ route.effort # None
     => route.vendor \in {"deepseek", "openrouter"} /\ route.format = "chat_completions"
  /\ route.thinking \in {None, "enabled", "disabled"}
  /\ \/ route.effort = None /\ route.thinking # "enabled"
     \/ route.thinking = "enabled" /\ route.effort = "high"
     \/ route.thinking = "enabled" /\ route.effort = "max" /\ route.vendor = "deepseek"

BuildAdapter(route) == <<route.vendor, route.format>> \in Supports /\ OptionsFit(route)

ChatMode(route) ==
  CASE route.vendor = "openai" -> "omit"
    [] route.vendor = "openrouter" -> "preserve"
    [] route.vendor = "deepseek" ->
         IF route.thinking = "disabled" THEN "disabled" ELSE "deepseek"

(* what one API takes and another does not *)
Encodable(conv, config, format) ==
  /\ format = "messages" => config.limit /\ ~config.hot /\ SystemFirst(conv)
  /\ format = "responses" => ~config.stops

Endpoint == [chat_completions |-> "/chat/completions", messages |-> "/messages",
             responses |-> "/responses"]

Prepare(format, content) ==
  [format |-> format, endpoint |-> Endpoint[format],
   auth |-> IF format = "messages" THEN "x-api-key" ELSE "bearer", content |-> content]

(* the body of the request, or None: it is refused before anything is sent *)
BuildRequest(conv, config, route) ==
  IF ~( /\ Normalize(conv, config) /\ BuildAdapter(route)
        /\ ReplaysSound(conv) /\ Encodable(conv, config, route.format) )
  THEN None
  ELSE Prepare(route.format,
         CASE route.format = "chat_completions" -> ChatEncode(conv, ChatMode(route))
           [] route.format = "messages" -> MessagesEncode(conv)
           [] route.format = "responses" -> ResponsesEncode(conv))

(***************************************************************************)
(* What the three APIs ask of a conversation with tools                    *)
(***************************************************************************)
(* the results of a batch of calls follow it without anything in between *)
ChatBatches(out) ==
  \A i \in DOMAIN out : out[i].role = "assistant" /\ out[i].calls # <<>> =>
     LET n == Len(out[i].calls)
     IN /\ i + n <= Len(out)
        /\ \A k \in 1..n : out[i + k].role = "tool"
        /\ {out[i + k].call : k \in 1..n} = ToSet(out[i].calls)

Ids(blocks, type) == {blocks[k].id : k \in {k \in DOMAIN blocks : blocks[k].type = type}}

(* users and assistants take turns, and a turn with calls is answered by the next *)
MessagesAlternate(out) ==
  \A i \in 1..(Len(out) - 1) :
     /\ out[i].role # out[i + 1].role
     /\ Ids(out[i].blocks, "tool_use") = Ids(out[i + 1].blocks, "tool_result")

(* every call has its output after it and every output its call before it *)
ResponsesPaired(out) ==
  \A i \in DOMAIN out :
     /\ out[i].type = "function_call"
        => \E j \in DOMAIN out : j > i /\ out[j] = [type |-> "function_call_output", id |-> out[i].id]
     /\ out[i].type = "function_call_output"
        => \E j \in DOMAIN out : j < i /\ out[j] = [type |-> "function_call", id |-> out[i].id]

(* no image of the conversation is left behind *)
ImagesKept(conv, out) ==
  Total([i \in DOMAIN conv |-> IF conv[i].role \in {"user", "tool"} THEN conv[i].images ELSE 0])
  = Total([i \in DOMAIN out |-> IF out[i].role = "user" THEN Len(out[i].images) ELSE 0])

WellFormed(conv, body) ==
  CASE body.format = "chat_completions" -> ChatBatches(body.content) /\ ImagesKept(conv, body.content)
    [] body.format = "messages" -> MessagesAlternate(body.content)
    [] body.format = "responses" -> ResponsesPaired(body.content)
=============================================================================
