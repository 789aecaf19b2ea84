---------------------------- MODULE StreamDecoder ----------------------------
(***************************************************************************)
(* FormatDecoder and ResponseAccumulator of inference/plugin: the lines of *)
(* an event stream become events, an event becomes fragments, and accepted *)
(* fragments become a response.                                            *)
(*                                                                         *)
(* A text is its number of pieces, and so is the text of a call's          *)
(* arguments: two pieces make one JSON object, any other number is no JSON *)
(* object.  An id is the sequence of its pieces.  A digest of a text is    *)
(* the text.  An event that is not JSON, lacks a field or reports an error *)
(* has the type "error".                                                   *)
(***************************************************************************)
EXTENDS ProviderRequest

Whole == 2   (* pieces of a JSON object *)

NewDecoder(format) ==
  [format |-> format, data |-> <<>>, name |-> None, started |-> FALSE, terminal |-> FALSE,
   reason |-> None, refused |-> FALSE, blocks |-> <<>>]

NewBlock(kind) ==
  [kind |-> kind, id |-> <<>>, closed |-> FALSE, text |-> 0, reasoning |-> 0, args |-> 0,
   filled |-> FALSE]

Content(n) == [kind |-> "content", n |-> n]
Reasoning(n) == [kind |-> "reasoning", n |-> n]
CallDelta(at, id, named, args) ==
  [kind |-> "call", at |-> at, id |-> id, named |-> named, args |-> args]
Replay(format, at, op, item) ==
  [kind |-> "replay", format |-> format, at |-> at, op |-> op, item |-> item]
Usage == [kind |-> "usage"]
Finished(reason) == [kind |-> "finished", reason |-> reason]

Out(d, fragments) == [d |-> d, out |-> fragments, bad |-> FALSE]
Bad(d) == [d |-> d, out |-> <<>>, bad |-> TRUE]

Has(d, at) == at \in DOMAIN d.blocks
IsOpen(d, at) == Has(d, at) /\ ~d.blocks[at].closed
AllClosed(d) == \A at \in DOMAIN d.blocks : d.blocks[at].closed
Put(f, at, v) == [x \in DOMAIN f \cup {at} |-> IF x = at THEN v ELSE f[x]]

(* what serde lets through: indexes and pieces where an event has them *)
EventOK(e) ==
  /\ e.type = "chat" =>
       /\ {e.text, e.think} \subseteq Nat
       /\ e.calls \in Seq(ToSet(e.calls)) /\ \A i \in DOMAIN e.calls : e.calls[i].at \in Nat
       /\ e.choices = 0 => e.text = 0
  /\ e.type \in {"content_block_start", "content_block_delta", "content_block_stop",
                  "output_item.added", "text.delta", "arguments.delta", "output_item.done"}
     => e.at \in Nat
  /\ e.type \in {"content_block_start", "content_block_delta", "output_item.added", "text.delta",
                  "output_item.done"}
     => e.n \in Nat

LinesOK(lines) ==
  /\ lines \in Seq(ToSet(lines))
  /\ \A i \in DOMAIN lines : /\ lines[i].line \in {"blank", "data", "event", "comment"}
                             /\ lines[i].line = "data" => EventOK(lines[i].event)

Optional(b, fragment) == IF b THEN <<fragment>> ELSE <<>>

(***************************************************************************)
(* Chat completions                                                        *)
(***************************************************************************)
(* after the finish_reason only an empty choice that repeats it *)
ChatTail(d, e) ==
  IF e.text = 0 /\ e.think = 0 /\ e.calls = <<>> /\ e.end \in {None, d.reason}
  THEN Out(d, Optional(e.usage, Usage)) ELSE Bad(d)

ChatChoice(d, e) ==
  Out([d EXCEPT !.started = TRUE, !.reason = e.end],
      Optional(e.usage, Usage)
      \o Optional(e.think > 0, Reasoning(e.think))
      \o Optional(e.text > 0, Content(e.text))
      \o [i \in DOMAIN e.calls |->
            CallDelta(e.calls[i].at, e.calls[i].id, e.calls[i].named, e.calls[i].args)])

ChatDone(d) ==
  IF ~d.started \/ d.reason = None THEN Bad(d)
  ELSE Out([d EXCEPT !.terminal = TRUE], <<Finished(d.reason)>>)

ChatEvent(d, e) ==
  IF e.type = "done" THEN ChatDone(d)
  ELSE IF e.type # "chat" \/ e.choices > 1 THEN Bad(d)
  ELSE IF e.choices = 0 THEN Out(d, Optional(e.usage, Usage))
  ELSE IF d.reason # None THEN ChatTail(d, e)
  ELSE ChatChoice(d, e)

(***************************************************************************)
(* Messages                                                                *)
(***************************************************************************)
BlockFragments(e) ==
  CASE e.kind = "text" -> <<Content(e.n)>>
    [] e.kind = "thinking" ->
         <<Reasoning(e.n), Replay("messages", e.at, "start", [kind |-> "thinking", sound |-> e.sound])>>
    [] e.kind = "redacted_thinking" ->
         <<Replay("messages", e.at, "start", [kind |-> "redacted_thinking", sound |-> e.sound])>>
    [] e.kind = "tool_use" -> <<CallDelta(e.at, e.id, TRUE, e.n)>>

BlockStart(d, e) ==
  IF d.reason # None \/ Has(d, e.at)
     \/ e.kind \notin {"text", "thinking", "redacted_thinking", "tool_use"}
  THEN Bad(d)
  ELSE Out([d EXCEPT !.blocks = Put(@, e.at,
              [NewBlock(e.kind) EXCEPT !.id = e.id, !.filled = e.kind = "tool_use" /\ e.n > 0])],
           BlockFragments(e))

DeltaOf == {<<"text_delta", "text">>, <<"thinking_delta", "thinking">>,
            <<"signature_delta", "thinking">>, <<"input_json_delta", "tool_use">>}

DeltaFragments(e) ==
  CASE e.delta = "text_delta" -> <<Content(e.n)>>
    [] e.delta = "thinking_delta" ->
         <<Reasoning(e.n), Replay("messages", e.at, "thinking_delta", None)>>
    [] e.delta = "signature_delta" -> <<Replay("messages", e.at, "signature_delta", None)>>
    [] e.delta = "input_json_delta" -> <<CallDelta(e.at, <<>>, FALSE, e.n)>>

BlockDelta(d, e) ==
  IF ~IsOpen(d, e.at) \/ <<e.delta, d.blocks[e.at].kind>> \notin DeltaOf THEN Bad(d)
  ELSE Out([d EXCEPT !.blocks[e.at].filled = @ \/ e.delta = "input_json_delta"],
           DeltaFragments(e))

(* a call without arguments gets an empty object *)
BlockStop(d, e) ==
  IF ~IsOpen(d, e.at) THEN Bad(d)
  ELSE Out([d EXCEPT !.blocks[e.at].closed = TRUE],
           Optional(d.blocks[e.at].kind = "tool_use" /\ ~d.blocks[e.at].filled,
                    CallDelta(e.at, <<>>, FALSE, Whole)))

MessageStart(d, e) ==
  IF d.started \/ ~e.empty THEN Bad(d) ELSE Out([d EXCEPT !.started = TRUE], <<Usage>>)

MessageDelta(d, e) ==
  IF d.reason # None \/ ~AllClosed(d) THEN Bad(d)
  ELSE Out([d EXCEPT !.reason = e.reason], <<Usage>>)

MessageStop(d) ==
  IF ~AllClosed(d) \/ d.reason = None THEN Bad(d)
  ELSE Out([d EXCEPT !.terminal = TRUE], <<Finished(d.reason)>>)

MessagesEvent(d, e) ==
  IF e.type = "ping" THEN Out(d, <<>>)
  ELSE IF e.type = "message_start" THEN MessageStart(d, e)
  ELSE IF ~d.started THEN Bad(d)
  ELSE CASE e.type = "content_block_start" -> BlockStart(d, e)
         [] e.type = "content_block_delta" -> BlockDelta(d, e)
         [] e.type = "content_block_stop" -> BlockStop(d, e)
         [] e.type = "message_delta" -> MessageDelta(d, e)
         [] e.type = "message_stop" -> MessageStop(d)
         [] OTHER -> Bad(d)

(***************************************************************************)
(* Responses                                                               *)
(***************************************************************************)
ItemAdded(d, e) ==
  IF e.kind \notin {"message", "reasoning", "function_call"} \/ ~e.empty \/ Has(d, e.at)
  THEN Bad(d)
  ELSE Out([d EXCEPT !.blocks = Put(@, e.at, [NewBlock(e.kind) EXCEPT !.id = e.id, !.args = e.n])],
           Optional(e.kind = "function_call", CallDelta(e.at, e.id, TRUE, e.n)))

Thought(e) == e.channel \in {"summary", "reasoning_text"}

TextDelta(d, e) ==
  IF ~IsOpen(d, e.at)
     \/ d.blocks[e.at].kind # (IF Thought(e) THEN "reasoning" ELSE "message")
  THEN Bad(d)
  ELSE Out([d EXCEPT !.refused = @ \/ e.channel = "refusal",
                     !.blocks[e.at].reasoning = IF e.channel = "reasoning_text" THEN @ + e.n ELSE @,
                     !.blocks[e.at].text = IF e.channel = "reasoning_text" THEN @ ELSE @ + e.n],
           <<IF Thought(e) THEN Reasoning(e.n) ELSE Content(e.n)>>)

ArgumentsDelta(d, e) ==
  IF ~IsOpen(d, e.at) \/ d.blocks[e.at].kind # "function_call" THEN Bad(d)
  ELSE Out([d EXCEPT !.blocks[e.at].args = @ + e.n], <<CallDelta(e.at, <<>>, FALSE, e.n)>>)

ArgumentsDone(d, e) ==
  IF ~IsOpen(d, e.at) \/ d.blocks[e.at].kind # "function_call" \/ d.blocks[e.at].args # e.n
  THEN Bad(d) ELSE Out(d, <<>>)

(* Mutant: the text of a completed message is not compared *)
AgreesLoosely(block, e) ==
  /\ block.kind = e.kind
  /\ block.kind = "function_call" => e.id = block.id /\ e.n = block.args

(* the completed item says what its deltas said *)
Agrees(block, e) ==
  /\ block.kind = e.kind
  /\ block.kind = "function_call" => e.id = block.id /\ e.n = block.args
  /\ block.kind = "message" => e.n = block.text
  /\ block.kind = "reasoning" => e.id = block.id /\ e.n = block.text /\ e.more = block.reasoning

ItemDone(d, e) ==
  IF ~IsOpen(d, e.at) \/ ~Agrees(d.blocks[e.at], e) THEN Bad(d)
  ELSE Out([d EXCEPT !.blocks[e.at].closed = TRUE],
           Optional(e.kind = "reasoning",
                    Replay("responses", e.at, "replace", [kind |-> "reasoning", sound |-> e.id # <<>>])))

ResponseEnd(d, e) ==
  LET calls == \E at \in DOMAIN d.blocks : d.blocks[at].kind = "function_call"
      reason == IF e.status = "incomplete" THEN e.reason
                ELSE IF d.refused THEN "content_filter"
                ELSE IF calls THEN "tool_calls" ELSE "completed"
  IN IF ~AllClosed(d) THEN Bad(d)
     ELSE Out([d EXCEPT !.terminal = TRUE], Optional(e.usage, Usage) \o <<Finished(reason)>>)

ResponsesEvent(d, e) ==
  IF e.type = "created" THEN (IF d.started THEN Bad(d) ELSE Out([d EXCEPT !.started = TRUE], <<>>))
  ELSE IF ~d.started THEN Bad(d)
  ELSE CASE e.type = "in_progress" -> Out(d, <<>>)
         [] e.type = "output_item.added" -> ItemAdded(d, e)
         [] e.type = "text.delta" -> TextDelta(d, e)
         [] e.type = "arguments.delta" -> ArgumentsDelta(d, e)
         [] e.type = "arguments.done" -> ArgumentsDone(d, e)
         [] e.type = "output_item.done" -> ItemDone(d, e)
         [] e.type = "end" -> ResponseEnd(d, e)
         [] e.type = "part" -> (IF IsOpen(d, e.at) THEN Out(d, <<>>) ELSE Bad(d))
         [] OTHER -> Bad(d)

(***************************************************************************)
(* Server-sent events                                                      *)
(***************************************************************************)
(* an event of one data line; several lines are no JSON *)
Dispatch(d) ==
  LET clear == [d EXCEPT !.data = <<>>, !.name = None]
      e == Head(d.data)
  IN IF d.data = <<>> THEN Out(clear, <<>>)
     ELSE IF d.terminal \/ Len(d.data) > 1 THEN Bad(clear)
     ELSE IF d.format = "chat_completions" THEN ChatEvent(clear, e)
     ELSE IF d.name \notin {None, e.type} THEN Bad(clear)
     ELSE IF d.format = "messages" THEN MessagesEvent(clear, e)
     ELSE ResponsesEvent(clear, e)

Line(d, l) ==
  CASE l.line = "blank" -> Dispatch(d)
    [] l.line = "data" -> Out([d EXCEPT !.data = Append(@, l.event)], <<>>)
    [] l.line = "event" -> Out([d EXCEPT !.name = l.name], <<>>)
    [] l.line = "comment" -> Out(d, <<>>)

(* one chunk of the body: an error loses what the chunk said before it *)
PushLine(s, l) ==
  IF s.bad THEN s
  ELSE LET next == Line(s.d, l)
       IN IF next.bad THEN Bad(next.d) ELSE Out(next.d, s.out \o next.out)

Push(d, lines) == Fold(PushLine, Out(d, <<>>), lines)

Finish(d) ==
  LET last == Dispatch(d) IN IF last.bad \/ ~last.d.terminal THEN Bad(last.d) ELSE last

(***************************************************************************)
(* ResponseAccumulator                                                     *)
(***************************************************************************)
NewAccumulator ==
  [content |-> 0, reasoning |-> 0, calls |-> <<>>, replay |-> <<>>, format |-> None,
   reason |-> None, usage |-> FALSE]

Accepted(acc, text) == [acc |-> acc, text |-> text, bad |-> FALSE]
Refused(acc) == [acc |-> acc, text |-> 0, bad |-> TRUE]

AcceptCall(acc, f) ==
  LET old == IF f.at \in DOMAIN acc.calls THEN acc.calls[f.at]
             ELSE [id |-> <<>>, named |-> FALSE, args |-> 0]
  IN [acc EXCEPT !.calls = Put(@, f.at, [id |-> old.id \o f.id, named |-> old.named \/ f.named,
                                         args |-> old.args + f.args])]

AcceptReplay(acc, f) ==
  IF acc.format \notin {None, f.format} THEN Refused(acc)
  ELSE IF f.op \in {"start", "replace"}
  THEN Accepted([acc EXCEPT !.format = f.format, !.replay = Put(@, f.at, f.item)], 0)
  ELSE IF f.at \notin DOMAIN acc.replay THEN Refused(acc)
  ELSE Accepted([acc EXCEPT !.replay[f.at].sound = @ \/ f.op = "signature_delta"], 0)

Accept(acc, f) ==
  CASE f.kind = "content" -> Accepted([acc EXCEPT !.content = @ + f.n], f.n)
    [] f.kind = "reasoning" -> Accepted([acc EXCEPT !.reasoning = @ + f.n], f.n)
    [] f.kind = "call" -> Accepted(AcceptCall(acc, f), 0)
    [] f.kind = "replay" -> AcceptReplay(acc, f)
    [] f.kind = "usage" -> Accepted([acc EXCEPT !.usage = TRUE], 0)
    [] f.kind = "finished" ->
         IF acc.reason # None THEN Refused(acc) ELSE Accepted([acc EXCEPT !.reason = f.reason], 0)

(* Mutant: calls may have one id *)
CallsCompleteOnly(calls) ==
  \A i \in DOMAIN calls : calls[i].args = Whole /\ calls[i].id # <<>> /\ calls[i].named

CallsComplete(calls) ==
  /\ \A i \in DOMAIN calls : calls[i].args = Whole /\ calls[i].id # <<>> /\ calls[i].named
  /\ \A i, j \in DOMAIN calls : i # j => calls[i].id # calls[j].id

(* the ids in the order of the calls *)
Before(calls, at) == Cardinality({i \in DOMAIN calls : i < at})

CallIds(calls) ==
  [k \in 1..Cardinality(DOMAIN calls) |->
     calls[CHOOSE at \in DOMAIN calls : Before(calls, at) = k - 1].id]

Answer(kind, content, reasoning, calls, replay) ==
  [kind |-> kind, content |-> content, reasoning |-> reasoning, calls |-> calls, replay |-> replay]

(* the response of an accumulator, or None *)
Response(acc) ==
  IF \/ acc.reason = None
     \/ ~CallsComplete(acc.calls)
     \/ acc.reason = "tool_calls" /\ acc.calls = <<>>
     \/ /\ acc.content = 0 /\ acc.calls = <<>>
        /\ acc.reason \notin {"length", "content_filter"}
     \/ acc.format # None /\ \E at \in DOMAIN acc.replay : ~acc.replay[at].sound
  THEN None
  ELSE Answer("ok", acc.content, acc.reasoning, CallIds(acc.calls),
              IF acc.replay = <<>> THEN None ELSE [format |-> acc.format, valid |-> TRUE])

(* what a stopped response keeps *)
FrozenResponse(acc) == Answer("frozen", acc.content, acc.reasoning, <<>>, None)
=============================================================================
