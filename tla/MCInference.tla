---------------------------- MODULE MCInference ----------------------------
(***************************************************************************)
(* Two requests of one Agent.  The first speaks each of the three APIs to  *)
(* a provider that may send its chunks in any order, twice or not at all;  *)
(* the second goes on from the first answer, and its provider sends one    *)
(* whole response, or has a route no adapter supports.                     *)
(***************************************************************************)
EXTENDS Inference

Event(e) == <<[line |-> "data", event |-> e], [line |-> "blank"]>>
Named(e) == <<[line |-> "event", name |-> e.type]>> \o Event(e)

Chat(text, calls, end) ==
  [type |-> "chat", choices |-> 1, text |-> text, think |-> 0, calls |-> calls, end |-> end,
   usage |-> FALSE]
Call(at, id) == [at |-> at, id |-> <<id>>, named |-> TRUE, args |-> Whole]

(* a text, two calls, the end, the end at the limit of tokens, and an end with two calls of one id *)
ChatEnd == Event(Chat(0, <<>>, "tool_calls")) \o Event([type |-> "done"])

ChatChunks ==
  { Event(Chat(1, <<>>, None)),
    Event(Chat(0, <<Call(0, "a"), Call(1, "b")>>, None)),
    ChatEnd,
    Event(Chat(0, <<>>, "length")) \o Event([type |-> "done"]),
    Event(Chat(0, <<Call(0, "a"), Call(1, "a")>>, None)) \o ChatEnd }

Open(at, kind, n) ==
  [type |-> "content_block_start", at |-> at, kind |-> kind, n |-> n, sound |-> FALSE,
   id |-> IF kind = "tool_use" THEN <<"a">> ELSE <<>>]
Delta(at, delta) == [type |-> "content_block_delta", at |-> at, delta |-> delta, n |-> 1]
Close(at) == [type |-> "content_block_stop", at |-> at]

MessagesChunks ==
  { Named([type |-> "message_start", empty |-> TRUE]) \o Named(Open(0, "thinking", 1)),
    Named(Delta(0, "signature_delta")) \o Named(Close(0)) \o Named(Open(1, "tool_use", 0)),
    Named(Close(1)) \o Named([type |-> "message_delta", reason |-> "tool_calls"])
      \o Named([type |-> "message_stop"]) }

Item(type, kind, n) ==
  [type |-> type, at |-> 0, kind |-> kind, id |-> <<"i">>, n |-> n, more |-> 0, empty |-> TRUE]
Text(n) == [type |-> "text.delta", at |-> 0, channel |-> "output", n |-> n]
End == [type |-> "end", status |-> "completed", reason |-> None, usage |-> TRUE]

ResponsesChunks ==
  { Named([type |-> "created"]) \o Named(Item("output_item.added", "message", 0)) \o Named(Text(1)),
    Named(Text(1)),
    Named(Item("output_item.done", "message", 1)) \o Named(End) }

Plain == [valid |-> TRUE, limit |-> TRUE, hot |-> FALSE, stops |-> FALSE]
Route(vendor, format) == [vendor |-> vendor, format |-> format, thinking |-> None, effort |-> None]

(* two calls whose results carry an image each *)
History ==
  <<User(1), Assistant(FALSE, TRUE, <<"a", "b">>, [format |-> "messages", valid |-> TRUE]),
    ToolResult("b", 1), ToolResult("a", 0), User(0)>>

MCRequest == 1..2

MCWanted ==
  <<{[route |-> Route("deepseek", format), conv |-> History, config |-> Plain] : format \in Formats},
    {[route |-> Route("deepseek", "chat_completions"), conv |-> None, config |-> Plain],
     [route |-> Route("openai", "messages"), conv |-> <<User(0)>>, config |-> Plain]}>>

MCSays ==
  <<[chat_completions |-> ChatChunks, messages |-> MessagesChunks, responses |-> ResponsesChunks],
    [chat_completions |-> {Event(Chat(1, <<>>, "stop")) \o Event([type |-> "done"])},
     messages |-> {}, responses |-> {}]>>

MCFaults == <<{"launch", "late", "reply", "network", "panic", "slow"}, {}>>
=============================================================================
