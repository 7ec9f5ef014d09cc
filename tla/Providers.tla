----------------------------- MODULE Providers -----------------------------
(***************************************************************************)
(* The LLM providers: how a message history is put into the shape of each  *)
(* vendor's API, how an answer of the vendor is read back, and (external)  *)
(* which histories a vendor takes.                                         *)
(*                                                                         *)
(* Models, prompts, tool schemas, texts and arguments are left out.  A     *)
(* text that is optional beside tool calls is left out too.                *)
(***************************************************************************)
EXTENDS Conversation

(* The values of LLM_PROVIDER.                                             *)
Providers == {"anthropic", "groq", "fake"}

(* The fake plays recorded cassettes and takes whatever it is sent.        *)
Strict == {"anthropic", "groq"}

-----------------------------------------------------------------------------
(* AnthropicLlmProvider: turns with content blocks.                        *)

Text == [type |-> "text"]

ToolUse(c) == [type |-> "tool_use", id |-> c]

ToolResult(c) == [type |-> "tool_result", tool_use_id |-> c]

(* Mutant: a turn's tool calls are forgotten, as if it had only a text.    *)
ToAnthropicText(m) ==
    CASE m.role = "user" -> [role |-> "user", content |-> <<Text>>]
      [] m.role = "tool" -> [role |-> "user", content |-> <<ToolResult(m.toolCallId)>>]
      [] m.role = "assistant" -> [role |-> "assistant", content |-> <<Text>>]

ToAnthropicMessage(m) ==
    CASE m.role = "user" -> [role |-> "user", content |-> <<Text>>]
      [] m.role = "tool" -> [role |-> "user", content |-> <<ToolResult(m.toolCallId)>>]
      [] m.role = "assistant" ->
            [role |-> "assistant",
             content |-> IF m.toolCalls = << >> THEN <<Text>>
                         ELSE [i \in DOMAIN m.toolCalls |-> ToolUse(m.toolCalls[i])]]

ToAnthropicMessages(h) == [i \in DOMAIN h |-> ToAnthropicMessage(h[i])]

(* mapStopReason: a reason it does not know is an error.                   *)
AnthropicStopReason(reason) ==
    IF reason \in {"end_turn", "tool_use", "max_tokens", "stop_sequence"}
    THEN reason ELSE "error"

-----------------------------------------------------------------------------
(* OpenAICompatibleProvider: the system prompt is the first message, tool  *)
(* calls are a field of the assistant's, and a result is a role.           *)

(* Mutant: the results of tools are sent as user messages.                 *)
ToOpenAiUser(m) ==
    CASE m.role \in {"user", "tool"} -> [role |-> "user"]
      [] m.role = "assistant" ->
            IF m.toolCalls = << >> THEN [role |-> "assistant"]
            ELSE [role |-> "assistant", tool_calls |-> m.toolCalls]

ToOpenAiMessage(m) ==
    CASE m.role = "user" -> [role |-> "user"]
      [] m.role = "tool" -> [role |-> "tool", tool_call_id |-> m.toolCallId]
      [] m.role = "assistant" ->
            IF m.toolCalls = << >> THEN [role |-> "assistant"]
            ELSE [role |-> "assistant", tool_calls |-> m.toolCalls]

ToOpenAiMessages(h) ==
    <<[role |-> "system"]>> \o [i \in DOMAIN h |-> ToOpenAiMessage(h[i])]

(* mapFinishReason: a reason it does not know keeps the text flowing.      *)
OpenAiStopReason(reason) ==
    CASE reason = "stop" -> "end_turn"
      [] reason = "tool_calls" -> "tool_use"
      [] reason = "length" -> "max_tokens"
      [] reason \notin {"stop", "tool_calls", "length"} -> "stop_sequence"

-----------------------------------------------------------------------------
(* Both behind the one interface.                                          *)

Wire(provider, h) ==
    IF provider = "anthropic" THEN ToAnthropicMessages(h) ELSE ToOpenAiMessages(h)

(* What a vendor may report as the reason why it stopped; a cassette holds *)
(* the reason as the loop reads it.                                        *)
Reasons(provider) ==
    CASE provider = "anthropic" ->
            {"end_turn", "tool_use", "max_tokens", "stop_sequence", "refusal"}
      [] provider = "groq" -> {"stop", "tool_calls", "length", "content_filter"}
      [] provider = "fake" ->
            {"end_turn", "tool_use", "max_tokens", "stop_sequence", "error"}

StopReason(provider, reason) ==
    CASE provider = "anthropic" -> AnthropicStopReason(reason)
      [] provider = "groq" -> OpenAiStopReason(reason)
      [] provider = "fake" -> reason

(* The loop goes on with an answer that stopped for tools and names some.  *)
GoesOn(stopReason, calls) == stopReason = "tool_use" /\ calls # << >>

-----------------------------------------------------------------------------
(* External: how the vendors read what they are sent.                      *)

(* The tool calls a turn makes, and the ones it answers.                   *)
BlockIds(turn, type) ==
    { c \in Calls : \E i \in DOMAIN turn.content :
        turn.content[i] = IF type = "tool_use" THEN ToolUse(c) ELSE ToolResult(c) }

Makes(provider, turn) ==
    IF provider = "anthropic" THEN BlockIds(turn, "tool_use")
    ELSE IF "tool_calls" \in DOMAIN turn THEN Range(turn.tool_calls) ELSE {}

Answers(provider, turn) ==
    IF provider = "anthropic" THEN BlockIds(turn, "tool_result")
    ELSE IF "tool_call_id" \in DOMAIN turn THEN {turn.tool_call_id} ELSE {}

(* The results that directly follow turn i.  Anthropic joins them with the *)
(* text of the user that comes next, after them.                           *)
ResultsAfter(provider, wire, i) ==
    UNION { Answers(provider, wire[j]) : j \in
              { k \in (i+1)..Len(wire) :
                  \A l \in (i+1)..k : Answers(provider, wire[l]) # {} } }

(* A vendor refuses a history in which a turn with tool calls is not       *)
(* directly followed by their results, or a result follows anything else.  *)
Accepts(provider, h) ==
    LET wire == Wire(provider, h)
    IN  provider \in Strict =>
          \A i \in DOMAIN wire :
             IF Answers(provider, wire[i]) = {}
             THEN Makes(provider, wire[i]) = ResultsAfter(provider, wire, i)
             ELSE i > 1
=============================================================================
