---------------------------- MODULE AnthropicSse ----------------------------
(***************************************************************************)
(* The Anthropic Messages translator of llm-switch                         *)
(* (zmod/llm-switch/src/connector/anthropic_sse.rs).  Same role as ChatSse *)
(* with a different vocabulary.  An event is a record whose "type" is one  *)
(* of                                                                      *)
(*   "error", "ping" (also content_block_stop, message_stop and any        *)
(*                    unknown type: all of them are ignored)               *)
(*   "message_start"        [id, usage]                                    *)
(*   "content_block_start"  [index, tool_use, id, name]                    *)
(*   "text_delta"           [index, text]                                  *)
(*   "input_json_delta"     [index, partial_json]                          *)
(*   "message_delta"        [stop_reason, usage], stop_reason optional     *)
(* where the two deltas are the content_block_delta events.                *)
(***************************************************************************)
EXTENDS ChatSse

BlockAcc == [is_tool_use |-> FALSE, call_id |-> NoId, name |-> "", partial_json |-> <<>>]

AnthropicSseState ==
  [text |-> <<>>, response_id |-> NoId, stop_reason |-> "",
   input_tokens |-> 0, cached_input_tokens |-> 0, cache_creation_input_tokens |-> 0,
   output_tokens |-> 0, blocks |-> <<>>]

(* entry(index).or_default() *)
Block(st, i) == IF i \in DOMAIN st.blocks THEN st.blocks[i] ELSE BlockAcc
WithBlock(st, i, acc) ==
  [st EXCEPT !.blocks = [j \in DOMAIN @ \cup {i} |-> IF j = i THEN acc ELSE @[j]]]

Count(usage, field, old) == IF field \in DOMAIN usage THEN usage[field] ELSE old

MessageStart(st, e) ==
  [st EXCEPT !.response_id = IF @ = NoId THEN e.id ELSE @,
             !.input_tokens = Count(e.usage, "input_tokens", @),
             !.cached_input_tokens = Count(e.usage, "cache_read_input_tokens", @),
             !.cache_creation_input_tokens = Count(e.usage, "cache_creation_input_tokens", @)]

(* A tool_use start overwrites the id and the name, also with nothing.      *)
BlockStart(st, e) ==
  LET acc == Block(st, e.index)
  IN  WithBlock(st, e.index,
        IF e.tool_use
        THEN [acc EXCEPT !.is_tool_use = TRUE, !.call_id = e.id, !.name = e.name]
        ELSE acc)

(* Mutant: a fragment replaces the input.                                   *)
InputJsonReplaces(st, e) ==
  WithBlock(st, e.index, [Block(st, e.index) EXCEPT !.partial_json = e.partial_json])

InputJsonDelta(st, e) ==
  LET acc == Block(st, e.index)
  IN  WithBlock(st, e.index, [acc EXCEPT !.partial_json = @ \o e.partial_json])

(* Any stop_reason replaces the one before, an empty one too.               *)
MessageDelta(st, e) ==
  [st EXCEPT !.stop_reason = IF "stop_reason" \in DOMAIN e THEN e.stop_reason ELSE @,
             !.output_tokens = Count(e.usage, "output_tokens", @)]

(* A text delta is emitted even when its text is empty.                     *)
PushEvent(st, e) ==
  [ok     |-> e.type # "error",
   state  |-> CASE e.type = "message_start"       -> MessageStart(st, e)
                [] e.type = "content_block_start" -> BlockStart(st, e)
                [] e.type = "text_delta"          -> [st EXCEPT !.text = @ \o e.text]
                [] e.type = "input_json_delta"    -> InputJsonDelta(st, e)
                [] e.type = "message_delta"       -> MessageDelta(st, e)
                [] OTHER                          -> st,
   events |-> IF e.type = "text_delta" THEN <<OutputTextDelta(e.text)>> ELSE <<>>]

AnthropicEndTurn(reason) ==
  CASE reason = "end_turn" -> "true"
    [] reason = "tool_use" -> "false"
    [] OTHER -> "none"

EmptyObject == <<"{}">>

ToolBlocks(blocks) == {i \in DOMAIN blocks : blocks[i].is_tool_use}

AnthropicCalls(blocks) ==
  LET order(k) == Kth(ToolBlocks(blocks), k)
      missing(k) == Cardinality({j \in 1..k : blocks[order(j)].call_id = NoId})
  IN  [k \in 1..Cardinality(ToolBlocks(blocks)) |->
         LET acc == blocks[order(k)]
         IN  FunctionCallDone(IF acc.call_id = NoId THEN SynthId("call", missing(k))
                              ELSE acc.call_id,
                              acc.name,
                              IF acc.partial_json = <<>> THEN EmptyObject
                              ELSE acc.partial_json)]

(* Mutant: no message when there are calls.                                 *)
AnthropicFinishDropsText(st) ==
  AnthropicCalls(st.blocks)
    \o (IF st.text = <<>> \/ ToolBlocks(st.blocks) # {} THEN <<>> ELSE <<MessageDone(st.text)>>)
    \o <<Completed(st.response_id, {}, AnthropicEndTurn(st.stop_reason))>>

AnthropicFinish(st) ==
  LET unnamed == {i \in ToolBlocks(st.blocks) : st.blocks[i].call_id = NoId}
  IN  AnthropicCalls(st.blocks)
        \o (IF st.text = <<>> THEN <<>> ELSE <<MessageDone(st.text)>>)
        \o <<Completed(IF st.response_id = NoId
                       THEN SynthId("resp", Cardinality(unnamed) + 1)
                       ELSE st.response_id,
                       {[input  |-> st.input_tokens, cached |-> st.cached_input_tokens,
                         output |-> st.output_tokens,
                         total  |-> st.cached_input_tokens + st.cache_creation_input_tokens
                                      + st.input_tokens + st.output_tokens]},
                       AnthropicEndTurn(st.stop_reason))>>

-----------------------------------------------------------------------------
(* The blocks a whole event sequence describes: a block is a tool call when *)
(* some start says so, its id and name are those of the last such start,    *)
(* and its input is every fragment for its index, wherever it came.         *)
RefFragments(D, i) ==
  FlattenSeq([k \in 1..Len(D) |-> IF D[k].type = "input_json_delta" /\ D[k].index = i
                                  THEN D[k].partial_json ELSE <<>>])

AnthropicRefBlocks(D) ==
  LET touched == {k \in 1..Len(D) : D[k].type \in {"content_block_start", "input_json_delta"}}
      starts(i) == {k \in 1..Len(D) : /\ D[k].type = "content_block_start"
                                      /\ D[k].index = i /\ D[k].tool_use}
      last(i) == D[Max(starts(i))]
  IN  [i \in {D[k].index : k \in touched} |->
         [is_tool_use  |-> starts(i) # {},
          call_id      |-> IF starts(i) = {} THEN NoId ELSE last(i).id,
          name         |-> IF starts(i) = {} THEN "" ELSE last(i).name,
          partial_json |-> RefFragments(D, i)]]

AnthropicRefDeltas(D) ==
  FlattenSeq([k \in 1..Len(D) |-> IF D[k].type = "text_delta"
                                  THEN <<OutputTextDelta(D[k].text)>> ELSE <<>>])

=============================================================================
