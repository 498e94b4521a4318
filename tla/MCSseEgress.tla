---------------------------- MODULE MCSseEgress ----------------------------
(* Small instances of SseEgress for TLC: the payloads and the ways the      *)
(* transport cuts the wire.                                                 *)
EXTENDS SseEgress

Piece(p) == [piece |-> p]

(* Chat payloads *)
Chunk == [error |-> FALSE, id |-> NoId, usage |-> {}, choice |-> TRUE,
          finish_reason |-> "", content |-> <<>>, tool_calls |-> <<>>]
Says(t) == [Chunk EXCEPT !.content = <<t>>]
Calls(tcs) == [Chunk EXCEPT !.tool_calls = tcs]
Delta(i, id, name, args) == [index |-> i, id |-> id, name |-> name, arguments |-> args]

ChatHello == [Says("a") EXCEPT !.id = UpstreamId(9)]
ChatWorld == Says("b")
ChatBoth == Calls(<<Delta(2, NoId, "g", <<"x">>), Delta(1, UpstreamId(1), "f", <<>>)>>)
ChatMore == Calls(<<Delta(2, NoId, "", <<"y">>)>>)
ChatMixed == [Calls(<<Delta(1, NoId, "", <<"z">>), Delta(0, NoId, "h", <<>>)>>)
                EXCEPT !.content = <<"c">>, !.finish_reason = "tool_calls"]
ChatUsageOnly == [Chunk EXCEPT !.choice = FALSE, !.id = UpstreamId(8),
                               !.usage = {[prompt_tokens |-> 1]}]
ChatError == [Chunk EXCEPT !.error = TRUE]
ChatPayloads == {ChatHello, ChatWorld, ChatBoth, ChatMore, ChatMixed, ChatUsageOnly, ChatError}

(* Anthropic payloads *)
Anth0 == [type |-> "message_start", id |-> UpstreamId(9), usage |-> [input_tokens |-> 2]]
Anth1 == [type |-> "text_delta", index |-> 0, text |-> <<"a">>]
AnthEmpty == [type |-> "text_delta", index |-> 0, text |-> <<>>]
Start(i, id, name) ==
  [type |-> "content_block_start", index |-> i, tool_use |-> TRUE, id |-> id, name |-> name]
AnthText == [type |-> "content_block_start", index |-> 0, tool_use |-> FALSE]
Fragment(i, p) == [type |-> "input_json_delta", index |-> i, partial_json |-> p]
AnthStop == [type |-> "message_delta", stop_reason |-> "tool_use",
             usage |-> [output_tokens |-> 3]]
AnthCount == [type |-> "message_delta", usage |-> [output_tokens |-> 3]]
AnthropicPayloads ==
  {Anth0, Anth1, AnthEmpty, AnthText, AnthStop, AnthCount, Start(1, UpstreamId(1), "f"),
   Start(2, NoId, "g"), Start(3, NoId, "h"), Fragment(1, <<"x">>), Fragment(1, <<"y">>),
   Fragment(2, <<"z">>), [type |-> "ping"], [type |-> "error"]}

(* Whole frames, one payload each, and a frame with other lines: what a     *)
(* translator does with payloads.                                           *)
FramePerChunk(data) ==
  {<<Json(d), NL, NL>> : d \in data}
    \cup {<<Piece(p), NL, NL>> : p \in {"done", "bad_json"}}
    \cup {<<Piece("skip"), NL, Piece("empty"), NL, NL>>}

(* Two payloads and every cut of the wire into small chunks: what the frame *)
(* loop does with bytes.                                                    *)
SmallChunks ==
  {<<NL>>, <<Piece("done")>>, <<Piece("bad_utf8")>>,
   <<Json(ChatHello)>>, <<Json(ChatMore)>>,
   <<Json(ChatHello), NL, NL, Json(ChatMore)>>, <<NL, Json(ChatMore), NL, NL>>}

Feed(connector, chunks, tokens, capacity) ==
  [connector |-> connector, chunks |-> chunks, tokens |-> tokens, channel |-> capacity]
AllFeeds ==
  [cut       |-> Feed("chat", SmallChunks, 6, 1),
   chat      |-> Feed("chat", FramePerChunk(ChatPayloads), 12, 2),
   anthropic |-> Feed("anthropic", FramePerChunk(AnthropicPayloads), 11, 1)]
=============================================================================
