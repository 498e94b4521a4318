------------------------------ MODULE ChatSse ------------------------------
(***************************************************************************)
(* The Chat Completions translator of llm-switch                           *)
(* (zmod/llm-switch/src/connector/chat_sse.rs): a pure accumulator that is *)
(* fed one parsed JSON chunk after the other and, at the end of the        *)
(* stream, turns what it accumulated into the Responses events codex-core  *)
(* consumes.                                                               *)
(*                                                                         *)
(* A text is a sequence of fragments, so that concatenating texts is \o    *)
(* and the empty sequence is the empty string.  A chunk is a record with   *)
(*   error          the chunk has an "error" field                         *)
(*   id             NoId when the field is missing or empty                *)
(*   usage          {} when missing or null, {u} otherwise, u a function   *)
(*                  on the token counts that are present                   *)
(*   choice         choices[0] exists                                      *)
(*   finish_reason  "" when missing or empty                               *)
(*   content        the text delta, <<>> when missing or empty             *)
(*   tool_calls     the deltas [index, id, name, arguments], in order      *)
(***************************************************************************)
EXTENDS Integers, Sequences, SequencesExt, FiniteSets

NoId == [from |-> "none", n |-> 0]
UpstreamId(n) == [from |-> "upstream", n |-> n]

(* The events a translator hands to the stream. *)
OutputTextDelta(t) == [kind |-> "delta", text |-> t]
FunctionCallDone(id, name, args) ==
  [kind |-> "call", call_id |-> id, name |-> name, arguments |-> args]
MessageDone(t) == [kind |-> "message", text |-> t]
Completed(id, usage, end) ==
  [kind |-> "completed", response_id |-> id, token_usage |-> usage, end_turn |-> end]

(* The k-th id a translator makes up, for a "call" or a "resp".  Calls and  *)
(* the response share one counter, which starts at 0 for every response.   *)
SynthId(kind, k) == [from |-> kind, n |-> k]

ToolAcc == [call_id |-> NoId, name |-> "", arguments |-> <<>>]

ChatSseState ==
  [text |-> <<>>, response_id |-> NoId, finish_reason |-> "", usage |-> {},
   tool_calls |-> <<>>]

(* Mutant: a fragment replaces the arguments.                               *)
AddToolCallReplaces(accs, tc) ==
  [i \in DOMAIN accs \cup {tc.index} |->
     IF i = tc.index THEN [call_id |-> tc.id, name |-> tc.name, arguments |-> tc.arguments]
     ELSE accs[i]]

(* entry(index).or_default(), then the id and name replace what is there    *)
(* unless they are empty, and the arguments are appended.                   *)
AddToolCall(accs, tc) ==
  LET acc == IF tc.index \in DOMAIN accs THEN accs[tc.index] ELSE ToolAcc
      new == [call_id   |-> IF tc.id = NoId THEN acc.call_id ELSE tc.id,
              name      |-> IF tc.name = "" THEN acc.name ELSE tc.name,
              arguments |-> acc.arguments \o tc.arguments]
  IN  [i \in DOMAIN accs \cup {tc.index} |-> IF i = tc.index THEN new ELSE accs[i]]

AddToolCalls(accs, tcs) == FoldLeft(AddToolCall, accs, tcs)

(* Nothing is recorded from a chunk that carries an error; the rest of a    *)
(* chunk without choices is ignored.                                        *)
PushChunk(st, c) ==
  LET head == [st EXCEPT !.response_id = IF @ = NoId THEN c.id ELSE @,
                         !.usage = IF c.usage = {} THEN @ ELSE c.usage]
      body == [head EXCEPT
                 !.finish_reason = IF c.finish_reason = "" THEN @ ELSE c.finish_reason,
                 !.text = @ \o c.content,
                 !.tool_calls = AddToolCalls(@, c.tool_calls)]
  IN  IF c.error THEN [ok |-> FALSE, state |-> st, events |-> <<>>]
      ELSE IF ~c.choice THEN [ok |-> TRUE, state |-> head, events |-> <<>>]
      ELSE [ok     |-> TRUE,
            state  |-> body,
            events |-> IF c.content = <<>> THEN <<>> ELSE <<OutputTextDelta(c.content)>>]

ChatEndTurn(reason) ==
  CASE reason = "stop" -> "true"
    [] reason \in {"tool_calls", "length"} -> "false"
    [] OTHER -> "none"

ChatUsage(u) ==
  LET g(k) == IF k \in DOMAIN u THEN u[k] ELSE 0
  IN  [input  |-> g("prompt_tokens"), cached |-> g("cached_tokens"),
       output |-> g("completion_tokens"), total |-> g("total_tokens")]

(* The k-th smallest of a set of indices. *)
Kth(S, k) == CHOOSE i \in S : Cardinality({j \in S : j < i}) = k - 1

(* Mutant: the counter of made-up ids is not advanced.                      *)
ChatCallsSameId(accs) ==
  LET order(k) == Kth(DOMAIN accs, k)
  IN  [k \in 1..Cardinality(DOMAIN accs) |->
         LET acc == accs[order(k)]
         IN  FunctionCallDone(IF acc.call_id = NoId THEN SynthId("call", 1) ELSE acc.call_id,
                              acc.name, acc.arguments)]

(* The accumulated calls in index order; the k-th one without an id gets    *)
(* the k-th synthesized id.                                                 *)
ChatCalls(accs) ==
  LET order(k) == Kth(DOMAIN accs, k)
      missing(k) == Cardinality({j \in 1..k : accs[order(j)].call_id = NoId})
  IN  [k \in 1..Cardinality(DOMAIN accs) |->
         LET acc == accs[order(k)]
         IN  FunctionCallDone(IF acc.call_id = NoId THEN SynthId("call", missing(k))
                              ELSE acc.call_id, acc.name, acc.arguments)]

(* Mutant: the message comes before the calls.                              *)
ChatFinishTextFirst(st) ==
  (IF st.text = <<>> THEN <<>> ELSE <<MessageDone(st.text)>>)
    \o ChatCalls(st.tool_calls)
    \o <<Completed(st.response_id, {ChatUsage(u) : u \in st.usage},
                   ChatEndTurn(st.finish_reason))>>

(* The translator is dropped after finish, so only the events matter.       *)
ChatFinish(st) ==
  LET unnamed == {i \in DOMAIN st.tool_calls : st.tool_calls[i].call_id = NoId}
  IN  ChatCalls(st.tool_calls)
        \o (IF st.text = <<>> THEN <<>> ELSE <<MessageDone(st.text)>>)
        \o <<Completed(IF st.response_id = NoId
                       THEN SynthId("resp", Cardinality(unnamed) + 1)
                       ELSE st.response_id,
                       {ChatUsage(u) : u \in st.usage},
                       ChatEndTurn(st.finish_reason))>>

-----------------------------------------------------------------------------
(* What a whole sequence D of error-free chunks should be turned into,      *)
(* defined over D at once and not chunk by chunk.                           *)
RefPieces(D) ==
  FlattenSeq([k \in 1..Len(D) |-> IF D[k].choice THEN D[k].tool_calls ELSE <<>>])

(* The accumulator of an index has the last id and the last name that a     *)
(* piece for this index carries, and the arguments of all of them.          *)
RefAccs(pieces) ==
  LET of(i) == {k \in 1..Len(pieces) : pieces[k].index = i}
      ids(i) == {k \in of(i) : pieces[k].id # NoId}
      names(i) == {k \in of(i) : pieces[k].name # ""}
  IN  [i \in {pieces[k].index : k \in 1..Len(pieces)} |->
         [call_id   |-> IF ids(i) = {} THEN NoId ELSE pieces[Max(ids(i))].id,
          name      |-> IF names(i) = {} THEN "" ELSE pieces[Max(names(i))].name,
          arguments |-> FlattenSeq([k \in 1..Len(pieces) |->
                          IF k \in of(i) THEN pieces[k].arguments ELSE <<>>])]]

ChatRefAccs(D) == RefAccs(RefPieces(D))

ChatRefDeltas(D) ==
  FlattenSeq([k \in 1..Len(D) |-> IF D[k].choice /\ D[k].content # <<>>
                                  THEN <<OutputTextDelta(D[k].content)>> ELSE <<>>])

=============================================================================
