----------------------------- MODULE SseProofs -----------------------------
(***************************************************************************)
(* The egress engine implements ResponseStreamContract for every set of    *)
(* feeds: whatever payloads the upstream sends, however the transport cuts *)
(* them, and whatever the capacity of the channel. A stream it completes   *)
(* says what the wire says: the deltas and the calls are those of the      *)
(* reference reading of the payloads received before the first [DONE].     *)
(***************************************************************************)
EXTENDS SseEgress, FiniteSetTheorems, SequenceTheorems, WellFoundedInduction, TLAPS

-----------------------------------------------------------------------------
(* Finite sets of positions. *)

(* A set of subsets of a finite set has a member none of the others is in.  *)
LEMMA SmallestSubset ==
  ASSUME NEW S, IsFiniteSet(S), NEW T, T # {}, \A r \in T : r \subseteq S
  PROVE  \E s \in T : \A r \in T : r \subseteq s => r = s
<1>1. \A r \in T : IsFiniteSet(r) /\ r \subseteq S
  BY FS_Subset
<1>2. T \subseteq FiniteSubsetsOf(S)
  BY <1>1 DEF FiniteSubsetsOf
<1>3. PICK s \in T : \A r \in T : ~(<<r, s>> \in StrictSubsetOrdering(S))
  BY <1>2, FS_StrictSubsetOrderingWellFounded, WFMin
<1>4. ASSUME NEW r \in T, r \subseteq s, r # s PROVE FALSE
  <2>1. <<r, s>> \in (SUBSET S) \X (SUBSET S)
    BY <1>1
  <2>2. <<r, s>> \in StrictSubsetOrdering(S)
    BY <1>4, <2>1 DEF StrictSubsetOrdering
  <2> QED
    BY <1>3, <2>2
<1> QED
  BY <1>4

(* A finite set of integers has a first and a last one. *)
LEMMA IntFirstAndLast ==
  ASSUME NEW S \in SUBSET Int, IsFiniteSet(S), S # {}
  PROVE  /\ \E x \in S : \A y \in S : x <= y
         /\ \E x \in S : \A y \in S : x >= y
<1> DEFINE Good(s) == /\ \E x \in s : \A y \in s : x <= y
                      /\ \E x \in s : \A y \in s : x >= y
           T == {s \in SUBSET S : s # {} /\ ~Good(s)}
<1>1. ASSUME T # {} PROVE FALSE
  <2>0. \A r \in T : r \subseteq S
    OBVIOUS
  <2> HIDE DEF T
  <2>1. PICK s \in T : \A r \in T : r \subseteq s => r = s
    BY <1>1, <2>0, SmallestSubset
  <2> USE DEF T
  <2>2. PICK x : x \in s
    OBVIOUS
  <2>3. s \subseteq Int /\ x \in Int
    BY <2>2
  <2>4. CASE s = {x}
    BY <2>3, <2>4
  <2>5. CASE s # {x}
    <3>1. s \ {x} # {} /\ s \ {x} \in SUBSET S /\ s \ {x} # s
      BY <2>2, <2>5
    <3>2. Good(s \ {x})
      BY <2>1, <3>1
    <3>3. PICK a \in s \ {x} : \A y \in s \ {x} : a <= y
      BY <3>2
    <3>4. PICK b \in s \ {x} : \A y \in s \ {x} : b >= y
      BY <3>2
    <3>5. \E z \in s : \A y \in s : z <= y
      <4>1. CASE a <= x
        BY <2>2, <2>3, <3>3, <4>1
      <4>2. CASE ~(a <= x)
        BY <2>2, <2>3, <3>3, <4>2
      <4> QED
        BY <4>1, <4>2
    <3>6. \E z \in s : \A y \in s : z >= y
      <4>1. CASE b >= x
        BY <2>2, <2>3, <3>4, <4>1
      <4>2. CASE ~(b >= x)
        BY <2>2, <2>3, <3>4, <4>2
      <4> QED
        BY <4>1, <4>2
    <3> QED
      BY <2>1, <3>5, <3>6
  <2> QED
    BY <2>4, <2>5
<1>2. S \notin T
  BY <1>1
<1> QED
  BY <1>2

(* So has a finite set of natural numbers. *)
LEMMA FirstAndLast ==
  ASSUME NEW S \in SUBSET Nat, IsFiniteSet(S), S # {}
  PROVE  /\ \E x \in S : \A y \in S : x <= y
         /\ \E x \in S : \A y \in S : x >= y
  BY IntFirstAndLast

(* What Max chooses. *)
LEMMA MaxMember ==
  ASSUME NEW S \in SUBSET Nat, IsFiniteSet(S), S # {}
  PROVE  Max(S) \in S
<1>1. \E x \in S : \A y \in S : x >= y
  BY FirstAndLast
<1> QED
  BY <1>1 DEF Max

-----------------------------------------------------------------------------
(* What a fold over the tool calls of a chunk does to the indices. *)

FoldsUp(g, A, a, q) ==
  g = [s \in SUBSET A |-> IF s = {} THEN a ELSE AddToolCall(g[s \ {Max(s)}], q[Max(s)])]

(* Two functions that fold agree wherever both are defined. *)
LEMMA FoldsAgree ==
  ASSUME NEW A \in SUBSET Nat, IsFiniteSet(A), NEW B \in SUBSET A,
         NEW a, NEW q, NEW g, NEW h, FoldsUp(g, A, a, q), FoldsUp(h, B, a, q),
         NEW s \in SUBSET B
  PROVE  g[s] = h[s]
<1> DEFINE T == {r \in SUBSET B : g[r] # h[r]}
<1>0. IsFiniteSet(B)
  BY FS_Subset
<1>1. ASSUME T # {} PROVE FALSE
  <2>0. \A r \in T : r \subseteq B
    OBVIOUS
  <2> HIDE DEF T
  <2>1. PICK r \in T : \A p \in T : p \subseteq r => p = r
    BY <1>0, <1>1, <2>0, SmallestSubset
  <2> USE DEF T
  <2>2. g[r] = IF r = {} THEN a ELSE AddToolCall(g[r \ {Max(r)}], q[Max(r)])
    BY DEF FoldsUp
  <2>3. h[r] = IF r = {} THEN a ELSE AddToolCall(h[r \ {Max(r)}], q[Max(r)])
    BY DEF FoldsUp
  <2>4. r # {}
    BY <2>2, <2>3
  <2>5. Max(r) \in r
    BY <1>0, <2>4, FS_Subset, MaxMember
  <2>6. g[r \ {Max(r)}] = h[r \ {Max(r)}]
    BY <2>1, <2>5
  <2> QED
    BY <2>2, <2>3, <2>4, <2>6
<1> QED
  BY <1>1

(* There is one on every finite set of positions. *)
LEMMA FoldsExist ==
  ASSUME NEW A \in SUBSET Nat, IsFiniteSet(A), NEW a, NEW q
  PROVE  \E g : FoldsUp(g, A, a, q)
<1> DEFINE T == {B \in SUBSET A : ~\E g : FoldsUp(g, B, a, q)}
<1>1. ASSUME T # {} PROVE FALSE
  <2>0. \A r \in T : r \subseteq A
    OBVIOUS
  <2> HIDE DEF T
  <2>1. PICK B \in T : \A C \in T : C \subseteq B => C = B
    BY <1>1, <2>0, SmallestSubset
  <2> USE DEF T
  <2> DEFINE G(s) == CHOOSE g : FoldsUp(g, s, a, q)
             h == [s \in SUBSET B |->
                     IF s = {} THEN a
                     ELSE AddToolCall(G(s \ {Max(s)})[s \ {Max(s)}], q[Max(s)])]
  <2>2. B \in SUBSET Nat /\ IsFiniteSet(B)
    BY FS_Subset
  <2>3. ASSUME NEW s \in SUBSET B, s # {} PROVE Max(s) \in s
    BY <2>2, <2>3, FS_Subset, MaxMember
  <2>4. ASSUME NEW s \in SUBSET B, s # B PROVE FoldsUp(G(s), s, a, q)
    <3>1. s \notin T
      BY <2>1, <2>4
    <3>2. \E g : FoldsUp(g, s, a, q)
      BY <3>1
    <3> QED
      BY <3>2
  <2>5. ASSUME NEW s \in SUBSET B, s # B PROVE h[s] = G(s)[s]
    <3>1. FoldsUp(G(s), s, a, q)
      BY <2>4, <2>5
    <3>2. G(s)[s] = IF s = {} THEN a ELSE AddToolCall(G(s)[s \ {Max(s)}], q[Max(s)])
      <4> HIDE DEF G
      <4> QED
        BY <3>1 DEF FoldsUp
    <3>3. CASE s = {}
      BY <3>2, <3>3
    <3>4. CASE s # {}
      <4> DEFINE r == s \ {Max(s)}
      <4>1. Max(s) \in s
        BY <2>3, <3>4
      <4>2. r \in SUBSET B /\ r # B /\ r \in SUBSET s
        BY <4>1
      <4>3. FoldsUp(G(r), r, a, q)
        BY <2>4, <4>2
      <4>4. s \in SUBSET Nat /\ IsFiniteSet(s) /\ r \in SUBSET r
        BY <2>2, FS_Subset
      <4>5. G(s)[r] = G(r)[r]
        <5> DEFINE gs == G(s)
                   gr == G(r)
        <5>1. FoldsUp(gs, s, a, q) /\ FoldsUp(gr, r, a, q)
          BY <3>1, <4>3
        <5> HIDE DEF gs, gr, r
        <5>2. gs[r] = gr[r]
          BY <4>2, <4>4, <5>1, FoldsAgree
        <5> QED
          BY <5>2 DEF gs, gr
      <4>6. h[s] = AddToolCall(G(r)[r], q[Max(s)])
        BY <3>4
      <4> QED
        BY <3>2, <3>4, <4>5, <4>6
    <3> QED
      BY <3>3, <3>4
  <2>6. ASSUME NEW s \in SUBSET B
        PROVE  h[s] = IF s = {} THEN a ELSE AddToolCall(h[s \ {Max(s)}], q[Max(s)])
    <3>1. CASE s = {}
      BY <3>1
    <3>2. CASE s # {}
      <4>1. Max(s) \in s
        BY <2>3, <3>2
      <4>2. s \ {Max(s)} \in SUBSET B /\ s \ {Max(s)} # B
        BY <4>1
      <4>3. h[s \ {Max(s)}] = G(s \ {Max(s)})[s \ {Max(s)}]
        <5> HIDE DEF h, G
        <5> QED
          BY <2>5, <4>2
      <4>4. h[s] = AddToolCall(G(s \ {Max(s)})[s \ {Max(s)}], q[Max(s)])
        BY <3>2
      <4> HIDE DEF h, G
      <4> QED
        BY <3>2, <4>3, <4>4
    <3> QED
      BY <3>1, <3>2
  <2>7. h = [s \in SUBSET B |-> h[s]]
    OBVIOUS
  <2> HIDE DEF h
  <2>8. FoldsUp(h, B, a, q)
    BY <2>6, <2>7 DEF FoldsUp
  <2> QED
    BY <2>8
<1>2. A \notin T
  BY <1>1
<1> QED
  BY <1>2

(* Folding adds an index at a time. *)
LEMMA FoldKeepsFinite ==
  ASSUME NEW A \in SUBSET Nat, IsFiniteSet(A), NEW a, IsFiniteSet(DOMAIN a), NEW q,
         NEW g, FoldsUp(g, A, a, q)
  PROVE  IsFiniteSet(DOMAIN g[A])
<1> DEFINE T == {s \in SUBSET A : ~IsFiniteSet(DOMAIN g[s])}
<1>1. ASSUME T # {} PROVE FALSE
  <2>0. \A r \in T : r \subseteq A
    OBVIOUS
  <2> HIDE DEF T
  <2>1. PICK s \in T : \A r \in T : r \subseteq s => r = s
    BY <1>1, <2>0, SmallestSubset
  <2> USE DEF T
  <2>2. g[s] = IF s = {} THEN a ELSE AddToolCall(g[s \ {Max(s)}], q[Max(s)])
    BY DEF FoldsUp
  <2>3. s # {}
    BY <2>2
  <2>4. Max(s) \in s
    BY <2>3, FS_Subset, MaxMember
  <2>5. IsFiniteSet(DOMAIN g[s \ {Max(s)}])
    BY <2>1, <2>4
  <2>6. DOMAIN g[s] = DOMAIN g[s \ {Max(s)}] \cup {q[Max(s)].index}
    BY <2>2, <2>3 DEF AddToolCall
  <2>7. IsFiniteSet(DOMAIN g[s \ {Max(s)}] \cup {q[Max(s)].index})
    BY <2>5, FS_AddElement
  <2> QED
    BY <2>1, <2>6, <2>7
<1> QED
  BY <1>1

(* The accumulators of a chunk stay finitely many. *)
LEMMA AddToolCallsFinite ==
  ASSUME NEW accs, IsFiniteSet(DOMAIN accs), NEW S, NEW tcs \in Seq(S)
  PROVE  IsFiniteSet(DOMAIN AddToolCalls(accs, tcs))
<1> DEFINE D == DOMAIN tcs
           Step(g) == [s \in SUBSET D |->
                         IF s = {} THEN accs ELSE AddToolCall(g[s \ {Max(s)}], tcs[Max(s)])]
           iter == CHOOSE g : g = Step(g)
<1>1. D \in SUBSET Nat /\ IsFiniteSet(D)
  <2>1. D = 1..Len(tcs) /\ Len(tcs) \in Nat
    OBVIOUS
  <2> QED
    BY <2>1, FS_Interval
<1>2. \E g : FoldsUp(g, D, accs, tcs)
  <2> HIDE DEF D
  <2> QED
    BY <1>1, FoldsExist
<1>3. \E g : g = Step(g)
  BY <1>2 DEF FoldsUp
<1>4. FoldsUp(iter, D, accs, tcs)
  BY <1>3 DEF FoldsUp
<1>5. AddToolCalls(accs, tcs) = iter[D]
  BY DEF AddToolCalls, FoldLeft, MapThenFoldSet
<1> HIDE DEF D, iter
<1> QED
  BY <1>1, <1>4, <1>5, FoldKeepsFinite

-----------------------------------------------------------------------------
(* The inductive invariant. *)

(* The bytes the reader holds are tokens of the feed. *)
BytesInv ==
  /\ feed \in DOMAIN Feeds
  /\ buf \in Seq(Tokens(feed))
  /\ frame \in Seq(Tokens(feed))

(* A translator's state: text, and finitely many accumulators. *)
Accumulates(connector, st) ==
  /\ "text" \in DOMAIN st
  /\ st.text \in Seq(STRING)
  /\ IF connector = "chat" THEN "tool_calls" \in DOMAIN st /\ IsFiniteSet(DOMAIN st.tool_calls)
     ELSE "blocks" \in DOMAIN st /\ IsFiniteSet(DOMAIN st.blocks)

TranslatorInv ==
  /\ DOMAIN translator = {"connector", "state"}
  /\ translator.connector = Feeds[feed].connector
  /\ translator.connector \in {"chat", "anthropic"}
  /\ Accumulates(translator.connector, translator.state)

IsSeq(s) == \E S : s \in Seq(S)

(* Calls, then a message if there is text, then Completed. *)
Ending(events, text) ==
  /\ Len(events) > 0
  /\ \A i \in 1..Len(events) : events[i].kind \in {"call", "message", "completed"}
  /\ \A i \in 1..Len(events) : events[i].kind = "completed" <=> i = Len(events)
  /\ \A i \in 1..Len(events) :
       events[i].kind = "message" => i = Len(events) - 1 /\ events[i].text = text

Ends(events, text) ==
  /\ IsSeq(events)
  /\ Ending(events, text)
  /\ text # <<>> => \E i \in 1..Len(events) : events[i].kind = "message"

LastKind == IF sent = <<>> THEN "delta" ELSE sent[Len(sent)].kind

(* The reader is sending a delta, ... *)
Talking ==
  /\ after = "lines" /\ LastKind = "delta"
  /\ Len(outbox) = 1 /\ outbox[1].kind = "delta"
  /\ outbox[1].text \in Seq(STRING) /\ translator.state.text = streamed \o outbox[1].text

(* ... an error, ... *)
Failing ==
  /\ after = "ended" /\ LastKind = "delta"
  /\ Len(outbox) = 1 /\ outbox[1].kind = "error"

(* ... or what is left of the end of the stream. *)
Finishing ==
  /\ after = "ended"
  /\ Ending(outbox, streamed)
  /\ streamed # <<>> => LastKind = "message" \/ \E i \in 1..Len(outbox) : outbox[i].kind = "message"
  /\ LastKind \in {"delta", "call"} \/ (LastKind = "message" /\ Len(outbox) = 1)

(* While it reads, what was streamed is what the translator has             *)
(* accumulated; it ends after a terminal event, or because nobody listens.  *)
ReaderInv ==
  /\ pc \in {"connect", "refused", "read", "lines", "send", "ended"}
  /\ streamed \in Seq(STRING) /\ IsSeq(sent) /\ IsSeq(outbox)
  /\ pc = "connect" => sent = <<>>
  /\ pc \in {"connect", "read", "lines"} =>
       LastKind = "delta" /\ translator.state.text = streamed /\ outbox = <<>>
  /\ pc = "send" => Talking \/ Failing \/ Finishing
  /\ pc = "ended" => LastKind \in {"completed", "error"} \/ ~listening

IInv == BytesInv /\ TranslatorInv /\ ReaderInv

-----------------------------------------------------------------------------
(* The translators. *)

(* Calls, perhaps a message, and Completed: what both finish() make.        *)
LEMMA EndingShape ==
  ASSUME NEW n \in Nat, NEW calls, NEW text, NEW done, NEW S,
         DOMAIN calls = 1..n, calls \in Seq(S), \A k \in 1..n : calls[k].kind = "call",
         done.kind = "completed"
  PROVE  Ends(calls \o (IF text = <<>> THEN <<>> ELSE <<MessageDone(text)>>) \o <<done>>, text)
<1> DEFINE m == MessageDone(text)
<1>0. Len(calls) = n
  OBVIOUS
<1>1. m.kind = "message" /\ m.text = text
  BY DEF MessageDone
<1> HIDE DEF m
<1>2. CASE text = <<>>
  <2> DEFINE events == calls \o <<>> \o <<done>>
             U == S \cup {done}
  <2>1. calls \o <<>> = calls
    OBVIOUS
  <2>2. /\ events \in Seq(U) /\ Len(events) = n + 1
        /\ \A i \in 1..n : events[i] = calls[i]
        /\ events[n + 1] = done
    BY <1>0, <2>1
  <2> HIDE DEF events
  <2>3. IsSeq(events)
    BY <2>2 DEF IsSeq
  <2>4. Ending(events, text)
    BY <2>2 DEF Ending
  <2> QED
    BY <1>2, <2>3, <2>4 DEF events, Ends
<1>3. CASE text # <<>>
  <2> DEFINE events == calls \o <<m>> \o <<done>>
             U == S \cup {m, done}
  <2>1. /\ calls \o <<m>> \in Seq(U) /\ Len(calls \o <<m>>) = n + 1
        /\ \A i \in 1..n : (calls \o <<m>>)[i] = calls[i]
        /\ (calls \o <<m>>)[n + 1] = m
    BY <1>0
  <2>2. /\ events \in Seq(U) /\ Len(events) = n + 2
        /\ \A i \in 1..(n + 1) : events[i] = (calls \o <<m>>)[i]
        /\ events[n + 2] = done
    BY <2>1
  <2>3. /\ \A i \in 1..n : events[i] = calls[i]
        /\ events[n + 1] = m
    BY <2>1, <2>2
  <2> HIDE DEF events
  <2>4. IsSeq(events)
    BY <2>2 DEF IsSeq
  <2>5. Ending(events, text)
    BY <1>1, <2>2, <2>3 DEF Ending
  <2>6. \E i \in 1..Len(events) : events[i].kind = "message"
    BY <1>1, <2>2, <2>3
  <2> QED
    BY <1>3, <2>4, <2>5, <2>6 DEF events, m, Ends
<1> QED
  BY <1>2, <1>3

(* finish() of the connector's translator. *)
LEMMA FinishShape ==
  ASSUME TranslatorInv
  PROVE  Ends(Finish(translator), translator.state.text)
<1> DEFINE st == translator.state
           text == st.text
<1>1. CASE translator.connector = "chat"
  <2> DEFINE calls == ChatCalls(st.tool_calls)
             n == Cardinality(DOMAIN st.tool_calls)
             done == Completed(IF st.response_id = NoId
                               THEN SynthId("resp", Cardinality({i \in DOMAIN st.tool_calls :
                                                     st.tool_calls[i].call_id = NoId}) + 1)
                               ELSE st.response_id,
                               {ChatUsage(u) : u \in st.usage},
                               ChatEndTurn(st.finish_reason))
  <2>1. n \in Nat
    BY <1>1, FS_CardinalityType DEF TranslatorInv, Accumulates
  <2>2. /\ DOMAIN calls = 1..n
        /\ \A k \in 1..n : calls[k].kind = "call"
    BY DEF ChatCalls, FunctionCallDone
  <2>3. calls = [k \in 1..n |-> calls[k]]
    BY DEF ChatCalls
  <2>4. done.kind = "completed"
    BY DEF Completed
  <2>5. Finish(translator) = calls \o (IF text = <<>> THEN <<>> ELSE <<MessageDone(text)>>) \o <<done>>
    BY <1>1 DEF Finish, ChatFinish
  <2> HIDE DEF calls, n, done, text
  <2>6. calls \in Seq({calls[k] : k \in 1..n})
    BY <2>1, <2>3
  <2> QED
    BY <2>1, <2>2, <2>4, <2>5, <2>6, EndingShape DEF text
<1>2. CASE translator.connector = "anthropic"
  <2> DEFINE tools == ToolBlocks(st.blocks)
             calls == AnthropicCalls(st.blocks)
             n == Cardinality(tools)
             done == Completed(IF st.response_id = NoId
                               THEN SynthId("resp", Cardinality({i \in tools :
                                                     st.blocks[i].call_id = NoId}) + 1)
                               ELSE st.response_id,
                               {[input  |-> st.input_tokens, cached |-> st.cached_input_tokens,
                                 output |-> st.output_tokens,
                                 total  |-> st.cached_input_tokens + st.cache_creation_input_tokens
                                              + st.input_tokens + st.output_tokens]},
                               AnthropicEndTurn(st.stop_reason))
  <2>1. n \in Nat
    <3>1. IsFiniteSet(DOMAIN st.blocks)
      BY <1>2 DEF TranslatorInv, Accumulates
    <3>2. tools \subseteq DOMAIN st.blocks
      BY DEF ToolBlocks
    <3> QED
      BY <3>1, <3>2, FS_Subset, FS_CardinalityType
  <2>2. /\ DOMAIN calls = 1..n
        /\ \A k \in 1..n : calls[k].kind = "call"
    BY DEF AnthropicCalls, FunctionCallDone
  <2>3. calls = [k \in 1..n |-> calls[k]]
    BY DEF AnthropicCalls
  <2>4. done.kind = "completed"
    BY DEF Completed
  <2>5. Finish(translator) = calls \o (IF text = <<>> THEN <<>> ELSE <<MessageDone(text)>>) \o <<done>>
    BY <1>2 DEF Finish, AnthropicFinish
  <2> HIDE DEF calls, n, done, text
  <2>6. calls \in Seq({calls[k] : k \in 1..n})
    BY <2>1, <2>3
  <2> QED
    BY <2>1, <2>2, <2>4, <2>5, <2>6, EndingShape DEF text
<1> QED
  BY <1>1, <1>2 DEF TranslatorInv

(* What a payload adds to the text it sends as a delta. *)
Adds(st, r) ==
  \/ r.events = <<>> /\ r.state.text = st.text
  \/ \E t \in Seq(STRING) : r.events = <<OutputTextDelta(t)>> /\ r.state.text = st.text \o t

(* push_chunk of the Chat translator keeps the accumulator well formed, and its
   events add exactly the text it accumulates. *)
LEMMA ChatPush ==
  ASSUME NEW st, Accumulates("chat", st), NEW d, Payload("chat", d),
         PushChunk(st, d).ok
  PROVE  /\ Accumulates("chat", PushChunk(st, d).state)
         /\ Adds(st, PushChunk(st, d))
<1> DEFINE r == PushChunk(st, d)
           head == [st EXCEPT !.response_id = IF @ = NoId THEN d.id ELSE @,
                              !.usage = IF d.usage = {} THEN @ ELSE d.usage]
           body == [head EXCEPT
                      !.finish_reason = IF d.finish_reason = "" THEN @ ELSE d.finish_reason,
                      !.text = @ \o d.content,
                      !.tool_calls = AddToolCalls(@, d.tool_calls)]
<1>1. /\ "text" \in DOMAIN st /\ st.text \in Seq(STRING)
      /\ "tool_calls" \in DOMAIN st /\ IsFiniteSet(DOMAIN st.tool_calls)
  BY DEF Accumulates
<1>2. d.content \in Seq(STRING) /\ d.tool_calls \in Seq(Range(d.tool_calls))
  BY DEF Payload
<1>3. /\ DOMAIN head = DOMAIN st /\ head.text = st.text /\ head.tool_calls = st.tool_calls
  BY <1>1
<1>4. /\ DOMAIN body = DOMAIN st /\ body.text = st.text \o d.content
      /\ body.tool_calls = AddToolCalls(st.tool_calls, d.tool_calls)
  BY <1>1, <1>3
<1>5. IsFiniteSet(DOMAIN AddToolCalls(st.tool_calls, d.tool_calls))
  BY <1>1, <1>2, AddToolCallsFinite
<1>6. \/ r.state = head /\ r.events = <<>>
      \/ /\ r.state = body
         /\ r.events = IF d.content = <<>> THEN <<>> ELSE <<OutputTextDelta(d.content)>>
  BY DEF PushChunk
<1> HIDE DEF r, head, body
<1>7. Accumulates("chat", r.state)
  <2>1. CASE r.state = head
    BY <1>1, <1>3, <2>1 DEF Accumulates
  <2>2. CASE r.state = body
    <3>1. st.text \o d.content \in Seq(STRING)
      BY <1>1, <1>2
    <3> QED
      BY <1>1, <1>4, <1>5, <2>2, <3>1 DEF Accumulates
  <2> QED
    BY <1>6, <2>1, <2>2
<1>8. Adds(st, r)
  <2>1. CASE r.state = head /\ r.events = <<>>
    BY <1>3, <2>1 DEF Adds
  <2>2. CASE r.state = body /\ d.content = <<>> /\ r.events = <<>>
    <3>1. st.text \o <<>> = st.text
      BY <1>1
    <3> QED
      BY <1>4, <2>2, <3>1 DEF Adds
  <2>3. CASE r.state = body /\ r.events = <<OutputTextDelta(d.content)>>
    BY <1>2, <1>4, <2>3 DEF Adds
  <2> QED
    BY <1>6, <2>1, <2>2, <2>3
<1> QED
  BY <1>7, <1>8 DEF r

(* push_event of the Anthropic translator does the same. *)
LEMMA AnthropicPush ==
  ASSUME NEW st, Accumulates("anthropic", st), NEW e, Payload("anthropic", e)
  PROVE  /\ Accumulates("anthropic", PushEvent(st, e).state)
         /\ Adds(st, PushEvent(st, e))
<1> DEFINE r == PushEvent(st, e)
<1>1. /\ "text" \in DOMAIN st /\ st.text \in Seq(STRING)
      /\ "blocks" \in DOMAIN st /\ IsFiniteSet(DOMAIN st.blocks)
  BY DEF Accumulates
<1>2. ASSUME NEW i, NEW acc
      PROVE  LET next == WithBlock(st, i, acc)
             IN  DOMAIN next = DOMAIN st /\ next.text = st.text /\ IsFiniteSet(DOMAIN next.blocks)
  <2> DEFINE next == WithBlock(st, i, acc)
  <2>1. DOMAIN next = DOMAIN st /\ next.text = st.text /\ DOMAIN next.blocks = DOMAIN st.blocks \cup {i}
    BY <1>1 DEF WithBlock
  <2> QED
    BY <1>1, <2>1, FS_AddElement
<1>3. CASE e.type = "text_delta"
  <2>1. r.state = [st EXCEPT !.text = @ \o e.text] /\ r.events = <<OutputTextDelta(e.text)>>
    BY <1>3 DEF PushEvent
  <2>2. e.text \in Seq(STRING)
    BY <1>3 DEF Payload
  <2>3. /\ DOMAIN r.state = DOMAIN st /\ r.state.text = st.text \o e.text
        /\ r.state.blocks = st.blocks
    BY <1>1, <2>1
  <2> HIDE DEF r
  <2>4. Accumulates("anthropic", r.state) /\ Adds(st, r)
    <3>1. st.text \o e.text \in Seq(STRING)
      BY <1>1, <2>2
    <3>2. Accumulates("anthropic", r.state)
      BY <1>1, <2>3, <3>1 DEF Accumulates
    <3>3. Adds(st, r)
      BY <2>1, <2>2, <2>3 DEF Adds
    <3> QED
      BY <3>2, <3>3
  <2> QED
    BY <2>4 DEF r
<1>4. CASE e.type # "text_delta"
  <2>1. r.events = <<>>
    BY <1>4 DEF PushEvent
  <2>2. /\ DOMAIN r.state = DOMAIN st /\ r.state.text = st.text
        /\ IsFiniteSet(DOMAIN r.state.blocks)
    <3>1. CASE e.type = "message_start"
      <4>1. r.state = MessageStart(st, e)
        BY <3>1 DEF PushEvent
      <4>2. DOMAIN MessageStart(st, e) = DOMAIN st /\ MessageStart(st, e).text = st.text
            /\ MessageStart(st, e).blocks = st.blocks
        BY <1>1 DEF MessageStart
      <4> QED
        BY <1>1, <4>1, <4>2
    <3>2. CASE e.type = "content_block_start"
      <4>1. r.state = BlockStart(st, e)
        BY <3>2 DEF PushEvent
      <4>2. \E acc : BlockStart(st, e) = WithBlock(st, e.index, acc)
        BY DEF BlockStart
      <4> QED
        BY <1>2, <4>1, <4>2
    <3>3. CASE e.type = "input_json_delta"
      <4>1. r.state = InputJsonDelta(st, e)
        BY <3>3 DEF PushEvent
      <4>2. \E acc : InputJsonDelta(st, e) = WithBlock(st, e.index, acc)
        BY DEF InputJsonDelta
      <4> QED
        BY <1>2, <4>1, <4>2
    <3>4. CASE e.type = "message_delta"
      <4>1. r.state = MessageDelta(st, e)
        BY <3>4 DEF PushEvent
      <4>2. DOMAIN MessageDelta(st, e) = DOMAIN st /\ MessageDelta(st, e).text = st.text
            /\ MessageDelta(st, e).blocks = st.blocks
        BY <1>1 DEF MessageDelta
      <4> QED
        BY <1>1, <4>1, <4>2
    <3>5. CASE e.type \notin {"message_start", "content_block_start", "input_json_delta", "message_delta"}
      <4>1. r.state = st
        BY <1>4, <3>5 DEF PushEvent
      <4> QED
        BY <1>1, <4>1
    <3> QED
      BY <3>1, <3>2, <3>3, <3>4, <3>5
  <2> HIDE DEF r
  <2>3. Accumulates("anthropic", r.state) /\ Adds(st, r)
    BY <1>1, <2>1, <2>2 DEF Accumulates, Adds
  <2> QED
    BY <2>3 DEF r
<1> QED
  BY <1>3, <1>4

(* The connector's translator takes the payloads of its feed. *)
LEMMA PushAccumulates ==
  ASSUME TranslatorInv, NEW d, Payload(translator.connector, d), Push(translator, d).ok
  PROVE  /\ Accumulates(translator.connector, Push(translator, d).state)
         /\ Adds(translator.state, Push(translator, d))
<1>1. CASE translator.connector = "chat"
  BY <1>1, ChatPush DEF TranslatorInv, Push
<1>2. CASE translator.connector = "anthropic"
  BY <1>2, AnthropicPush DEF TranslatorInv, Push
<1> QED
  BY <1>1, <1>2 DEF TranslatorInv

-----------------------------------------------------------------------------
(* Frames and lines. *)

(* The first boundary of a buffer that has one. *)
LEMMA FrameEndBounds ==
  ASSUME NEW T, NEW b \in Seq(T), HasFrame(b)
  PROVE  FrameEnd(b) \in 1..(Len(b) - 1)
<1>1. Boundaries(b) \subseteq 1..(Len(b) - 1) /\ Boundaries(b) # {}
  BY DEF HasFrame, Boundaries
<1>2. IsFiniteSet(1..(Len(b) - 1))
  BY FS_Interval
<1>3. IsFiniteSet(Boundaries(b)) /\ Boundaries(b) \in SUBSET Nat
  BY <1>1, <1>2, FS_Subset
<1>4. \E i \in Boundaries(b) : \A j \in Boundaries(b) : i <= j
  BY <1>1, <1>3, FirstAndLast
<1>5. FrameEnd(b) \in Boundaries(b)
  BY <1>4 DEF FrameEnd
<1> QED
  BY <1>1, <1>5

(* A piece of a sequence of tokens is one. *)
LEMMA PieceOf ==
  ASSUME NEW T, NEW b \in Seq(T), NEW m \in Nat \ {0}, NEW n \in Int, n <= Len(b)
  PROVE  SubSeq(b, m, n) \in Seq(T)
<1>1. \A i \in m..n : b[i] \in T
  <2> TAKE i \in m..n
  <2>1. i \in 1..Len(b)
    OBVIOUS
  <2> QED
    BY <2>1
<1> QED
  BY <1>1, SubSeqProperties

(* The lines of a frame are made of its tokens. *)
LEMMA LineTokens ==
  ASSUME NEW T, NEW f \in Seq(T)
  PROVE  FirstLine(f) \in Seq(T) /\ OtherLines(f) \in Seq(T)
<1>1. LineEnd(f) \in 1..(Len(f) + 1)
  <2>1. CASE Newlines(f) = {}
    BY <2>1 DEF LineEnd
  <2>2. CASE Newlines(f) # {}
    <3>1. Newlines(f) \subseteq 1..Len(f)
      BY DEF Newlines
    <3>2. IsFiniteSet(1..Len(f))
      BY FS_Interval
    <3>3. IsFiniteSet(Newlines(f)) /\ Newlines(f) \in SUBSET Nat
      BY <3>1, <3>2, FS_Subset
    <3>4. \E i \in Newlines(f) : \A j \in Newlines(f) : i <= j
      BY <2>2, <3>3, FirstAndLast
    <3>5. LineEnd(f) \in Newlines(f)
      BY <2>2, <3>4 DEF LineEnd
    <3> QED
      BY <3>1, <3>5
  <2> QED
    BY <2>1, <2>2
<1>2. /\ LineEnd(f) - 1 \in Int /\ LineEnd(f) - 1 <= Len(f)
      /\ LineEnd(f) + 1 \in Nat \ {0}
  BY <1>1
<1> QED
  BY <1>2, PieceOf DEF FirstLine, OtherLines

(* A line that is read as JSON is one token, with a payload of the feed.    *)
LEMMA JsonLine ==
  ASSUME BytesInv, NEW line \in Seq(Tokens(feed)), LineMeaning(line) = "json"
  PROVE  Payload(Feeds[feed].connector, line[1].data)
<1>1. line # <<>>
  BY DEF LineMeaning
<1>2. line[1] \in Tokens(feed)
  BY <1>1
<1>3. line[1].piece = "json"
  BY <1>1 DEF LineMeaning
<1> QED
  BY <1>2, <1>3, FeedsAssumption DEF FeedsAssumption, BytesInv

-----------------------------------------------------------------------------
(* The events a reader puts into its outbox. *)

(* An error ends the stream after deltas only. *)
LEMMA FailStep ==
  ASSUME ReaderInv, pc \in {"read", "lines"}, NEW why, Fail(why),
         UNCHANGED <<sent, streamed, listening>>
  PROVE  ReaderInv' /\ pc' = "send"
<1>1. outbox' = <<ErrorEvent(why)>> /\ after' = "ended" /\ pc' = "send"
  BY DEF Fail, SendAll
<1>2. ErrorEvent(why).kind = "error"
  BY DEF ErrorEvent
<1>3. LastKind' = "delta"
  BY DEF ReaderInv, LastKind
<1>4. Failing'
  BY <1>1, <1>2, <1>3 DEF Failing
<1>5. IsSeq(outbox') /\ IsSeq(sent') /\ streamed' \in Seq(STRING)
  <2>1. outbox' \in Seq({ErrorEvent(why)})
    BY <1>1
  <2> QED
    BY <2>1 DEF IsSeq, ReaderInv
<1> QED
  BY <1>1, <1>4, <1>5 DEF ReaderInv, IsSeq

(* finish() ends it with calls, the message and Completed. *)
LEMMA FinishStep ==
  ASSUME ReaderInv, TranslatorInv, pc \in {"read", "lines"}, SendAll(Finish(translator), "ended"),
         UNCHANGED <<translator, sent, streamed, listening>>
  PROVE  ReaderInv' /\ pc' = "send"
<1> DEFINE events == Finish(translator)
<1>1. Ends(events, translator.state.text)
  BY FinishShape
<1>2. translator.state.text = streamed /\ LastKind = "delta"
  BY DEF ReaderInv
<1> HIDE DEF events
<1>3. IsSeq(events) /\ Ending(events, streamed)
      /\ (streamed # <<>> => \E i \in 1..Len(events) : events[i].kind = "message")
  BY <1>1, <1>2 DEF Ends
<1>4. events # <<>>
  BY <1>3 DEF Ending
<1>5. outbox' = events /\ after' = "ended" /\ pc' = "send"
  BY <1>4 DEF SendAll, events
<1>6. LastKind' = "delta"
  BY <1>2 DEF LastKind
<1>7. Finishing'
  BY <1>3, <1>5, <1>6 DEF Finishing, Ending
<1>8. IsSeq(outbox') /\ IsSeq(sent') /\ streamed' \in Seq(STRING)
  BY <1>3, <1>5 DEF IsSeq, ReaderInv
<1> QED
  BY <1>5, <1>7, <1>8 DEF ReaderInv, IsSeq

(* A payload is accumulated and its delta sent. *)
LEMMA PushStep ==
  ASSUME ReaderInv, pc = "lines", NEW r, Adds(translator.state, r),
         SendAll(r.events, "lines"), translator'.state = r.state,
         UNCHANGED <<sent, streamed, listening>>
  PROVE  ReaderInv' /\ pc' \in {"send", "lines"}
<1>0. translator.state.text = streamed /\ LastKind = "delta" /\ LastKind' = "delta"
      /\ streamed \in Seq(STRING)
  BY DEF ReaderInv, LastKind
<1>1. CASE r.events = <<>> /\ r.state.text = translator.state.text
  <2>1. outbox' = <<>> /\ pc' = "lines"
    BY <1>1 DEF SendAll
  <2>2. outbox' \in Seq({})
    BY <2>1
  <2>3. translator'.state.text = streamed'
    BY <1>0, <1>1
  <2>4. IsSeq(outbox') /\ IsSeq(sent') /\ streamed' \in Seq(STRING)
    BY <1>0, <2>2 DEF IsSeq, ReaderInv
  <2> QED
    BY <1>0, <2>1, <2>3, <2>4 DEF ReaderInv, IsSeq
<1>2. CASE \E t \in Seq(STRING) : /\ r.events = <<OutputTextDelta(t)>>
                                  /\ r.state.text = translator.state.text \o t
  <2>1. PICK t \in Seq(STRING) : /\ r.events = <<OutputTextDelta(t)>>
                                 /\ r.state.text = translator.state.text \o t
    BY <1>2
  <2> DEFINE e == OutputTextDelta(t)
  <2>2. e.kind = "delta" /\ e.text = t
    BY DEF OutputTextDelta
  <2> HIDE DEF e
  <2>3. outbox' = <<e>> /\ after' = "lines" /\ pc' = "send"
    BY <2>1 DEF SendAll, e
  <2>4. translator'.state.text = streamed' \o t
    BY <1>0, <2>1
  <2>5. Talking'
    BY <1>0, <2>2, <2>3, <2>4 DEF Talking
  <2>6. outbox' \in Seq({e})
    BY <2>3
  <2>7. IsSeq(outbox') /\ IsSeq(sent') /\ streamed' \in Seq(STRING)
    BY <1>0, <2>6 DEF IsSeq, ReaderInv
  <2> QED
    BY <2>3, <2>5, <2>7 DEF ReaderInv, IsSeq
<1> QED
  BY <1>1, <1>2 DEF Adds

-----------------------------------------------------------------------------
(* Sending one event. *)

(* The kinds that may follow each other, and the phase of the contract.     *)
Follows(k) ==
  CASE k = "delta"   -> {"delta", "call", "message", "completed", "error"}
    [] k = "call"    -> {"call", "message", "completed"}
    [] k = "message" -> {"completed"}
    [] OTHER         -> {}

Phase ==
  CASE pc = "connect" -> "connecting"
    [] pc = "refused" -> "refused"
    [] pc = "ended"   -> "closed"
    [] OTHER          -> "streaming"

(* What the contract asks of an event e. *)
Permitted(e) ==
  /\ e.kind \in Follows(LastKind)
  /\ e.kind = "message" => e.text = streamed
  /\ e.kind = "completed" /\ LastKind # "message" => streamed = <<>>

(* Send: the event put on the channel is one the contract permits here, and the
   rest of the outbox stays an admissible continuation. *)
LEMMA SendStep ==
  ASSUME IInv, Send
  PROVE  /\ ReaderInv'
         /\ sent' = Append(sent, Head(outbox)) /\ Permitted(Head(outbox))
         /\ streamed' = IF Head(outbox).kind = "delta" THEN streamed \o Head(outbox).text ELSE streamed
         /\ pc' \in {"send", "lines", "ended"}
         /\ pc' = "ended" => Head(outbox).kind \in {"completed", "error"}
<1> DEFINE e == Head(outbox)
<1>1. PICK S : outbox \in Seq(S)
  BY DEF IInv, ReaderInv, IsSeq
<1>2. PICK R : sent \in Seq(R)
  BY DEF IInv, ReaderInv, IsSeq
<1>3. Talking \/ Failing \/ Finishing
  BY DEF IInv, ReaderInv, Send
<1>4. Len(outbox) > 0 /\ Len(outbox) \in Nat
  BY <1>1, <1>3 DEF Talking, Failing, Finishing, Ending
<1>5. /\ e = outbox[1]
      /\ Tail(outbox) \in Seq(S) /\ Len(Tail(outbox)) = Len(outbox) - 1
      /\ \A i \in 1..(Len(outbox) - 1) : Tail(outbox)[i] = outbox[i + 1]
  BY <1>1, <1>4
<1>6. /\ sent' = Append(sent, e) /\ outbox' = Tail(outbox)
      /\ streamed' = IF e.kind = "delta" THEN streamed \o e.text ELSE streamed
      /\ pc' = IF outbox' = <<>> THEN after ELSE pc
      /\ UNCHANGED <<after, translator, listening>> /\ pc = "send"
  BY DEF Send
<1>7. sent' \in Seq(R \cup {e}) /\ LastKind' = e.kind
  <2>1. sent' \in Seq(R \cup {e}) /\ sent' # <<>> /\ sent'[Len(sent')] = e
    BY <1>2, <1>6
  <2> QED
    BY <2>1 DEF LastKind
<1>8. IsSeq(sent') /\ IsSeq(outbox')
  BY <1>5, <1>6, <1>7 DEF IsSeq
<1>9. streamed \in Seq(STRING)
  BY DEF IInv, ReaderInv
<1> HIDE DEF e
<1>10. CASE Talking
  <2>1. /\ e.kind = "delta" /\ e.text \in Seq(STRING) /\ LastKind = "delta"
        /\ translator.state.text = streamed \o e.text /\ after = "lines" /\ Len(outbox) = 1
    BY <1>5, <1>10 DEF Talking
  <2>2. outbox' = <<>>
    <3>1. outbox' \in Seq(S) /\ Len(outbox') = 0
      BY <1>5, <1>6, <2>1
    <3> QED
      BY <3>1
  <2>3. pc' = "lines" /\ streamed' = streamed \o e.text /\ streamed' \in Seq(STRING)
    BY <1>6, <1>9, <2>1, <2>2
  <2>4. translator'.state.text = streamed'
    BY <1>6, <2>1, <2>3
  <2>5. ReaderInv'
    BY <1>7, <1>8, <2>1, <2>2, <2>3, <2>4 DEF ReaderInv, IsSeq
  <2>6. Permitted(e)
    BY <2>1 DEF Permitted, Follows
  <2> QED
    BY <1>6, <2>3, <2>5, <2>6 DEF e
<1>11. CASE Failing
  <2>1. e.kind = "error" /\ LastKind = "delta" /\ after = "ended" /\ Len(outbox) = 1
    BY <1>5, <1>11 DEF Failing
  <2>2. outbox' = <<>>
    <3>1. outbox' \in Seq(S) /\ Len(outbox') = 0
      BY <1>5, <1>6, <2>1
    <3> QED
      BY <3>1
  <2>3. pc' = "ended" /\ streamed' = streamed
    BY <1>6, <2>1, <2>2
  <2>4. ReaderInv'
    BY <1>7, <1>8, <1>9, <2>1, <2>3 DEF ReaderInv, IsSeq
  <2>5. Permitted(e)
    BY <2>1 DEF Permitted, Follows
  <2> QED
    BY <1>6, <2>1, <2>3, <2>4, <2>5 DEF e
<1>12. CASE Finishing
  <2>1. /\ after = "ended" /\ Ending(outbox, streamed)
        /\ (streamed # <<>> => LastKind = "message" \/ \E i \in 1..Len(outbox) : outbox[i].kind = "message")
        /\ (LastKind \in {"delta", "call"} \/ (LastKind = "message" /\ Len(outbox) = 1))
    BY <1>12 DEF Finishing
  <2>2. /\ e.kind \in {"call", "message", "completed"}
        /\ e.kind = "completed" <=> Len(outbox) = 1
        /\ e.kind = "message" => Len(outbox) = 2 /\ e.text = streamed
    <3>1. 1 \in 1..Len(outbox)
      BY <1>4
    <3>2. /\ outbox[1].kind \in {"call", "message", "completed"}
          /\ outbox[1].kind = "completed" <=> 1 = Len(outbox)
          /\ outbox[1].kind = "message" => 1 = Len(outbox) - 1 /\ outbox[1].text = streamed
      BY <2>1, <3>1 DEF Ending
    <3> QED
      BY <1>4, <1>5, <3>2
  <2>3. streamed' = streamed
    BY <1>6, <2>2
  <2>4. e.kind = "completed" /\ LastKind # "message" => streamed = <<>>
    BY <1>4, <2>1, <2>2 DEF Ending
  <2>5. Permitted(e)
    BY <2>1, <2>2, <2>4 DEF Permitted, Follows
  <2>6. CASE Len(outbox) = 1
    <3>1. pc' = "ended" /\ e.kind = "completed"
      BY <1>5, <1>6, <2>1, <2>2, <2>6
    <3>2. ReaderInv'
      BY <1>7, <1>8, <1>9, <2>3, <3>1 DEF ReaderInv, IsSeq
    <3> QED
      BY <1>6, <2>5, <3>1, <3>2 DEF e
  <2>7. CASE Len(outbox) # 1
    <3>1. Len(outbox') = Len(outbox) - 1 /\ Len(outbox') > 0 /\ Len(outbox') \in Nat
      BY <1>4, <1>5, <1>6, <2>7
    <3>2. pc' = "send" /\ after' = "ended" /\ e.kind \in {"call", "message"}
      BY <1>6, <2>1, <2>2, <2>7, <3>1
    <3>3. \A i \in 1..Len(outbox') : outbox'[i] = outbox[i + 1] /\ i + 1 \in 1..Len(outbox)
      BY <1>4, <1>5, <1>6, <3>1
    <3>4. Ending(outbox', streamed')
      BY SMTT(30), <1>4, <2>1, <2>3, <3>1, <3>3 DEF Ending
    <3>5. ASSUME streamed' # <<>>, e.kind # "message"
          PROVE  \E i \in 1..Len(outbox') : outbox'[i].kind = "message"
      <4>1. LastKind # "message"
        BY <2>1, <2>7
      <4>2. PICK i \in 1..Len(outbox) : outbox[i].kind = "message"
        BY <2>1, <2>3, <3>5, <4>1
      <4>3. i # 1
        BY <1>5, <3>5, <4>2
      <4>4. i - 1 \in 1..Len(outbox') /\ outbox'[i - 1] = outbox[i]
        BY <1>4, <3>1, <3>3, <4>2, <4>3
      <4> QED
        BY <4>2, <4>4
    <3>6. e.kind = "message" => Len(outbox') = 1
      BY <1>4, <2>2, <3>1
    <3>7. Finishing'
      BY <1>7, <3>2, <3>4, <3>5, <3>6 DEF Finishing, Ending
    <3>8. ReaderInv'
      BY <1>8, <1>9, <2>3, <3>2, <3>7 DEF ReaderInv, IsSeq
    <3> QED
      BY <1>6, <2>5, <3>2, <3>8 DEF e
  <2> QED
    BY <2>6, <2>7
<1> QED
  BY <1>3, <1>10, <1>11, <1>12

-----------------------------------------------------------------------------
(* The invariant. *)

(* run_egress starts with an empty buffer, outbox and accumulator. *)
LEMMA InitIInv == Init => IInv
<1> SUFFICES ASSUME Init PROVE IInv
  OBVIOUS
<1>1. BytesInv
  BY DEF Init, BytesInv
<1>2. TranslatorInv
  <2>1. Feeds[feed].connector \in {"chat", "anthropic"}
    BY FeedsAssumption DEF Init, FeedsAssumption
  <2>2. DOMAIN <<>> = {} /\ IsFiniteSet({})
    BY FS_EmptySet
  <2>3. <<>> \in Seq(STRING)
    OBVIOUS
  <2>4. CASE Feeds[feed].connector = "chat"
    <3>1. translator = [connector |-> "chat", state |-> ChatSseState]
      BY <2>4 DEF Init, Translator
    <3>2. Accumulates("chat", ChatSseState)
      BY <2>2, <2>3 DEF Accumulates, ChatSseState
    <3> QED
      BY <2>4, <3>1, <3>2 DEF TranslatorInv
  <2>5. CASE Feeds[feed].connector = "anthropic"
    <3>1. translator = [connector |-> "anthropic", state |-> AnthropicSseState]
      BY <2>5 DEF Init, Translator
    <3>2. Accumulates("anthropic", AnthropicSseState)
      BY <2>2, <2>3 DEF Accumulates, AnthropicSseState
    <3> QED
      BY <2>5, <3>1, <3>2 DEF TranslatorInv
  <2> QED
    BY <2>1, <2>4, <2>5
<1>3. ReaderInv
  <2>1. translator.state.text = <<>>
    BY DEF Init, Translator, ChatSseState, AnthropicSseState
  <2>2. <<>> \in Seq({})
    OBVIOUS
  <2>3. IsSeq(sent) /\ IsSeq(outbox)
    BY <2>2 DEF Init, IsSeq
  <2> QED
    BY <2>1, <2>3 DEF Init, ReaderInv, LastKind
<1> QED
  BY <1>1, <1>2, <1>3 DEF IInv

(* The contract takes a step, or none, with each of the reader's.           *)
LEMMA ReaderKeeps ==
  ASSUME ReaderInv, UNCHANGED <<translator, outbox, after, sent, streamed, listening>>,
         \/ pc = "connect" /\ pc' \in {"read", "refused"}
         \/ pc = "lines" /\ pc' = "read"
         \/ pc' = pc
  PROVE  ReaderInv'
  BY DEF ReaderInv, IsSeq, LastKind, Talking, Failing, Finishing, Ending

(* Reading one line of a frame: whatever it holds, what the reader queues for
   sending is an admissible continuation. *)
LEMMA ReadLineKeeps ==
  ASSUME IInv, ReadLine
  PROVE  /\ IInv' /\ pc = "lines" /\ pc' \in {"lines", "send"}
<1> DEFINE line == FirstLine(frame)
           d == line[1].data
           r == Push(translator, d)
<1>1. line \in Seq(Tokens(feed)) /\ OtherLines(frame) \in Seq(Tokens(feed))
  BY LineTokens DEF IInv, BytesInv
<1>2. /\ pc = "lines" /\ frame' = OtherLines(frame)
      /\ UNCHANGED <<feed, buf, sent, streamed, listening>>
      /\ \/ UNCHANGED <<pc, translator, outbox, after>>
         \/ SendAll(Finish(translator), "ended") /\ UNCHANGED translator
         \/ Fail("json") /\ UNCHANGED translator
         \/ /\ LineMeaning(line) = "json"
            /\ IF r.ok THEN translator' = [translator EXCEPT !.state = r.state] /\ SendAll(r.events, "lines")
               ELSE UNCHANGED translator /\ Fail("upstream")
  BY DEF ReadLine, channel
<1>3. BytesInv'
  BY <1>1, <1>2 DEF IInv, BytesInv
<1>4. ReaderInv /\ TranslatorInv /\ BytesInv
  BY DEF IInv
<1>5. ASSUME UNCHANGED translator PROVE TranslatorInv'
  BY <1>2, <1>4, <1>5 DEF TranslatorInv
<1>6. CASE UNCHANGED <<pc, translator, outbox, after>>
  BY <1>2, <1>3, <1>4, <1>5, <1>6, ReaderKeeps DEF IInv
<1>7. CASE SendAll(Finish(translator), "ended") /\ UNCHANGED translator
  BY <1>2, <1>3, <1>4, <1>5, <1>7, FinishStep DEF IInv
<1>8. ASSUME NEW why, Fail(why), UNCHANGED translator
      PROVE  IInv' /\ pc' \in {"lines", "send"}
  BY <1>2, <1>3, <1>4, <1>5, <1>8, FailStep DEF IInv
<1>9. CASE /\ LineMeaning(line) = "json" /\ r.ok
           /\ translator' = [translator EXCEPT !.state = r.state]
           /\ SendAll(r.events, "lines")
  <2>1. Payload(translator.connector, d)
    BY <1>1, <1>4, <1>9, JsonLine DEF TranslatorInv
  <2>2. Accumulates(translator.connector, r.state) /\ Adds(translator.state, r)
    BY <1>4, <1>9, <2>1, PushAccumulates
  <2>3. /\ translator'.connector = translator.connector /\ translator'.state = r.state
        /\ DOMAIN translator' = DOMAIN translator
    BY <1>4, <1>9 DEF TranslatorInv
  <2> HIDE DEF r
  <2>4. TranslatorInv'
    BY <1>2, <1>4, <2>2, <2>3 DEF TranslatorInv, Accumulates
  <2>5. ReaderInv' /\ pc' \in {"send", "lines"}
    BY <1>2, <1>4, <1>9, <2>2, <2>3, PushStep
  <2> QED
    BY <1>2, <1>3, <2>4, <2>5 DEF IInv
<1> QED
  BY <1>2, <1>6, <1>7, <1>8, <1>9

(* One case per action.                                                     *)
LEMMA NextIInv == IInv /\ [Next]_vars => IInv'
<1> SUFFICES ASSUME IInv, [Next]_vars PROVE IInv'
  OBVIOUS
<1>0. ReaderInv /\ TranslatorInv /\ BytesInv
  BY DEF IInv
<1>1. ASSUME UNCHANGED <<feed, translator>> PROVE TranslatorInv'
  BY <1>0, <1>1 DEF TranslatorInv
<1>2. ASSUME UNCHANGED <<feed, buf, frame>> PROVE BytesInv'
  BY <1>0, <1>2 DEF BytesInv
<1>3. CASE Connected \/ Refused \/ FrameDone \/ UpstreamEnds
  <2>1. /\ UNCHANGED <<feed, translator, buf, frame, outbox, after, sent, streamed, listening>>
        /\ \/ pc = "connect" /\ pc' \in {"read", "refused"}
           \/ pc = "lines" /\ pc' = "read"
           \/ pc' = pc
    BY <1>3 DEF Connected, Refused, FrameDone, UpstreamEnds, channel, reader
  <2> QED
    BY <1>0, <1>1, <1>2, <2>1, ReaderKeeps DEF IInv
<1>4. ASSUME NEW chunk \in WireChunks, Receive(chunk) PROVE IInv'
  <2>1. /\ UNCHANGED <<feed, translator, frame, outbox, after, sent, streamed, listening, pc>>
        /\ buf' = buf \o chunk
    BY <1>4 DEF Receive, channel
  <2>2. chunk \in Seq(Tokens(feed))
    BY <1>0, FeedsAssumption DEF FeedsAssumption, WireChunks, BytesInv
  <2>3. BytesInv'
    BY <1>0, <2>1, <2>2 DEF BytesInv
  <2> QED
    BY <1>0, <1>1, <2>1, <2>3, ReaderKeeps DEF IInv
<1>5. CASE StreamError
  <2>1. /\ pc = "read" /\ Fail("stream error")
        /\ UNCHANGED <<feed, translator, buf, frame, sent, streamed, listening>>
    BY <1>5 DEF StreamError, channel
  <2> QED
    BY <1>0, <1>1, <1>2, <2>1, FailStep DEF IInv
<1>6. CASE EndOfBody
  <2>1. /\ pc = "read" /\ SendAll(Finish(translator), "ended")
        /\ UNCHANGED <<feed, translator, buf, frame, sent, streamed, listening>>
    BY <1>6 DEF EndOfBody, channel
  <2> QED
    BY <1>0, <1>1, <1>2, <2>1, FinishStep DEF IInv
<1>7. CASE TakeFrame
  <2> DEFINE n == FrameEnd(buf)
             f == SubSeq(buf, 1, n - 1)
  <2>1. /\ pc = "read" /\ buf' = SubSeq(buf, n + 2, Len(buf)) /\ HasFrame(buf)
        /\ \/ Fail("utf8") /\ UNCHANGED frame
           \/ frame' = f /\ pc' = "lines" /\ UNCHANGED <<outbox, after>>
        /\ UNCHANGED <<feed, translator, sent, streamed, listening>>
    BY <1>7 DEF TakeFrame, channel
  <2>2. buf \in Seq(Tokens(feed))
    BY <1>0 DEF BytesInv
  <2>3. n \in 1..(Len(buf) - 1) /\ Len(buf) \in Nat
    BY <2>1, <2>2, FrameEndBounds
  <2>4. /\ n - 1 \in Int /\ n - 1 <= Len(buf) /\ n + 2 \in Nat \ {0} /\ Len(buf) \in Int
    BY <2>3
  <2>5. f \in Seq(Tokens(feed)) /\ SubSeq(buf, n + 2, Len(buf)) \in Seq(Tokens(feed))
    <3> HIDE DEF n
    <3>1. f \in Seq(Tokens(feed))
      BY <2>2, <2>4, PieceOf
    <3>2. SubSeq(buf, n + 2, Len(buf)) \in Seq(Tokens(feed))
      BY <2>2, <2>4, PieceOf
    <3> QED
      BY <3>1, <3>2
  <2> HIDE DEF n, f
  <2>6. BytesInv'
    <3>1. frame' \in Seq(Tokens(feed))
      BY <1>0, <2>1, <2>5 DEF BytesInv
    <3> QED
      BY <1>0, <2>1, <2>5, <3>1 DEF BytesInv
  <2>7. ReaderInv'
    <3>1. CASE Fail("utf8")
      BY <1>0, <2>1, <3>1, FailStep
    <3>2. CASE pc' = "lines" /\ UNCHANGED <<outbox, after>>
      BY <1>0, <2>1, <3>2 DEF ReaderInv, IsSeq, LastKind
    <3> QED
      BY <2>1, <3>1, <3>2
  <2> QED
    BY <1>1, <2>1, <2>6, <2>7 DEF IInv
<1>8. CASE ReadLine
  BY <1>8, ReadLineKeeps
<1>9. CASE Send
  <2>1. UNCHANGED <<feed, translator, buf, frame>>
    BY <1>9 DEF Send
  <2> QED
    BY <1>1, <1>2, <1>9, <2>1, SendStep DEF IInv
<1>10. CASE SendFails
  <2>1. ~listening /\ pc' = "ended" /\ UNCHANGED <<feed, translator, buf, frame, outbox, after, sent, streamed, listening>>
    BY <1>10 DEF SendFails, channel
  <2>2. ReaderInv'
    BY <1>0, <2>1 DEF ReaderInv, IsSeq
  <2> QED
    BY <1>1, <1>2, <2>1, <2>2 DEF IInv
<1>11. CASE Consume
  <2>1. UNCHANGED <<feed, translator, buf, frame, outbox, after, sent, streamed, listening, pc>>
    BY <1>11 DEF Consume, reader
  <2> QED
    BY <1>0, <1>1, <1>2, <2>1, ReaderKeeps DEF IInv
<1>12. CASE DropReceiver
  <2>1. /\ ~listening'
        /\ UNCHANGED <<feed, translator, buf, frame, outbox, after, sent, streamed, pc>>
    BY <1>12 DEF DropReceiver, reader
  <2>2. ReaderInv'
    BY <1>0, <2>1 DEF ReaderInv, IsSeq, LastKind, Talking, Failing, Finishing, Ending
  <2> QED
    BY <1>1, <1>2, <2>1, <2>2 DEF IInv
<1>13. CASE Stopped \/ UNCHANGED vars
  <2>1. UNCHANGED <<feed, translator, buf, frame, outbox, after, sent, streamed, listening, pc>>
    BY <1>13 DEF Stopped, vars
  <2> QED
    BY <1>0, <1>1, <1>2, <2>1, ReaderKeeps DEF IInv
<1> QED
  BY <1>3, <1>4, <1>5, <1>6, <1>7, <1>8, <1>9, <1>10, <1>11, <1>12, <1>13 DEF Next, ReaderStep

-----------------------------------------------------------------------------
(* The refinement. *)

(* The initial states of the engine are initial states of the contract.     *)
LEMMA InitImplements == Init => Contract!Init
  BY DEF Init, Contract!Init

(* Every step of the engine is a step of the contract or leaves its         *)
(* variables alone.                                                         *)
LEMMA StepImplements == IInv /\ [Next]_vars => [Contract!Next]_(Contract!vars)
<1> SUFFICES ASSUME IInv, [Next]_vars PROVE [Contract!Next]_(Contract!vars)
  OBVIOUS
<1>0. ReaderInv
  BY DEF IInv
<1>1. ASSUME UNCHANGED <<sent, streamed, listening>>, Phase' = Phase
      PROVE  UNCHANGED Contract!vars
  BY <1>1 DEF Phase, Contract!vars
<1>2. CASE Connected \/ Refused
  <2>1. /\ pc = "connect" /\ pc' \in {"read", "refused"} /\ UNCHANGED <<sent, streamed, listening>>
    BY <1>2 DEF Connected, Refused, channel
  <2>2. Contract!Connect
    BY <2>1 DEF Contract!Connect
  <2> QED
    BY <2>2 DEF Contract!Next
<1>3. CASE FrameDone \/ UpstreamEnds \/ Consume \/ Stopped \/ UNCHANGED vars
  <2>1. /\ UNCHANGED <<sent, streamed, listening>>
        /\ (pc = "lines" /\ pc' = "read") \/ pc' = pc
    BY <1>3 DEF FrameDone, UpstreamEnds, Consume, Stopped, vars, channel, reader
  <2> QED
    BY <1>1, <2>1 DEF Phase
<1>4. ASSUME NEW chunk \in WireChunks, Receive(chunk) PROVE [Contract!Next]_(Contract!vars)
  <2>1. UNCHANGED <<sent, streamed, listening, pc>>
    BY <1>4 DEF Receive, channel
  <2> QED
    BY <1>1, <2>1 DEF Phase
<1>5. CASE StreamError \/ EndOfBody
  <2>1. pc = "read" /\ UNCHANGED <<sent, streamed, listening>>
    BY <1>5 DEF StreamError, EndOfBody, channel
  <2>2. pc' = "send"
    <3>1. CASE StreamError
      BY <3>1 DEF StreamError, Fail, SendAll
    <3>2. CASE EndOfBody
      <4>1. SendAll(Finish(translator), "ended") /\ UNCHANGED <<translator, sent, streamed, listening>>
        BY <3>2 DEF EndOfBody, channel
      <4> QED
        BY <2>1, <4>1, FinishStep DEF IInv
    <3> QED
      BY <1>5, <3>1, <3>2
  <2> QED
    BY <1>1, <2>1, <2>2 DEF Phase
<1>6. CASE TakeFrame
  <2>1. pc = "read" /\ pc' \in {"send", "lines"} /\ UNCHANGED <<sent, streamed, listening>>
    BY <1>6 DEF TakeFrame, channel, Fail, SendAll
  <2> QED
    BY <1>1, <2>1 DEF Phase
<1>7. CASE ReadLine
  <2>1. UNCHANGED <<sent, streamed, listening>>
    BY <1>7 DEF ReadLine, channel
  <2>2. pc = "lines" /\ pc' \in {"send", "lines"}
    BY <1>7, ReadLineKeeps
  <2> QED
    BY <1>1, <2>1, <2>2 DEF Phase
<1>8. CASE Send
  <2> DEFINE e == Head(outbox)
  <2>1. /\ sent' = Append(sent, e) /\ Permitted(e)
        /\ streamed' = IF e.kind = "delta" THEN streamed \o e.text ELSE streamed
        /\ pc' \in {"send", "lines", "ended"}
        /\ pc' = "ended" => e.kind \in {"completed", "error"}
    BY <1>8, SendStep
  <2>2. pc = "send" /\ listening /\ listening' = listening
    BY <1>8 DEF Send
  <2> HIDE DEF e
  <2>3. PICK R : sent \in Seq(R)
    BY <1>0 DEF ReaderInv, IsSeq
  <2>4. Len(sent') > 0 /\ sent'[Len(sent')] = e
    BY <2>1, <2>3
  <2>5. Contract!MayFollow = Follows(LastKind) /\ Contract!LastKind = LastKind
    BY DEF Contract!MayFollow, Contract!LastKind, LastKind, Follows
  <2>6. Contract!Last(sent') = e
    BY <2>4 DEF Contract!Last
  <2>7. /\ e.kind \in Contract!MayFollow
        /\ e.kind = "message" => e.text = streamed
        /\ e.kind = "completed" /\ Contract!LastKind # "message" => streamed = <<>>
    BY <2>1, <2>5 DEF Permitted
  <2>8. Contract!Emit
    BY <2>1, <2>2, <2>4, <2>6, <2>7 DEF Contract!Emit, Contract!Terminal
  <2> QED
    BY <2>8 DEF Contract!Next
<1>9. CASE SendFails
  <2>1. pc = "send" /\ ~listening /\ pc' = "ended" /\ UNCHANGED <<sent, streamed, listening>>
    BY <1>9 DEF SendFails, channel
  <2>2. Contract!Close
    BY <2>1 DEF Contract!Close
  <2> QED
    BY <2>2 DEF Contract!Next
<1>10. CASE DropReceiver
  <2>1. listening /\ listening' = FALSE /\ UNCHANGED <<sent, streamed, pc>>
    BY <1>10 DEF DropReceiver, reader
  <2>2. Contract!Hangup
    BY <2>1 DEF Contract!Hangup
  <2> QED
    BY <2>2 DEF Contract!Next
<1> QED
  BY <1>2, <1>3, <1>4, <1>5, <1>6, <1>7, <1>8, <1>9, <1>10 DEF Next, ReaderStep

(* run_egress keeps the promise of llm-switch, for every connector, every   *)
(* sequence of payloads, every way of cutting it into chunks and every      *)
(* capacity of the channel: deltas, then calls, then the message that       *)
(* repeats what was streamed, then Completed; or deltas and one error;      *)
(* nothing after a terminal event; no silent end while somebody listens.    *)
THEOREM EgressImplementsContract == Spec => ImplementsContract
<1>1. Spec => Contract!Spec
  BY InitIInv, NextIInv, InitImplements, StepImplements, PTL DEF Spec, Contract!Spec
<1> QED
  BY <1>1 DEF ImplementsContract

-----------------------------------------------------------------------------
(* Numbers. *)

(* Induction up to n, over the set of the numbers that have the property.   *)
LEMMA UpTo ==
    ASSUME NEW n \in Nat, NEW T, 0 \in T, \A k \in 0..(n - 1) : k \in T => k + 1 \in T
    PROVE  \A k \in 0..n : k \in T
  <1> DEFINE S == {k \in 0..n : k \notin T}
  <1> SUFFICES ASSUME S # {} PROVE FALSE
    OBVIOUS
  <1>1. S \in SUBSET Nat /\ IsFiniteSet(S)
    <2>1. IsFiniteSet(0..n) /\ S \subseteq 0..n
      BY FS_Interval
    <2> QED BY <2>1, FS_Subset
  <1>2. PICK m \in S : \A y \in S : m <= y
    <2> HIDE DEF S
    <2> QED BY <1>1, FirstAndLast
  <1>3. m # 0 /\ m \in 0..n
    OBVIOUS
  <1>4. m - 1 \in 0..(n - 1) /\ m - 1 \in 0..n /\ (m - 1) + 1 = m
    BY <1>3
  <1>5. m - 1 \notin S
    BY <1>2, <1>3
  <1> QED BY <1>4, <1>5

(* Max when the greatest is known. *)
LEMMA MaxIs ==
    ASSUME NEW S, S \subseteq Nat, NEW n \in S, \A y \in S : y <= n
    PROVE  Max(S) = n
  <1>1. \A x \in S : (\A y \in S : x >= y) => x = n
    OBVIOUS
  <1>2. \A y \in S : n >= y
    OBVIOUS
  <1> QED BY <1>1, <1>2 DEF Max

-----------------------------------------------------------------------------
(* FlattenSeq, block by block. *)

(* f is built from the blocks s the way FlattenSeq builds its result. *)
Chain(f, s, n) == \A i \in 1..n : f[i] = IF i = 1 THEN s[i] ELSE f[i - 1] \o s[i]

(* Two chains over the same blocks agree. *)
LEMMA ChainsAgree ==
    ASSUME NEW n \in Nat, NEW s, NEW t, NEW f, NEW g, Chain(f, s, n), Chain(g, t, n),
           \A i \in 1..n : s[i] = t[i]
    PROVE  \A i \in 1..n : f[i] = g[i]
  <1> DEFINE T == {k \in 0..n : \A i \in 1..k : f[i] = g[i]}
  <1>1. 0 \in T
    OBVIOUS
  <1>2. ASSUME NEW k \in 0..(n - 1), k \in T PROVE k + 1 \in T
    <2>1. f[k + 1] = g[k + 1]
      <3>1. CASE k = 0
        BY <3>1 DEF Chain
      <3>2. CASE k # 0
        <4>1. k + 1 \in 1..n /\ k \in 1..k /\ k + 1 # 1 /\ (k + 1) - 1 = k
          BY <3>2
        <4>2. f[k] = g[k]
          BY <1>2, <4>1
        <4>3. f[k + 1] = f[k] \o s[k + 1] /\ g[k + 1] = g[k] \o t[k + 1] /\ s[k + 1] = t[k + 1]
          BY <4>1 DEF Chain
        <4> QED BY <4>2, <4>3
      <3> QED BY <3>1, <3>2
    <2>2. \A i \in 1..(k + 1) : i \in 1..k \/ i = k + 1
      OBVIOUS
    <2> QED BY <1>2, <2>1, <2>2
  <1>3. n \in T
    <2> HIDE DEF T
    <2> QED BY <1>1, <1>2, UpTo
  <1> QED BY <1>3

(* The function FlattenSeq builds its result with exists. *)
LEMMA ChainExists ==
    ASSUME NEW n \in Nat, NEW s
    PROVE  \E f : f = [i \in 1..n |-> IF i = 1 THEN s[i] ELSE f[i - 1] \o s[i]]
  <1> DEFINE T == {k \in 0..n : \E f : f = [i \in 1..k |-> IF i = 1 THEN s[i] ELSE f[i - 1] \o s[i]]}
  <1>1. 0 \in T
    <2> DEFINE f == [i \in 1..0 |-> s[i]]
    <2>1. f = [i \in 1..0 |-> IF i = 1 THEN s[i] ELSE f[i - 1] \o s[i]]
      OBVIOUS
    <2>2. 0 \in 0..n
      OBVIOUS
    <2> HIDE DEF f
    <2> QED BY <2>1, <2>2
  <1>2. ASSUME NEW k \in 0..(n - 1), k \in T PROVE k + 1 \in T
    <2>1. PICK f : f = [i \in 1..k |-> IF i = 1 THEN s[i] ELSE f[i - 1] \o s[i]]
      BY <1>2
    <2> DEFINE g == [i \in 1..(k + 1) |->
                       IF i \in 1..k THEN f[i] ELSE IF i = 1 THEN s[i] ELSE f[i - 1] \o s[i]]
    <2>2. ASSUME NEW i \in 1..(k + 1)
          PROVE  g[i] = IF i = 1 THEN s[i] ELSE g[i - 1] \o s[i]
      <3>1. CASE i = 1
        BY <2>1, <3>1
      <3>2. CASE i # 1
        <4>1. i - 1 \in 1..k /\ i - 1 \in 1..(k + 1)
          BY <3>2
        <4>2. g[i - 1] = f[i - 1]
          BY <4>1
        <4>3. CASE i \in 1..k
          BY <2>1, <3>2, <4>2, <4>3
        <4>4. CASE i \notin 1..k
          BY <3>2, <4>2, <4>4
        <4> QED BY <4>3, <4>4
      <3> QED BY <3>1, <3>2
    <2>3. g = [i \in 1..(k + 1) |-> IF i = 1 THEN s[i] ELSE g[i - 1] \o s[i]]
      BY <2>2
    <2>4. k + 1 \in 0..n
      OBVIOUS
    <2> HIDE DEF g
    <2> QED BY <2>3, <2>4
  <1>3. n \in T
    <2> HIDE DEF T
    <2> QED BY <1>1, <1>2, UpTo
  <1> QED BY <1>3

(* The first k of the blocks b, put together. *)
Flat(b, k) == FlattenSeq([i \in 1..k |-> b[i]])

(* FlattenSeq of the first k blocks is the end of a chain over them. *)
LEMMA FlatIsChain ==
    ASSUME NEW n \in Nat, NEW b, NEW k \in 1..n
    PROVE  \E f : Chain(f, b, k) /\ Flat(b, k) = f[k]
  <1> DEFINE s == [i \in 1..k |-> b[i]]
             f == CHOOSE f : f = [i \in 1..Len(s) |-> IF i = 1 THEN s[i] ELSE f[i - 1] \o s[i]]
  <1>1. Len(s) = k /\ k \in Nat /\ k # 0 /\ \A i \in 1..k : s[i] = b[i]
    OBVIOUS
  <1>11. Flat(b, k) = FlattenSeq(s)
    BY DEF Flat
  <1> HIDE DEF s
  <1>12. FlattenSeq(s) = IF Len(s) = 0 THEN s ELSE f[Len(s)]
    BY DEF FlattenSeq
  <1>2. Flat(b, k) = f[k]
    BY <1>1, <1>11, <1>12
  <1>3. \E g : g = [i \in 1..Len(s) |-> IF i = 1 THEN s[i] ELSE g[i - 1] \o s[i]]
    BY <1>1, ChainExists
  <1>4. f = [i \in 1..Len(s) |-> IF i = 1 THEN s[i] ELSE f[i - 1] \o s[i]]
    BY <1>3
  <1> HIDE DEF f
  <1>5. Chain(f, b, k)
    BY <1>1, <1>4 DEF Chain
  <1> QED BY <1>2, <1>5

(* The blocks of b one after the other. *)
LEMMA FlatSteps ==
    ASSUME NEW n \in Nat, NEW S, NEW b, \A i \in 1..n : b[i] \in Seq(S)
    PROVE  /\ Flat(b, 0) = <<>>
           /\ \A k \in 0..(n - 1) : Flat(b, k + 1) = Flat(b, k) \o b[k + 1]
           /\ \A k \in 0..n : Flat(b, k) \in Seq(S)
  <1>1. Flat(b, 0) = <<>>
    BY DEF Flat, FlattenSeq
  <1>2. ASSUME NEW k \in 0..(n - 1), Flat(b, k) \in Seq(S)
        PROVE  Flat(b, k + 1) = Flat(b, k) \o b[k + 1]
    <2>1. k + 1 \in 1..n
      OBVIOUS
    <2>2. PICK f : Chain(f, b, k + 1) /\ Flat(b, k + 1) = f[k + 1]
      BY <2>1, FlatIsChain
    <2>3. CASE k = 0
      BY <1>1, <2>1, <2>2, <2>3 DEF Chain
    <2>4. CASE k # 0
      <3>1. k \in 1..n /\ k + 1 # 1 /\ (k + 1) - 1 = k /\ k + 1 \in 1..(k + 1)
        BY <2>4
      <3>2. PICK g : Chain(g, b, k) /\ Flat(b, k) = g[k]
        BY <3>1, FlatIsChain
      <3>3. Chain(f, b, k)
        BY <2>2, <3>1 DEF Chain
      <3>4. f[k] = g[k]
        BY <3>1, <3>2, <3>3, ChainsAgree
      <3> QED BY <2>2, <3>1, <3>2, <3>4 DEF Chain
    <2> QED BY <2>3, <2>4
  <1> DEFINE T == {k \in 0..n : Flat(b, k) \in Seq(S)}
  <1>3. 0 \in T
    <2>1. <<>> \in Seq(S) /\ 0 \in 0..n
      OBVIOUS
    <2> QED BY <1>1, <2>1
  <1>4. ASSUME NEW k \in 0..(n - 1), k \in T PROVE k + 1 \in T
    <2>1. Flat(b, k + 1) = Flat(b, k) \o b[k + 1] /\ k + 1 \in 0..n /\ k + 1 \in 1..n
      BY <1>2, <1>4
    <2>2. Flat(b, k) \in Seq(S) /\ b[k + 1] \in Seq(S)
      BY <1>4, <2>1
    <2>3. Flat(b, k) \o b[k + 1] \in Seq(S)
      BY <2>2
    <2> QED BY <2>1, <2>3
  <1>5. \A k \in 0..n : k \in T
    <2> HIDE DEF T
    <2> QED BY <1>3, <1>4, UpTo
  <1>6. \A k \in 0..n : Flat(b, k) \in Seq(S)
    BY <1>5
  <1>7. \A k \in 0..(n - 1) : k \in 0..n
    OBVIOUS
  <1> QED BY <1>1, <1>2, <1>6, <1>7

(* FlattenSeq of as many blocks as b has. *)
LEMMA FlatAll ==
    ASSUME NEW n \in Nat, NEW b, b = [i \in 1..n |-> b[i]]
    PROVE  FlattenSeq(b) = Flat(b, n)
  BY DEF Flat

(* FlattenSeq depends on the blocks alone. *)
LEMMA FlatSame ==
    ASSUME NEW n \in Nat, NEW b, NEW d, \A i \in 1..n : b[i] = d[i]
    PROVE  Flat(b, n) = Flat(d, n)
  <1>1. [i \in 1..n |-> b[i]] = [i \in 1..n |-> d[i]]
    OBVIOUS
  <1> QED BY <1>1 DEF Flat

(* What an append does to the places of a sequence. *)
LEMMA AppendPlaces ==
    ASSUME NEW S, NEW q \in Seq(S), NEW e \in S
    PROVE  /\ Append(q, e) \in Seq(S) /\ Len(Append(q, e)) = Len(q) + 1 /\ Len(q) \in Nat
           /\ \A k \in 1..Len(q) : Append(q, e)[k] = q[k] /\ q[k] \in S
           /\ Append(q, e)[Len(q) + 1] = e
  <1>1. Append(q, e) \in Seq(S) /\ Len(Append(q, e)) = Len(q) + 1 /\ Len(q) \in Nat
    OBVIOUS
  <1>2. \A k \in 1..Len(q) : Append(q, e)[k] = q[k] /\ q[k] \in S
    OBVIOUS
  <1> QED BY <1>1, <1>2

-----------------------------------------------------------------------------
(* The sequences that f makes of the elements of D, one after the other. *)
Maps(f, S, C) == f \in [S -> Seq(C)]
Joined(f, D) == FlattenSeq([k \in 1..Len(D) |-> f[D[k]]])

(* One more element adds what f makes of it. *)
LEMMA JoinedMore ==
    ASSUME NEW S, NEW C, NEW f, Maps(f, S, C), NEW D \in Seq(S), NEW d \in S
    PROVE  /\ Joined(f, D) \in Seq(C)
           /\ Joined(f, Append(D, d)) = Joined(f, D) \o f[d]
  <1> DEFINE E == Append(D, d)
             n == Len(D)
             b == [k \in 1..n |-> f[D[k]]]
             g == [k \in 1..(n + 1) |-> f[E[k]]]
  <1>1. /\ E \in Seq(S) /\ Len(E) = n + 1 /\ n \in Nat /\ E[n + 1] = d
        /\ \A k \in 1..n : E[k] = D[k] /\ D[k] \in S
    BY AppendPlaces
  <1> HIDE DEF E, n
  <1>2. \A k \in 1..(n + 1) : E[k] \in S
    BY <1>1
  <1>4. \A k \in 1..(n + 1) : g[k] \in Seq(C)
    BY <1>2 DEF Maps
  <1>5. \A k \in 1..n : g[k] = b[k]
    BY <1>1
  <1>6. b = [k \in 1..n |-> b[k]] /\ g = [k \in 1..(n + 1) |-> g[k]] /\ g[n + 1] = f[d]
    BY <1>1
  <1>61. b = [k \in 1..Len(D) |-> f[D[k]]] /\ g = [k \in 1..Len(E) |-> f[E[k]]]
    BY <1>1 DEF n
  <1> HIDE DEF b, g
  <1>7. FlattenSeq(b) = Flat(b, n)
    BY <1>1, <1>6, FlatAll
  <1>70. n + 1 \in Nat /\ n \in 0..((n + 1) - 1) /\ n \in 0..(n + 1)
    BY <1>1
  <1>71. FlattenSeq(g) = Flat(g, n + 1)
    BY <1>6, <1>70, FlatAll
  <1>72. Flat(b, n) = Flat(g, n)
    BY <1>1, <1>5, FlatSame
  <1>73. Flat(g, n + 1) = Flat(g, n) \o g[n + 1]
    BY <1>4, <1>70, FlatSteps
  <1>74. Flat(g, n) \in Seq(C)
    BY <1>4, <1>70, FlatSteps
  <1>8. Joined(f, D) = FlattenSeq(b) /\ Joined(f, E) = FlattenSeq(g)
    BY <1>61 DEF Joined
  <1> QED BY <1>6, <1>7, <1>71, <1>72, <1>73, <1>74, <1>8 DEF E

(* f makes nothing of no elements. *)
LEMMA JoinedNone ==
    ASSUME NEW f
    PROVE  Joined(f, <<>>) = <<>>
  <1>1. Joined(f, <<>>) = FlattenSeq([k \in 1..0 |-> f[<<>>[k]]])
    BY DEF Joined
  <1>2. [k \in 1..0 |-> f[<<>>[k]]] = <<>>
    OBVIOUS
  <1> QED BY <1>1, <1>2 DEF FlattenSeq

(* What f makes is a sequence over what its values are made of. *)
LEMMA JoinedSeq ==
    ASSUME NEW S, NEW C, NEW f, Maps(f, S, C), NEW D \in Seq(S)
    PROVE  Joined(f, D) \in Seq(C)
  <1>1. CASE D = <<>>
    <2>1. Joined(f, D) = <<>> /\ <<>> \in Seq(C)
      BY <1>1, JoinedNone
    <2> QED BY <2>1
  <1>2. CASE D # <<>>
    <2>1. D[1] \in S
      BY <1>2
    <2> QED BY <2>1, JoinedMore
  <1> QED BY <1>1, <1>2

(* f makes of two sequences what it makes of each. *)
LEMMA JoinedConcat ==
    ASSUME NEW S, NEW C, NEW f, Maps(f, S, C), NEW D \in Seq(S), NEW E \in Seq(S)
    PROVE  Joined(f, D \o E) = Joined(f, D) \o Joined(f, E)
  <1>0. ASSUME NEW x \in Seq(C), NEW y \in Seq(C), NEW z \in Seq(C)
        PROVE  (x \o y) \o z = x \o (y \o z)
    BY ConcatAssociative, SMTT(60)
  <1> DEFINE P(k) == SubSeq(E, 1, k)
             T == {k \in 0..Len(E) : Joined(f, D \o P(k)) = Joined(f, D) \o Joined(f, P(k))}
  <1>1. Len(E) \in Nat /\ Joined(f, D) \in Seq(C)
    BY JoinedSeq
  <1>2. 0 \in T
    <2>1. P(0) = <<>> /\ D \o <<>> = D
      OBVIOUS
    <2>2. Joined(f, D) \o <<>> = Joined(f, D)
      BY <1>1
    <2>3. Joined(f, <<>>) = <<>>
      BY JoinedNone
    <2>4. Joined(f, D \o P(0)) = Joined(f, D) \o Joined(f, P(0))
      BY <2>1, <2>2, <2>3
    <2>5. 0 \in 0..Len(E)
      BY <1>1
    <2> QED BY <2>4, <2>5
  <1>3. ASSUME NEW k \in 0..(Len(E) - 1), k \in T PROVE k + 1 \in T
    <2>1. k + 1 \in 1..Len(E) /\ E[k + 1] \in S /\ P(k) \in Seq(S) /\ D \o P(k) \in Seq(S)
      OBVIOUS
    <2>2. P(k + 1) = Append(P(k), E[k + 1])
      BY <2>1
    <2> DEFINE p == P(k)
               e == E[k + 1]
    <2>3. D \o Append(p, e) = Append(D \o p, e)
      BY <2>1
    <2>4. Joined(f, D \o p) = Joined(f, D) \o Joined(f, p)
      BY <1>3
    <2>41. p \in Seq(S) /\ D \o p \in Seq(S) /\ e \in S /\ f[e] \in Seq(C)
      BY <2>1 DEF Maps
    <2>42. P(k + 1) = Append(p, e)
      BY <2>2
    <2> HIDE DEF P, p, e
    <2>50. PICK q \in Seq(S) : q = D \o p
      BY <2>41
    <2>5. Joined(f, Append(q, e)) = Joined(f, q) \o f[e]
      <3>1. e \in S
        BY <2>41
      <3> QED BY <3>1, JoinedMore
    <2>51. Joined(f, Append(p, e)) = Joined(f, p) \o f[e] /\ Joined(f, p) \in Seq(C)
      BY <2>41, JoinedMore
    <2>6. (Joined(f, D) \o Joined(f, p)) \o f[e] = Joined(f, D) \o (Joined(f, p) \o f[e])
      <3>1. Joined(f, D) \in Seq(C) /\ Joined(f, p) \in Seq(C) /\ f[e] \in Seq(C)
        BY <1>1, <2>41, <2>51
      <3> QED BY <1>0, <3>1
    <2>7. k + 1 \in 0..Len(E)
      BY <2>1
    <2>8. Joined(f, D \o P(k + 1)) = Joined(f, D) \o Joined(f, P(k + 1))
      BY <2>42, <2>3, <2>4, <2>50, <2>5, <2>51, <2>6
    <2> QED BY <2>7, <2>8
  <1>4. Len(E) \in T
    <2> HIDE DEF T
    <2>1. \A k \in 0..(Len(E) - 1) : k \in T => k + 1 \in T
      BY <1>3
    <2>2. \A k \in 0..Len(E) : k \in T
      BY <1>1, <1>2, <2>1, UpTo
    <2> QED BY <1>1, <2>2
  <1>5. P(Len(E)) = E
    OBVIOUS
  <1> QED BY <1>4, <1>5

-----------------------------------------------------------------------------
(* The reference readings, with one more payload. *)

(* The reference reading of the payloads D, for either connector, and what  *)
(* one payload adds to it.                                                  *)
Deltas(connector, D) == IF connector = "chat" THEN ChatRefDeltas(D) ELSE AnthropicRefDeltas(D)
Calls(connector, D) ==
  IF connector = "chat" THEN ChatCalls(ChatRefAccs(D)) ELSE AnthropicCalls(AnthropicRefBlocks(D))

ChatSays(c) == IF c.choice /\ c.content # <<>> THEN <<OutputTextDelta(c.content)>> ELSE <<>>
AnthropicSays(e) == IF e.type = "text_delta" THEN <<OutputTextDelta(e.text)>> ELSE <<>>
ChatGives(c) == IF c.choice THEN c.tool_calls ELSE <<>>

(* A chunk adds its text delta to the reference reading, or nothing. *)
LEMMA ChatDeltas ==
    ASSUME NEW S, NEW D \in Seq(S), NEW d \in S
    PROVE  ChatRefDeltas(Append(D, d)) = ChatRefDeltas(D) \o ChatSays(d)
  <1> DEFINE f == [c \in S |-> ChatSays(c)]
             C == {OutputTextDelta(c.content) : c \in S}
  <1>1. Maps(f, S, C)
    <2>1. ASSUME NEW c \in S PROVE ChatSays(c) \in Seq(C)
      <3>1. OutputTextDelta(c.content) \in C
        OBVIOUS
      <3> HIDE DEF C
      <3> QED BY <3>1 DEF ChatSays
    <2> HIDE DEF C
    <2> QED BY <2>1 DEF Maps
  <1>2. ASSUME NEW G \in Seq(S) PROVE ChatRefDeltas(G) = Joined(f, G)
    <2>1. \A k \in 1..Len(G) : f[G[k]] = ChatSays(G[k])
      OBVIOUS
    <2>2. [k \in 1..Len(G) |-> f[G[k]]] = [k \in 1..Len(G) |-> ChatSays(G[k])]
      BY <2>1
    <2> QED BY <2>2 DEF ChatRefDeltas, Joined, ChatSays
  <1>3. Append(D, d) \in Seq(S) /\ f[d] = ChatSays(d)
    OBVIOUS
  <1> HIDE DEF f, C
  <1>4. Joined(f, Append(D, d)) = Joined(f, D) \o f[d]
    BY <1>1, JoinedMore
  <1> QED BY <1>2, <1>3, <1>4

(* An event adds its text delta to the reference reading, or nothing. *)
LEMMA AnthropicDeltas ==
    ASSUME NEW S, NEW D \in Seq(S), NEW d \in S
    PROVE  AnthropicRefDeltas(Append(D, d)) = AnthropicRefDeltas(D) \o AnthropicSays(d)
  <1> DEFINE f == [c \in S |-> AnthropicSays(c)]
             C == {OutputTextDelta(c.text) : c \in S}
  <1>1. Maps(f, S, C)
    <2>1. ASSUME NEW c \in S PROVE AnthropicSays(c) \in Seq(C)
      <3>1. OutputTextDelta(c.text) \in C
        OBVIOUS
      <3> HIDE DEF C
      <3> QED BY <3>1 DEF AnthropicSays
    <2> HIDE DEF C
    <2> QED BY <2>1 DEF Maps
  <1>2. ASSUME NEW G \in Seq(S) PROVE AnthropicRefDeltas(G) = Joined(f, G)
    <2>1. \A k \in 1..Len(G) : f[G[k]] = AnthropicSays(G[k])
      OBVIOUS
    <2>2. [k \in 1..Len(G) |-> f[G[k]]] = [k \in 1..Len(G) |-> AnthropicSays(G[k])]
      BY <2>1
    <2> QED BY <2>2 DEF AnthropicRefDeltas, Joined, AnthropicSays
  <1>3. Append(D, d) \in Seq(S) /\ f[d] = AnthropicSays(d)
    OBVIOUS
  <1> HIDE DEF f, C
  <1>4. Joined(f, Append(D, d)) = Joined(f, D) \o f[d]
    BY <1>1, JoinedMore
  <1> QED BY <1>2, <1>3, <1>4

(* A chunk adds its pieces of tool calls to those the reference reads. *)
LEMMA Pieces ==
    ASSUME NEW S, NEW D \in Seq(S), NEW d \in S, NEW C, \A c \in S : c.tool_calls \in Seq(C)
    PROVE  /\ RefPieces(D) \in Seq(C)
           /\ RefPieces(Append(D, d)) = RefPieces(D) \o ChatGives(d)
  <1> DEFINE f == [c \in S |-> ChatGives(c)]
  <1>1. Maps(f, S, C)
    BY DEF ChatGives, Maps
  <1>2. ASSUME NEW G \in Seq(S) PROVE RefPieces(G) = Joined(f, G)
    <2>1. \A k \in 1..Len(G) : f[G[k]] = ChatGives(G[k])
      OBVIOUS
    <2>2. [k \in 1..Len(G) |-> f[G[k]]] = [k \in 1..Len(G) |-> ChatGives(G[k])]
      BY <2>1
    <2> QED BY <2>2 DEF RefPieces, Joined, ChatGives
  <1>3. Append(D, d) \in Seq(S) /\ f[d] = ChatGives(d)
    OBVIOUS
  <1> HIDE DEF f
  <1>4. Joined(f, Append(D, d)) = Joined(f, D) \o f[d]
    BY <1>1, JoinedMore
  <1>5. Joined(f, D) \in Seq(C)
    BY <1>1, JoinedMore
  <1> QED BY <1>2, <1>3, <1>4, <1>5

-----------------------------------------------------------------------------
(* The accumulators of tool calls, one piece after the other. *)

(* The indices of the pieces ps, the pieces that give index i an id or a    *)
(* name, and the accumulator of index i.                                    *)
Indices(ps) == {ps[k].index : k \in 1..Len(ps)}
IdsAt(ps, i) == {k \in 1..Len(ps) : ps[k].index = i /\ ps[k].id # NoId}
NamesAt(ps, i) == {k \in 1..Len(ps) : ps[k].index = i /\ ps[k].name # ""}
ArgumentsIf(C, i) == [p \in C |-> IF p.index = i THEN p.arguments ELSE <<>>]
AccAt(C, ps, i) ==
  [call_id   |-> IF IdsAt(ps, i) = {} THEN NoId ELSE ps[Max(IdsAt(ps, i))].id,
   name      |-> IF NamesAt(ps, i) = {} THEN "" ELSE ps[Max(NamesAt(ps, i))].name,
   arguments |-> Joined(ArgumentsIf(C, i), ps)]

(* The reference accumulators, index by index. *)
LEMMA RefAccsAre ==
    ASSUME NEW C, NEW ps \in Seq(C)
    PROVE  RefAccs(ps) = [i \in Indices(ps) |-> AccAt(C, ps, i)]
  <1> DEFINE of(i) == {k \in 1..Len(ps) : ps[k].index = i}
             ids(i) == {k \in of(i) : ps[k].id # NoId}
             names(i) == {k \in of(i) : ps[k].name # ""}
             args(i) == FlattenSeq([k \in 1..Len(ps) |-> IF k \in of(i) THEN ps[k].arguments ELSE <<>>])
             acc(i) == [call_id   |-> IF ids(i) = {} THEN NoId ELSE ps[Max(ids(i))].id,
                        name      |-> IF names(i) = {} THEN "" ELSE ps[Max(names(i))].name,
                        arguments |-> args(i)]
  <1>1. RefAccs(ps) = [i \in Indices(ps) |-> acc(i)]
    BY DEF RefAccs, Indices
  <1>2. ASSUME NEW i PROVE acc(i) = AccAt(C, ps, i)
    <2>1. ids(i) = IdsAt(ps, i) /\ names(i) = NamesAt(ps, i)
      BY DEF IdsAt, NamesAt
    <2>2. \A k \in 1..Len(ps) :
            ArgumentsIf(C, i)[ps[k]] = IF k \in of(i) THEN ps[k].arguments ELSE <<>>
      BY DEF ArgumentsIf
    <2>3. [k \in 1..Len(ps) |-> ArgumentsIf(C, i)[ps[k]]]
            = [k \in 1..Len(ps) |-> IF k \in of(i) THEN ps[k].arguments ELSE <<>>]
      BY <2>2
    <2>4. args(i) = Joined(ArgumentsIf(C, i), ps)
      BY <2>3 DEF Joined
    <2> HIDE DEF of, ids, names, args
    <2> QED BY <2>1, <2>4 DEF AccAt
  <1> HIDE DEF acc
  <1> QED BY <1>1, <1>2

(* Elements f makes nothing of make nothing together. *)
LEMMA JoinedNothing ==
    ASSUME NEW S, NEW C, NEW f, Maps(f, S, C), NEW D \in Seq(S),
           \A k \in 1..Len(D) : f[D[k]] = <<>>
    PROVE  Joined(f, D) = <<>>
  <1> DEFINE P(k) == SubSeq(D, 1, k)
             T == {k \in 0..Len(D) : Joined(f, P(k)) = <<>>}
  <1>1. Len(D) \in Nat
    OBVIOUS
  <1>2. 0 \in T
    <2>1. P(0) = <<>>
      OBVIOUS
    <2>2. Joined(f, P(0)) = <<>>
      BY <2>1, JoinedNone
    <2>3. 0 \in 0..Len(D)
      BY <1>1
    <2> QED BY <2>2, <2>3
  <1>3. ASSUME NEW k \in 0..(Len(D) - 1), k \in T PROVE k + 1 \in T
    <2>1. k + 1 \in 1..Len(D) /\ k + 1 \in 0..Len(D) /\ D[k + 1] \in S /\ P(k) \in Seq(S)
      OBVIOUS
    <2>2. P(k + 1) = Append(P(k), D[k + 1])
      BY <2>1
    <2>3. PICK p \in Seq(S) : p = P(k)
      BY <2>1
    <2>4. PICK e \in S : e = D[k + 1]
      BY <2>1
    <2> HIDE DEF P
    <2>5. Joined(f, Append(p, e)) = Joined(f, p) \o f[e]
      BY JoinedMore
    <2>6. Joined(f, p) = <<>> /\ f[e] = <<>>
      BY <1>3, <2>1, <2>3, <2>4
    <2>7. Joined(f, P(k + 1)) = <<>>
      <3>1. <<>> \o <<>> = <<>>
        OBVIOUS
      <3> QED BY <2>2, <2>3, <2>4, <2>5, <2>6, <3>1
    <2> QED BY <2>1, <2>7
  <1>4. Len(D) \in T
    <2> HIDE DEF T
    <2>1. \A k \in 0..(Len(D) - 1) : k \in T => k + 1 \in T
      BY <1>3
    <2>2. \A k \in 0..Len(D) : k \in T
      BY <1>1, <1>2, <2>1, UpTo
    <2> QED BY <1>1, <2>2
  <1>5. P(Len(D)) = D
    OBVIOUS
  <1> QED BY <1>4, <1>5

(* The last place of a set, and with one more place. *)
LEMMA LastPlace ==
    ASSUME NEW n \in Nat, NEW T, T \subseteq 1..n
    PROVE  /\ T # {} => Max(T) \in T
           /\ Max(T \cup {n + 1}) = n + 1
  <1>1. IsFiniteSet(T) /\ T \in SUBSET Nat
    <2>1. IsFiniteSet(1..n)
      BY FS_Interval
    <2>2. IsFiniteSet(T)
      BY <2>1, FS_Subset
    <2>3. T \subseteq Nat
      OBVIOUS
    <2> QED BY <2>2, <2>3
  <1>2. T # {} => Max(T) \in T
    BY <1>1, MaxMember
  <1>3. PICK U : U = T \cup {n + 1}
    OBVIOUS
  <1>4. U \subseteq Nat /\ n + 1 \in U /\ \A y \in U : y <= n + 1
    BY <1>3
  <1>5. Max(U) = n + 1
    BY <1>4, MaxIs
  <1> QED BY <1>2, <1>3, <1>5

(* What one more piece does to the accumulator of each index. *)
LEMMA AccMore ==
    ASSUME NEW C, NEW ps \in Seq(C), NEW tc \in C, NEW i,
           \A p \in C : p.arguments \in Seq(STRING)
    PROVE  /\ Indices(Append(ps, tc)) = Indices(ps) \cup {tc.index}
           /\ i \notin Indices(ps) => AccAt(C, ps, i) = ToolAcc
           /\ i # tc.index => AccAt(C, Append(ps, tc), i) = AccAt(C, ps, i)
           /\ i = tc.index => AccAt(C, Append(ps, tc), i) =
                [call_id   |-> IF tc.id = NoId THEN AccAt(C, ps, i).call_id ELSE tc.id,
                 name      |-> IF tc.name = "" THEN AccAt(C, ps, i).name ELSE tc.name,
                 arguments |-> AccAt(C, ps, i).arguments \o tc.arguments]
  <1> DEFINE q == Append(ps, tc)
             n == Len(ps)
             f == ArgumentsIf(C, i)
  <1>1. /\ q \in Seq(C) /\ Len(q) = n + 1 /\ n \in Nat /\ q[n + 1] = tc
        /\ \A k \in 1..n : q[k] = ps[k] /\ ps[k] \in C
    BY AppendPlaces
  <1>2. Maps(f, C, STRING) /\ f[tc] = IF tc.index = i THEN tc.arguments ELSE <<>>
    <2>1. \A p \in C : f[p] = IF p.index = i THEN p.arguments ELSE <<>>
      BY DEF ArgumentsIf
    <2>2. \A p \in C : f[p] \in Seq(STRING)
      <3>1. <<>> \in Seq(STRING)
        OBVIOUS
      <3> QED BY <2>1, <3>1
    <2>3. f \in [C -> Seq(STRING)]
      BY <2>2 DEF ArgumentsIf
    <2> QED BY <2>1, <2>3 DEF Maps
  <1> HIDE DEF f
  <1>3. Joined(f, q) = Joined(f, ps) \o f[tc]
    <2>1. Maps(f, C, STRING)
      BY <1>2
    <2> QED BY <2>1, JoinedMore
  <1>31. Joined(f, ps) \in Seq(STRING)
    BY <1>2, JoinedMore
  <1> HIDE DEF q, n
  <1>4. \A k : k \in 1..(n + 1) <=> k \in 1..n \/ k = n + 1
    BY <1>1
  <1>5. Indices(q) = Indices(ps) \cup {tc.index}
    BY <1>1, <1>4 DEF Indices, n
  <1>6. IdsAt(ps, i) \subseteq 1..n /\ NamesAt(ps, i) \subseteq 1..n
    BY DEF IdsAt, NamesAt, n
  <1>7. IdsAt(q, i) = IF tc.index = i /\ tc.id # NoId THEN IdsAt(ps, i) \cup {n + 1} ELSE IdsAt(ps, i)
    BY <1>1, <1>4 DEF IdsAt, n
  <1>8. NamesAt(q, i) = IF tc.index = i /\ tc.name # "" THEN NamesAt(ps, i) \cup {n + 1} ELSE NamesAt(ps, i)
    BY <1>1, <1>4 DEF NamesAt, n
  <1>9. (IF IdsAt(q, i) = {} THEN NoId ELSE q[Max(IdsAt(q, i))].id)
          = IF tc.index = i /\ tc.id # NoId THEN tc.id
            ELSE IF IdsAt(ps, i) = {} THEN NoId ELSE ps[Max(IdsAt(ps, i))].id
    <2>1. PICK T : T = IdsAt(ps, i)
      OBVIOUS
    <2>2. (T # {} => Max(T) \in T) /\ Max(T \cup {n + 1}) = n + 1
      BY <1>1, <1>6, <2>1, LastPlace
    <2>3. T # {} => q[Max(T)] = ps[Max(T)]
      BY <1>1, <1>6, <2>1, <2>2
    <2> QED BY <1>1, <1>7, <2>1, <2>2, <2>3
  <1>10. (IF NamesAt(q, i) = {} THEN "" ELSE q[Max(NamesAt(q, i))].name)
          = IF tc.index = i /\ tc.name # "" THEN tc.name
            ELSE IF NamesAt(ps, i) = {} THEN "" ELSE ps[Max(NamesAt(ps, i))].name
    <2>1. PICK T : T = NamesAt(ps, i)
      OBVIOUS
    <2>2. (T # {} => Max(T) \in T) /\ Max(T \cup {n + 1}) = n + 1
      BY <1>1, <1>6, <2>1, LastPlace
    <2>3. T # {} => q[Max(T)] = ps[Max(T)]
      BY <1>1, <1>6, <2>1, <2>2
    <2> QED BY <1>1, <1>8, <2>1, <2>2, <2>3
  <1>11. ASSUME i \notin Indices(ps) PROVE AccAt(C, ps, i) = ToolAcc
    <2>1. \A k \in 1..Len(ps) : ps[k].index # i
      BY <1>11 DEF Indices
    <2>2. IdsAt(ps, i) = {} /\ NamesAt(ps, i) = {}
      BY <2>1 DEF IdsAt, NamesAt
    <2>3. \A k \in 1..Len(ps) : f[ps[k]] = <<>>
      BY <1>1, <2>1 DEF f, ArgumentsIf, n
    <2>4. Joined(f, ps) = <<>>
      BY <1>2, <2>3, JoinedNothing
    <2> QED BY <2>2, <2>4 DEF AccAt, ToolAcc, f
  <1>12. ASSUME i # tc.index PROVE AccAt(C, q, i) = AccAt(C, ps, i)
    <2>1. Joined(f, q) = Joined(f, ps)
      BY <1>2, <1>3, <1>31, <1>12
    <2> QED BY <1>9, <1>10, <1>12, <2>1 DEF AccAt, f
  <1>13. ASSUME i = tc.index
         PROVE  AccAt(C, q, i) =
                  [call_id   |-> IF tc.id = NoId THEN AccAt(C, ps, i).call_id ELSE tc.id,
                   name      |-> IF tc.name = "" THEN AccAt(C, ps, i).name ELSE tc.name,
                   arguments |-> AccAt(C, ps, i).arguments \o tc.arguments]
    <2>1. Joined(f, q) = Joined(f, ps) \o tc.arguments
      BY <1>2, <1>3, <1>13
    <2> QED BY <1>9, <1>10, <1>13, <2>1 DEF AccAt, f
  <1> QED BY <1>5, <1>11, <1>12, <1>13 DEF q

(* AddToolCall keeps the reference accumulators up with one more piece. *)
LEMMA RefAccsMore ==
    ASSUME NEW C, NEW ps \in Seq(C), NEW tc \in C, \A p \in C : p.arguments \in Seq(STRING)
    PROVE  RefAccs(Append(ps, tc)) = AddToolCall(RefAccs(ps), tc)
  <1> DEFINE q == Append(ps, tc)
             old == RefAccs(ps)
  <1>1. q \in Seq(C)
    OBVIOUS
  <1>2. old = [i \in Indices(ps) |-> AccAt(C, ps, i)]
    BY RefAccsAre
  <1>3. RefAccs(q) = [i \in Indices(q) |-> AccAt(C, q, i)]
    BY <1>1, RefAccsAre
  <1>4. Indices(q) = Indices(ps) \cup {tc.index}
    BY AccMore
  <1> DEFINE acc == IF tc.index \in DOMAIN old THEN old[tc.index] ELSE ToolAcc
             new == [call_id   |-> IF tc.id = NoId THEN acc.call_id ELSE tc.id,
                     name      |-> IF tc.name = "" THEN acc.name ELSE tc.name,
                     arguments |-> acc.arguments \o tc.arguments]
  <1>5. AddToolCall(old, tc) =
          [i \in DOMAIN old \cup {tc.index} |-> IF i = tc.index THEN new ELSE old[i]]
    BY DEF AddToolCall
  <1>6. acc = AccAt(C, ps, tc.index)
    <2>1. tc.index \notin Indices(ps) => AccAt(C, ps, tc.index) = ToolAcc
      BY AccMore
    <2> QED BY <1>2, <2>1
  <1>7. AccAt(C, q, tc.index) = new
    <2>1. PICK a : a = AccAt(C, ps, tc.index)
      OBVIOUS
    <2>2. AccAt(C, q, tc.index) = [call_id   |-> IF tc.id = NoId THEN a.call_id ELSE tc.id,
                     name      |-> IF tc.name = "" THEN a.name ELSE tc.name,
                     arguments |-> a.arguments \o tc.arguments]
      BY <2>1, AccMore
    <2>3. acc = a
      BY <1>6, <2>1
    <2> HIDE DEF acc, q
    <2> QED BY <2>2, <2>3
  <1> HIDE DEF old, q, acc, new
  <1>8. \A i \in Indices(ps) : i # tc.index => AccAt(C, q, i) = old[i]
    <2>1. \A i : i # tc.index => AccAt(C, q, i) = AccAt(C, ps, i)
      BY AccMore DEF q
    <2> QED BY <1>2, <2>1
  <1>9. DOMAIN old = Indices(ps)
    BY <1>2
  <1>10. ASSUME NEW i \in Indices(ps) \cup {tc.index}
         PROVE  AccAt(C, q, i) = IF i = tc.index THEN new ELSE old[i]
    BY <1>7, <1>8
  <1>11. RefAccs(q) = AddToolCall(old, tc)
    BY <1>3, <1>4, <1>5, <1>9, <1>10
  <1> QED BY <1>11 DEF q, old

(* AddToolCalls keeps them up with all the pieces of a chunk. *)
LEMMA AccsOfChunk ==
    ASSUME NEW C, NEW ps \in Seq(C), NEW tcs \in Seq(C), \A p \in C : p.arguments \in Seq(STRING)
    PROVE  AddToolCalls(RefAccs(ps), tcs) = RefAccs(ps \o tcs)
  <1> DEFINE a == RefAccs(ps)
             D == DOMAIN tcs
             Step(g) == [s \in SUBSET D |->
                           IF s = {} THEN a ELSE AddToolCall(g[s \ {Max(s)}], tcs[Max(s)])]
             iter == CHOOSE g : g = Step(g)
             n == Len(tcs)
             P(k) == SubSeq(tcs, 1, k)
             T == {k \in 0..n : iter[1..k] = RefAccs(ps \o P(k))}
  <1>1. D = 1..n /\ n \in Nat
    OBVIOUS
  <1>2. D \in SUBSET Nat /\ IsFiniteSet(D)
    BY <1>1, FS_Interval
  <1>3. \E g : FoldsUp(g, D, a, tcs)
    <2> HIDE DEF D, a
    <2> QED BY <1>2, FoldsExist
  <1>4. \E g : g = Step(g)
    BY <1>3 DEF FoldsUp
  <1>5. FoldsUp(iter, D, a, tcs)
    BY <1>4 DEF FoldsUp
  <1>6. AddToolCalls(a, tcs) = iter[D]
    BY DEF AddToolCalls, FoldLeft, MapThenFoldSet
  <1> HIDE DEF D, a, iter, n
  <1>7. 0 \in T
    <2>1. iter[{}] = a
      BY <1>5 DEF FoldsUp
    <2>2. 1..0 = {} /\ P(0) = <<>> /\ ps \o <<>> = ps /\ 0 \in 0..n
      BY <1>1
    <2> HIDE DEF P
    <2>3. ps \o P(0) = ps
      BY <2>2
    <2>4. iter[1..0] = RefAccs(ps \o P(0))
      BY <2>1, <2>2, <2>3 DEF a
    <2> QED BY <2>2, <2>4
  <1>8. ASSUME NEW k \in 0..(n - 1), k \in T PROVE k + 1 \in T
    <2>1. /\ k + 1 \in 1..n /\ k + 1 \in 0..n /\ tcs[k + 1] \in C /\ P(k) \in Seq(C)
          /\ P(k + 1) = Append(P(k), tcs[k + 1])
      BY <1>1 DEF n
    <2>20. \A p \in Seq(C) : ps \o p \in Seq(C)
      OBVIOUS
    <2>2. PICK q \in Seq(C) : q = ps \o P(k)
      <3> HIDE DEF P
      <3> QED BY <2>1, <2>20
    <2>3. PICK e \in C : e = tcs[k + 1]
      BY <2>1
    <2>4. ps \o P(k + 1) = Append(q, e)
      BY <2>1, <2>2, <2>3, SMTT(60)
    <2> HIDE DEF P
    <2>5. PICK s : s = 1..(k + 1)
      OBVIOUS
    <2>60. k \in Nat /\ k + 1 <= n /\ s \subseteq Nat /\ k + 1 \in s /\ \A y \in s : y <= k + 1
      BY <1>1, <2>1, <2>5
    <2>6. s # {} /\ s \in SUBSET D /\ s \subseteq Nat /\ k + 1 \in s /\ \A y \in s : y <= k + 1
      <3>1. \A y \in s : y \in 1..n
        BY <1>1, <2>5, <2>60
      <3> QED BY <1>1, <2>60, <3>1
    <2>7. Max(s) = k + 1
      BY <2>1, <2>6, MaxIs
    <2>8. s \ {k + 1} = 1..k
      BY <2>1, <2>5
    <2>9. iter[s] = AddToolCall(iter[s \ {Max(s)}], tcs[Max(s)])
      BY <1>5, <2>6 DEF FoldsUp
    <2>10. iter[s] = AddToolCall(RefAccs(q), e)
      BY <1>8, <2>2, <2>3, <2>7, <2>8, <2>9
    <2>11. RefAccs(Append(q, e)) = AddToolCall(RefAccs(q), e)
      BY RefAccsMore
    <2>12. iter[1..(k + 1)] = RefAccs(ps \o P(k + 1))
      BY <2>4, <2>5, <2>10, <2>11
    <2> QED BY <2>1, <2>12
  <1>9. n \in T
    <2> HIDE DEF T
    <2>1. \A k \in 0..(n - 1) : k \in T => k + 1 \in T
      BY <1>8
    <2>2. \A k \in 0..n : k \in T
      BY <1>1, <1>7, <2>1, UpTo
    <2> QED BY <1>1, <2>2
  <1>10. P(n) = tcs
    BY DEF n
  <1> QED BY <1>1, <1>6, <1>9, <1>10 DEF a

-----------------------------------------------------------------------------
(* The content blocks, one event after the other. *)

(* The same for the events D of the anthropic connector. *)
IsStart(e, i) == e.type = "content_block_start" /\ e.index = i /\ e.tool_use
IsFragment(e, i) == e.type = "input_json_delta" /\ e.index = i
Touches(e) == e.type \in {"content_block_start", "input_json_delta"}
Touched(D) == {D[k].index : k \in {k \in 1..Len(D) : Touches(D[k])}}
StartsAt(D, i) == {k \in 1..Len(D) : IsStart(D[k], i)}
FragmentsIf(S, i) == [e \in S |-> IF IsFragment(e, i) THEN e.partial_json ELSE <<>>]
BlockAt(S, D, i) ==
  [is_tool_use  |-> StartsAt(D, i) # {},
   call_id      |-> IF StartsAt(D, i) = {} THEN NoId ELSE D[Max(StartsAt(D, i))].id,
   name         |-> IF StartsAt(D, i) = {} THEN "" ELSE D[Max(StartsAt(D, i))].name,
   partial_json |-> Joined(FragmentsIf(S, i), D)]

(* The reference blocks, index by index. *)
LEMMA RefBlocksAre ==
    ASSUME NEW S, NEW D \in Seq(S)
    PROVE  AnthropicRefBlocks(D) = [i \in Touched(D) |-> BlockAt(S, D, i)]
  <1> DEFINE starts(i) == {k \in 1..Len(D) : /\ D[k].type = "content_block_start"
                                            /\ D[k].index = i /\ D[k].tool_use}
             block(i) == [is_tool_use  |-> starts(i) # {},
                          call_id      |-> IF starts(i) = {} THEN NoId ELSE D[Max(starts(i))].id,
                          name         |-> IF starts(i) = {} THEN "" ELSE D[Max(starts(i))].name,
                          partial_json |-> RefFragments(D, i)]
  <1>1. AnthropicRefBlocks(D) = [i \in Touched(D) |-> block(i)]
    BY DEF AnthropicRefBlocks, Touched, Touches
  <1>2. ASSUME NEW i PROVE block(i) = BlockAt(S, D, i)
    <2>1. starts(i) = StartsAt(D, i)
      BY DEF StartsAt, IsStart
    <2>2. \A k \in 1..Len(D) :
            FragmentsIf(S, i)[D[k]] = IF IsFragment(D[k], i) THEN D[k].partial_json ELSE <<>>
      BY DEF FragmentsIf
    <2>3. [k \in 1..Len(D) |-> FragmentsIf(S, i)[D[k]]]
            = [k \in 1..Len(D) |-> IF IsFragment(D[k], i) THEN D[k].partial_json ELSE <<>>]
      BY <2>2
    <2>4. RefFragments(D, i) = Joined(FragmentsIf(S, i), D)
      BY <2>3 DEF Joined, RefFragments, IsFragment
    <2> HIDE DEF starts
    <2> QED BY <2>1, <2>4 DEF BlockAt
  <1> HIDE DEF block
  <1> QED BY <1>1, <1>2

(* What one more event does to the block of each index. *)
LEMMA BlockMore ==
    ASSUME NEW S, NEW D \in Seq(S), NEW e \in S, NEW i,
           \A x \in S : x.type = "input_json_delta" => x.partial_json \in Seq(STRING)
    PROVE  /\ Touched(Append(D, e)) = IF Touches(e) THEN Touched(D) \cup {e.index} ELSE Touched(D)
           /\ i \notin Touched(D) => BlockAt(S, D, i) = BlockAcc
           /\ BlockAt(S, Append(D, e), i) =
                [is_tool_use  |-> IsStart(e, i) \/ BlockAt(S, D, i).is_tool_use,
                 call_id      |-> IF IsStart(e, i) THEN e.id ELSE BlockAt(S, D, i).call_id,
                 name         |-> IF IsStart(e, i) THEN e.name ELSE BlockAt(S, D, i).name,
                 partial_json |-> BlockAt(S, D, i).partial_json
                                    \o (IF IsFragment(e, i) THEN e.partial_json ELSE <<>>)]
           /\ BlockAt(S, D, i).partial_json \in Seq(STRING)
  <1> DEFINE E == Append(D, e)
             n == Len(D)
             f == FragmentsIf(S, i)
  <1>1. /\ E \in Seq(S) /\ Len(E) = n + 1 /\ n \in Nat /\ E[n + 1] = e
        /\ \A k \in 1..n : E[k] = D[k] /\ D[k] \in S
    BY AppendPlaces
  <1>2. Maps(f, S, STRING) /\ f[e] = IF IsFragment(e, i) THEN e.partial_json ELSE <<>>
    <2>1. \A x \in S : f[x] = IF IsFragment(x, i) THEN x.partial_json ELSE <<>>
      BY DEF FragmentsIf
    <2>2. \A x \in S : f[x] \in Seq(STRING)
      <3>1. <<>> \in Seq(STRING)
        OBVIOUS
      <3> QED BY <2>1, <3>1 DEF IsFragment
    <2>3. f \in [S -> Seq(STRING)]
      BY <2>2 DEF FragmentsIf
    <2> QED BY <2>1, <2>3 DEF Maps
  <1> HIDE DEF f
  <1>3. Joined(f, E) = Joined(f, D) \o f[e]
    <2>1. Maps(f, S, STRING)
      BY <1>2
    <2> QED BY <2>1, JoinedMore
  <1>31. Joined(f, D) \in Seq(STRING)
    BY <1>2, JoinedMore
  <1> HIDE DEF E, n
  <1>4. \A k : k \in 1..(n + 1) <=> k \in 1..n \/ k = n + 1
    BY <1>1
  <1>5. Touched(E) = IF Touches(e) THEN Touched(D) \cup {e.index} ELSE Touched(D)
    <2>1. \A x : x \in Touched(E) <=> \E k \in 1..(n + 1) : Touches(E[k]) /\ x = E[k].index
      BY <1>1 DEF Touched
    <2>2. \A x : x \in Touched(D) <=> \E k \in 1..n : Touches(D[k]) /\ x = D[k].index
      BY <1>1 DEF Touched, n
    <2>3. \A x : x \in Touched(E) <=> (x \in Touched(D) \/ (Touches(e) /\ x = e.index))
      BY <1>1, <1>4, <2>1, <2>2
    <2>4. CASE Touches(e)
      BY <2>3, <2>4
    <2>5. CASE ~Touches(e)
      BY <2>3, <2>5
    <2> QED BY <2>4, <2>5
  <1>6. StartsAt(D, i) \subseteq 1..n
    BY DEF StartsAt, n
  <1>7. StartsAt(E, i) = IF IsStart(e, i) THEN StartsAt(D, i) \cup {n + 1} ELSE StartsAt(D, i)
    <2>1. \A k : k \in StartsAt(E, i) <=> k \in 1..(n + 1) /\ IsStart(E[k], i)
      BY <1>1 DEF StartsAt
    <2>2. \A k : k \in StartsAt(D, i) <=> k \in 1..n /\ IsStart(D[k], i)
      BY <1>1 DEF StartsAt, n
    <2>3. \A k : k \in StartsAt(E, i) <=> (k \in StartsAt(D, i) \/ (IsStart(e, i) /\ k = n + 1))
      BY <1>1, <1>4, <2>1, <2>2
    <2>4. CASE IsStart(e, i)
      BY <2>3, <2>4
    <2>5. CASE ~IsStart(e, i)
      BY <2>3, <2>5
    <2> QED BY <2>4, <2>5
  <1>8. PICK T : T = StartsAt(D, i)
    OBVIOUS
  <1>9. (T # {} => Max(T) \in T) /\ Max(T \cup {n + 1}) = n + 1
    BY <1>1, <1>6, <1>8, LastPlace
  <1>10. T # {} => E[Max(T)] = D[Max(T)]
    BY <1>1, <1>6, <1>8, <1>9
  <1>11. ASSUME i \notin Touched(D) PROVE BlockAt(S, D, i) = BlockAcc
    <2>1. \A k \in 1..Len(D) : Touches(D[k]) => D[k].index # i
      BY <1>11 DEF Touched
    <2>2. StartsAt(D, i) = {}
      BY <2>1 DEF StartsAt, IsStart, Touches
    <2>3. \A k \in 1..Len(D) : f[D[k]] = <<>>
      BY <1>1, <2>1 DEF f, FragmentsIf, n, IsFragment, Touches
    <2>4. Joined(f, D) = <<>>
      BY <1>2, <2>3, JoinedNothing
    <2> QED BY <2>2, <2>4 DEF BlockAt, BlockAcc, f
  <1>12. BlockAt(S, D, i).partial_json = Joined(f, D)
    BY DEF BlockAt, f
  <1>13. BlockAt(S, E, i) =
           [is_tool_use  |-> IsStart(e, i) \/ T # {},
            call_id      |-> IF IsStart(e, i) THEN e.id ELSE IF T = {} THEN NoId ELSE D[Max(T)].id,
            name         |-> IF IsStart(e, i) THEN e.name ELSE IF T = {} THEN "" ELSE D[Max(T)].name,
            partial_json |-> Joined(f, D) \o f[e]]
    <2>1. CASE IsStart(e, i)
      <3>1. StartsAt(E, i) = T \cup {n + 1} /\ T \cup {n + 1} # {}
        BY <1>7, <1>8, <2>1
      <3> QED BY <1>1, <1>3, <1>9, <2>1, <3>1 DEF BlockAt, f
    <2>2. CASE ~IsStart(e, i)
      <3>1. StartsAt(E, i) = T
        BY <1>7, <1>8, <2>2
      <3> QED BY <1>3, <1>10, <2>2, <3>1 DEF BlockAt, f
    <2> QED BY <2>1, <2>2
  <1>14. /\ BlockAt(S, D, i).is_tool_use = (T # {})
         /\ BlockAt(S, D, i).call_id = IF T = {} THEN NoId ELSE D[Max(T)].id
         /\ BlockAt(S, D, i).name = IF T = {} THEN "" ELSE D[Max(T)].name
    BY <1>8 DEF BlockAt
  <1>15. BlockAt(S, E, i) =
                [is_tool_use  |-> IsStart(e, i) \/ BlockAt(S, D, i).is_tool_use,
                 call_id      |-> IF IsStart(e, i) THEN e.id ELSE BlockAt(S, D, i).call_id,
                 name         |-> IF IsStart(e, i) THEN e.name ELSE BlockAt(S, D, i).name,
                 partial_json |-> BlockAt(S, D, i).partial_json
                                    \o (IF IsFragment(e, i) THEN e.partial_json ELSE <<>>)]
    BY <1>2, <1>12, <1>13, <1>14
  <1> QED BY <1>5, <1>11, <1>12, <1>15, <1>31 DEF E

-----------------------------------------------------------------------------
(* What a translator holds of the payloads D it was given. *)

(* The state st of a translator says what the payloads D say. *)
Holds(connector, st, D) ==
  IF connector = "chat" THEN st.tool_calls = ChatRefAccs(D)
  ELSE st.blocks = AnthropicRefBlocks(D)

PieceSet(S) == UNION {Range(d.tool_calls) : d \in S}

(* The pieces of the chunks of a feed. *)
LEMMA PieceSetIs ==
    ASSUME NEW S, \A d \in S : Payload("chat", d)
    PROVE  /\ \A d \in S : d.tool_calls \in Seq(PieceSet(S))
           /\ \A p \in PieceSet(S) :
                p.index \in Int /\ p.arguments \in Seq(STRING) /\ p.id.from # "call"
  <1>1. ASSUME NEW d \in S PROVE d.tool_calls \in Seq(PieceSet(S))
    <2>1. d.tool_calls \in Seq(Range(d.tool_calls)) /\ Range(d.tool_calls) \subseteq PieceSet(S)
      BY DEF Payload, PieceSet
    <2>2. PICK X, q : X = Range(d.tool_calls) /\ q = d.tool_calls
      OBVIOUS
    <2>3. q \in Seq(X) /\ X \subseteq PieceSet(S)
      BY <2>1, <2>2
    <2>4. q \in Seq(PieceSet(S))
      BY <2>3
    <2> QED BY <2>2, <2>4
  <1>2. \A p \in PieceSet(S) :
          p.index \in Int /\ p.arguments \in Seq(STRING) /\ p.id.from # "call"
    BY DEF Payload, PieceSet
  <1> QED BY <1>1, <1>2

(* push_chunk keeps the chat translator up with the reference reading. *)
LEMMA ChatHolds ==
    ASSUME NEW S, \A d \in S : Payload("chat", d), NEW D \in Seq(S), NEW d \in S,
           NEW st, Accumulates("chat", st), Holds("chat", st, D), PushChunk(st, d).ok
    PROVE  /\ Holds("chat", PushChunk(st, d).state, Append(D, d))
           /\ PushChunk(st, d).events = ChatSays(d)
  <1> DEFINE r == PushChunk(st, d)
             head == [st EXCEPT !.response_id = IF @ = NoId THEN d.id ELSE @,
                                !.usage = IF d.usage = {} THEN @ ELSE d.usage]
             body == [head EXCEPT
                        !.finish_reason = IF d.finish_reason = "" THEN @ ELSE d.finish_reason,
                        !.text = @ \o d.content,
                        !.tool_calls = AddToolCalls(@, d.tool_calls)]
             C == PieceSet(S)
             ps == RefPieces(D)
  <1>1. "tool_calls" \in DOMAIN st /\ st.tool_calls = RefAccs(ps)
    BY DEF Accumulates, Holds, ChatRefAccs
  <1>2. DOMAIN head = DOMAIN st /\ head.tool_calls = st.tool_calls
    BY <1>1
  <1>3. body.tool_calls = AddToolCalls(st.tool_calls, d.tool_calls)
    BY <1>1, <1>2
  <1>4. /\ ~d.choice => r.state = head /\ r.events = <<>>
        /\ d.choice => /\ r.state = body
                       /\ r.events = IF d.content = <<>> THEN <<>> ELSE <<OutputTextDelta(d.content)>>
    BY DEF PushChunk
  <1> HIDE DEF r, head, body
  <1>5. /\ \A x \in S : x.tool_calls \in Seq(C)
        /\ \A p \in C : p.arguments \in Seq(STRING)
    BY PieceSetIs
  <1> HIDE DEF C
  <1>6. ps \in Seq(C)
    BY <1>5, Pieces
  <1>7. RefPieces(Append(D, d)) = ps \o ChatGives(d)
    BY <1>5, Pieces
  <1> HIDE DEF ps
  <1>8. CASE ~d.choice
    <2>1. RefPieces(Append(D, d)) = ps
      BY <1>6, <1>7, <1>8 DEF ChatGives
    <2> QED BY <1>1, <1>2, <1>4, <1>8, <2>1 DEF Holds, ChatRefAccs, ChatSays, r
  <1>9. CASE d.choice
    <2>1. RefPieces(Append(D, d)) = ps \o d.tool_calls
      BY <1>7, <1>9 DEF ChatGives
    <2>2. AddToolCalls(RefAccs(ps), d.tool_calls) = RefAccs(ps \o d.tool_calls)
      BY <1>5, <1>6, AccsOfChunk
    <2> QED BY <1>1, <1>3, <1>4, <1>9, <2>1, <2>2 DEF Holds, ChatRefAccs, ChatSays, r
  <1> QED BY <1>8, <1>9

(* push_event keeps the anthropic translator up with it. *)
LEMMA AnthropicHolds ==
    ASSUME NEW S, \A d \in S : Payload("anthropic", d), NEW D \in Seq(S), NEW e \in S,
           NEW st, Accumulates("anthropic", st), Holds("anthropic", st, D)
    PROVE  /\ Holds("anthropic", PushEvent(st, e).state, Append(D, e))
           /\ PushEvent(st, e).events = AnthropicSays(e)
  <1> DEFINE r == PushEvent(st, e)
             E == Append(D, e)
             i == e.index
  <1>1. "blocks" \in DOMAIN st
    BY DEF Accumulates
  <1>2. r.events = AnthropicSays(e)
    BY DEF PushEvent, AnthropicSays
  <1>3. E \in Seq(S) /\ \A x \in S : x.type = "input_json_delta" => x.partial_json \in Seq(STRING)
    BY DEF Payload
  <1>4. st.blocks = [j \in Touched(D) |-> BlockAt(S, D, j)]
    BY RefBlocksAre DEF Holds
  <1>5. AnthropicRefBlocks(E) = [j \in Touched(E) |-> BlockAt(S, E, j)]
    BY <1>3, RefBlocksAre
  <1>6. Touched(E) = IF Touches(e) THEN Touched(D) \cup {i} ELSE Touched(D)
    BY <1>3, BlockMore
  <1>7. \A j : j \notin Touched(D) => BlockAt(S, D, j) = BlockAcc
    BY <1>3, BlockMore
  <1>8. ASSUME NEW j
        PROVE  /\ BlockAt(S, E, j) =
                    [is_tool_use  |-> IsStart(e, j) \/ BlockAt(S, D, j).is_tool_use,
                     call_id      |-> IF IsStart(e, j) THEN e.id ELSE BlockAt(S, D, j).call_id,
                     name         |-> IF IsStart(e, j) THEN e.name ELSE BlockAt(S, D, j).name,
                     partial_json |-> BlockAt(S, D, j).partial_json
                                        \o (IF IsFragment(e, j) THEN e.partial_json ELSE <<>>)]
               /\ BlockAt(S, D, j).partial_json \in Seq(STRING)
    BY <1>3, BlockMore
  <1>9. ASSUME NEW j
        PROVE  BlockAt(S, D, j) = [is_tool_use |-> BlockAt(S, D, j).is_tool_use,
                                   call_id |-> BlockAt(S, D, j).call_id,
                                   name |-> BlockAt(S, D, j).name,
                                   partial_json |-> BlockAt(S, D, j).partial_json]
               /\ BlockAt(S, D, j).is_tool_use \in BOOLEAN
    BY DEF BlockAt
  <1>10. ASSUME NEW j, ~IsStart(e, j), ~IsFragment(e, j)
         PROVE  BlockAt(S, E, j) = BlockAt(S, D, j)
    <2>1. PICK b : b = BlockAt(S, D, j)
      OBVIOUS
    <2>2. /\ b = [is_tool_use |-> b.is_tool_use, call_id |-> b.call_id, name |-> b.name,
                  partial_json |-> b.partial_json]
          /\ b.is_tool_use \in BOOLEAN /\ b.partial_json \in Seq(STRING)
      BY <1>8, <1>9, <2>1
    <2>3. b.partial_json \o <<>> = b.partial_json
      BY <2>2
    <2>4. BlockAt(S, E, j) = [is_tool_use |-> b.is_tool_use, call_id |-> b.call_id, name |-> b.name,
                  partial_json |-> b.partial_json]
      BY <1>8, <1>10, <2>1, <2>2, <2>3
    <2> QED BY <2>1, <2>2, <2>4
  <1>11. Block(st, i) = BlockAt(S, D, i)
    BY <1>4, <1>7 DEF Block
  <1> HIDE DEF E, i
  <1>12. CASE ~Touches(e)
    <2>1. r.state.blocks = st.blocks
      <3>1. CASE e.type = "message_start"
        <4>1. r.state = MessageStart(st, e)
          BY <3>1 DEF PushEvent
        <4> HIDE DEF r
        <4> QED BY <1>1, <4>1 DEF MessageStart
      <3>2. CASE e.type = "text_delta"
        <4>1. r.state = [st EXCEPT !.text = @ \o e.text]
          BY <3>2 DEF PushEvent
        <4> HIDE DEF r
        <4> QED BY <1>1, <4>1
      <3>3. CASE e.type = "message_delta"
        <4>1. r.state = MessageDelta(st, e)
          BY <3>3 DEF PushEvent
        <4> HIDE DEF r
        <4> QED BY <1>1, <4>1 DEF MessageDelta
      <3>4. CASE e.type \notin {"message_start", "text_delta", "message_delta"}
        BY <1>12, <3>4 DEF PushEvent, Touches
      <3> QED BY <3>1, <3>2, <3>3, <3>4
    <2>2. \A j : ~IsStart(e, j) /\ ~IsFragment(e, j)
      BY <1>12 DEF IsStart, IsFragment, Touches
    <2> HIDE DEF r
    <2>3. Touched(E) = Touched(D) /\ \A j : BlockAt(S, E, j) = BlockAt(S, D, j)
      BY <1>6, <1>10, <1>12, <2>2
    <2>4. AnthropicRefBlocks(E) = st.blocks
      BY <1>4, <1>5, <2>3
    <2> QED BY <1>2, <2>1, <2>4 DEF Holds, E, r
  <1>13. CASE Touches(e)
    <2>1. PICK acc : acc = BlockAt(S, E, i)
      OBVIOUS
    <2>2. r.state = WithBlock(st, i, acc)
      <3>1. PICK b : b = BlockAt(S, D, i)
        OBVIOUS
      <3>2. /\ b = [is_tool_use |-> b.is_tool_use, call_id |-> b.call_id, name |-> b.name,
                    partial_json |-> b.partial_json]
            /\ b.is_tool_use \in BOOLEAN /\ b.partial_json \in Seq(STRING)
            /\ b.partial_json \o <<>> = b.partial_json
        <4>1. b.partial_json \in Seq(STRING)
          BY <1>8, <3>1
        <4>2. b.partial_json \o <<>> = b.partial_json
          BY <4>1
        <4> QED BY <1>9, <3>1, <4>1, <4>2
      <3>20. DOMAIN b = {"is_tool_use", "call_id", "name", "partial_json"}
        BY <3>2
      <3>3. acc = [is_tool_use |-> IsStart(e, i) \/ b.is_tool_use,
                   call_id |-> IF IsStart(e, i) THEN e.id ELSE b.call_id,
                   name |-> IF IsStart(e, i) THEN e.name ELSE b.name,
                   partial_json |-> b.partial_json \o (IF IsFragment(e, i) THEN e.partial_json ELSE <<>>)]
        BY <1>8, <2>1, <3>1
      <3>4. CASE e.type = "content_block_start"
        <4>1. r.state = BlockStart(st, e)
          BY <3>4 DEF PushEvent
        <4>2. BlockStart(st, e) = WithBlock(st, i,
                IF e.tool_use THEN [b EXCEPT !.is_tool_use = TRUE, !.call_id = e.id, !.name = e.name]
                ELSE b)
          BY <1>11, <3>1 DEF BlockStart, i
        <4>3. (IsStart(e, i) <=> e.tool_use) /\ ~IsFragment(e, i)
          BY <3>4 DEF IsStart, IsFragment, i
        <4>4. CASE e.tool_use
          <5>1. acc = [is_tool_use |-> TRUE, call_id |-> e.id, name |-> e.name,
                       partial_json |-> b.partial_json]
            BY <3>2, <3>3, <4>3, <4>4
          <5>2. [b EXCEPT !.is_tool_use = TRUE, !.call_id = e.id, !.name = e.name] = acc
            <6>1. PICK z : z = [b EXCEPT !.is_tool_use = TRUE, !.call_id = e.id, !.name = e.name]
              OBVIOUS
            <6>2. /\ z = [f \in {"is_tool_use", "call_id", "name", "partial_json"} |-> z[f]]
                  /\ z["is_tool_use"] = TRUE /\ z["call_id"] = e.id /\ z["name"] = e.name
                  /\ z["partial_json"] = b.partial_json
              BY <3>20, <6>1
            <6>3. /\ acc = [f \in {"is_tool_use", "call_id", "name", "partial_json"} |-> acc[f]]
                  /\ acc["is_tool_use"] = TRUE /\ acc["call_id"] = e.id /\ acc["name"] = e.name
                  /\ acc["partial_json"] = b.partial_json
              BY <5>1
            <6> QED BY <6>1, <6>2, <6>3
          <5> QED BY <4>1, <4>2, <4>4, <5>2
        <4>5. CASE ~e.tool_use
          <5>1. acc = [is_tool_use |-> b.is_tool_use, call_id |-> b.call_id, name |-> b.name,
                       partial_json |-> b.partial_json]
            BY <3>2, <3>3, <4>3, <4>5
          <5>2. acc = b
            BY <3>2, <5>1
          <5> QED BY <4>1, <4>2, <4>5, <5>2
        <4> QED BY <4>4, <4>5
      <3>5. CASE e.type = "input_json_delta"
        <4>1. r.state = InputJsonDelta(st, e)
          BY <3>5 DEF PushEvent
        <4>2. InputJsonDelta(st, e) = WithBlock(st, i, [b EXCEPT !.partial_json = @ \o e.partial_json])
          BY <1>11, <3>1 DEF InputJsonDelta, i
        <4>3. ~IsStart(e, i) /\ IsFragment(e, i)
          BY <3>5 DEF IsStart, IsFragment, i
        <4>4. acc = [is_tool_use |-> b.is_tool_use, call_id |-> b.call_id, name |-> b.name,
                     partial_json |-> b.partial_json \o e.partial_json]
          BY <3>2, <3>3, <4>3
        <4>5. acc = [b EXCEPT !.partial_json = @ \o e.partial_json]
          <5>1. PICK z : z = [b EXCEPT !.partial_json = @ \o e.partial_json]
            OBVIOUS
          <5>2. /\ z = [f \in {"is_tool_use", "call_id", "name", "partial_json"} |-> z[f]]
                /\ z["is_tool_use"] = b.is_tool_use /\ z["call_id"] = b.call_id
                /\ z["name"] = b.name /\ z["partial_json"] = b.partial_json \o e.partial_json
            BY <3>20, <5>1
          <5>3. /\ acc = [f \in {"is_tool_use", "call_id", "name", "partial_json"} |-> acc[f]]
                /\ acc["is_tool_use"] = b.is_tool_use /\ acc["call_id"] = b.call_id
                /\ acc["name"] = b.name /\ acc["partial_json"] = b.partial_json \o e.partial_json
            BY <4>4
          <5> QED BY <5>1, <5>2, <5>3
        <4> QED BY <4>1, <4>2, <4>5
      <3> QED BY <1>13, <3>4, <3>5 DEF Touches
    <2> HIDE DEF r
    <2>3. r.state.blocks = [j \in DOMAIN st.blocks \cup {i} |-> IF j = i THEN acc ELSE st.blocks[j]]
      BY <1>1, <2>2 DEF WithBlock
    <2>4. DOMAIN st.blocks = Touched(D) /\ Touched(E) = Touched(D) \cup {i}
      BY <1>4, <1>6, <1>13 DEF i
    <2>5. \A j : j # i => BlockAt(S, E, j) = BlockAt(S, D, j)
      BY <1>10 DEF IsStart, IsFragment, i
    <2>6. \A j \in Touched(D) \cup {i} : BlockAt(S, E, j) = IF j = i THEN acc ELSE st.blocks[j]
      BY <1>4, <2>1, <2>5
    <2>7. AnthropicRefBlocks(E) = r.state.blocks
      BY <1>5, <2>3, <2>4, <2>6
    <2> QED BY <1>2, <2>7 DEF Holds, E, r
  <1> QED BY <1>12, <1>13
(* Everything push() needs to stay true to the payloads D. *)
CanPush(c, S, D, d, tr) ==
  /\ c \in {"chat", "anthropic"} /\ D \in Seq(S) /\ d \in S /\ tr.connector = c
  /\ Accumulates(c, tr.state) /\ Holds(c, tr.state, D) /\ Push(tr, d).ok
  /\ \A x \in S : Payload(c, x)

(* So does push, whichever connector the feed is for. *)
LEMMA PushHolds ==
    ASSUME NEW c, NEW S, NEW D, NEW d, NEW tr, CanPush(c, S, D, d, tr)
    PROVE  /\ Holds(c, Push(tr, d).state, Append(D, d))
           /\ Deltas(c, Append(D, d)) = Deltas(c, D) \o Push(tr, d).events
  <1> SUFFICES ASSUME c \in {"chat", "anthropic"}, D \in Seq(S), d \in S, tr.connector = c,
                      Accumulates(c, tr.state), Holds(c, tr.state, D), Push(tr, d).ok,
                      \A x \in S : Payload(c, x)
               PROVE  /\ Holds(c, Push(tr, d).state, Append(D, d))
                      /\ Deltas(c, Append(D, d)) = Deltas(c, D) \o Push(tr, d).events
    BY DEF CanPush
  <1>1. CASE c = "chat"
    <2>1. Push(tr, d) = PushChunk(tr.state, d)
      BY <1>1 DEF Push
    <2>2. Holds("chat", PushChunk(tr.state, d).state, Append(D, d)) /\ PushChunk(tr.state, d).events = ChatSays(d)
      BY <1>1, <2>1, ChatHolds
    <2>3. ChatRefDeltas(Append(D, d)) = ChatRefDeltas(D) \o ChatSays(d)
      BY ChatDeltas
    <2> QED BY <1>1, <2>1, <2>2, <2>3 DEF Deltas
  <1>2. CASE c = "anthropic"
    <2>1. Push(tr, d) = PushEvent(tr.state, d)
      BY <1>2 DEF Push
    <2>2. Holds("anthropic", PushEvent(tr.state, d).state, Append(D, d)) /\ PushEvent(tr.state, d).events = AnthropicSays(d)
      BY <1>2, <2>1, AnthropicHolds
    <2>3. AnthropicRefDeltas(Append(D, d)) = AnthropicRefDeltas(D) \o AnthropicSays(d)
      BY AnthropicDeltas
    <2> QED BY <1>2, <2>1, <2>2, <2>3 DEF Deltas
  <1> QED BY <1>1, <1>2

(* A translator that was given nothing. *)
LEMMA StartHolds ==
    ASSUME NEW c \in {"chat", "anthropic"}
    PROVE  /\ Holds(c, Translator(c).state, <<>>)
           /\ Deltas(c, <<>>) = <<>>
  <1>1. \A F : [i \in {} |-> F] = <<>>
    OBVIOUS
  <1>2. FlattenSeq(<<>>) = <<>>
    BY DEF FlattenSeq
  <1>3. RefPieces(<<>>) = <<>>
    <2>1. [k \in 1..Len(<<>>) |-> IF <<>>[k].choice THEN <<>>[k].tool_calls ELSE <<>>] = <<>>
      OBVIOUS
    <2> QED BY <1>2, <2>1 DEF RefPieces
  <1>4. RefAccs(<<>>) = <<>>
    <2>1. <<>> \in Seq({}) /\ Indices(<<>>) = {}
      BY DEF Indices
    <2>2. RefAccs(<<>>) = [i \in Indices(<<>>) |-> AccAt({}, <<>>, i)]
      BY <2>1, RefAccsAre
    <2>3. [i \in Indices(<<>>) |-> AccAt({}, <<>>, i)] = <<>>
      BY <2>1
    <2> QED BY <2>2, <2>3
  <1>5. AnthropicRefBlocks(<<>>) = <<>>
    <2>1. <<>> \in Seq({}) /\ Touched(<<>>) = {}
      BY DEF Touched
    <2>2. AnthropicRefBlocks(<<>>) = [i \in Touched(<<>>) |-> BlockAt({}, <<>>, i)]
      BY <2>1, RefBlocksAre
    <2>3. [i \in Touched(<<>>) |-> BlockAt({}, <<>>, i)] = <<>>
      BY <2>1
    <2> QED BY <2>2, <2>3
  <1>6. ChatRefDeltas(<<>>) = <<>>
    <2>1. [k \in 1..Len(<<>>) |-> IF <<>>[k].choice /\ <<>>[k].content # <<>>
                                  THEN <<OutputTextDelta(<<>>[k].content)>> ELSE <<>>] = <<>>
      OBVIOUS
    <2> QED BY <1>2, <2>1 DEF ChatRefDeltas
  <1>7. AnthropicRefDeltas(<<>>) = <<>>
    <2>1. [k \in 1..Len(<<>>) |-> IF <<>>[k].type = "text_delta"
                                  THEN <<OutputTextDelta(<<>>[k].text)>> ELSE <<>>] = <<>>
      OBVIOUS
    <2> QED BY <1>2, <2>1 DEF AnthropicRefDeltas
  <1> QED BY <1>3, <1>4, <1>5, <1>6, <1>7
          DEF Holds, Translator, ChatSseState, AnthropicSseState, ChatRefAccs, Deltas

-----------------------------------------------------------------------------
(* The events of one kind. *)

(* The events of kind k in the stream s. *)
Kinds(s, k) == FlattenSeq([i \in 1..Len(s) |-> IF s[i].kind = k THEN <<s[i]>> ELSE <<>>])

IfKind(S, k) == [e \in S |-> IF e.kind = k THEN <<e>> ELSE <<>>]

(* The events of a kind, as what a function makes of each event. *)
LEMMA KindsAre ==
    ASSUME NEW S, NEW k
    PROVE  /\ Maps(IfKind(S, k), S, S)
           /\ \A s \in Seq(S) : Kinds(s, k) = Joined(IfKind(S, k), s)
  <1>1. Maps(IfKind(S, k), S, S)
    BY DEF Maps, IfKind
  <1>2. ASSUME NEW s \in Seq(S) PROVE Kinds(s, k) = Joined(IfKind(S, k), s)
    <2>1. \A i \in 1..Len(s) : IfKind(S, k)[s[i]] = IF s[i].kind = k THEN <<s[i]>> ELSE <<>>
      BY DEF IfKind
    <2>2. [i \in 1..Len(s) |-> IfKind(S, k)[s[i]]]
            = [i \in 1..Len(s) |-> IF s[i].kind = k THEN <<s[i]>> ELSE <<>>]
      BY <2>1
    <2> QED BY <2>2 DEF Kinds, Joined
  <1> QED BY <1>1, <1>2

(* The events of a kind in two streams are those of each. *)
LEMMA KindsConcat ==
    ASSUME NEW S, NEW k, NEW a \in Seq(S), NEW b \in Seq(S)
    PROVE  /\ Kinds(a \o b, k) = Kinds(a, k) \o Kinds(b, k)
           /\ Kinds(a, k) \in Seq(S)
  <1>1. PICK f : f = IfKind(S, k)
    OBVIOUS
  <1>2. Maps(f, S, S) /\ \A s \in Seq(S) : Kinds(s, k) = Joined(f, s)
    BY <1>1, KindsAre
  <1>3. Joined(f, a \o b) = Joined(f, a) \o Joined(f, b)
    BY <1>2, JoinedConcat
  <1>4. Joined(f, a) \in Seq(S)
    BY <1>2, JoinedSeq
  <1>5. a \o b \in Seq(S)
    OBVIOUS
  <1> QED BY <1>2, <1>3, <1>4, <1>5

(* A stream without events of a kind. *)
LEMMA KindsNone ==
    ASSUME NEW S, NEW k, NEW s \in Seq(S), \A i \in 1..Len(s) : s[i].kind # k
    PROVE  Kinds(s, k) = <<>>
  <1>1. PICK f : f = IfKind(S, k)
    OBVIOUS
  <1>2. Maps(f, S, S) /\ Kinds(s, k) = Joined(f, s)
    BY <1>1, KindsAre
  <1>3. \A i \in 1..Len(s) : f[s[i]] = <<>>
    BY <1>1 DEF IfKind
  <1> QED BY <1>2, <1>3, JoinedNothing

(* A stream of one kind. *)
LEMMA KindsAll ==
    ASSUME NEW S, NEW k, NEW s \in Seq(S), \A i \in 1..Len(s) : s[i].kind = k
    PROVE  Kinds(s, k) = s
  <1>1. PICK f : f = IfKind(S, k)
    OBVIOUS
  <1>2. Maps(f, S, S) /\ Kinds(s, k) = Joined(f, s)
    BY <1>1, KindsAre
  <1>3. \A i \in 1..Len(s) : f[s[i]] = <<s[i]>>
    BY <1>1 DEF IfKind
  <1> DEFINE P(i) == SubSeq(s, 1, i)
             T == {i \in 0..Len(s) : Joined(f, P(i)) = P(i)}
  <1>4. Len(s) \in Nat
    OBVIOUS
  <1>5. 0 \in T
    <2>1. P(0) = <<>> /\ 0 \in 0..Len(s)
      BY <1>4
    <2>2. Joined(f, P(0)) = P(0)
      BY <2>1, JoinedNone
    <2> QED BY <2>1, <2>2
  <1>6. ASSUME NEW i \in 0..(Len(s) - 1), i \in T PROVE i + 1 \in T
    <2>1. /\ i + 1 \in 1..Len(s) /\ i + 1 \in 0..Len(s) /\ s[i + 1] \in S /\ P(i) \in Seq(S)
          /\ P(i + 1) = Append(P(i), s[i + 1])
      OBVIOUS
    <2>2. PICK p \in Seq(S) : p = P(i)
      BY <2>1
    <2>3. PICK e \in S : e = s[i + 1]
      BY <2>1
    <2> HIDE DEF P
    <2>4. Joined(f, Append(p, e)) = Joined(f, p) \o f[e]
      BY <1>2, JoinedMore
    <2>5. Joined(f, p) = p
      BY <1>6, <2>2
    <2>51. f[e] = <<e>>
      BY <1>3, <2>1, <2>3
    <2>52. Append(p, e) = p \o <<e>>
      <3> HIDE DEF T
      <3> QED OBVIOUS
    <2>53. Joined(f, Append(p, e)) = Append(p, e)
      BY <2>4, <2>5, <2>51, <2>52
    <2>54. P(i + 1) = Append(p, e)
      BY <2>1, <2>2, <2>3
    <2>6. Joined(f, P(i + 1)) = P(i + 1)
      BY <2>53, <2>54
    <2> QED BY <2>1, <2>6
  <1>7. Len(s) \in T
    <2> HIDE DEF T
    <2>1. \A i \in 0..(Len(s) - 1) : i \in T => i + 1 \in T
      BY <1>6
    <2>2. \A i \in 0..Len(s) : i \in T
      BY <1>4, <1>5, <2>1, UpTo
    <2> QED BY <1>4, <2>2
  <1>8. P(Len(s)) = s
    OBVIOUS
  <1> QED BY <1>2, <1>7, <1>8

(* The calls a translator would emit now, and what finish() is made of. *)
Held(tr) ==
  IF tr.connector = "chat" THEN ChatCalls(tr.state.tool_calls) ELSE AnthropicCalls(tr.state.blocks)

IsFinish(n, done, S) ==
  /\ DOMAIN Held(translator) = 1..n
  /\ Held(translator) \in Seq(S)
  /\ \A k \in 1..n : Held(translator)[k].kind = "call"
  /\ done.kind = "completed"
  /\ Finish(translator) =
               Held(translator) \o (IF translator.state.text = <<>> THEN <<>>
                            ELSE <<MessageDone(translator.state.text)>>) \o <<done>>

(* finish() emits the calls held, the message if there is text, and completed. *)
LEMMA FinishParts ==
    ASSUME TranslatorInv
    PROVE  \E n \in Nat : \E done, S : IsFinish(n, done, S)
<1> DEFINE st == translator.state
           text == st.text
           msg == IF text = <<>> THEN <<>> ELSE <<MessageDone(text)>>
<1>1. CASE translator.connector = "chat"
  <2> DEFINE calls == ChatCalls(st.tool_calls)
             n == Cardinality(DOMAIN st.tool_calls)
             done == Completed(IF st.response_id = NoId
                               THEN SynthId("resp", Cardinality({i \in DOMAIN st.tool_calls :
                                                     st.tool_calls[i].call_id = NoId}) + 1)
                               ELSE st.response_id,
                               {ChatUsage(u) : u \in st.usage},
                               ChatEndTurn(st.finish_reason))
  <2>1. n \in Nat
    BY <1>1, FS_CardinalityType DEF TranslatorInv, Accumulates
  <2>2. /\ DOMAIN calls = 1..n
        /\ \A k \in 1..n : calls[k].kind = "call"
    BY DEF ChatCalls, FunctionCallDone
  <2>3. calls = [k \in 1..n |-> calls[k]]
    BY DEF ChatCalls
  <2>4. done.kind = "completed"
    BY DEF Completed
  <2>5. Finish(translator) = calls \o msg \o <<done>>
    BY <1>1 DEF Finish, ChatFinish
  <2>6. Held(translator) = calls
    BY <1>1 DEF Held
  <2> HIDE DEF calls, n, done, msg
  <2>7. calls \in Seq({calls[k] : k \in 1..n})
    BY <2>1, <2>3
  <2>8. Held(translator) \in Seq({calls[k] : k \in 1..n})
    BY <2>6, <2>7
  <2>9. /\ DOMAIN Held(translator) = 1..n
        /\ \A k \in 1..n : Held(translator)[k].kind = "call"
        /\ Finish(translator) = Held(translator) \o msg \o <<done>>
    BY <2>2, <2>5, <2>6
  <2> QED
    BY <2>1, <2>4, <2>8, <2>9 DEF msg, IsFinish
<1>2. CASE translator.connector = "anthropic"
  <2> DEFINE tools == ToolBlocks(st.blocks)
             calls == AnthropicCalls(st.blocks)
             n == Cardinality(tools)
             done == Completed(IF st.response_id = NoId
                               THEN SynthId("resp", Cardinality({i \in tools :
                                                     st.blocks[i].call_id = NoId}) + 1)
                               ELSE st.response_id,
                               {[input  |-> st.input_tokens, cached |-> st.cached_input_tokens,
                                 output |-> st.output_tokens,
                                 total  |-> st.cached_input_tokens + st.cache_creation_input_tokens
                                              + st.input_tokens + st.output_tokens]},
                               AnthropicEndTurn(st.stop_reason))
  <2>1. n \in Nat
    <3>1. IsFiniteSet(DOMAIN st.blocks)
      BY <1>2 DEF TranslatorInv, Accumulates
    <3>2. tools \subseteq DOMAIN st.blocks
      BY DEF ToolBlocks
    <3> QED
      BY <3>1, <3>2, FS_Subset, FS_CardinalityType
  <2>2. /\ DOMAIN calls = 1..n
        /\ \A k \in 1..n : calls[k].kind = "call"
    BY DEF AnthropicCalls, FunctionCallDone
  <2>3. calls = [k \in 1..n |-> calls[k]]
    BY DEF AnthropicCalls
  <2>4. done.kind = "completed"
    BY DEF Completed
  <2>5. Finish(translator) = calls \o msg \o <<done>>
    BY <1>2 DEF Finish, AnthropicFinish
  <2>6. Held(translator) = calls
    BY <1>2 DEF Held
  <2> HIDE DEF calls, n, done, msg
  <2>7. calls \in Seq({calls[k] : k \in 1..n})
    BY <2>1, <2>3
  <2>8. Held(translator) \in Seq({calls[k] : k \in 1..n})
    BY <2>6, <2>7
  <2>9. /\ DOMAIN Held(translator) = 1..n
        /\ \A k \in 1..n : Held(translator)[k].kind = "call"
        /\ Finish(translator) = Held(translator) \o msg \o <<done>>
    BY <2>2, <2>5, <2>6
  <2> QED
    BY <2>1, <2>4, <2>8, <2>9 DEF msg, IsFinish
<1> QED
  BY <1>1, <1>2 DEF TranslatorInv

(* What finish() emits has no delta, and its calls are the ones held. *)
LEMMA EndingKinds ==
    ASSUME NEW n \in Nat, NEW calls, NEW text, NEW done, NEW S,
           DOMAIN calls = 1..n, calls \in Seq(S), \A k \in 1..n : calls[k].kind = "call",
           done.kind = "completed", NEW msg, msg = IF text = <<>> THEN <<>> ELSE <<MessageDone(text)>>
    PROVE  /\ IsSeq(calls \o msg \o <<done>>)
           /\ Kinds(calls \o msg \o <<done>>, "delta") = <<>>
           /\ Kinds(calls \o msg \o <<done>>, "call") = calls
  <1>1. PICK m : m = MessageDone(text)
    OBVIOUS
  <1>2. m.kind = "message"
    BY <1>1 DEF MessageDone
  <1>3. PICK U : U = S \cup {m, done}
    OBVIOUS
  <1>4. calls \in Seq(U) /\ Len(calls) = n
    BY <1>3
  <1>5. PICK e : e = <<done>>
    OBVIOUS
  <1>6. e \in Seq(U)
    BY <1>3, <1>5
  <1>7. msg \in Seq(U)
    <2>1. msg = <<>> \/ msg = <<m>>
      BY <1>1
    <2>2. m \in U
      BY <1>3
    <2> QED BY <2>1, <2>2
  <1>8. \A i \in 1..Len(msg) : msg[i].kind = "message"
    <2>1. msg = <<>> \/ msg = <<m>>
      BY <1>1
    <2> QED BY <1>2, <2>1
  <1>9. \A i \in 1..Len(e) : e[i].kind = "completed"
    BY <1>5
  <1>10. \A i \in 1..Len(calls) : calls[i].kind = "call"
    BY <1>4
  <1>101. calls \o msg \in Seq(U)
    BY <1>4, <1>7, ConcatProperties
  <1>11. PICK c \in Seq(U) : c = calls \o msg
    BY <1>101
  <1>12. \A k : Kinds(c \o e, k) = Kinds(c, k) \o Kinds(e, k)
    BY <1>6, KindsConcat
  <1>13. ASSUME NEW k PROVE Kinds(c, k) = Kinds(calls, k) \o Kinds(msg, k)
    <2>1. PICK b \in Seq(U) : b = msg
      BY <1>7
    <2>2. Kinds(calls \o b, k) = Kinds(calls, k) \o Kinds(b, k)
      BY <1>4, KindsConcat
    <2> QED BY <1>11, <2>1, <2>2
  <1>14. Kinds(calls, "call") = calls
    BY <1>4, <1>10, KindsAll
  <1>15. Kinds(calls, "delta") = <<>>
    <2>1. \A i \in 1..Len(calls) : calls[i].kind # "delta"
      BY <1>10
    <2> QED BY <1>4, <2>1, KindsNone
  <1>16. Kinds(msg, "call") = <<>> /\ Kinds(msg, "delta") = <<>>
    <2>1. \A i \in 1..Len(msg) : msg[i].kind # "delta" /\ msg[i].kind # "call"
      BY <1>8
    <2> QED BY <1>7, <2>1, KindsNone
  <1>17. Kinds(e, "call") = <<>> /\ Kinds(e, "delta") = <<>>
    <2>1. \A i \in 1..Len(e) : e[i].kind # "delta" /\ e[i].kind # "call"
      BY <1>9
    <2> QED BY <1>6, <2>1, KindsNone
  <1>18. (calls \o <<>>) \o <<>> = calls /\ (<<>> \o <<>>) \o <<>> = <<>>
    BY <1>4
  <1>19. c \o e \in Seq(U)
    BY <1>6
  <1>20. calls \o msg \o <<done>> = c \o e
    BY <1>5, <1>11
  <1> HIDE <1>11
  <1> QED BY <1>12, <1>13, <1>14, <1>15, <1>16, <1>17, <1>18, <1>19, <1>20 DEF IsSeq

(* What finish() adds to a stream. *)
LEMMA FinishKinds ==
    ASSUME TranslatorInv, NEW D, Holds(translator.connector, translator.state, D)
    PROVE  /\ IsSeq(Finish(translator))
           /\ Kinds(Finish(translator), "delta") = <<>>
           /\ Kinds(Finish(translator), "call") = Calls(translator.connector, D)
  <1>1. Held(translator) = Calls(translator.connector, D)
    BY DEF Held, Holds, Calls, TranslatorInv
  <1>2. PICK n \in Nat : \E done, S : IsFinish(n, done, S)
    BY FinishParts
  <1>21. PICK done, S : IsFinish(n, done, S)
    BY <1>2
  <1>3. PICK calls : calls = Held(translator)
    OBVIOUS
  <1>4. PICK msg : msg = IF translator.state.text = <<>> THEN <<>>
                         ELSE <<MessageDone(translator.state.text)>>
    OBVIOUS
  <1>5. /\ DOMAIN calls = 1..n
        /\ calls \in Seq(S)
        /\ \A k \in 1..n : calls[k].kind = "call"
    BY <1>21, <1>3 DEF IsFinish
  <1>6. Finish(translator) = calls \o msg \o <<done>>
    BY <1>21, <1>3, <1>4 DEF IsFinish
  <1>7. /\ IsSeq(calls \o msg \o <<done>>)
        /\ Kinds(calls \o msg \o <<done>>, "delta") = <<>>
        /\ Kinds(calls \o msg \o <<done>>, "call") = calls
    BY <1>21, <1>4, <1>5, EndingKinds DEF IsFinish
  <1> QED BY <1>1, <1>3, <1>6, <1>7

-----------------------------------------------------------------------------
(* The lines of the wire. *)

(* A piece that is a line of its own, and the payload it carries. *)
Alone(w, i) ==
  /\ w[i] # NL
  /\ i = 1 \/ w[i - 1] = NL
  /\ i < Len(w) /\ w[i + 1] = NL
LineAt(w, i) == IF Alone(w, i) /\ w[i].piece = "json" THEN <<w[i].data>> ELSE <<>>

(* The payloads of the data lines among the first r tokens. *)
Given(w, r) == FlattenSeq([i \in 1..r |-> LineAt(w, i)])

(* Given as FlattenSeq of blocks that do not depend on r. *)
LEMMA GivenIsFlat ==
    ASSUME NEW n \in Nat, NEW w, NEW k \in 0..n
    PROVE  Given(w, k) = Flat([i \in 1..n |-> LineAt(w, i)], k)
  <1> DEFINE b == [i \in 1..n |-> LineAt(w, i)]
  <1>1. [i \in 1..k |-> b[i]] = [i \in 1..k |-> LineAt(w, i)]
    OBVIOUS
  <1> HIDE DEF b
  <1> QED BY <1>1 DEF b, Given, Flat

(* Given, one token after the other. *)
LEMMA GivenSteps ==
    ASSUME NEW n \in Nat, NEW S, NEW w, \A i \in 1..n : LineAt(w, i) \in Seq(S)
    PROVE  /\ Given(w, 0) = <<>>
           /\ \A k \in 0..(n - 1) : Given(w, k + 1) = Given(w, k) \o LineAt(w, k + 1)
           /\ \A k \in 0..n : Given(w, k) \in Seq(S)
  <1>1. PICK b : b = [i \in 1..n |-> LineAt(w, i)]
    OBVIOUS
  <1>2. \A i \in 1..n : b[i] = LineAt(w, i) /\ b[i] \in Seq(S)
    BY <1>1
  <1>3. /\ Flat(b, 0) = <<>>
        /\ \A k \in 0..(n - 1) : Flat(b, k + 1) = Flat(b, k) \o b[k + 1]
        /\ \A k \in 0..n : Flat(b, k) \in Seq(S)
    BY <1>2, FlatSteps
  <1>4. \A k \in 0..n : Given(w, k) = Flat(b, k)
    BY <1>1, GivenIsFlat
  <1>5. \A k \in 0..(n - 1) : k \in 0..n /\ k + 1 \in 0..n /\ k + 1 \in 1..n
    OBVIOUS
  <1>6. \A k \in 0..(n - 1) : Given(w, k + 1) = Given(w, k) \o LineAt(w, k + 1)
    BY <1>2, <1>3, <1>4, <1>5
  <1> QED BY <1>3, <1>4, <1>6

(* Given depends on the data lines alone. *)
LEMMA GivenSame ==
    ASSUME NEW n \in Nat, NEW v, NEW w, \A i \in 1..n : LineAt(v, i) = LineAt(w, i)
    PROVE  Given(v, n) = Given(w, n)
  BY DEF Given

(* Empty pieces add nothing. *)
LEMMA FlatSkips ==
    ASSUME NEW n \in Nat, NEW m \in Nat, n <= m, NEW S, NEW b,
           \A i \in 1..m : b[i] \in Seq(S), \A i \in (n + 1)..m : b[i] = <<>>
    PROVE  Flat(b, m) = Flat(b, n)
  <1> DEFINE T == {k \in 0..(m - n) : Flat(b, n + k) = Flat(b, n)}
  <1>1. 0 \in T
    OBVIOUS
  <1>2. /\ \A k \in 0..(m - 1) : Flat(b, k + 1) = Flat(b, k) \o b[k + 1]
        /\ \A k \in 0..m : Flat(b, k) \in Seq(S)
    BY FlatSteps
  <1>3. ASSUME NEW k \in 0..((m - n) - 1), k \in T PROVE k + 1 \in T
    <2>1. /\ n + k \in 0..(m - 1) /\ n \in 0..m /\ k + 1 \in 0..(m - n) /\ (n + k) + 1 = n + (k + 1)
          /\ (n + k) + 1 \in (n + 1)..m
      OBVIOUS
    <2>2. Flat(b, (n + k) + 1) = Flat(b, n + k) \o b[(n + k) + 1]
      BY <1>2, <2>1
    <2>3. b[(n + k) + 1] = <<>> /\ Flat(b, n + k) = Flat(b, n) /\ Flat(b, n) \in Seq(S)
      BY <1>2, <1>3, <2>1
    <2>4. Flat(b, n) \o <<>> = Flat(b, n)
      BY <2>3
    <2> QED BY <2>1, <2>2, <2>3, <2>4
  <1>4. m - n \in T
    <2> HIDE DEF T
    <2>1. \A k \in 0..((m - n) - 1) : k \in T => k + 1 \in T
      BY <1>3
    <2>2. m - n \in Nat /\ m - n \in 0..(m - n)
      OBVIOUS
    <2>3. \A k \in 0..(m - n) : k \in T
      BY <1>1, <2>1, <2>2, UpTo
    <2> QED BY <2>2, <2>3
  <1>5. n + (m - n) = m
    OBVIOUS
  <1> QED BY <1>4, <1>5

(* Tokens that carry no payload add none. *)
LEMMA GivenSkips ==
    ASSUME NEW n \in Nat, NEW m \in Nat, n <= m, NEW S, NEW w,
           \A i \in 1..m : LineAt(w, i) \in Seq(S), \A i \in (n + 1)..m : LineAt(w, i) = <<>>
    PROVE  Given(w, m) = Given(w, n)
  <1>1. PICK b : b = [i \in 1..m |-> LineAt(w, i)]
    OBVIOUS
  <1>2. \A i \in 1..m : b[i] = LineAt(w, i)
    BY <1>1
  <1>3. \A i \in (n + 1)..m : i \in 1..m
    OBVIOUS
  <1>4. (\A i \in 1..m : b[i] \in Seq(S)) /\ \A i \in (n + 1)..m : b[i] = <<>>
    BY <1>2, <1>3
  <1>5. Flat(b, m) = Flat(b, n)
    BY <1>4, FlatSkips
  <1>6. m \in 0..m /\ n \in 0..m
    OBVIOUS
  <1>7. Given(w, m) = Flat(b, m) /\ Given(w, n) = Flat(b, n)
    BY <1>1, <1>6, GivenIsFlat
  <1> QED BY <1>5, <1>7

(* What the upstream may still send does not change the lines up to a       *)
(* newline that has been received.                                          *)
LEMMA AloneStays ==
    ASSUME NEW T, NEW w \in Seq(T), NEW c \in Seq(T), NEW i \in 1..Len(w), i = Len(w) => w[i] = NL
    PROVE  /\ Alone(w \o c, i) <=> Alone(w, i)
           /\ (w \o c)[i] = w[i]
           /\ LineAt(w \o c, i) = LineAt(w, i)
  <1>0. w \o c \in Seq(T)
    BY ConcatProperties
  <1>1. PICK v \in Seq(T) : v = w \o c
    BY <1>0
  <1>11. Len(w) \in Nat /\ Len(c) \in Nat
    OBVIOUS
  <1>12. Len(v) = Len(w) + Len(c)
    BY <1>1, ConcatProperties
  <1>13. \A j \in 1..Len(w) : v[j] = w[j]
    BY <1>1, <1>11, ConcatProperties
  <1>2. Len(v) = Len(w) + Len(c) /\ Len(w) \in Nat /\ Len(c) \in Nat /\ \A j \in 1..Len(w) : v[j] = w[j]
    BY <1>11, <1>12, <1>13
  <1>21. PICK n \in Nat : n = Len(w)
    BY <1>11
  <1>22. /\ i \in 1..n /\ (i # 1 => i - 1 \in 1..n) /\ (i < n => i + 1 \in 1..n)
    BY <1>21
  <1>3. v[i] = w[i] /\ (i # 1 => v[i - 1] = w[i - 1]) /\ (i < Len(w) => v[i + 1] = w[i + 1])
    BY <1>13, <1>21, <1>22
  <1>4. Alone(v, i) <=> Alone(w, i)
    <2>1. CASE i = Len(w)
      BY <1>3, <2>1 DEF Alone
    <2>2. CASE i < Len(w)
      BY <1>2, <1>3, <2>2 DEF Alone
    <2> QED BY <1>2, <2>1, <2>2
  <1>5. LineAt(v, i) = LineAt(w, i)
    BY <1>3, <1>4 DEF LineAt
  <1> QED BY <1>1, <1>3, <1>4, <1>5

(* The line a frame starts with, and the frame after it. *)
LEMMA LineEndIs ==
    ASSUME NEW T, NEW f \in Seq(T), f # <<>>
    PROVE  /\ LineEnd(f) \in 1..(Len(f) + 1)
           /\ LineEnd(f) <= Len(f) => f[LineEnd(f)] = NL
           /\ \A i \in 1..(LineEnd(f) - 1) : f[i] # NL
  <1>1. Len(f) \in Nat /\ Len(f) > 0
    OBVIOUS
  <1>2. CASE Newlines(f) = {}
    <2>1. LineEnd(f) = Len(f) + 1
      BY <1>2 DEF LineEnd
    <2> QED BY <1>1, <1>2, <2>1 DEF Newlines
  <1>3. CASE Newlines(f) # {}
    <2>1. Newlines(f) \subseteq 1..Len(f) /\ Newlines(f) \in SUBSET Nat
      BY <1>1 DEF Newlines
    <2>2. IsFiniteSet(Newlines(f))
      <3>1. IsFiniteSet(1..Len(f))
        BY <1>1, FS_Interval
      <3> QED BY <2>1, <3>1, FS_Subset
    <2>3. \E x \in Newlines(f) : \A y \in Newlines(f) : x <= y
      BY <1>3, <2>1, <2>2, FirstAndLast
    <2>4. LineEnd(f) \in Newlines(f) /\ \A y \in Newlines(f) : LineEnd(f) <= y
      BY <1>3, <2>3 DEF LineEnd
    <2>5. LineEnd(f) \in 1..Len(f) /\ f[LineEnd(f)] = NL
      BY <2>1, <2>4 DEF Newlines
    <2>6. ASSUME NEW i \in 1..(LineEnd(f) - 1), f[i] = NL PROVE FALSE
      <3>1. i \in 1..Len(f) /\ i < LineEnd(f)
        BY <1>1, <2>5
      <3>2. i \in Newlines(f)
        BY <2>6, <3>1 DEF Newlines
      <3> QED BY <2>4, <2>5, <3>1, <3>2
    <2> QED BY <1>1, <2>5, <2>6
  <1> QED BY <1>2, <1>3

(* A line carries a payload, or says [DONE], when its one piece does. *)
LEMMA MeaningIs ==
    ASSUME NEW T, NEW line \in Seq(T)
    PROVE  /\ LineMeaning(line) \in {"json", "done"} => Len(line) = 1 /\ line[1].piece = LineMeaning(line)
           /\ Len(line) = 1 /\ line[1].piece \in {"json", "done"} => LineMeaning(line) = line[1].piece
  <1>0. PICK n \in Nat : n = Len(line)
    OBVIOUS
  <1>1. line = <<>> <=> n = 0
    BY <1>0
  <1>2. CASE line = <<>> \/ line[1].piece = "skip"
    <2>1. LineMeaning(line) = "skip"
      BY <1>2 DEF LineMeaning
    <2> QED BY <1>1, <1>2, <2>1
  <1>3. CASE ~(line = <<>> \/ line[1].piece = "skip")
    <2>1. CASE Len(line) > 1
      <3>1. LineMeaning(line) = "bad_json"
        BY <1>3, <2>1 DEF LineMeaning
      <3>2. Len(line) # 1
        <4>1. n > 1
          BY <1>0, <2>1
        <4>2. n # 1
          BY <4>1
        <4> QED BY <1>0, <4>2
      <3> QED BY <3>1, <3>2
    <2>2. CASE ~(Len(line) > 1)
      <3>0. n # 0
        BY <1>1, <1>3
      <3>1. Len(line) = 1
        BY <1>0, <2>2, <3>0
      <3>2. CASE line[1].piece = "empty"
        <4>1. LineMeaning(line) = "skip"
          BY <1>3, <2>2, <3>2 DEF LineMeaning
        <4> QED BY <3>2, <4>1
      <3>3. CASE line[1].piece # "empty"
        <4>1. LineMeaning(line) = line[1].piece
          BY <1>3, <2>2, <3>3 DEF LineMeaning
        <4> QED BY <3>1, <4>1
      <3> QED BY <3>2, <3>3
    <2> QED BY <2>1, <2>2
  <1> QED BY <1>2, <1>3

-----------------------------------------------------------------------------
(* Places on the wire. *)

LEMMA SubSeqIs ==
    ASSUME NEW T, NEW w \in Seq(T), NEW a \in Nat \ {0}, NEW n \in Int, n <= Len(w)
    PROVE  /\ SubSeq(w, a, n) \in Seq(T)
           /\ Len(SubSeq(w, a, n)) = IF a <= n THEN n - a + 1 ELSE 0
           /\ \A i \in 1..(n - a + 1) : SubSeq(w, a, n)[i] = w[a + i - 1]
  <1>1. \A i \in a..n : w[i] \in T
    <2> TAKE i \in a..n
    <2>1. i \in 1..Len(w)
      OBVIOUS
    <2> QED BY <2>1
  <1> QED BY <1>1, SubSeqProperties

(* A part of a part of the wire is a part of the wire. *)
LEMMA SubOfSub ==
    ASSUME NEW T, NEW w \in Seq(T), NEW c \in Nat, NEW e \in Nat, c <= e, e <= Len(w),
           NEW a \in Nat \ {0}, NEW n \in Nat, n <= e - c
    PROVE  SubSeq(SubSeq(w, c + 1, e), a, n) = SubSeq(w, c + a, c + n)
  <1>0. PICK L \in Nat : L = Len(w)
    OBVIOUS
  <1>1. PICK s : s = SubSeq(w, c + 1, e)
    OBVIOUS
  <1>2. c + 1 \in Nat \ {0} /\ e \in Int /\ e <= Len(w)
    BY <1>0
  <1>3. /\ s \in Seq(T)
        /\ Len(s) = IF c + 1 <= e THEN e - (c + 1) + 1 ELSE 0
        /\ \A i \in 1..(e - (c + 1) + 1) : s[i] = w[(c + 1) + i - 1]
    <2>1. SubSeq(w, c + 1, e) \in Seq(T)
      BY <1>2, SubSeqIs
    <2>2. Len(SubSeq(w, c + 1, e)) = IF c + 1 <= e THEN e - (c + 1) + 1 ELSE 0
      BY <1>2, SubSeqIs
    <2>3. \A i \in 1..(e - (c + 1) + 1) : SubSeq(w, c + 1, e)[i] = w[(c + 1) + i - 1]
      BY <1>2, SubSeqIs
    <2> QED BY <1>1, <2>1, <2>2, <2>3
  <1>4. Len(s) = e - c
    BY <1>3
  <1>5. \A i \in 1..(e - c) : s[i] = w[c + i]
    BY <1>3
  <1>6. n \in Int /\ n <= Len(s)
    BY <1>4
  <1>7. /\ SubSeq(s, a, n) \in Seq(T)
        /\ Len(SubSeq(s, a, n)) = IF a <= n THEN n - a + 1 ELSE 0
    BY <1>3, <1>6, SubSeqIs
  <1>71. \A i \in 1..(n - a + 1) : SubSeq(s, a, n)[i] = s[a + i - 1]
    BY <1>3, <1>6, SubSeqIs
  <1>8. c + a \in Nat \ {0} /\ c + n \in Int /\ c + n <= Len(w)
    BY <1>0
  <1>9. /\ SubSeq(w, c + a, c + n) \in Seq(T)
        /\ Len(SubSeq(w, c + a, c + n)) = IF c + a <= c + n THEN (c + n) - (c + a) + 1 ELSE 0
    BY <1>8, SubSeqIs
  <1>91. \A i \in 1..((c + n) - (c + a) + 1) : SubSeq(w, c + a, c + n)[i] = w[(c + a) + i - 1]
    BY <1>8, SubSeqIs
  <1>10. PICK x \in Seq(T), y \in Seq(T) : x = SubSeq(s, a, n) /\ y = SubSeq(w, c + a, c + n)
    BY <1>7, <1>9
  <1>11. Len(x) = Len(y) /\ (Len(x) = IF a <= n THEN n - a + 1 ELSE 0)
    BY <1>7, <1>9, <1>10
  <1>12. ASSUME NEW i \in 1..Len(x) PROVE x[i] = y[i]
    <2>1. i \in Nat /\ i >= 1 /\ a <= n /\ i <= n - a + 1
      BY <1>11
    <2>2. /\ i \in 1..(n - a + 1) /\ i \in 1..((c + n) - (c + a) + 1)
          /\ a + i - 1 \in 1..(e - c) /\ c + (a + i - 1) = (c + a) + i - 1
      BY <2>1
    <2>3. x[i] = s[a + i - 1]
      BY <1>10, <1>71, <2>2
    <2>4. y[i] = w[(c + a) + i - 1]
      BY <1>10, <1>91, <2>2
    <2>5. s[a + i - 1] = w[c + (a + i - 1)]
      BY <1>5, <2>2
    <2> QED BY <2>2, <2>3, <2>4, <2>5
  <1>13. x = y
    BY <1>11, <1>12, SeqEqual
  <1> QED BY <1>1, <1>10, <1>13

(* The buffer begins after a boundary; the frame ends before it, and what   *)
(* is left of it begins with a line.                                        *)
AtBoundary(w, c) ==
  /\ c \in Nat /\ c <= Len(w)
  /\ c = 0 \/ (c >= 2 /\ w[c - 1] = NL /\ w[c] = NL)
AfterBoundary(w, c, b) == b = SubSeq(w, c + 1, Len(w))
AtLine(w, c, f, m) ==
  /\ c >= 2 /\ m \in Nat /\ m <= c - 2
  /\ f = SubSeq(w, m + 1, c - 2)
  /\ f # <<>> => m = 0 \/ w[m] = NL

(* More bytes. *)
LEMMA BytesPlace ==
    ASSUME NEW T, NEW w \in Seq(T), NEW k \in Seq(T), NEW c, AtBoundary(w, c),
           NEW b, AfterBoundary(w, c, b)
    PROVE  /\ w \o k \in Seq(T) /\ AtBoundary(w \o k, c)
           /\ AfterBoundary(w \o k, c, b \o k)
           /\ Len(w \o k) - Len(b \o k) = c
           /\ \A i \in 1..c : LineAt(w \o k, i) = LineAt(w, i) /\ (Alone(w \o k, i) <=> Alone(w, i))
                              /\ (w \o k)[i] = w[i]
  <1>1. PICK L \in Nat, K \in Nat : L = Len(w) /\ K = Len(k)
    OBVIOUS
  <1>2. c \in Nat /\ c <= L
    BY <1>1 DEF AtBoundary
  <1>3. w \o k \in Seq(T) /\ Len(w \o k) = L + K
    BY <1>1, ConcatProperties
  <1>4. \A i \in 1..(L + K) : (w \o k)[i] = IF i <= L THEN w[i] ELSE k[i - L]
    BY <1>1, ConcatProperties
  <1>5. PICK v \in Seq(T) : v = w \o k
    BY <1>3
  <1>6. Len(v) = L + K
    BY <1>3, <1>5
  <1>7. \A i \in 1..(L + K) : v[i] = IF i <= L THEN w[i] ELSE k[i - L]
    BY <1>4, <1>5
  <1>8. AtBoundary(v, c)
    <2>1. c <= Len(v)
      BY <1>2, <1>6
    <2>2. CASE c = 0
      BY <1>2, <2>1, <2>2 DEF AtBoundary
    <2>3. CASE c >= 2 /\ w[c - 1] = NL /\ w[c] = NL
      <3>1. c - 1 \in 1..(L + K) /\ c \in 1..(L + K) /\ c - 1 <= L
        BY <1>2, <2>3
      <3>2. v[c - 1] = NL /\ v[c] = NL
        BY <1>2, <1>7, <2>3, <3>1
      <3> QED BY <1>2, <2>1, <2>3, <3>2 DEF AtBoundary
    <2> QED BY <2>2, <2>3 DEF AtBoundary
  <1>9. c + 1 \in Nat \ {0} /\ L \in Int /\ L <= Len(w) /\ L + K \in Int /\ L + K <= Len(v)
    BY <1>1, <1>2, <1>6
  <1>10. b \in Seq(T) /\ Len(b) = L - c
    <2>1. b \in Seq(T) /\ Len(b) = IF c + 1 <= L THEN L - (c + 1) + 1 ELSE 0
      BY <1>1, <1>9, SubSeqIs DEF AfterBoundary
    <2> QED BY <1>2, <2>1
  <1>11. \A i \in 1..(L - c) : b[i] = w[c + i]
    <2>1. \A i \in 1..(L - (c + 1) + 1) : b[i] = w[(c + 1) + i - 1]
      BY <1>1, <1>9, SubSeqIs DEF AfterBoundary
    <2>2. \A i \in 1..(L - c) : i \in 1..(L - (c + 1) + 1) /\ (c + 1) + i - 1 = c + i
      BY <1>2
    <2> QED BY <2>1, <2>2
  <1>12. PICK s : s = SubSeq(v, c + 1, L + K)
    OBVIOUS
  <1>13. s \in Seq(T) /\ Len(s) = (L + K) - c
    <2>1. s \in Seq(T) /\ Len(s) = IF c + 1 <= L + K THEN (L + K) - (c + 1) + 1 ELSE 0
      BY <1>9, <1>12, SubSeqIs
    <2> QED BY <1>2, <2>1
  <1>14. \A i \in 1..((L + K) - c) : s[i] = v[c + i]
    <2>1. \A i \in 1..((L + K) - (c + 1) + 1) : s[i] = v[(c + 1) + i - 1]
      BY <1>9, <1>12, SubSeqIs
    <2>2. \A i \in 1..((L + K) - c) : i \in 1..((L + K) - (c + 1) + 1) /\ (c + 1) + i - 1 = c + i
      BY <1>2
    <2> QED BY <2>1, <2>2
  <1>15. b \o k \in Seq(T) /\ Len(b \o k) = (L - c) + K
    BY <1>1, <1>10, ConcatProperties
  <1>16. \A i \in 1..((L - c) + K) : (b \o k)[i] = IF i <= L - c THEN b[i] ELSE k[i - (L - c)]
    BY <1>1, <1>10, ConcatProperties, SMTT(60)
  <1>17. PICK x \in Seq(T) : x = b \o k
    BY <1>15
  <1>18. Len(x) = (L - c) + K /\ Len(s) = (L - c) + K
    BY <1>2, <1>13, <1>15, <1>17
  <1>19. ASSUME NEW i \in 1..Len(x) PROVE x[i] = s[i]
    <2>1. i \in Nat /\ i >= 1 /\ i <= (L - c) + K
      BY <1>2, <1>18
    <2>2. i \in 1..((L - c) + K) /\ i \in 1..((L + K) - c) /\ c + i \in 1..(L + K)
      BY <1>2, <2>1
    <2>3. x[i] = IF i <= L - c THEN b[i] ELSE k[i - (L - c)]
      BY <1>16, <1>17, <2>2
    <2>4. s[i] = IF c + i <= L THEN w[c + i] ELSE k[(c + i) - L]
      BY <1>7, <1>14, <2>2
    <2>5. CASE i <= L - c
      <3>1. i \in 1..(L - c) /\ c + i <= L
        BY <1>2, <2>1, <2>5
      <3> QED BY <1>11, <2>3, <2>4, <2>5, <3>1
    <2>6. CASE ~(i <= L - c)
      <3>1. ~(c + i <= L) /\ (c + i) - L = i - (L - c)
        BY <1>2, <2>1, <2>6
      <3> QED BY <2>3, <2>4, <2>6, <3>1
    <2> QED BY <2>5, <2>6
  <1>20. x = s
    BY <1>13, <1>18, <1>19, SeqEqual
  <1>21. AfterBoundary(v, c, b \o k)
    BY <1>6, <1>12, <1>17, <1>20 DEF AfterBoundary
  <1>22. Len(v) - Len(b \o k) = c
    BY <1>2, <1>6, <1>15
  <1>23. ASSUME NEW i \in 1..c
         PROVE  LineAt(w \o k, i) = LineAt(w, i) /\ (Alone(w \o k, i) <=> Alone(w, i))
                /\ (w \o k)[i] = w[i]
    <2>1. i \in 1..Len(w)
      BY <1>1, <1>2
    <2>2. i = Len(w) => w[i] = NL
      BY <1>1, <1>2 DEF AtBoundary
    <2> QED BY <2>1, <2>2, AloneStays
  <1> QED BY <1>3, <1>5, <1>8, <1>21, <1>22, <1>23

(* A frame leaves the buffer. *)
LEMMA FramePlace ==
    ASSUME NEW T, NEW w \in Seq(T), NEW c, AtBoundary(w, c),
           NEW b, AfterBoundary(w, c, b), HasFrame(b)
    PROVE  /\ FrameEnd(b) \in Nat /\ FrameEnd(b) >= 1
           /\ AfterBoundary(w, c + FrameEnd(b) + 1, SubSeq(b, FrameEnd(b) + 2, Len(b)))
           /\ Len(w) - Len(SubSeq(b, FrameEnd(b) + 2, Len(b))) = c + FrameEnd(b) + 1
           /\ AtBoundary(w, c + FrameEnd(b) + 1)
           /\ AtLine(w, c + FrameEnd(b) + 1, SubSeq(b, 1, FrameEnd(b) - 1), c)
           /\ Len(SubSeq(b, 1, FrameEnd(b) - 1)) = FrameEnd(b) - 1
  <1>0. PICK n : n = FrameEnd(b)
    OBVIOUS
  <1>1. PICK L \in Nat : L = Len(w)
    OBVIOUS
  <1>2. c \in Nat /\ c <= L
    BY <1>1 DEF AtBoundary
  <1>3. c + 1 \in Nat \ {0} /\ L \in Int /\ L <= Len(w)
    BY <1>1, <1>2
  <1>4. b \in Seq(T) /\ Len(b) = L - c
    <2>1. b \in Seq(T) /\ Len(b) = IF c + 1 <= L THEN L - (c + 1) + 1 ELSE 0
      BY <1>1, <1>3, SubSeqIs DEF AfterBoundary
    <2> QED BY <1>2, <2>1
  <1>5. \A i \in 1..(L - c) : b[i] = w[c + i]
    <2>1. \A i \in 1..(L - (c + 1) + 1) : b[i] = w[(c + 1) + i - 1]
      BY <1>1, <1>3, SubSeqIs DEF AfterBoundary
    <2>2. \A i \in 1..(L - c) : i \in 1..(L - (c + 1) + 1) /\ (c + 1) + i - 1 = c + i
      BY <1>2
    <2> QED BY <2>1, <2>2
  <1>6. n \in 1..(Len(b) - 1) /\ n \in Boundaries(b)
    <2>1. n \in 1..(Len(b) - 1)
      BY <1>0, <1>4, FrameEndBounds
    <2>2. Boundaries(b) # {} /\ Boundaries(b) \subseteq 1..(Len(b) - 1)
      BY DEF HasFrame, Boundaries
    <2>3. IsFiniteSet(1..(Len(b) - 1))
      BY <1>2, <1>4, FS_Interval
    <2>4. IsFiniteSet(Boundaries(b)) /\ Boundaries(b) \in SUBSET Nat
      BY <2>2, <2>3, FS_Subset
    <2>5. \E i \in Boundaries(b) : \A j \in Boundaries(b) : i <= j
      BY <2>2, <2>4, FirstAndLast
    <2> QED BY <1>0, <2>1, <2>5 DEF FrameEnd
  <1>7. n \in Nat /\ n >= 1 /\ n + 1 <= L - c
    BY <1>2, <1>4, <1>6
  <1>8. b[n] = NL /\ b[n + 1] = NL
    BY <1>6 DEF Boundaries
  <1>9. w[c + n] = NL /\ w[c + n + 1] = NL
    <2>1. n \in 1..(L - c) /\ n + 1 \in 1..(L - c) /\ c + (n + 1) = c + n + 1
      BY <1>2, <1>7
    <2> QED BY <1>5, <1>8, <2>1
  <1>10. AtBoundary(w, c + n + 1)
    <2>1. /\ c + n + 1 \in Nat /\ c + n + 1 <= L /\ c + n + 1 >= 2 /\ (c + n + 1) - 1 = c + n
      BY <1>2, <1>7
    <2> QED BY <1>1, <1>9, <2>1 DEF AtBoundary
  <1>11. \A a \in Nat \ {0} : \A m \in Nat : m <= L - c => SubSeq(b, a, m) = SubSeq(w, c + a, c + m)
    BY <1>1, <1>2, SubOfSub DEF AfterBoundary
  <1>12. SubSeq(b, n + 2, Len(b)) = SubSeq(w, (c + n + 1) + 1, Len(w))
    <2>1. n + 2 \in Nat \ {0} /\ L - c \in Nat /\ L - c <= L - c /\ c + (n + 2) = (c + n + 1) + 1
          /\ c + (L - c) = L
      BY <1>2, <1>7
    <2>2. SubSeq(b, n + 2, L - c) = SubSeq(w, c + (n + 2), c + (L - c))
      BY <1>11, <2>1
    <2> QED BY <1>1, <1>4, <2>1, <2>2
  <1>13. Len(w) - Len(SubSeq(b, n + 2, Len(b))) = c + n + 1
    <2>1. n + 2 \in Nat \ {0} /\ L - c \in Int /\ L - c <= Len(b)
      BY <1>2, <1>4, <1>7
    <2>2. Len(SubSeq(b, n + 2, L - c)) = IF n + 2 <= L - c THEN (L - c) - (n + 2) + 1 ELSE 0
      BY <1>4, <2>1, SubSeqIs
    <2>3. Len(SubSeq(b, n + 2, L - c)) = (L - c) - (n + 1)
      BY <1>2, <1>7, <2>2
    <2>4. L - ((L - c) - (n + 1)) = c + n + 1
      BY <1>2, <1>7
    <2> QED BY <1>1, <1>4, <2>3, <2>4
  <1>14. AtLine(w, c + n + 1, SubSeq(b, 1, n - 1), c)
    <2>1. 1 \in Nat \ {0} /\ n - 1 \in Nat /\ n - 1 <= L - c /\ c + (n - 1) = (c + n + 1) - 2
      BY <1>2, <1>7
    <2>2. SubSeq(b, 1, n - 1) = SubSeq(w, c + 1, c + (n - 1))
      BY <1>11, <2>1
    <2>3. c + n + 1 >= 2 /\ c <= (c + n + 1) - 2
      BY <1>2, <1>7
    <2>4. c = 0 \/ w[c] = NL
      BY DEF AtBoundary
    <2> QED BY <1>2, <2>1, <2>2, <2>3, <2>4 DEF AtLine
  <1>15. Len(SubSeq(b, 1, n - 1)) = n - 1
    <2>1. 1 \in Nat \ {0} /\ n - 1 \in Int /\ n - 1 <= Len(b)
      BY <1>2, <1>4, <1>7
    <2>2. Len(SubSeq(b, 1, n - 1)) = IF 1 <= n - 1 THEN (n - 1) - 1 + 1 ELSE 0
      BY <1>4, <2>1, SubSeqIs
    <2> QED BY <1>7, <2>2
  <1> QED BY <1>0, <1>7, <1>10, <1>12, <1>13, <1>14, <1>15 DEF AfterBoundary

(* A line leaves the frame. *)
LEMMA LinePlace ==
    ASSUME NEW T, NEW w \in Seq(T), NEW c, AtBoundary(w, c), NEW f, NEW m, AtLine(w, c, f, m),
           f # <<>>
    PROVE  \E m2 \in Nat :
           /\ m2 = (c - 2) - Len(OtherLines(f))
           /\ m + 1 <= m2 /\ m2 <= c - 2
           /\ AtLine(w, c, OtherLines(f), m2)
           /\ FirstLine(f) \in Seq(T)
           /\ \A i \in (m + 2)..m2 : ~Alone(w, i)
           /\ Alone(w, m + 1) <=> Len(FirstLine(f)) = 1
           /\ Len(FirstLine(f)) = 1 => FirstLine(f)[1] = w[m + 1]
  <1>0. PICK m2 : m2 = (c - 2) - Len(OtherLines(f))
    OBVIOUS
  <1>1. PICK L \in Nat : L = Len(w)
    OBVIOUS
  <1>2. /\ c \in Nat /\ c <= L /\ c >= 2 /\ m \in Nat /\ m <= c - 2 /\ w[c - 1] = NL /\ w[c] = NL
        /\ m = 0 \/ w[m] = NL
    <2>1. c \in Nat /\ c <= L /\ c >= 2
      BY <1>1 DEF AtBoundary, AtLine
    <2>2. c # 0
      BY <2>1
    <2> QED BY <2>1, <2>2 DEF AtBoundary, AtLine
  <1>21. f = SubSeq(w, m + 1, c - 2)
    BY DEF AtLine
  <1>3. m + 1 \in Nat \ {0} /\ c - 2 \in Int /\ c - 2 \in Nat /\ c - 2 <= Len(w)
    BY <1>1, <1>2
  <1>4. f \in Seq(T) /\ Len(f) = (c - 2) - m
    <2>1. f \in Seq(T) /\ Len(f) = IF m + 1 <= c - 2 THEN (c - 2) - (m + 1) + 1 ELSE 0
      BY <1>21, <1>3, SubSeqIs
    <2> QED BY <1>2, <2>1
  <1>5. PICK F \in Nat : F = (c - 2) - m /\ F = Len(f)
    BY <1>2, <1>4
  <1>6. \A i \in 1..F : f[i] = w[m + i]
    <2>1. \A i \in 1..((c - 2) - (m + 1) + 1) : f[i] = w[(m + 1) + i - 1]
      BY <1>21, <1>3, SubSeqIs
    <2>2. \A i \in 1..F : i \in 1..((c - 2) - (m + 1) + 1) /\ (m + 1) + i - 1 = m + i
      BY <1>2, <1>5
    <2> QED BY <2>1, <2>2
  <1>7. PICK e : e = LineEnd(f)
    OBVIOUS
  <1>8. /\ e \in 1..(F + 1)
        /\ e <= F => f[e] = NL
        /\ \A i \in 1..(e - 1) : f[i] # NL
    BY <1>4, <1>5, <1>7, LineEndIs
  <1>9. e \in Nat /\ e >= 1 /\ e <= F + 1 /\ F >= 1
    <2>1. F # 0
      BY <1>4, <1>5
    <2> QED BY <1>8, <2>1
  <1>10. w[m + e] = NL
    <2>1. CASE e <= F
      <3>1. e \in 1..F
        BY <1>9, <2>1
      <3> QED BY <1>6, <1>8, <2>1, <3>1
    <2>2. CASE e = F + 1
      <3>1. m + e = c - 1
        BY <1>2, <1>5, <2>2
      <3> QED BY <1>2, <3>1
    <2> QED BY <1>9, <2>1, <2>2
  <1>11. ASSUME NEW i \in 1..(e - 1) PROVE w[m + i] # NL
    <2>1. i \in 1..F
      BY <1>9
    <2> QED BY <1>6, <1>8, <2>1
  <1>12. FirstLine(f) \in Seq(T) /\ Len(FirstLine(f)) = e - 1 /\ (e = 2 => FirstLine(f)[1] = w[m + 1])
    <2>1. FirstLine(f) = SubSeq(f, 1, e - 1)
      BY <1>7 DEF FirstLine
    <2>2. 1 \in Nat \ {0} /\ e - 1 \in Int /\ e - 1 <= Len(f)
      BY <1>5, <1>9
    <2>3. /\ SubSeq(f, 1, e - 1) \in Seq(T)
          /\ Len(SubSeq(f, 1, e - 1)) = IF 1 <= e - 1 THEN (e - 1) - 1 + 1 ELSE 0
      BY <1>4, <2>2, SubSeqIs
    <2>4. \A i \in 1..((e - 1) - 1 + 1) : SubSeq(f, 1, e - 1)[i] = f[1 + i - 1]
      BY <1>4, <2>2, SubSeqIs
    <2>5. Len(SubSeq(f, 1, e - 1)) = e - 1
      BY <1>9, <2>3
    <2>6. ASSUME e = 2 PROVE SubSeq(f, 1, e - 1)[1] = w[m + 1]
      <3>1. 1 \in 1..((e - 1) - 1 + 1) /\ 1 + 1 - 1 = 1 /\ 1 \in 1..F
        BY <1>9, <2>6
      <3> QED BY <1>6, <2>4, <3>1
    <2> QED BY <2>1, <2>3, <2>5, <2>6
  <1>13. OtherLines(f) = SubSeq(f, e + 1, F)
    BY <1>5, <1>7 DEF OtherLines
  <1>14. Len(OtherLines(f)) = IF e <= F THEN F - e ELSE 0
    <2>1. e + 1 \in Nat \ {0} /\ F \in Int /\ F <= Len(f)
      BY <1>5, <1>9
    <2>2. Len(SubSeq(f, e + 1, F)) = IF e + 1 <= F THEN F - (e + 1) + 1 ELSE 0
      BY <1>4, <2>1, SubSeqIs
    <2> QED BY <1>9, <1>13, <2>2
  <1>15. m2 = IF e <= F THEN m + e ELSE m + F
    <2>1. CASE e <= F
      <3>1. (c - 2) - (F - e) = m + e
        BY <1>2, <1>5, <1>9
      <3> QED BY <1>0, <1>14, <2>1, <3>1
    <2>2. CASE ~(e <= F)
      <3>1. (c - 2) - 0 = m + F
        BY <1>2, <1>5, <1>9
      <3> QED BY <1>0, <1>14, <2>2, <3>1
    <2> QED BY <2>1, <2>2
  <1>16. m2 \in Nat /\ m + 1 <= m2 /\ m2 <= c - 2
    BY <1>2, <1>5, <1>9, <1>15
  <1>17. AtLine(w, c, OtherLines(f), m2)
    <2>1. OtherLines(f) = SubSeq(w, m + (e + 1), m + F)
      <3>1. m <= c - 2 /\ e + 1 \in Nat \ {0} /\ F <= (c - 2) - m
        BY <1>2, <1>5, <1>9
      <3>2. SubSeq(SubSeq(w, m + 1, c - 2), e + 1, F) = SubSeq(w, m + (e + 1), m + F)
        <4>1. PICK q \in Nat : q = c - 2
          BY <1>3
        <4>2. PICK a \in Nat \ {0} : a = e + 1
          BY <3>1
        <4>3. m \in Nat /\ m <= q /\ q <= Len(w) /\ F <= q - m
          BY <1>2, <1>3, <3>1, <4>1
        <4>4. SubSeq(SubSeq(w, m + 1, q), a, F) = SubSeq(w, m + a, m + F)
          BY <4>3, SubOfSub
        <4> QED BY <4>1, <4>2, <4>4
      <3> QED BY <1>21, <1>13, <3>2
    <2>2. m + F = c - 2
      BY <1>2, <1>5
    <2>3. CASE e <= F
      <3>1. m + (e + 1) = m2 + 1 /\ m2 = m + e
        BY <1>2, <1>9, <1>15, <2>3
      <3>2. w[m2] = NL
        BY <1>10, <3>1
      <3> QED BY <1>2, <1>16, <2>1, <2>2, <3>1, <3>2 DEF AtLine
    <2>4. CASE e = F + 1
      <3>1. m + (e + 1) > m + F /\ m2 = m + F /\ m2 + 1 > m + F
            /\ m + (e + 1) \in Int /\ m + F \in Int /\ m2 + 1 \in Int
        BY <1>2, <1>9, <1>15, <2>4
      <3>2. OtherLines(f) = <<>> /\ SubSeq(w, m2 + 1, m + F) = <<>>
        BY <2>1, <3>1, SubSeqEmpty
      <3> QED BY <1>2, <1>16, <2>2, <3>2 DEF AtLine
    <2> QED BY <1>9, <2>3, <2>4
  <1>18. ASSUME NEW i \in (m + 2)..m2 PROVE ~Alone(w, i)
    <2>1. PICK j \in Nat : i = m + j
      <3>1. i - m \in Nat /\ i = m + (i - m)
        BY <1>2, <1>16
      <3> QED BY <3>1
    <2>2. j >= 2 /\ j <= e
      BY <1>2, <1>5, <1>9, <1>15, <2>1
    <2>3. CASE j = e
      BY <1>10, <2>1, <2>3 DEF Alone
    <2>4. CASE j < e
      <3>1. j - 1 \in 1..(e - 1) /\ i - 1 = m + (j - 1) /\ i # 1
        BY <1>2, <1>9, <2>1, <2>2, <2>4
      <3>2. w[i - 1] # NL
        BY <1>11, <3>1
      <3> QED BY <3>1, <3>2 DEF Alone
    <2> QED BY <1>9, <2>2, <2>3, <2>4
  <1>19. Alone(w, m + 1) <=> e = 2
    <2>1. CASE e = 1
      BY <1>10, <2>1 DEF Alone
    <2>2. CASE e = 2
      <3>1. 1 \in 1..(e - 1) /\ (m + 1) + 1 = m + e /\ m + 1 < L /\ (m + 1) - 1 = m /\ (m = 0 => m + 1 = 1)
        BY <1>2, <1>5, <1>9, <2>2
      <3>2. w[m + 1] # NL
        BY <1>11, <3>1
      <3>3. w[(m + 1) + 1] = NL
        BY <1>10, <3>1
      <3>4. m + 1 = 1 \/ w[(m + 1) - 1] = NL
        BY <1>2, <3>1
      <3> QED BY <1>1, <2>2, <3>1, <3>2, <3>3, <3>4 DEF Alone
    <2>3. CASE e > 2
      <3>1. 2 \in 1..(e - 1) /\ (m + 1) + 1 = m + 2
        BY <1>2, <1>9, <2>3
      <3>2. w[(m + 1) + 1] # NL
        BY <1>11, <3>1
      <3>3. e # 2
        BY <1>9, <2>3
      <3> QED BY <3>2, <3>3 DEF Alone
    <2> QED BY <1>9, <2>1, <2>2, <2>3
  <1>20. Len(FirstLine(f)) = 1 <=> e = 2
    BY <1>9, <1>12
  <1> QED BY <1>0, <1>12, <1>16, <1>17, <1>18, <1>19, <1>20

-----------------------------------------------------------------------------
(* The reader on the wire. *)

(* How many tokens have left the buffer, and how many of them were read. *)
Cut == Len(wire) - Len(buf)
InLines == pc = "lines" \/ (pc = "send" /\ after = "lines")
Reading == pc \in {"connect", "read"} \/ InLines
Mark == IF InLines THEN (Cut - 2) - Len(frame) ELSE Cut

(* The buffer and the frame are places on the wire. *)
WireInv ==
  /\ wire \in Seq(Tokens(feed))
  /\ AtBoundary(wire, Cut)
  /\ AfterBoundary(wire, Cut, buf)
  /\ InLines => AtLine(wire, Cut, frame, Mark)

(* What is on the wire up to m is in the translator and in the stream. *)
DoneAt(w, i) == Alone(w, i) /\ w[i].piece = "done"
ReadTo(m) ==
  /\ Holds(translator.connector, translator.state, Given(wire, m))
  /\ \A i \in 1..m : ~DoneAt(wire, i)
  /\ Kinds(sent \o outbox, "delta") = Deltas(translator.connector, Given(wire, m))
  /\ Kinds(sent \o outbox, "call") = <<>>
ReadInv == Reading => ReadTo(Mark)

(* The end of a stream says what the wire says. *)
Closing == pc = "send" /\ after = "ended" /\ outbox[Len(outbox)].kind = "completed"
EndInv ==
  /\ Closing \/ HasCompleted =>
       /\ Kinds(sent \o outbox, "delta") = Deltas(translator.connector, Payloads)
       /\ Kinds(sent \o outbox, "call") = Calls(translator.connector, Payloads)
  /\ HasCompleted => outbox = <<>> /\ pc = "ended"

(* The payloads of a feed. *)
Data == {t.data : t \in {x \in Tokens(feed) : x.piece = "json"}}

(* The payloads of a feed are payloads of its connector. *)
LEMMA DataIs ==
    ASSUME BytesInv
    PROVE  \A d \in Data : Payload(Feeds[feed].connector, d)
  BY FeedsAssumption DEF FeedsAssumption, BytesInv, Data

(* The data lines of the wire carry payloads of the feed. *)
LEMMA LinesAreData ==
    ASSUME wire \in Seq(Tokens(feed))
    PROVE  \A i \in 1..Len(wire) : LineAt(wire, i) \in Seq(Data)
  <1> TAKE i \in 1..Len(wire)
  <1>1. wire[i] \in Tokens(feed)
    OBVIOUS
  <1>2. CASE Alone(wire, i) /\ wire[i].piece = "json"
    <2>1. wire[i].data \in Data
      BY <1>1, <1>2 DEF Data
    <2>2. PICK d \in Data : d = wire[i].data
      BY <2>1
    <2>3. <<d>> \in Seq(Data)
      OBVIOUS
    <2> QED BY <1>2, <2>2, <2>3 DEF LineAt
  <1>3. CASE ~(Alone(wire, i) /\ wire[i].piece = "json")
    BY <1>3 DEF LineAt
  <1> QED BY <1>2, <1>3

(* The reference reading of the wire, when the reader stops at m: at the    *)
(* last boundary, or before a [DONE].                                       *)
LEMMA PayloadsAre ==
    ASSUME WireInv, NEW m \in Nat, m <= Cut, \A i \in 1..m : ~DoneAt(wire, i),
           (m = Cut /\ ~HasFrame(buf)) \/ (m + 1 <= Cut /\ DoneAt(wire, m + 1))
    PROVE  Payloads = Given(wire, m)
  <1>1. PICK L \in Nat : L = Len(wire)
    BY DEF WireInv
  <1>2. PICK c \in Nat : c = Cut /\ c <= L /\ m <= c
    BY <1>1 DEF WireInv, AtBoundary
  <1>3. c = 0 \/ (c >= 2 /\ wire[c - 1] = NL /\ wire[c] = NL)
    BY <1>2 DEF WireInv, AtBoundary
  <1>4. ASSUME NEW i \in 1..L, OwnLine(i), InFrame(i) PROVE Alone(wire, i)
    <2>1. PICK j \in Boundaries(wire) : j > i
      BY <1>4 DEF InFrame
    <2>2. j \in 1..(L - 1)
      BY <1>1 DEF Boundaries
    <2>3. i < L
      BY <2>1, <2>2
    <2> QED BY <1>1, <1>4, <2>3 DEF OwnLine, Alone
  <1>5. ASSUME NEW i \in 1..c, Alone(wire, i) PROVE OwnLine(i) /\ InFrame(i)
    <2>1. c >= 2 /\ wire[c - 1] = NL /\ wire[c] = NL
      BY <1>3
    <2>2. i # c /\ i # c - 1
      BY <1>5, <2>1 DEF Alone
    <2>3. c - 1 > i /\ c - 1 \in 1..(L - 1) /\ (c - 1) + 1 = c
      BY <1>2, <2>1, <2>2
    <2>4. c - 1 \in Boundaries(wire)
      BY <1>1, <2>1, <2>3 DEF Boundaries
    <2> QED BY <1>5, <2>3, <2>4 DEF OwnLine, InFrame, Alone
  <1>6. ASSUME m = c, ~HasFrame(buf), NEW i \in (c + 1)..L, InFrame(i) PROVE FALSE
    <2>1. PICK j \in Boundaries(wire) : j > i
      BY <1>6 DEF InFrame
    <2>2. j \in 1..(L - 1) /\ wire[j] = NL /\ wire[j + 1] = NL
      BY <1>1 DEF Boundaries
    <2>3. PICK k \in Nat : j = c + k /\ k >= 1 /\ k + 1 <= L - c
      <3>1. j - c \in Nat /\ j = c + (j - c) /\ j - c >= 1 /\ (j - c) + 1 <= L - c
        BY <1>2, <2>1, <2>2
      <3> QED BY <3>1
    <2>4. c + 1 \in Nat \ {0} /\ L \in Int /\ L <= Len(wire)
      BY <1>1, <1>2
    <2>5. buf = SubSeq(wire, c + 1, L)
      BY <1>1, <1>2 DEF WireInv, AfterBoundary
    <2>6. Len(buf) = IF c + 1 <= L THEN L - (c + 1) + 1 ELSE 0
      BY <2>4, <2>5, SubSeqIs DEF WireInv
    <2>7. \A x \in 1..(L - (c + 1) + 1) : buf[x] = wire[(c + 1) + x - 1]
      BY <2>4, <2>5, SubSeqIs DEF WireInv
    <2>8. /\ k \in 1..(L - (c + 1) + 1) /\ k + 1 \in 1..(L - (c + 1) + 1)
          /\ (c + 1) + k - 1 = j /\ (c + 1) + (k + 1) - 1 = j + 1
      BY <1>2, <2>3
    <2>9. buf[k] = NL /\ buf[k + 1] = NL
      BY <2>2, <2>7, <2>8
    <2>10. k \in 1..(Len(buf) - 1)
      BY <1>2, <2>3, <2>6
    <2> QED BY <1>6, <2>9, <2>10 DEF HasFrame, Boundaries
  <1> DEFINE before == {i \in JsonLines : \A j \in DoneLines : i < j}
             g == [i \in 1..L |-> IF i \in before THEN <<wire[i].data>> ELSE <<>>]
             h == [i \in 1..L |-> IF i <= m THEN LineAt(wire, i) ELSE <<>>]
  <1>7. Payloads = FlattenSeq(g)
    BY <1>1 DEF Payloads
  <1>8. ASSUME NEW i \in 1..L, i <= m
        PROVE  i \in before <=> Alone(wire, i) /\ wire[i].piece = "json"
    <2>1. i \in 1..c /\ i \in 1..Len(wire)
      BY <1>1, <1>2, <1>8
    <2>2. i \in JsonLines <=> Alone(wire, i) /\ wire[i].piece = "json"
      BY <1>4, <1>5, <2>1 DEF JsonLines
    <2>3. ASSUME NEW j \in DoneLines PROVE i < j
      <3>1. j \in 1..L /\ wire[j].piece = "done" /\ OwnLine(j) /\ InFrame(j)
        BY <1>1 DEF DoneLines
      <3>2. DoneAt(wire, j)
        BY <1>4, <3>1 DEF DoneAt
      <3>3. j \notin 1..m
        BY <3>2
      <3> QED BY <1>8, <3>1, <3>3
    <2> QED BY <2>2, <2>3
  <1>9. ASSUME NEW i \in 1..L, ~(i <= m) PROVE i \notin before
    <2>1. CASE m = c /\ ~HasFrame(buf)
      <3>1. i \in (c + 1)..L
        BY <1>9, <2>1
      <3>2. ~InFrame(i)
        BY <1>6, <2>1, <3>1
      <3> QED BY <3>2 DEF JsonLines
    <2>2. CASE m + 1 <= c /\ DoneAt(wire, m + 1)
      <3>1. m + 1 \in 1..c /\ m + 1 \in 1..Len(wire)
        BY <1>1, <1>2, <2>2
      <3>2. m + 1 \in DoneLines
        BY <1>5, <2>2, <3>1 DEF DoneAt, DoneLines
      <3>3. ~(i < m + 1)
        BY <1>9
      <3> QED BY <3>2, <3>3
    <2> QED BY <1>2, <2>1, <2>2
  <1>10. \A i \in 1..L : g[i] = h[i]
    BY <1>8, <1>9 DEF LineAt
  <1>11. g = h
    <2> HIDE DEF before
    <2>1. DOMAIN g = DOMAIN h /\ g = [i \in 1..L |-> g[i]] /\ h = [i \in 1..L |-> h[i]]
      OBVIOUS
    <2> QED BY <1>10, <2>1
  <1>12. PICK b : b = h
    OBVIOUS
  <1>13. b = [i \in 1..L |-> b[i]] /\ \A i \in 1..L : b[i] = IF i <= m THEN LineAt(wire, i) ELSE <<>>
    BY <1>12
  <1> HIDE DEF g, h
  <1>14. FlattenSeq(b) = Flat(b, L)
    BY <1>13, FlatAll
  <1>15. \A i \in 1..L : LineAt(wire, i) \in Seq(Data)
    BY <1>1, LinesAreData DEF WireInv
  <1>16. \A i \in 1..L : b[i] \in Seq(Data)
    <2> TAKE i \in 1..L
    <2>1. b[i] = LineAt(wire, i) \/ b[i] = <<>>
      BY <1>13
    <2>2. <<>> \in Seq(Data)
      OBVIOUS
    <2> QED BY <1>15, <2>1, <2>2
  <1>17. m <= L /\ (\A i \in 1..m : i \in 1..L /\ i <= m) /\ \A i \in (m + 1)..L : i \in 1..L /\ ~(i <= m)
    BY <1>2
  <1>18. \A i \in (m + 1)..L : b[i] = <<>>
    BY <1>13, <1>17
  <1>19. Flat(b, L) = Flat(b, m)
    BY <1>16, <1>17, <1>18, FlatSkips
  <1>20. [i \in 1..m |-> b[i]] = [i \in 1..m |-> LineAt(wire, i)]
    BY <1>13, <1>17
  <1>21. Flat(b, m) = Given(wire, m)
    BY <1>20 DEF Flat, Given
  <1> QED BY <1>7, <1>11, <1>12, <1>14, <1>19, <1>21

-----------------------------------------------------------------------------
(* The invariant, action by action. *)

(* The inductive invariant on top of IInv. *)
StreamInv == WireInv /\ ReadInv /\ EndInv

(* KindsConcat, for streams over any sets. *)
LEMMA KindsBoth ==
    ASSUME NEW a, NEW b, IsSeq(a), IsSeq(b), NEW k
    PROVE  Kinds(a \o b, k) = Kinds(a, k) \o Kinds(b, k)
  <1>0. ASSUME NEW S, NEW x \in Seq(S), NEW y \in Seq(S)
        PROVE  Kinds(x \o y, k) = Kinds(x, k) \o Kinds(y, k)
    BY KindsConcat, ZenonT(60)
  <1>1. PICK A : a \in Seq(A)
    BY DEF IsSeq
  <1>2. PICK B : b \in Seq(B)
    BY DEF IsSeq
  <1>3. a \in Seq(A \cup B)
    BY <1>1
  <1>4. b \in Seq(A \cup B)
    BY <1>2
  <1> QED BY <1>0, <1>3, <1>4

(* The events of a kind are a stream. *)
LEMMA KindsSeq ==
    ASSUME NEW a, IsSeq(a), NEW k
    PROVE  /\ a \o <<>> = a
           /\ IsSeq(Kinds(a, k))
           /\ \A x : IsSeq(x) => x \o <<>> = x
  <1>1. PICK A : a \in Seq(A)
    BY DEF IsSeq
  <1>2. Kinds(a, k) \in Seq(A)
    BY <1>1, KindsConcat
  <1>3. ASSUME NEW x, IsSeq(x) PROVE x \o <<>> = x
    BY <1>3 DEF IsSeq
  <1> QED BY <1>2, <1>3 DEF IsSeq

(* A stream that goes on is not completed. *)
LEMMA NotCompleted ==
    ASSUME ReaderInv, pc \in {"connect", "read", "lines", "send"}
    PROVE  ~HasCompleted
  <1>1. sent # <<>> => LastKind # "completed"
    <2>1. CASE pc \in {"connect", "read", "lines"}
      BY <2>1 DEF ReaderInv
    <2>2. CASE pc = "send"
      BY <2>2 DEF ReaderInv, Talking, Failing, Finishing
    <2> QED BY <2>1, <2>2
  <1> QED BY <1>1 DEF HasCompleted, LastKind

(* A reader that is still at work has not completed its stream. *)
LEMMA NotCompletedNext ==
    ASSUME ReaderInv', pc' \in {"connect", "read", "lines", "send"}
    PROVE  ~HasCompleted'
  <1>1. sent' # <<>> => LastKind' # "completed"
    <2>1. CASE pc' \in {"connect", "read", "lines"}
      BY <2>1 DEF ReaderInv
    <2>2. CASE pc' = "send"
      BY <2>2 DEF ReaderInv, Talking, Failing, Finishing
    <2> QED BY <2>1, <2>2
  <1> QED BY <1>1 DEF HasCompleted, LastKind

(* A step that leaves the wire and the reader alone. *)
LEMMA StreamKeeps ==
    ASSUME StreamInv, UNCHANGED <<feed, pc, wire, buf, frame, translator, outbox, after, sent>>
    PROVE  StreamInv'
  <1>1. Cut' = Cut /\ InLines' = InLines /\ Reading' = Reading
    BY DEF Cut, InLines, Reading
  <1>2. Mark' = Mark
    BY <1>1 DEF Mark
  <1>3. WireInv'
    BY <1>1, <1>2 DEF StreamInv, WireInv
  <1>4. ReadInv'
    BY <1>1, <1>2 DEF StreamInv, ReadInv, ReadTo
  <1>5. Payloads' = Payloads /\ HasCompleted' = HasCompleted /\ Closing' = Closing
    BY DEF Payloads, JsonLines, DoneLines, OwnLine, InFrame, HasCompleted, Closing
  <1>6. EndInv'
    BY <1>5 DEF StreamInv, EndInv
  <1> QED BY <1>3, <1>4, <1>6 DEF StreamInv

(* An error, after which nothing more is read. *)
LEMMA FailStream ==
    ASSUME ReaderInv', WireInv, pc \in {"read", "lines"}, NEW why, Fail(why), UNCHANGED <<feed, wire, sent>>,
           AtBoundary(wire, Cut'), AfterBoundary(wire, Cut', buf')
    PROVE  StreamInv'
  <1>1. outbox' = <<ErrorEvent(why)>> /\ after' = "ended" /\ pc' = "send"
    BY DEF Fail, SendAll
  <1>2. ~InLines' /\ ~Reading'
    BY <1>1 DEF InLines, Reading
  <1>3. ErrorEvent(why).kind = "error"
    BY DEF ErrorEvent
  <1>4. ~Closing'
    BY <1>1, <1>3 DEF Closing
  <1>5. ~HasCompleted'
    <2>1. pc' \in {"connect", "read", "lines", "send"}
      BY <1>1
    <2> QED BY <2>1, NotCompletedNext
  <1>6. WireInv'
    BY <1>2 DEF WireInv
  <1> QED BY <1>2, <1>4, <1>5, <1>6 DEF StreamInv, ReadInv, EndInv

(* finish(), when everything the wire says has been read. *)
LEMMA FinishStream ==
    ASSUME IInv, ReaderInv', WireInv, pc \in {"read", "lines"}, SendAll(Finish(translator), "ended"),
           UNCHANGED <<feed, wire, buf, translator, sent>>, NEW m, ReadTo(m), Payloads = Given(wire, m)
    PROVE  StreamInv'
  <1>1. PICK D : D = Given(wire, m)
    OBVIOUS
  <1>2. PICK ev : ev = Finish(translator)
    OBVIOUS
  <1>3. /\ IsSeq(ev)
        /\ Kinds(ev, "delta") = <<>>
        /\ Kinds(ev, "call") = Calls(translator.connector, D)
    BY <1>1, <1>2, FinishKinds DEF IInv, ReadTo
  <1>4. ev # <<>>
    BY <1>2, FinishShape DEF IInv, Ends, Ending
  <1>5. outbox' = ev /\ after' = "ended" /\ pc' = "send"
    BY <1>2, <1>4 DEF SendAll
  <1>6. IsSeq(sent) /\ outbox = <<>>
    BY DEF IInv, ReaderInv
  <1>7. sent \o outbox = sent
    BY <1>6, KindsSeq
  <1>8. Kinds(sent, "delta") = Deltas(translator.connector, D) /\ Kinds(sent, "call") = <<>>
    BY <1>1, <1>7 DEF ReadTo
  <1>9. Kinds(sent \o ev, "delta") = Deltas(translator.connector, D)
    <2>1. Kinds(sent \o ev, "delta") = Kinds(sent, "delta") \o Kinds(ev, "delta")
      BY <1>3, <1>6, KindsBoth
    <2>2. Kinds(sent, "delta") \o <<>> = Kinds(sent, "delta")
      BY <1>6, KindsSeq
    <2> QED BY <1>3, <1>8, <2>1, <2>2
  <1>10. Kinds(sent \o ev, "call") = Calls(translator.connector, D)
    <2>1. Kinds(sent \o ev, "call") = Kinds(sent, "call") \o Kinds(ev, "call")
      BY <1>3, <1>6, KindsBoth
    <2>2. <<>> \o Kinds(ev, "call") = Kinds(ev, "call")
      <3>1. IsSeq(Kinds(ev, "call"))
        BY <1>3, KindsSeq
      <3> QED BY <3>1 DEF IsSeq
    <2> QED BY <1>3, <1>8, <2>1, <2>2
  <1>11. ~InLines' /\ ~Reading' /\ Cut' = Cut
    BY <1>5 DEF InLines, Reading, Cut
  <1>12. WireInv'
    BY <1>11 DEF WireInv
  <1>13. ~HasCompleted'
    <2>1. pc' \in {"connect", "read", "lines", "send"}
      BY <1>5
    <2> QED BY <2>1, NotCompletedNext
  <1>14. Payloads' = D
    <2>1. Payloads' = Payloads
      BY DEF Payloads, JsonLines, DoneLines, OwnLine, InFrame
    <2> QED BY <1>1, <2>1
  <1>15. EndInv'
    BY <1>5, <1>9, <1>10, <1>13, <1>14 DEF EndInv
  <1> QED BY <1>11, <1>12, <1>15 DEF StreamInv, ReadInv

(* byte_stream.next(): what was read stays read. *)
LEMMA ReceiveStream ==
    ASSUME IInv, StreamInv, NEW chunk \in WireChunks, Receive(chunk)
    PROVE  StreamInv'
  <1>1. /\ pc = "read" /\ wire' = wire \o chunk /\ buf' = buf \o chunk
        /\ UNCHANGED <<feed, pc, frame, translator, outbox, after, sent>>
    BY DEF Receive, channel
  <1>2. chunk \in Seq(Tokens(feed))
    BY FeedsAssumption DEF FeedsAssumption, WireChunks, IInv, BytesInv
  <1>3. PICK w, k, b, c, T : w = wire /\ k = chunk /\ b = buf /\ c = Cut /\ T = Tokens(feed)
    OBVIOUS
  <1>4. w \in Seq(T) /\ k \in Seq(T) /\ AtBoundary(w, c) /\ AfterBoundary(w, c, b)
    BY <1>2, <1>3 DEF StreamInv, WireInv
  <1>5. /\ w \o k \in Seq(T) /\ AtBoundary(w \o k, c)
        /\ AfterBoundary(w \o k, c, b \o k)
        /\ Len(w \o k) - Len(b \o k) = c
    BY <1>4, BytesPlace
  <1>6. \A i \in 1..c : LineAt(w \o k, i) = LineAt(w, i) /\ (Alone(w \o k, i) <=> Alone(w, i))
                        /\ (w \o k)[i] = w[i]
    BY <1>4, BytesPlace
  <1>7. c \in Nat
    BY <1>4 DEF AtBoundary
  <1>8. Cut' = c /\ ~InLines /\ ~InLines' /\ Reading /\ Mark = c /\ Mark' = c
    BY <1>1, <1>3, <1>5 DEF Cut, InLines, Reading, Mark
  <1>9. WireInv'
    BY <1>1, <1>3, <1>5, <1>8 DEF WireInv
  <1>10. Given(w \o k, c) = Given(w, c)
    BY <1>6, <1>7, GivenSame
  <1>11. \A i \in 1..c : DoneAt(w \o k, i) <=> DoneAt(w, i)
    BY <1>6 DEF DoneAt
  <1>12. ReadTo(c)
    BY <1>8 DEF StreamInv, ReadInv
  <1>13. wire' = w \o k
    BY <1>1, <1>3
  <1>14. ReadTo(c)'
    BY <1>1, <1>3, <1>10, <1>11, <1>12, <1>13 DEF ReadTo
  <1>15. ReadInv'
    BY <1>8, <1>14 DEF ReadInv, ReadTo
  <1>16. ~HasCompleted' /\ ~Closing'
    <2>1. ~HasCompleted
      BY <1>1, NotCompleted DEF IInv
    <2> QED BY <1>1, <2>1 DEF HasCompleted, Closing
  <1> QED BY <1>9, <1>15, <1>16 DEF StreamInv, EndInv

(* A frame leaves the buffer: nothing of it is read yet. *)
LEMMA TakeFrameStream ==
    ASSUME IInv, ReaderInv', StreamInv, TakeFrame
    PROVE  StreamInv'
  <1>1. /\ pc = "read" /\ HasFrame(buf) /\ buf' = SubSeq(buf, FrameEnd(buf) + 2, Len(buf))
        /\ \/ Fail("utf8")
           \/ frame' = SubSeq(buf, 1, FrameEnd(buf) - 1) /\ pc' = "lines" /\ UNCHANGED <<outbox, after>>
        /\ UNCHANGED <<feed, wire, translator, sent>>
    BY DEF TakeFrame, channel
  <1>2. PICK w, b, c, n, T : w = wire /\ b = buf /\ c = Cut /\ n = FrameEnd(buf) /\ T = Tokens(feed)
    OBVIOUS
  <1>3. w \in Seq(T) /\ AtBoundary(w, c) /\ AfterBoundary(w, c, b) /\ HasFrame(b) /\ n = FrameEnd(b)
    BY <1>1, <1>2 DEF StreamInv, WireInv
  <1>4. /\ n \in Nat /\ n >= 1
        /\ AfterBoundary(w, c + n + 1, SubSeq(b, n + 2, Len(b)))
        /\ Len(w) - Len(SubSeq(b, n + 2, Len(b))) = c + n + 1
        /\ AtBoundary(w, c + n + 1)
        /\ AtLine(w, c + n + 1, SubSeq(b, 1, n - 1), c)
        /\ Len(SubSeq(b, 1, n - 1)) = n - 1
    BY <1>3, FramePlace
  <1>5. c \in Nat
    BY <1>3 DEF AtBoundary
  <1>6. buf' = SubSeq(b, n + 2, Len(b))
    BY <1>1, <1>2
  <1>7. Cut' = c + n + 1
    BY <1>1, <1>2, <1>4, <1>6 DEF Cut
  <1>8. CASE Fail("utf8")
    <2>1. AtBoundary(wire, Cut') /\ AfterBoundary(wire, Cut', buf')
      BY <1>2, <1>4, <1>6, <1>7
    <2> QED BY <1>1, <1>8, <2>1, FailStream DEF StreamInv
  <1>9. CASE frame' = SubSeq(buf, 1, FrameEnd(buf) - 1) /\ pc' = "lines" /\ UNCHANGED <<outbox, after>>
    <2>1. frame' = SubSeq(b, 1, n - 1)
      BY <1>2, <1>9
    <2>2. Len(frame') = n - 1
      BY <1>4, <2>1
    <2>3. InLines' /\ Mark' = ((c + n + 1) - 2) - (n - 1)
      BY <1>7, <1>9, <2>2 DEF InLines, Mark
    <2>4. ((c + n + 1) - 2) - (n - 1) = c
      BY <1>4, <1>5
    <2>5. Mark' = c
      BY <2>3, <2>4
    <2>6. WireInv'
      <3>1. AtLine(w, c + n + 1, frame', c)
        BY <1>4, <2>1
      <3> QED BY <1>1, <1>2, <1>3, <1>4, <1>6, <1>7, <2>5, <3>1 DEF WireInv
    <2>7. ReadTo(c)
      <3>1. Reading /\ Mark = c
        BY <1>1, <1>2 DEF Reading, Mark, InLines
      <3> QED BY <3>1 DEF StreamInv, ReadInv
    <2>8. ReadTo(c)'
      BY <1>1, <1>9, <2>7 DEF ReadTo
    <2>9. ReadInv'
      BY <2>5, <2>8 DEF ReadInv, ReadTo
    <2>10. ~HasCompleted' /\ ~Closing'
      <3>1. ~HasCompleted
        BY <1>1, NotCompleted DEF IInv
      <3> QED BY <1>1, <1>9, <3>1 DEF HasCompleted, Closing
    <2> QED BY <2>6, <2>9, <2>10 DEF StreamInv, EndInv
  <1> QED BY <1>1, <1>8, <1>9

(* The end of a frame: the boundary is behind the reader. *)
LEMMA FrameDoneStream ==
    ASSUME IInv, StreamInv, FrameDone
    PROVE  StreamInv'
  <1>1. /\ pc = "lines" /\ frame = <<>> /\ pc' = "read"
        /\ UNCHANGED <<feed, wire, buf, frame, translator, outbox, after, sent>>
    BY DEF FrameDone, channel
  <1>2. PICK w, c : w = wire /\ c = Cut
    OBVIOUS
  <1>3. AtBoundary(w, c) /\ AtLine(w, c, frame, Mark) /\ InLines /\ Reading
    BY <1>1, <1>2 DEF StreamInv, WireInv, InLines, Reading
  <1>4. c \in Nat /\ c >= 2 /\ c <= Len(w) /\ w[c - 1] = NL /\ w[c] = NL
    <2>1. c \in Nat /\ c >= 2
      BY <1>3 DEF AtBoundary, AtLine
    <2>2. c # 0
      BY <2>1
    <2> QED BY <1>3, <2>1, <2>2 DEF AtBoundary
  <1>5. Mark = c - 2
    <2>1. Len(frame) = 0
      BY <1>1
    <2> QED BY <1>2, <1>3, <1>4, <2>1 DEF Mark
  <1>6. Cut' = c /\ Mark' = c /\ ~InLines' /\ Reading'
    BY <1>1, <1>2 DEF Cut, Mark, InLines, Reading
  <1>7. WireInv'
    BY <1>1, <1>2, <1>6 DEF StreamInv, WireInv
  <1>8. \A i \in (c - 1)..c : w[i] = NL
    BY <1>4
  <1>9. Given(w, c) = Given(w, c - 2)
    <2>1. PICK n \in Nat : n = c - 2
      BY <1>4
    <2>2. \A i \in 1..Len(w) : LineAt(w, i) \in Seq(Data)
      BY <1>2, LinesAreData DEF StreamInv, WireInv
    <2>3. \A i \in 1..c : LineAt(w, i) \in Seq(Data)
      <3>1. PICK L \in Nat : L = Len(w)
        BY <1>2 DEF StreamInv, WireInv
      <3>2. \A i \in 1..c : i \in 1..L
        BY <1>4, <3>1
      <3> QED BY <2>2, <3>1, <3>2
    <2>4. \A i \in (n + 1)..c : LineAt(w, i) = <<>>
      <3>1. n + 1 = c - 1
        BY <1>4, <2>1
      <3> QED BY <1>8, <3>1 DEF LineAt, Alone
    <2>5. n <= c
      BY <1>4, <2>1
    <2>6. Given(w, c) = Given(w, n)
      BY <1>4, <2>3, <2>4, <2>5, GivenSkips
    <2> QED BY <2>1, <2>6
  <1>10. ReadTo(c - 2)
    BY <1>3, <1>5 DEF StreamInv, ReadInv
  <1>11. \A i \in 1..c : ~DoneAt(w, i)
    <2> TAKE i \in 1..c
    <2>1. CASE i \in 1..(c - 2)
      BY <1>2, <1>10, <2>1 DEF ReadTo
    <2>2. CASE i \notin 1..(c - 2)
      <3>1. i \in (c - 1)..c
        BY <1>4, <2>2
      <3> QED BY <1>8, <3>1 DEF DoneAt, Alone
    <2> QED BY <2>1, <2>2
  <1>12. ReadTo(c)'
    BY <1>1, <1>2, <1>9, <1>10, <1>11 DEF ReadTo
  <1>13. ReadInv'
    BY <1>6, <1>12 DEF ReadInv, ReadTo
  <1>14. ~HasCompleted' /\ ~Closing'
    <2>1. ~HasCompleted
      BY <1>1, NotCompleted DEF IInv
    <2> QED BY <1>1, <2>1 DEF HasCompleted, Closing
  <1> QED BY <1>7, <1>13, <1>14 DEF StreamInv, EndInv

(* One line of a frame. *)
LEMMA ReadLineStream ==
    ASSUME IInv, IInv', StreamInv, ReadLine
    PROVE  StreamInv'
  <1>0. PICK line : line = FirstLine(frame)
    OBVIOUS
  <1>1. PICK r : r = Push(translator, line[1].data)
    OBVIOUS
  <1>2. /\ pc = "lines" /\ frame # <<>> /\ frame' = OtherLines(frame)
        /\ UNCHANGED <<feed, wire, buf, sent>>
        /\ \/ LineMeaning(line) = "skip" /\ UNCHANGED <<pc, translator, outbox, after>>
           \/ LineMeaning(line) = "done" /\ SendAll(Finish(translator), "ended") /\ UNCHANGED translator
           \/ LineMeaning(line) = "bad_json" /\ Fail("json") /\ UNCHANGED translator
           \/ /\ LineMeaning(line) = "json" /\ r.ok
              /\ translator' = [translator EXCEPT !.state = r.state] /\ SendAll(r.events, "lines")
           \/ LineMeaning(line) = "json" /\ ~r.ok /\ UNCHANGED translator /\ Fail("upstream")
    BY <1>0, <1>1 DEF ReadLine, channel
  <1>3. PICK w, c, m, f, T : w = wire /\ c = Cut /\ m = Mark /\ f = frame /\ T = Tokens(feed)
    OBVIOUS
  <1>4. w \in Seq(T) /\ AtBoundary(w, c) /\ AtLine(w, c, f, m) /\ f # <<>> /\ InLines /\ Reading
        /\ AfterBoundary(w, c, buf)
    BY <1>2, <1>3 DEF StreamInv, WireInv, InLines, Reading
  <1>5. c \in Nat /\ c <= Len(w) /\ m \in Nat
    BY <1>4 DEF AtBoundary, AtLine
  <1>6. PICK m2 \in Nat :
           /\ m2 = (c - 2) - Len(OtherLines(f))
           /\ m + 1 <= m2 /\ m2 <= c - 2
           /\ AtLine(w, c, OtherLines(f), m2)
           /\ FirstLine(f) \in Seq(T)
           /\ \A i \in (m + 2)..m2 : ~Alone(w, i)
           /\ Alone(w, m + 1) <=> Len(FirstLine(f)) = 1
           /\ Len(FirstLine(f)) = 1 => FirstLine(f)[1] = w[m + 1]
    BY <1>4, LinePlace
  <1>7. line = FirstLine(f)
    BY <1>0, <1>3
  <1>8. Cut' = c /\ frame' = OtherLines(f)
    BY <1>2, <1>3 DEF Cut
  <1>9. ReadTo(m)
    BY <1>3, <1>4 DEF StreamInv, ReadInv
  <1>10. \A i \in 1..Len(w) : LineAt(w, i) \in Seq(Data)
    BY <1>3, LinesAreData DEF StreamInv, WireInv
  <1>11. PICK L \in Nat : L = Len(w)
    BY <1>4
  <1>12. \A i \in 1..m2 : LineAt(w, i) \in Seq(Data)
    <2>1. \A i \in 1..m2 : i \in 1..L
      BY <1>5, <1>6, <1>11
    <2> QED BY <1>10, <1>11, <2>1
  <1>13. Given(w, m2) = Given(w, m + 1)
    <2>1. PICK n \in Nat : n = m + 1
      BY <1>5
    <2>2. \A i \in (n + 1)..m2 : LineAt(w, i) = <<>>
      <3>1. \A i \in (n + 1)..m2 : i \in (m + 2)..m2
        BY <1>5, <2>1
      <3> QED BY <1>6, <3>1 DEF LineAt
    <2>3. n <= m2
      BY <1>6, <2>1
    <2>4. Given(w, m2) = Given(w, n)
      BY <1>12, <2>2, <2>3, GivenSkips
    <2> QED BY <2>1, <2>4
  <1>14. Given(w, m + 1) = Given(w, m) \o LineAt(w, m + 1) /\ Given(w, m) \in Seq(Data)
    <2>1. m \in 0..(m2 - 1) /\ m \in 0..m2
      BY <1>5, <1>6
    <2>2. /\ \A k \in 0..(m2 - 1) : Given(w, k + 1) = Given(w, k) \o LineAt(w, k + 1)
          /\ \A k \in 0..m2 : Given(w, k) \in Seq(Data)
      BY <1>12, GivenSteps
    <2> QED BY <2>1, <2>2
  <1>15. /\ LineMeaning(line) \in {"json", "done"} =>
               Alone(w, m + 1) /\ w[m + 1].piece = LineMeaning(line) /\ line[1] = w[m + 1]
         /\ Alone(w, m + 1) /\ w[m + 1].piece \in {"json", "done"} =>
               LineMeaning(line) = w[m + 1].piece
    <2>1. line \in Seq(T)
      BY <1>6, <1>7
    <2>2. LineMeaning(line) \in {"json", "done"} => Len(line) = 1 /\ line[1].piece = LineMeaning(line)
      BY <2>1, MeaningIs
    <2>3. Len(line) = 1 /\ line[1].piece \in {"json", "done"} => LineMeaning(line) = line[1].piece
      BY <2>1, MeaningIs
    <2>4. (Alone(w, m + 1) <=> Len(line) = 1) /\ (Len(line) = 1 => line[1] = w[m + 1])
      BY <1>6, <1>7
    <2> QED BY <2>2, <2>3, <2>4
  <1>16. ASSUME LineMeaning(line) # "done" PROVE \A i \in 1..m2 : ~DoneAt(w, i)
    <2> TAKE i \in 1..m2
    <2>1. CASE i \in 1..m
      BY <1>3, <1>9, <2>1 DEF ReadTo
    <2>2. CASE i = m + 1
      BY <1>15, <1>16, <2>2 DEF DoneAt
    <2>3. CASE i \in (m + 2)..m2
      BY <1>6, <2>3 DEF DoneAt
    <2> QED BY <1>5, <1>6, <2>1, <2>2, <2>3
  <1>17. ASSUME InLines' PROVE WireInv' /\ Mark' = m2
    <2>1. Mark' = m2
      BY <1>6, <1>8, <1>17 DEF Mark
    <2> QED BY <1>2, <1>3, <1>4, <1>6, <1>8, <2>1 DEF WireInv
  <1>18. ASSUME NEW why, Fail(why) PROVE StreamInv'
    <2>1. AtBoundary(wire, Cut') /\ AfterBoundary(wire, Cut', buf')
      BY <1>2, <1>3, <1>4, <1>8
    <2> QED BY <1>2, <1>18, <2>1, FailStream DEF StreamInv, IInv
  <1>19. ASSUME pc' \in {"lines", "send"}, InLines' PROVE ~HasCompleted' /\ ~Closing'
    <2>1. ~HasCompleted'
      <3>1. pc' \in {"connect", "read", "lines", "send"} /\ ReaderInv'
        BY <1>19 DEF IInv
      <3> QED BY <3>1, NotCompletedNext
    <2>2. ~Closing'
      BY <1>19 DEF InLines, Closing
    <2> QED BY <2>1, <2>2
  <1>20. CASE LineMeaning(line) = "skip" /\ UNCHANGED <<pc, translator, outbox, after>>
    <2>1. InLines' /\ pc' \in {"lines", "send"}
      BY <1>2, <1>20 DEF InLines
    <2>2. LineAt(w, m + 1) = <<>>
      BY <1>15, <1>20 DEF LineAt
    <2>3. Given(w, m2) = Given(w, m)
      BY <1>13, <1>14, <2>2
    <2>4. ReadTo(m2)'
      BY <1>2, <1>3, <1>9, <1>16, <1>20, <2>3 DEF ReadTo
    <2>5. ReadInv'
      BY <1>17, <2>1, <2>4 DEF ReadInv, ReadTo
    <2> QED BY <1>17, <1>19, <2>1, <2>5 DEF StreamInv, EndInv
  <1>21. CASE LineMeaning(line) = "done" /\ SendAll(Finish(translator), "ended") /\ UNCHANGED translator
    <2>1. DoneAt(w, m + 1) /\ m + 1 <= c /\ m <= c
      BY <1>5, <1>6, <1>15, <1>21 DEF DoneAt
    <2>2. \A i \in 1..m : ~DoneAt(wire, i)
      BY <1>9 DEF ReadTo
    <2>3. Payloads = Given(wire, m)
      BY <1>3, <1>5, <2>1, <2>2, PayloadsAre DEF StreamInv
    <2> QED BY <1>2, <1>9, <1>21, <2>3, FinishStream DEF StreamInv, IInv
  <1>22. CASE /\ LineMeaning(line) = "json" /\ r.ok
              /\ translator' = [translator EXCEPT !.state = r.state] /\ SendAll(r.events, "lines")
    <2>1. PICK k, d, D : k = translator.connector /\ d = line[1].data /\ D = Given(w, m)
      OBVIOUS
    <2>2. LineAt(w, m + 1) = <<d>> /\ d \in Data
      <3>1. Alone(w, m + 1) /\ w[m + 1].piece = "json" /\ line[1] = w[m + 1]
        BY <1>15, <1>22
      <3>2. m + 1 \in 1..L
        BY <1>5, <1>6, <1>11
      <3>3. w[m + 1] \in T
        BY <1>4, <1>11, <3>2
      <3> QED BY <1>3, <2>1, <3>1, <3>3 DEF LineAt, Data
    <2>3. D \in Seq(Data) /\ Given(w, m2) = Append(D, d)
      <3>1. D \in Seq(Data)
        BY <1>14, <2>1
      <3>2. D \o <<d>> = Append(D, d)
        BY <2>2, <3>1
      <3> QED BY <1>13, <1>14, <2>1, <2>2, <3>1, <3>2
    <2>4. /\ k \in {"chat", "anthropic"} /\ k = Feeds[feed].connector
          /\ Accumulates(k, translator.state) /\ Holds(k, translator.state, D)
      BY <1>3, <1>9, <2>1 DEF IInv, TranslatorInv, ReadTo
    <2>5. \A x \in Data : Payload(k, x)
      BY <2>4, DataIs DEF IInv
    <2>6. r = Push(translator, d)
      BY <1>1, <2>1
    <2>7. /\ Holds(k, r.state, Append(D, d))
          /\ Deltas(k, Append(D, d)) = Deltas(k, D) \o r.events
      <3>1. PICK S, tr : S = Data /\ tr = translator
        OBVIOUS
      <3>2. D \in Seq(S) /\ d \in S /\ tr.connector = k /\ k \in {"chat", "anthropic"}
        BY <2>1, <2>2, <2>3, <2>4, <3>1
      <3>21. Accumulates(k, tr.state) /\ Holds(k, tr.state, D) /\ Push(tr, d).ok
        BY <1>22, <2>4, <2>6, <3>1
      <3>22. \A x \in S : Payload(k, x)
        BY <2>5, <3>1
      <3>3. /\ Holds(k, Push(tr, d).state, Append(D, d))
            /\ Deltas(k, Append(D, d)) = Deltas(k, D) \o Push(tr, d).events
        <4>1. CanPush(k, S, D, d, tr)
          BY <3>2, <3>21, <3>22 DEF CanPush
        <4> QED BY <4>1, PushHolds
      <3> QED BY <2>6, <3>1, <3>3
    <2>8. translator'.connector = k /\ translator'.state = r.state
      BY <1>22, <2>1 DEF IInv, TranslatorInv
    <2>9. outbox' = r.events /\ after' = "lines" /\ pc' \in {"lines", "send"} /\ InLines'
      BY <1>22 DEF SendAll, InLines
    <2>10. /\ IsSeq(r.events) /\ Kinds(r.events, "delta") = r.events /\ Kinds(r.events, "call") = <<>>
      <3>1. Adds(translator.state, r)
        <4>1. Payload(translator.connector, d)
          BY <2>1, <2>2, <2>5
        <4> QED BY <1>22, <2>6, <4>1, PushAccumulates DEF IInv
      <3>2. \E e : r.events = <<>> \/ (r.events = <<e>> /\ e.kind = "delta")
        <4>1. \A t : OutputTextDelta(t).kind = "delta"
          BY DEF OutputTextDelta
        <4> QED BY <3>1, <4>1 DEF Adds
      <3>21. PICK e : r.events = <<>> \/ (r.events = <<e>> /\ e.kind = "delta")
        BY <3>2
      <3>3. PICK x : x = r.events
        OBVIOUS
      <3>4. x \in Seq({e}) /\ \A i \in 1..Len(x) : x[i].kind = "delta"
        <4>1. x = <<>> \/ (x = <<e>> /\ e.kind = "delta")
          BY <3>21, <3>3
        <4>2. e \in {e} /\ <<>> \in Seq({e})
          OBVIOUS
        <4>3. CASE x = <<>>
          BY <4>2, <4>3
        <4>4. CASE x = <<e>> /\ e.kind = "delta"
          <5>1. x \in Seq({e})
            BY <4>4
          <5> QED BY <4>4, <5>1
        <4> QED BY <4>1, <4>3, <4>4
      <3>5. Kinds(x, "delta") = x
        BY <3>4, KindsAll
      <3>6. Kinds(x, "call") = <<>>
        <4>1. \A i \in 1..Len(x) : x[i].kind # "call"
          BY <3>4
        <4> QED BY <3>4, <4>1, KindsNone
      <3>7. IsSeq(x)
        BY <3>4 DEF IsSeq
      <3> QED BY <3>3, <3>5, <3>6, <3>7
    <2>11. IsSeq(sent) /\ sent \o outbox = sent
      <3>1. IsSeq(sent) /\ outbox = <<>>
        BY <1>2 DEF IInv, ReaderInv
      <3> QED BY <3>1, KindsSeq
    <2>12. Kinds(sent, "delta") = Deltas(k, D) /\ Kinds(sent, "call") = <<>>
      BY <1>3, <1>9, <2>1, <2>11 DEF ReadTo
    <2>13. Kinds(sent \o r.events, "delta") = Deltas(k, Append(D, d))
      <3>1. Kinds(sent \o r.events, "delta") = Kinds(sent, "delta") \o Kinds(r.events, "delta")
        <4>1. PICK x : x = r.events
          OBVIOUS
        <4>2. IsSeq(sent) /\ IsSeq(x)
          BY <2>10, <2>11, <4>1
        <4>3. Kinds(sent \o x, "delta") = Kinds(sent, "delta") \o Kinds(x, "delta")
          BY <4>2, KindsBoth
        <4> QED BY <4>1, <4>3
      <3> QED BY <2>7, <2>10, <2>12, <3>1
    <2>14. Kinds(sent \o r.events, "call") = <<>>
      <3>1. Kinds(sent \o r.events, "call") = Kinds(sent, "call") \o Kinds(r.events, "call")
        BY <2>10, <2>11, KindsBoth
      <3>2. <<>> \o <<>> = <<>>
        OBVIOUS
      <3> QED BY <2>10, <2>12, <3>1, <3>2
    <2>15. \A i \in 1..m2 : ~DoneAt(w, i)
      BY <1>16, <1>22
    <2>16. ReadTo(m2)'
      BY <1>2, <1>3, <2>3, <2>7, <2>8, <2>9, <2>13, <2>14, <2>15 DEF ReadTo
    <2>17. ReadInv'
      BY <1>17, <2>9, <2>16 DEF ReadInv, ReadTo
    <2> QED BY <1>17, <1>19, <2>9, <2>17 DEF StreamInv, EndInv
  <1> QED BY <1>2, <1>18, <1>20, <1>21, <1>22

(* What is sent moves from the outbox into the stream. *)
LEMMA MoveOne ==
    ASSUME NEW s, NEW o, IsSeq(s), IsSeq(o), o # <<>>
    PROVE  Append(s, Head(o)) \o Tail(o) = s \o o
  <1>1. PICK A : s \in Seq(A)
    BY DEF IsSeq
  <1>2. PICK B : o \in Seq(B)
    BY DEF IsSeq
  <1>3. PICK S : S = A \cup B
    OBVIOUS
  <1>4. s \in Seq(S) /\ o \in Seq(S)
    BY <1>1, <1>2, <1>3
  <1>5. Head(o) \in S /\ Tail(o) \in Seq(S) /\ o = <<Head(o)>> \o Tail(o)
    BY <1>4
  <1>6. PICK h \in S, t \in Seq(S) : h = Head(o) /\ t = Tail(o)
    BY <1>5
  <1>7. Append(s, h) = s \o <<h>> /\ <<h>> \in Seq(S)
    BY <1>4
  <1>8. (s \o <<h>>) \o t = s \o (<<h>> \o t)
    BY <1>4, <1>7, ConcatAssociative
  <1>9. o = <<h>> \o t
    BY <1>5, <1>6
  <1>10. Append(s, h) \o t = s \o o
    BY <1>7, <1>8, <1>9
  <1> QED BY <1>6, <1>10

(* Send: the delivered prefix and the outbox are together what they were. *)
LEMMA SendStream ==
    ASSUME IInv, IInv', StreamInv, Send
    PROVE  StreamInv'
  <1>1. /\ pc = "send" /\ sent' = Append(sent, Head(outbox)) /\ outbox' = Tail(outbox)
        /\ pc' = IF Tail(outbox) = <<>> THEN after ELSE pc
        /\ UNCHANGED <<feed, wire, buf, frame, translator, after>>
    BY DEF Send
  <1>2. IsSeq(sent) /\ IsSeq(outbox) /\ (Talking \/ Failing \/ Finishing)
    BY <1>1 DEF IInv, ReaderInv
  <1>3. outbox # <<>>
    BY <1>2 DEF Talking, Failing, Finishing, Ending
  <1>4. sent' \o outbox' = sent \o outbox
    BY <1>1, <1>2, <1>3, MoveOne
  <1>5. Cut' = Cut
    BY <1>1 DEF Cut
  <1>6. Payloads' = Payloads
    BY <1>1 DEF Payloads, JsonLines, DoneLines, OwnLine, InFrame
  <1>7. CASE Talking
    <2>1. Tail(outbox) = <<>>
      <3>1. PICK A : outbox \in Seq(A)
        BY <1>2 DEF IsSeq
      <3>2. Len(outbox) = 1
        BY <1>7 DEF Talking
      <3>3. Tail(outbox) \in Seq(A) /\ Len(Tail(outbox)) = Len(outbox) - 1
        BY <1>3, <3>1, HeadTailProperties
      <3>4. Len(Tail(outbox)) = 0
        BY <3>2, <3>3
      <3> QED BY <3>3, <3>4, EmptySeq
    <2>2. pc' = "lines" /\ after = "lines"
      BY <1>1, <1>7, <2>1 DEF Talking
    <2>3. InLines /\ InLines' /\ Reading /\ Mark' = Mark
      BY <1>1, <1>5, <2>2 DEF InLines, Reading, Mark
    <2>4. WireInv'
      BY <1>1, <1>5, <2>3 DEF StreamInv, WireInv
    <2>5. ReadTo(Mark)
      BY <2>3 DEF StreamInv, ReadInv
    <2>6. PICK m : m = Mark
      OBVIOUS
    <2>7. ReadTo(m)'
      BY <1>1, <1>4, <2>5, <2>6 DEF ReadTo
    <2>8. ReadInv'
      BY <2>3, <2>6, <2>7 DEF ReadInv, ReadTo
    <2>9. ~HasCompleted' /\ ~Closing'
      <3>1. pc' \in {"connect", "read", "lines", "send"} /\ ReaderInv'
        BY <2>2 DEF IInv
      <3> QED BY <2>2, <3>1, NotCompletedNext DEF Closing
    <2> QED BY <2>4, <2>8, <2>9 DEF StreamInv, EndInv
  <1>8. ASSUME Failing \/ Finishing PROVE ~InLines /\ ~InLines' /\ ~Reading' /\ WireInv' /\ ReadInv'
    <2>1. after = "ended" /\ after' = "ended" /\ pc' \in {"send", "ended"}
      BY <1>1, <1>8 DEF Failing, Finishing
    <2>2. ~InLines /\ ~InLines' /\ ~Reading'
      BY <1>1, <2>1 DEF InLines, Reading
    <2>3. WireInv'
      BY <1>1, <1>5, <2>2 DEF StreamInv, WireInv
    <2> QED BY <2>2, <2>3 DEF ReadInv
  <1>9. CASE Failing
    <2>1. Tail(outbox) = <<>> /\ Head(outbox) = outbox[1] /\ outbox[1].kind = "error" /\ after = "ended"
      <3>1. PICK A : outbox \in Seq(A)
        BY <1>2 DEF IsSeq
      <3>2. Len(outbox) = 1 /\ outbox[1].kind = "error" /\ after = "ended"
        BY <1>9 DEF Failing
      <3>3. Tail(outbox) \in Seq(A) /\ Len(Tail(outbox)) = Len(outbox) - 1
        BY <1>3, <3>1, HeadTailProperties
      <3>4. Len(Tail(outbox)) = 0
        BY <3>2, <3>3
      <3>5. Tail(outbox) = <<>>
        BY <3>3, <3>4, EmptySeq
      <3>6. Head(outbox) = outbox[1]
        BY <1>3, <3>1
      <3> QED BY <3>2, <3>5, <3>6
    <2>2. pc' = "ended"
      BY <1>1, <2>1
    <2>3. ~HasCompleted'
      <3>1. PICK A : sent \in Seq(A)
        BY <1>2 DEF IsSeq
      <3>2. sent'[Len(sent')] = outbox[1]
        BY <1>1, <2>1, <3>1
      <3> QED BY <2>1, <3>2 DEF HasCompleted
    <2>4. ~Closing'
      BY <2>2 DEF Closing
    <2> QED BY <1>8, <1>9, <2>3, <2>4 DEF StreamInv, EndInv
  <1>10. CASE Finishing
    <2>1. Closing
      <3>1. PICK A : outbox \in Seq(A)
        BY <1>2 DEF IsSeq
      <3>2. Len(outbox) \in 1..Len(outbox)
        BY <1>3, <3>1
      <3>3. outbox[Len(outbox)].kind = "completed"
        BY <1>10, <3>2 DEF Finishing, Ending
      <3> QED BY <1>1, <1>10, <3>3 DEF Closing, Finishing
    <2>2. /\ Kinds(sent \o outbox, "delta") = Deltas(translator.connector, Payloads)
          /\ Kinds(sent \o outbox, "call") = Calls(translator.connector, Payloads)
      BY <2>1 DEF StreamInv, EndInv
    <2>3. HasCompleted' => outbox' = <<>> /\ pc' = "ended"
      <3>1. CASE Tail(outbox) = <<>>
        BY <1>1, <1>10, <3>1 DEF Finishing
      <3>2. CASE Tail(outbox) # <<>>
        <4>1. pc' \in {"connect", "read", "lines", "send"} /\ ReaderInv'
          BY <1>1, <3>2 DEF IInv
        <4> QED BY <4>1, NotCompletedNext
      <3> QED BY <3>1, <3>2
    <2>4. EndInv'
      BY <1>1, <1>4, <1>6, <2>2, <2>3 DEF EndInv
    <2> QED BY <1>8, <1>10, <2>4 DEF StreamInv
  <1> QED BY <1>2, <1>7, <1>9, <1>10

(* Nobody listens any more. *)
LEMMA SendFailsStream ==
    ASSUME IInv, StreamInv, SendFails
    PROVE  StreamInv'
  <1>1. /\ pc = "send" /\ pc' = "ended"
        /\ UNCHANGED <<feed, wire, buf, frame, translator, outbox, after, sent>>
    BY DEF SendFails, channel
  <1>2. ~HasCompleted' /\ ~Closing'
    <2>1. ~HasCompleted
      BY <1>1, NotCompleted DEF IInv
    <2> QED BY <1>1, <2>1 DEF HasCompleted, Closing
  <1>3. ~InLines' /\ ~Reading' /\ Cut' = Cut
    BY <1>1 DEF InLines, Reading, Cut
  <1>4. WireInv'
    BY <1>1, <1>3 DEF StreamInv, WireInv
  <1> QED BY <1>2, <1>3, <1>4 DEF StreamInv, ReadInv, EndInv

(* Nothing is on the wire, and nothing is said. *)
LEMMA InitStream == Init => StreamInv
  <1> SUFFICES ASSUME Init PROVE StreamInv
    OBVIOUS
  <1>1. wire = <<>> /\ buf = <<>> /\ pc = "connect" /\ sent = <<>> /\ outbox = <<>>
        /\ translator = Translator(Feeds[feed].connector)
    BY DEF Init
  <1>2. Cut = 0 /\ ~InLines /\ Mark = 0 /\ Len(wire) = 0
    BY <1>1 DEF Cut, InLines, Mark
  <1>3. WireInv
    <2>1. wire \in Seq(Tokens(feed))
      BY <1>1
    <2>2. AtBoundary(wire, Cut)
      BY <1>2 DEF AtBoundary
    <2>3. AfterBoundary(wire, Cut, buf)
      <3>1. SubSeq(<<>>, 0 + 1, 0) = <<>>
        OBVIOUS
      <3> QED BY <1>1, <1>2, <3>1 DEF AfterBoundary
    <2> QED BY <1>2, <2>1, <2>2, <2>3 DEF WireInv
  <1>4. PICK c : c = Feeds[feed].connector
    OBVIOUS
  <1>5. c \in {"chat", "anthropic"}
    BY <1>4, FeedsAssumption DEF FeedsAssumption, Init
  <1>6. translator.connector = c /\ translator.state = Translator(c).state
    BY <1>1, <1>4 DEF Translator
  <1>7. Holds(c, Translator(c).state, <<>>) /\ Deltas(c, <<>>) = <<>>
    BY <1>5, StartHolds
  <1>8. Given(wire, 0) = <<>>
    BY GivenSteps
  <1>9. sent \o outbox = <<>>
    BY <1>1
  <1>10. \A k : Kinds(<<>>, k) = <<>>
    <2> TAKE k
    <2>0. <<>> \in Seq({})
      OBVIOUS
    <2>1. PICK s \in Seq({}) : s = <<>>
      BY <2>0
    <2>2. \A i \in 1..Len(s) : s[i].kind # k
      BY <2>1
    <2>3. Kinds(s, k) = <<>>
      BY <2>2, KindsNone
    <2> QED BY <2>1, <2>3
  <1>11. ReadTo(0)
    BY <1>6, <1>7, <1>8, <1>9, <1>10 DEF ReadTo
  <1>12. EndInv
    BY <1>1 DEF EndInv, Closing, HasCompleted
  <1> QED BY <1>2, <1>3, <1>11, <1>12 DEF StreamInv, ReadInv

(* One case per action. *)
LEMMA NextStream == IInv /\ StreamInv /\ [Next]_vars => StreamInv'
  <1> SUFFICES ASSUME IInv, StreamInv, [Next]_vars PROVE StreamInv'
    OBVIOUS
  <1>0. IInv' /\ ReaderInv'
    BY NextIInv DEF IInv
  <1>1. CASE Connected
    <2>1. /\ pc = "connect" /\ pc' = "read"
          /\ UNCHANGED <<feed, wire, buf, frame, translator, outbox, after, sent>>
      BY <1>1 DEF Connected, channel
    <2>2. Cut' = Cut /\ ~InLines /\ ~InLines' /\ Reading /\ Mark' = Mark
      BY <2>1 DEF Cut, InLines, Reading, Mark
    <2>3. WireInv'
      BY <2>1, <2>2 DEF StreamInv, WireInv
    <2>4. ReadInv'
      BY <2>1, <2>2 DEF StreamInv, ReadInv, ReadTo
    <2>5. ~HasCompleted' /\ ~Closing'
      BY <2>1, NotCompletedNext, <1>0 DEF Closing
    <2> QED BY <2>3, <2>4, <2>5 DEF StreamInv, EndInv
  <1>2. CASE Refused
    <2>1. /\ pc = "connect" /\ pc' = "refused"
          /\ UNCHANGED <<feed, wire, buf, frame, translator, outbox, after, sent>>
      BY <1>2 DEF Refused, channel
    <2>2. Cut' = Cut /\ ~InLines' /\ ~Reading'
      BY <2>1 DEF Cut, InLines, Reading
    <2>3. WireInv'
      BY <2>1, <2>2 DEF StreamInv, WireInv
    <2>4. ~HasCompleted' /\ ~Closing'
      BY <2>1 DEF Closing, HasCompleted, IInv, ReaderInv
    <2> QED BY <2>2, <2>3, <2>4 DEF StreamInv, ReadInv, EndInv
  <1>3. CASE StreamError
    <2>1. /\ pc = "read" /\ Fail("stream error") /\ UNCHANGED <<feed, wire, buf, sent>>
      BY <1>3 DEF StreamError, channel
    <2>2. AtBoundary(wire, Cut') /\ AfterBoundary(wire, Cut', buf')
      BY <2>1 DEF Cut, StreamInv, WireInv
    <2> QED BY <1>0, <2>1, <2>2, FailStream DEF StreamInv
  <1>4. CASE EndOfBody
    <2>1. /\ pc = "read" /\ ~HasFrame(buf) /\ SendAll(Finish(translator), "ended")
          /\ UNCHANGED <<feed, wire, buf, translator, sent>>
      BY <1>4 DEF EndOfBody, channel
    <2>2. PICK m : m = Cut
      OBVIOUS
    <2>3. m \in Nat /\ ReadTo(m)
      <3>1. Reading /\ Mark = Cut
        BY <2>1 DEF Reading, Mark, InLines
      <3> QED BY <2>2, <3>1 DEF StreamInv, ReadInv, WireInv, AtBoundary
    <2>4. Payloads = Given(wire, m)
      <3>1. m <= Cut /\ m = Cut
        BY <2>2, <2>3
      <3> QED BY <2>1, <2>3, <3>1, PayloadsAre DEF StreamInv, ReadTo
    <2> QED BY <1>0, <2>1, <2>3, <2>4, FinishStream DEF StreamInv
  <1>5. CASE Consume \/ DropReceiver \/ UpstreamEnds \/ Stopped \/ UNCHANGED vars
    <2>1. UNCHANGED <<feed, pc, wire, buf, frame, translator, outbox, after, sent>>
      BY <1>5 DEF Consume, DropReceiver, UpstreamEnds, Stopped, vars, reader, channel
    <2> QED BY <2>1, StreamKeeps
  <1> QED BY <1>0, <1>1, <1>2, <1>3, <1>4, <1>5, ReceiveStream, TakeFrameStream, ReadLineStream,
             FrameDoneStream, SendStream, SendFailsStream DEF Next, ReaderStep

-----------------------------------------------------------------------------
(* The ids synth_id makes up. *)

(* The k-th of finitely many indices. *)
LEMMA KthMember ==
    ASSUME NEW S \in SUBSET Int, IsFiniteSet(S), NEW k \in 1..Cardinality(S)
    PROVE  Kth(S, k) \in S
  <1> DEFINE Below(s, i) == {j \in s : j < i}
             Good(s) == \A n \in 1..Cardinality(s) : \E i \in s : Cardinality(Below(s, i)) = n - 1
             T == {s \in SUBSET S : ~Good(s)}
  <1>1. ASSUME T # {} PROVE FALSE
    <2>0. \A r \in T : r \subseteq S
      OBVIOUS
    <2> HIDE DEF T
    <2>1. PICK s \in T : \A r \in T : r \subseteq s => r = s
      BY <1>1, <2>0, SmallestSubset
    <2>2. s \subseteq S /\ ~Good(s)
      BY DEF T
    <2>3. s \subseteq Int /\ IsFiniteSet(s)
      BY <2>2, FS_Subset
    <2>4. s # {}
      <3>1. ASSUME s = {} PROVE FALSE
        <4>1. Cardinality(s) = 0
          BY <3>1, FS_EmptySet
        <4>2. 1..Cardinality(s) = {}
          BY <4>1
        <4>3. Good(s)
          BY <4>2
        <4> QED BY <2>2, <4>3
      <3> QED BY <3>1
    <2>5. PICK x \in s : \A y \in s : x >= y
      BY <2>3, <2>4, IntFirstAndLast
    <2>6. PICK r : r = s \ {x}
      OBVIOUS
    <2>7. IsFiniteSet(r) /\ Cardinality(r) = Cardinality(s) - 1
      BY <2>3, <2>6, FS_RemoveElement
    <2>8. PICK c \in Nat : c = Cardinality(s)
      BY <2>3, FS_CardinalityType
    <2>9. Good(r)
      <3>1. r \subseteq s /\ r # s /\ r \subseteq S
        BY <2>2, <2>6
      <3>2. r \notin T
        BY <2>1, <3>1
      <3> HIDE DEF Good
      <3> QED BY <3>1, <3>2 DEF T
    <2>10. ASSUME NEW n \in 1..Cardinality(s) PROVE \E i \in s : Cardinality(Below(s, i)) = n - 1
      <3>1. CASE n \in 1..Cardinality(r)
        <4>1. PICK i \in r : Cardinality(Below(r, i)) = n - 1
          BY <2>9, <3>1
        <4>2. i \in s /\ i \in Int /\ x \in Int /\ x >= i
          BY <2>3, <2>5, <2>6
        <4>3. Below(r, i) = Below(s, i)
          BY <2>6, <4>2
        <4> QED BY <4>1, <4>2, <4>3
      <3>2. CASE n \notin 1..Cardinality(r)
        <4>1. n = c /\ Cardinality(r) = n - 1
          BY <2>7, <2>8, <3>2
        <4>2. Below(s, x) = r
          <5>1. ASSUME NEW j \in s PROVE j < x <=> j # x
            BY <2>3, <2>5
          <5> QED BY <2>6, <5>1
        <4> QED BY <4>1, <4>2
      <3> QED BY <3>1, <3>2
    <2> QED BY <2>2, <2>10
  <1>2. Good(S)
    <2> HIDE DEF Good
    <2> QED BY <1>1
  <1>3. \E i \in S : Cardinality({j \in S : j < i}) = k - 1
    BY <1>2
  <1> QED BY <1>3 DEF Kth

(* The id of the k-th call, when x[k] is the one the upstream gave it. *)
Missing(x, k) == {j \in 1..k : x[j] = NoId}
IdAt(x, k) == IF x[k] = NoId THEN SynthId("call", Cardinality(Missing(x, k))) ELSE x[k]

(* The counter of synth_id grows with each call that has no id. *)
LEMMA MissingGrows ==
    ASSUME NEW x, NEW i \in Nat, NEW j \in Nat, 1 <= i, i < j, x[j] = NoId
    PROVE  Cardinality(Missing(x, i)) # Cardinality(Missing(x, j))
  <1>1. PICK a, b : a = Missing(x, i) /\ b = Missing(x, j)
    OBVIOUS
  <1>2. IsFiniteSet(b)
    <2>1. IsFiniteSet(1..j)
      BY FS_Interval
    <2>2. b \subseteq 1..j
      BY <1>1 DEF Missing
    <2> QED BY <2>1, <2>2, FS_Subset
  <1>3. a \subseteq b
    BY <1>1 DEF Missing
  <1>4. j \in b /\ j \notin a
    BY <1>1 DEF Missing
  <1>5. Cardinality(b) = Cardinality(a) => b = a
    BY <1>2, <1>3, FS_Subset
  <1> QED BY <1>1, <1>4, <1>5

(* An id synth_id makes up is that of no other call of the response. *)
LEMMA SynthIdsDiffer ==
    ASSUME NEW n \in Nat, NEW x, \A k \in 1..n : x[k].from # "call",
           NEW i \in 1..n, NEW j \in 1..n, i # j, IdAt(x, i).from = "call"
    PROVE  IdAt(x, i) # IdAt(x, j)
  <1>1. x[i] = NoId
    BY DEF IdAt
  <1>2. PICK p : p = Cardinality(Missing(x, i))
    OBVIOUS
  <1>3. IdAt(x, i) = SynthId("call", p)
    BY <1>1, <1>2 DEF IdAt
  <1>4. CASE x[j] # NoId
    BY <1>3, <1>4 DEF IdAt, SynthId
  <1>5. CASE x[j] = NoId
    <2>1. PICK q : q = Cardinality(Missing(x, j))
      OBVIOUS
    <2>2. IdAt(x, j) = SynthId("call", q)
      BY <1>5, <2>1 DEF IdAt
    <2>3. p # q
      <3>1. i \in Nat /\ j \in Nat /\ 1 <= i /\ 1 <= j /\ (i < j \/ j < i)
        OBVIOUS
      <3>2. CASE i < j
        <4>1. Cardinality(Missing(x, i)) # Cardinality(Missing(x, j))
          BY <1>5, <3>1, <3>2, MissingGrows
        <4> QED BY <1>2, <2>1, <4>1
      <3>3. CASE j < i
        <4>1. Cardinality(Missing(x, j)) # Cardinality(Missing(x, i))
          BY <1>1, <3>1, <3>3, MissingGrows
        <4> QED BY <1>2, <2>1, <4>1
      <3> QED BY <3>1, <3>2, <3>3
    <2>4. SynthId("call", p).n = p /\ SynthId("call", q).n = q
      BY DEF SynthId
    <2> QED BY <1>3, <2>2, <2>3, <2>4
  <1> QED BY <1>4, <1>5

(* The calls of a response have the ids of IdAt. *)
NamedBy(calls, n, x) ==
  /\ DOMAIN calls = 1..n
  /\ \A k \in 1..n : x[k].from # "call" /\ calls[k].call_id = IdAt(x, k)

(* Finitely many places hold finitely many values. *)
LEMMA FiniteImage ==
    ASSUME NEW n \in Nat, NEW f, f = [k \in 1..n |-> f[k]]
    PROVE  IsFiniteSet({f[k] : k \in 1..n})
  <1>1. PICK T : T = {f[k] : k \in 1..n}
    OBVIOUS
  <1>2. IsFiniteSet(1..n)
    BY FS_Interval
  <1>3. f \in Surjection(1..n, T)
    BY <1>1 DEF Surjection
  <1>4. IsFiniteSet(T)
    BY <1>2, <1>3, FS_Surjection
  <1> QED BY <1>1, <1>4

(* The calls of the chat translator are named by IdAt, in order of index. *)
LEMMA ChatNamed ==
    ASSUME NEW S, \A d \in S : Payload("chat", d), NEW D \in Seq(S)
    PROVE  \E n \in Nat : \E x : NamedBy(ChatCalls(ChatRefAccs(D)), n, x)
  <1>1. PICK C : C = PieceSet(S)
    OBVIOUS
  <1>2. /\ \A d \in S : d.tool_calls \in Seq(C)
        /\ \A p \in C : p.index \in Int /\ p.arguments \in Seq(STRING) /\ p.id.from # "call"
    BY <1>1, PieceSetIs
  <1>3. PICK ps : ps = RefPieces(D)
    OBVIOUS
  <1>4. ps \in Seq(C)
    <2>1. CASE S = {}
      <3>1. D = <<>>
        BY <2>1
      <3>2. Len(D) = 0
        BY <3>1
      <3>3. [k \in 1..Len(D) |-> IF D[k].choice THEN D[k].tool_calls ELSE <<>>] = <<>>
        BY <3>2
      <3>4. RefPieces(D) = FlattenSeq(<<>>)
        BY <3>3 DEF RefPieces
      <3>5. FlattenSeq(<<>>) = <<>>
        BY DEF FlattenSeq
      <3>6. <<>> \in Seq(C)
        OBVIOUS
      <3>7. ps = <<>>
        BY <1>3, <3>4, <3>5
      <3> QED BY <3>6, <3>7
    <2>2. CASE S # {}
      <3>1. PICK d \in S : TRUE
        BY <2>2
      <3>2. RefPieces(D) \in Seq(C)
        BY <1>2, Pieces
      <3> QED BY <1>3, <3>2
    <2> QED BY <2>1, <2>2
  <1>5. PICK accs : accs = RefAccs(ps)
    OBVIOUS
  <1>6. accs = [i \in Indices(ps) |-> AccAt(C, ps, i)]
    BY <1>4, <1>5, RefAccsAre
  <1>7. PICK L \in Nat : L = Len(ps)
    BY <1>4
  <1>8. \A k \in 1..L : ps[k] \in C
    BY <1>4, <1>7
  <1>9. DOMAIN accs = Indices(ps) /\ Indices(ps) \subseteq Int /\ IsFiniteSet(Indices(ps))
    <2>1. PICK f : f = [k \in 1..L |-> ps[k].index]
      OBVIOUS
    <2>2. f = [k \in 1..L |-> f[k]] /\ \A k \in 1..L : f[k] = ps[k].index
      BY <2>1
    <2>3. IsFiniteSet({f[k] : k \in 1..L})
      BY <2>2, FiniteImage
    <2>4. Indices(ps) = {f[k] : k \in 1..L}
      BY <1>7, <2>2 DEF Indices
    <2>5. Indices(ps) \subseteq Int
      BY <1>2, <1>7, <1>8 DEF Indices
    <2> QED BY <1>6, <2>3, <2>4, <2>5
  <1>10. ASSUME NEW i \in Indices(ps) PROVE accs[i].call_id.from # "call"
    <2>1. accs[i].call_id = IF IdsAt(ps, i) = {} THEN NoId ELSE ps[Max(IdsAt(ps, i))].id
      BY <1>6 DEF AccAt
    <2>2. CASE IdsAt(ps, i) = {}
      BY <2>1, <2>2 DEF NoId
    <2>3. CASE IdsAt(ps, i) # {}
      <3>1. IdsAt(ps, i) \subseteq 1..L
        BY <1>7 DEF IdsAt
      <3>2. Max(IdsAt(ps, i)) \in IdsAt(ps, i)
        BY <2>3, <3>1, LastPlace
      <3>3. ps[Max(IdsAt(ps, i))] \in C
        BY <1>8, <3>1, <3>2
      <3> QED BY <1>2, <2>1, <2>3, <3>3
    <2> QED BY <2>2, <2>3
  <1>11. PICK n \in Nat : n = Cardinality(DOMAIN accs)
    BY <1>9, FS_CardinalityType
  <1>12. \A k \in 1..n : Kth(DOMAIN accs, k) \in DOMAIN accs
    BY <1>9, <1>11, KthMember
  <1>13. PICK x : x = [k \in 1..n |-> accs[Kth(DOMAIN accs, k)].call_id]
    OBVIOUS
  <1>14. \A k \in 1..n : x[k] = accs[Kth(DOMAIN accs, k)].call_id
    BY <1>13
  <1>15. \A k \in 1..n : x[k].from # "call"
    BY <1>9, <1>10, <1>12, <1>14
  <1>16. ASSUME NEW k \in 1..n
         PROVE  {j \in 1..k : accs[Kth(DOMAIN accs, j)].call_id = NoId} = Missing(x, k)
    <2>1. \A j \in 1..k : j \in 1..n
      OBVIOUS
    <2>2. \A j \in 1..k : x[j] = accs[Kth(DOMAIN accs, j)].call_id
      BY <1>14, <2>1
    <2> QED BY <2>2 DEF Missing
  <1>17. PICK calls : calls = ChatCalls(accs)
    OBVIOUS
  <1>18. DOMAIN calls = 1..n
    BY <1>11, <1>17 DEF ChatCalls
  <1>19. ASSUME NEW k \in 1..n PROVE calls[k].call_id = IdAt(x, k)
    <2>1. calls[k].call_id =
            IF accs[Kth(DOMAIN accs, k)].call_id = NoId
            THEN SynthId("call", Cardinality({j \in 1..k : accs[Kth(DOMAIN accs, j)].call_id = NoId}))
            ELSE accs[Kth(DOMAIN accs, k)].call_id
      BY <1>11, <1>17 DEF ChatCalls, FunctionCallDone
    <2> QED BY <1>14, <1>16, <2>1 DEF IdAt
  <1>20. NamedBy(calls, n, x)
    BY <1>15, <1>18, <1>19 DEF NamedBy
  <1>21. calls = ChatCalls(ChatRefAccs(D))
    BY <1>3, <1>5, <1>17 DEF ChatRefAccs
  <1> QED BY <1>20, <1>21

(* So are those of the anthropic translator. *)
LEMMA AnthropicNamed ==
    ASSUME NEW S, \A d \in S : Payload("anthropic", d), NEW D \in Seq(S)
    PROVE  \E n \in Nat : \E x : NamedBy(AnthropicCalls(AnthropicRefBlocks(D)), n, x)
  <1>1. PICK blocks : blocks = AnthropicRefBlocks(D)
    OBVIOUS
  <1>2. blocks = [i \in Touched(D) |-> BlockAt(S, D, i)]
    BY <1>1, RefBlocksAre
  <1>3. PICK L \in Nat : L = Len(D)
    OBVIOUS
  <1>4. \A k \in 1..L : D[k] \in S
    BY <1>3
  <1>5. PICK tools : tools = ToolBlocks(blocks)
    OBVIOUS
  <1>6. tools \subseteq Touched(D) /\ Touched(D) \subseteq Int /\ IsFiniteSet(Touched(D))
    <2>1. PICK f : f = [k \in 1..L |-> D[k].index]
      OBVIOUS
    <2>2. f = [k \in 1..L |-> f[k]] /\ \A k \in 1..L : f[k] = D[k].index
      BY <2>1
    <2>3. IsFiniteSet({f[k] : k \in 1..L})
      BY <2>2, FiniteImage
    <2>4. Touched(D) \subseteq {f[k] : k \in 1..L}
      BY <1>3, <2>2 DEF Touched
    <2>5. IsFiniteSet(Touched(D))
      BY <2>3, <2>4, FS_Subset
    <2>6. Touched(D) \subseteq Int
      BY <1>3, <1>4 DEF Touched, Touches, Payload
    <2>7. tools \subseteq Touched(D)
      BY <1>2, <1>5 DEF ToolBlocks
    <2> QED BY <2>5, <2>6, <2>7
  <1>7. tools \in SUBSET Int /\ IsFiniteSet(tools)
    BY <1>6, FS_Subset
  <1>8. ASSUME NEW i \in Touched(D) PROVE blocks[i].call_id.from # "call"
    <2>1. blocks[i].call_id = IF StartsAt(D, i) = {} THEN NoId ELSE D[Max(StartsAt(D, i))].id
      BY <1>2 DEF BlockAt
    <2>2. CASE StartsAt(D, i) = {}
      BY <2>1, <2>2 DEF NoId
    <2>3. CASE StartsAt(D, i) # {}
      <3>1. StartsAt(D, i) \subseteq 1..L
        BY <1>3 DEF StartsAt
      <3>2. Max(StartsAt(D, i)) \in StartsAt(D, i)
        BY <2>3, <3>1, LastPlace
      <3>3. PICK e \in S : e = D[Max(StartsAt(D, i))]
        BY <1>4, <3>1, <3>2
      <3>4. IsStart(e, i)
        BY <3>2, <3>3 DEF StartsAt
      <3>5. e.id.from # "call"
        BY <3>4 DEF IsStart, Payload
      <3> QED BY <2>1, <2>3, <3>3, <3>5
    <2> QED BY <2>2, <2>3
  <1>9. PICK n \in Nat : n = Cardinality(tools)
    BY <1>7, FS_CardinalityType
  <1>10. \A k \in 1..n : Kth(tools, k) \in tools
    BY <1>7, <1>9, KthMember
  <1>11. PICK x : x = [k \in 1..n |-> blocks[Kth(tools, k)].call_id]
    OBVIOUS
  <1>12. \A k \in 1..n : x[k] = blocks[Kth(tools, k)].call_id
    BY <1>11
  <1>13. \A k \in 1..n : x[k].from # "call"
    BY <1>6, <1>8, <1>10, <1>12
  <1>14. ASSUME NEW k \in 1..n
         PROVE  {j \in 1..k : blocks[Kth(tools, j)].call_id = NoId} = Missing(x, k)
    <2>1. \A j \in 1..k : j \in 1..n
      OBVIOUS
    <2>2. \A j \in 1..k : x[j] = blocks[Kth(tools, j)].call_id
      BY <1>12, <2>1
    <2> QED BY <2>2 DEF Missing
  <1>15. PICK calls : calls = AnthropicCalls(blocks)
    OBVIOUS
  <1>16. DOMAIN calls = 1..n
    BY <1>5, <1>9, <1>15 DEF AnthropicCalls
  <1>17. ASSUME NEW k \in 1..n PROVE calls[k].call_id = IdAt(x, k)
    <2>1. calls[k].call_id =
            IF blocks[Kth(tools, k)].call_id = NoId
            THEN SynthId("call", Cardinality({j \in 1..k : blocks[Kth(tools, j)].call_id = NoId}))
            ELSE blocks[Kth(tools, k)].call_id
      BY <1>5, <1>9, <1>15 DEF AnthropicCalls, FunctionCallDone
    <2> QED BY <1>12, <1>14, <2>1 DEF IdAt
  <1>18. NamedBy(calls, n, x)
    BY <1>13, <1>16, <1>17 DEF NamedBy
  <1> QED BY <1>1, <1>15, <1>18

(* Calls named by IdAt: a made-up id is used once. *)
LEMMA CallsDiffer ==
    ASSUME NEW calls, \E n \in Nat : \E x : NamedBy(calls, n, x), IsSeq(calls)
    PROVE  \A i, j \in 1..Len(calls) :
             i # j /\ calls[i].call_id.from = "call" => calls[i].call_id # calls[j].call_id
  <1>0. PICK n \in Nat : \E x : NamedBy(calls, n, x)
    OBVIOUS
  <1>1. PICK x : NamedBy(calls, n, x)
    BY <1>0
  <1>2. Len(calls) = n
    <2>1. PICK A : calls \in Seq(A)
      BY DEF IsSeq
    <2>2. DOMAIN calls = 1..Len(calls) /\ Len(calls) \in Nat
      BY <2>1
    <2> QED BY <1>1, <2>2 DEF NamedBy
  <1>3. \A k \in 1..n : x[k].from # "call" /\ calls[k].call_id = IdAt(x, k)
    BY <1>1 DEF NamedBy
  <1> SUFFICES ASSUME NEW i \in 1..n, NEW j \in 1..n, i # j, calls[i].call_id.from = "call"
               PROVE  calls[i].call_id # calls[j].call_id
    BY <1>2
  <1>4. IdAt(x, i).from = "call"
    BY <1>3
  <1>5. IdAt(x, i) # IdAt(x, j)
    BY <1>3, <1>4, SynthIdsDiffer
  <1> QED BY <1>3, <1>5

(* The payloads the reference reads on the wire are payloads of the feed. *)
LEMMA PayloadsData ==
    ASSUME wire \in Seq(Tokens(feed))
    PROVE  Payloads \in Seq(Data)
  <1>1. PICK L \in Nat : L = Len(wire)
    OBVIOUS
  <1> DEFINE before == {i \in JsonLines : \A j \in DoneLines : i < j}
  <1>2. PICK b : b = [i \in 1..L |-> IF i \in before THEN <<wire[i].data>> ELSE <<>>]
    OBVIOUS
  <1>3. Payloads = FlattenSeq(b)
    BY <1>1, <1>2 DEF Payloads
  <1>4. ASSUME NEW i \in 1..L PROVE b[i] \in Seq(Data)
    <2>1. CASE i \in before
      <3>1. wire[i] \in Tokens(feed) /\ wire[i].piece = "json"
        BY <1>1, <2>1 DEF JsonLines
      <3>2. PICK d \in Data : d = wire[i].data
        BY <3>1 DEF Data
      <3>3. <<d>> \in Seq(Data)
        OBVIOUS
      <3> QED BY <1>2, <2>1, <3>2, <3>3
    <2>2. CASE i \notin before
      <3>1. b[i] = <<>>
        BY <1>2, <2>2
      <3>2. <<>> \in Seq(Data)
        OBVIOUS
      <3> QED BY <3>1, <3>2
    <2> QED BY <2>1, <2>2
  <1>5. b = [i \in 1..L |-> b[i]]
    BY <1>2
  <1>6. FlattenSeq(b) = Flat(b, L)
    BY <1>5, FlatAll
  <1>7. L \in 0..L
    OBVIOUS
  <1>8. Flat(b, L) \in Seq(Data)
    BY <1>4, <1>7, FlatSteps
  <1> QED BY <1>3, <1>6, <1>8

(* What the invariant says of a completed stream. *)
LEMMA StreamInvReflects ==
    ASSUME IInv, StreamInv
    PROVE  StreamReflectsWire
  <1> SUFFICES ASSUME HasCompleted PROVE StreamReflectsWire
    BY DEF StreamReflectsWire
  <1>1. PICK k, D, calls : k = translator.connector /\ D = Payloads /\ calls = KindOf("call")
    OBVIOUS
  <1>2. IsSeq(sent) /\ outbox = <<>>
    BY DEF IInv, ReaderInv, StreamInv, EndInv
  <1>3. sent \o outbox = sent
    BY <1>2, KindsSeq
  <1>4. KindOf("delta") = Kinds(sent, "delta") /\ KindOf("call") = Kinds(sent, "call")
    BY DEF KindOf, Kinds
  <1>5. KindOf("delta") = Deltas(k, D) /\ calls = Calls(k, D)
    BY <1>1, <1>3, <1>4 DEF StreamInv, EndInv
  <1>6. Deltas(k, D) = RefDeltas(D) /\ Calls(k, D) = RefCalls(D)
    BY <1>1 DEF Deltas, Calls, RefDeltas, RefCalls
  <1>7. k \in {"chat", "anthropic"} /\ k = Feeds[feed].connector
    BY <1>1 DEF IInv, TranslatorInv
  <1>8. \A d \in Data : Payload(k, d)
    BY <1>7, DataIs DEF IInv
  <1>9. D \in Seq(Data)
    BY <1>1, PayloadsData DEF StreamInv, WireInv
  <1>10. \E n \in Nat : \E x : NamedBy(calls, n, x)
    <2>1. CASE k = "chat"
      <3>1. PICK S : S = Data
        OBVIOUS
      <3>2. (\A d \in S : Payload("chat", d)) /\ D \in Seq(S)
        BY <1>8, <1>9, <2>1, <3>1
      <3>3. \E n \in Nat : \E x : NamedBy(ChatCalls(ChatRefAccs(D)), n, x)
        BY <3>2, ChatNamed
      <3> QED BY <1>5, <2>1, <3>3 DEF Calls
    <2>2. CASE k = "anthropic"
      <3>1. PICK S : S = Data
        OBVIOUS
      <3>2. (\A d \in S : Payload("anthropic", d)) /\ D \in Seq(S)
        BY <1>8, <1>9, <2>2, <3>1
      <3>3. \E n \in Nat : \E x : NamedBy(AnthropicCalls(AnthropicRefBlocks(D)), n, x)
        BY <3>2, AnthropicNamed
      <3> QED BY <1>5, <2>2, <3>3 DEF Calls
    <2> QED BY <1>7, <2>1, <2>2
  <1>11. IsSeq(calls)
    BY <1>1, <1>2, <1>4, KindsSeq
  <1>12. \A i, j \in 1..Len(calls) :
           i # j /\ calls[i].call_id.from = "call" => calls[i].call_id # calls[j].call_id
    BY <1>10, <1>11, CallsDiffer
  <1> QED BY <1>1, <1>5, <1>6, <1>12 DEF StreamReflectsWire

(* A completed stream says exactly what the wire says, however the          *)
(* transport cut it, and the ids made up for calls are not used twice.      *)
THEOREM StreamSaysTheWire == Spec => []StreamReflectsWire
<1>1. Init => IInv /\ StreamInv
  BY InitIInv, InitStream
<1>2. (IInv /\ StreamInv) /\ [Next]_vars => (IInv /\ StreamInv)'
  BY NextIInv, NextStream
<1>3. IInv /\ StreamInv => StreamReflectsWire
  BY StreamInvReflects
<1> QED
  BY <1>1, <1>2, <1>3, PTL DEF Spec
=============================================================================
