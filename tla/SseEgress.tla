----------------------------- MODULE SseEgress -----------------------------
(***************************************************************************)
(* The egress engine of llm-switch: run_egress in                          *)
(* zmod/llm-switch/src/sse.rs, with the translator of the connector it is  *)
(* given (make_connector).  It posts the request, and for a 2xx answer     *)
(* spawns a reader task that cuts the bytes into SSE frames at "\n\n",     *)
(* feeds every data line to the translator and sends the resulting events  *)
(* through a bounded channel to codex-core, which may stop listening at    *)
(* any time.                                                               *)
(*                                                                         *)
(* The wire is a sequence of tokens: a newline byte, or a piece of a line. *)
(* The transport hands the tokens over in arbitrary chunks, so a chunk may *)
(* end between the two newlines of a boundary or in the middle of a line.  *)
(***************************************************************************)
EXTENDS AnthropicSse

CONSTANT
  Feeds   \* what a stream may meet, by name: the connector ("chat" or
          \* "anthropic"), the token sequences (chunks) the transport may
          \* deliver at once, how many tokens the upstream sends before it
          \* stops, and the capacity of the mpsc channel (64 in the code)

(* The tokens of a feed, and the payloads a translator can be given: texts  *)
(* and tool calls are sequences, indices are integers, and the upstream does *)
(* not choose the ids that synth_id makes up.                               *)
Tokens(f) == UNION {Range(chunk) : chunk \in Feeds[f].chunks}
Payload(connector, d) ==
  IF connector = "chat"
  THEN /\ d.content \in Seq(STRING) /\ d.tool_calls \in Seq(Range(d.tool_calls))
       /\ \A tc \in Range(d.tool_calls) :
            tc.index \in Int /\ tc.arguments \in Seq(STRING) /\ tc.id.from # "call"
  ELSE /\ d.type = "text_delta" => d.text \in Seq(STRING)
       /\ d.type = "input_json_delta" => d.index \in Int /\ d.partial_json \in Seq(STRING)
       /\ d.type = "content_block_start" => d.index \in Int
       /\ d.type = "content_block_start" /\ d.tool_use => d.id.from # "call"

ASSUME FeedsAssumption ==
  \A f \in DOMAIN Feeds :
    /\ Feeds[f].connector \in {"chat", "anthropic"}
    /\ \A chunk \in Feeds[f].chunks : chunk \in Seq(Tokens(f))
    /\ \A t \in Tokens(f) : t.piece = "json" => Payload(Feeds[f].connector, t.data)
    /\ Feeds[f].tokens \in Nat
    /\ Feeds[f].channel \in Nat \ {0}

VARIABLES
  feed,       \* the feed of this stream
  upstream,   \* "open", "closed" (end of body) or "broken" (transport error)
  pc,         \* the reader: "connect", "refused", "read", "lines", "send", "ended"
  wire,       \* every token received so far
  buf,        \* the bytes after the last complete frame
  frame,      \* what is left of the frame being read
  translator, \* the state of the translator
  outbox,     \* events of the current send loop
  after,      \* where the reader goes once the outbox is empty
  sent,       \* every event put into the channel
  queued,     \* how many of the last ones are still in it
  streamed,   \* the text of the deltas in sent
  listening   \* the receiver has not been dropped

vars == <<feed, upstream, pc, wire, buf, frame, translator, outbox, after, sent, queued,
          streamed, listening>>
reader == <<pc, buf, frame, translator, outbox, after>>
channel == <<sent, queued, streamed>>

NL == [piece |-> "nl"]
Json(d) == [piece |-> "json", data |-> d]
WireChunks == Feeds[feed].chunks

ErrorEvent(why) == [kind |-> "error", why |-> why]

(* Box<dyn SseTranslator>: which connector made it, and its state.          *)
Translator(k) ==
  [connector |-> k, state |-> IF k = "chat" THEN ChatSseState ELSE AnthropicSseState]
Push(tr, d) ==
  IF tr.connector = "chat" THEN PushChunk(tr.state, d) ELSE PushEvent(tr.state, d)
Finish(tr) ==
  IF tr.connector = "chat" THEN ChatFinish(tr.state) ELSE AnthropicFinish(tr.state)

-----------------------------------------------------------------------------
(* Bytes, frames and lines *)

Boundaries(b) == {i \in 1..(Len(b) - 1) : b[i] = NL /\ b[i + 1] = NL}
HasFrame(b) == Boundaries(b) # {}
FrameEnd(b) == CHOOSE i \in Boundaries(b) : \A j \in Boundaries(b) : i <= j

(* The line the frame starts with, and what comes after its newline.        *)
Newlines(f) == {i \in 1..Len(f) : f[i] = NL}
LineEnd(f) ==
  IF Newlines(f) = {} THEN Len(f) + 1
  ELSE CHOOSE i \in Newlines(f) : \A j \in Newlines(f) : i <= j
FirstLine(f) == SubSeq(f, 1, LineEnd(f) - 1)
OtherLines(f) == SubSeq(f, LineEnd(f) + 1, Len(f))

(* What the reader makes of a line.  A line without the "data:" prefix and  *)
(* one with an empty payload are skipped; pieces that no newline separates  *)
(* are one line, whose payload is neither [DONE] nor JSON.                  *)
LineMeaning(line) ==
  IF line = <<>> \/ line[1].piece = "skip" THEN "skip"
  ELSE IF Len(line) > 1 THEN "bad_json"
  ELSE IF line[1].piece = "empty" THEN "skip"
  ELSE line[1].piece

-----------------------------------------------------------------------------
Init ==
  /\ feed \in DOMAIN Feeds
  /\ upstream = "open"
  /\ pc = "connect"
  /\ wire = <<>>
  /\ buf = <<>>
  /\ frame = <<>>
  /\ translator = Translator(Feeds[feed].connector)
  /\ outbox = <<>>
  /\ after = "lines"
  /\ sent = <<>>
  /\ queued = 0
  /\ streamed = <<>>
  /\ listening = TRUE

(* The synchronous phase: a failed request or a status other than 2xx is    *)
(* the result of run_egress; only a 2xx answer spawns the reader.           *)
Connected ==
  /\ pc = "connect"
  /\ pc' = "read"
  /\ UNCHANGED <<feed, upstream, wire, buf, frame, translator, outbox, after, channel, listening>>

Refused ==
  /\ pc = "connect"
  /\ pc' = "refused"
  /\ UNCHANGED <<feed, upstream, wire, buf, frame, translator, outbox, after, channel, listening>>

(* Mutant: what was left of the chunk before is forgotten.                  *)
ReceiveForgets(chunk) ==
  /\ pc = "read"
  /\ ~HasFrame(buf)
  /\ upstream = "open"
  /\ Len(wire) + Len(chunk) <= Feeds[feed].tokens
  /\ wire' = wire \o chunk
  /\ buf' = chunk
  /\ UNCHANGED <<feed, upstream, pc, frame, translator, outbox, after, channel, listening>>

(* byte_stream.next(): the reader asks for more only when the buffer holds  *)
(* no complete frame.                                                       *)
Receive(chunk) ==
  /\ pc = "read"
  /\ ~HasFrame(buf)
  /\ upstream = "open"
  /\ Len(wire) + Len(chunk) <= Feeds[feed].tokens
  /\ wire' = wire \o chunk
  /\ buf' = buf \o chunk
  /\ UNCHANGED <<feed, upstream, pc, frame, translator, outbox, after, channel, listening>>

(* Sends the events and goes on at next; with nothing to send it goes on    *)
(* at once.                                                                 *)
SendAll(events, next) ==
  /\ outbox' = events
  /\ after' = next
  /\ pc' = IF events = <<>> THEN next ELSE "send"

(* An error is sent and the task returns. *)
Fail(why) == SendAll(<<ErrorEvent(why)>>, "ended")

StreamError ==
  /\ pc = "read"
  /\ ~HasFrame(buf)
  /\ upstream = "broken"
  /\ Fail("stream error")
  /\ UNCHANGED <<feed, upstream, wire, buf, frame, translator, channel, listening>>

(* Mutant: the reader goes on polling while the buffer is not empty.        *)
EndOfBodyPolls ==
  /\ pc = "read"
  /\ ~HasFrame(buf)
  /\ upstream = "closed"
  /\ IF buf = <<>> THEN SendAll(Finish(translator), "ended") ELSE UNCHANGED <<pc, outbox, after>>
  /\ UNCHANGED <<feed, upstream, wire, buf, frame, translator, channel, listening>>

(* The end of the body leaves the loop: bytes after the last boundary are   *)
(* dropped and the translator finishes, whether or not [DONE] was seen.     *)
EndOfBody ==
  /\ pc = "read"
  /\ ~HasFrame(buf)
  /\ upstream = "closed"
  /\ SendAll(Finish(translator), "ended")
  /\ UNCHANGED <<feed, upstream, wire, buf, frame, translator, channel, listening>>

(* The first complete frame leaves the buffer; if it is not UTF-8, no line  *)
(* of it is read.                                                           *)
TakeFrame ==
  /\ pc = "read"
  /\ HasFrame(buf)
  /\ LET f == SubSeq(buf, 1, FrameEnd(buf) - 1)
     IN  IF \E i \in 1..Len(f) : f[i].piece = "bad_utf8"
         THEN Fail("utf8") /\ UNCHANGED frame
         ELSE frame' = f /\ pc' = "lines" /\ UNCHANGED <<outbox, after>>
  /\ buf' = SubSeq(buf, FrameEnd(buf) + 2, Len(buf))
  /\ UNCHANGED <<feed, upstream, wire, translator, channel, listening>>

(* One line of the frame.  [DONE] leaves both loops and finishes. *)
ReadLine ==
  /\ pc = "lines"
  /\ frame # <<>>
  /\ LET line == FirstLine(frame)
         meaning == LineMeaning(line)
     IN  \/ /\ meaning = "skip"
            /\ UNCHANGED <<pc, translator, outbox, after>>
         \/ /\ meaning = "done"
            /\ SendAll(Finish(translator), "ended")
            /\ UNCHANGED translator
         \/ /\ meaning = "bad_json"
            /\ Fail("json")
            /\ UNCHANGED translator
         \/ /\ meaning = "json"
            /\ LET r == Push(translator, line[1].data)
               IN  IF r.ok THEN translator' = [translator EXCEPT !.state = r.state] /\ SendAll(r.events, "lines")
                   ELSE UNCHANGED translator /\ Fail("upstream")
  /\ frame' = OtherLines(frame)
  /\ UNCHANGED <<feed, upstream, wire, buf, channel, listening>>

FrameDone ==
  /\ pc = "lines"
  /\ frame = <<>>
  /\ pc' = "read"
  /\ UNCHANGED <<feed, upstream, wire, buf, frame, translator, outbox, after, channel, listening>>

(* tx.send(..).await: waits for room, and fails when the receiver is gone,  *)
(* which ends the task.                                                     *)
Send ==
  /\ pc = "send"
  /\ listening
  /\ queued < Feeds[feed].channel
  /\ LET e == Head(outbox)
     IN  /\ sent' = Append(sent, e)
         /\ streamed' = IF e.kind = "delta" THEN streamed \o e.text ELSE streamed
  /\ queued' = queued + 1
  /\ outbox' = Tail(outbox)
  /\ pc' = IF Tail(outbox) = <<>> THEN after ELSE pc
  /\ UNCHANGED <<feed, upstream, wire, buf, frame, translator, after, listening>>

SendFails ==
  /\ pc = "send"
  /\ ~listening
  /\ pc' = "ended"
  /\ UNCHANGED <<feed, upstream, wire, buf, frame, translator, outbox, after, channel, listening>>

(* The sampling loop of codex-core takes an event, or drops the stream with *)
(* what is in it.  What it does with a text delta is not modelled: without  *)
(* an active item, and there never is one, it logs it or panics.            *)
Consume ==
  /\ listening
  /\ queued > 0
  /\ queued' = queued - 1
  /\ UNCHANGED <<feed, upstream, wire, reader, sent, streamed, listening>>

DropReceiver ==
  /\ pc \notin {"connect", "refused"}
  /\ listening
  /\ listening' = FALSE
  /\ queued' = 0
  /\ UNCHANGED <<feed, upstream, wire, reader, sent, streamed>>

(* The upstream closes the body, or the connection breaks. *)
UpstreamEnds ==
  /\ pc # "connect"
  /\ upstream = "open"
  /\ upstream' \in {"closed", "broken"}
  /\ UNCHANGED <<feed, wire, reader, channel, listening>>

ReaderStep ==
  \/ StreamError \/ EndOfBody \/ TakeFrame \/ ReadLine \/ FrameDone \/ Send \/ SendFails

Stopped ==
  /\ pc \in {"refused", "ended"}
  /\ UNCHANGED vars

Next ==
  \/ Connected \/ Refused
  \/ \E chunk \in WireChunks : Receive(chunk)
  \/ ReaderStep
  \/ Consume \/ DropReceiver
  \/ UpstreamEnds
  \/ Stopped

Spec == Init /\ [][Next]_vars

(* The runtime keeps polling a task that can make progress, and codex-core  *)
(* reads the stream until it drops it.  Nothing is assumed of the upstream. *)
FairSpec == Spec /\ WF_vars(ReaderStep) /\ WF_vars(Consume)

-----------------------------------------------------------------------------
(* The reference reading of the whole wire, as if it had arrived at once:   *)
(* positions of pieces that are a line of their own inside a complete       *)
(* frame.                                                                   *)
OwnLine(i) ==
  /\ wire[i] # NL
  /\ i = 1 \/ wire[i - 1] = NL
  /\ i = Len(wire) \/ wire[i + 1] = NL
InFrame(i) == \E j \in Boundaries(wire) : j > i

JsonLines == {i \in 1..Len(wire) : wire[i].piece = "json" /\ OwnLine(i) /\ InFrame(i)}
DoneLines == {i \in 1..Len(wire) : wire[i].piece = "done" /\ OwnLine(i) /\ InFrame(i)}

(* The payloads of the data lines that come before any [DONE]. *)
Payloads ==
  LET before == {i \in JsonLines : \A j \in DoneLines : i < j}
  IN  FlattenSeq([i \in 1..Len(wire) |-> IF i \in before THEN <<wire[i].data>> ELSE <<>>])

RefDeltas(D) ==
  IF translator.connector = "chat" THEN ChatRefDeltas(D) ELSE AnthropicRefDeltas(D)
RefCalls(D) ==
  IF translator.connector = "chat" THEN ChatCalls(ChatRefAccs(D))
  ELSE AnthropicCalls(AnthropicRefBlocks(D))

KindOf(k) ==
  FlattenSeq([i \in 1..Len(sent) |-> IF sent[i].kind = k THEN <<sent[i]>> ELSE <<>>])
HasCompleted == sent # <<>> /\ sent[Len(sent)].kind = "completed"

(* A completed stream says exactly what the wire says: the deltas and the   *)
(* function calls are those of the whole byte sequence read at once, so     *)
(* neither the cutting into chunks (a boundary split over two reads, two    *)
(* frames in one read) nor the interleaving of fragments of several calls   *)
(* loses, repeats or reorders anything, in the frame loop of run_egress and *)
(* in the accumulators of both translators.  A call the upstream did not    *)
(* name has an id (synth_id) that no other call of the response has.        *)
StreamReflectsWire ==
  HasCompleted =>
    LET D == Payloads
        calls == KindOf("call")
    IN  /\ KindOf("delta") = RefDeltas(D) /\ calls = RefCalls(D)
        /\ \A i, j \in 1..Len(calls) :
             i # j /\ calls[i].call_id.from = "call" => calls[i].call_id # calls[j].call_id

Contract ==
  INSTANCE ResponseStreamContract
    WITH phase <- CASE pc = "connect" -> "connecting"
                    [] pc = "refused" -> "refused"
                    [] pc = "ended"   -> "closed"
                    [] OTHER          -> "streaming"

(* The reader keeps the promise of llm-switch: calls and the message after  *)
(* the deltas, no error after a call, one terminal event and nothing after  *)
(* it, streamed text repeated by the message before Completed, no silent    *)
(* end while somebody listens.  It leaves out the OutputItemAdded that      *)
(* codex-core asserts before a text delta, which no translator sends.       *)
ImplementsContract == Contract!Spec

(* Once the body has ended or the connection is broken, the reader task     *)
(* ends, however full the channel is and whether codex-core keeps reading   *)
(* or drops the stream: backpressure never leaves it waiting for ever.      *)
ReaderEnds == (upstream # "open" /\ pc # "refused") ~> (pc = "ended")
=============================================================================
