---------------------------- MODULE ToolRequests ----------------------------
(***************************************************************************)
(* How a thread's history becomes the message list of a request:           *)
(*   - core/src/context_manager/normalize.rs and history.rs repair the     *)
(*     history before every request (for_prompt) and shrink it;            *)
(*   - zmod/llm-switch/src/connector/chat_req.rs and anthropic_req.rs turn *)
(*     it into Chat messages and Anthropic turns.                          *)
(*                                                                         *)
(* An item is [type, role, call_id, of]: "message" items have a role,      *)
(* "call" and "output" items a call_id.  "of" identifies the call itself   *)
(* (for a call) or the call whose execution produced the output; 0 marks   *)
(* an invented output.  It is not part of the program's data: two calls    *)
(* may carry the same call_id and still be different calls.  "unsupported" *)
(* is a user message with an image, for all that the connectors refuse.    *)
(***************************************************************************)
EXTENDS Integers, Sequences, SequencesExt, FiniteSets, FiniteSetsExt

NoCall == [from |-> "none", n |-> 0]

Message(role) == [type |-> "message", role |-> role, call_id |-> NoCall, of |-> 0]
Call(id, of) == [type |-> "call", role |-> "assistant", call_id |-> id, of |-> of]
Output(id, of) == [type |-> "output", role |-> "tool", call_id |-> id, of |-> of]
Unsupported == [type |-> "unsupported", role |-> "user", call_id |-> NoCall, of |-> 0]

IdsOf(items, type) == {items[i].call_id : i \in {i \in 1..Len(items) : items[i].type = type}}

(* The items at the given places, in their order.                           *)
Only(items, places) ==
  FlattenSeq([i \in 1..Len(items) |-> IF i \in places THEN <<items[i]>> ELSE <<>>])

-----------------------------------------------------------------------------
(* normalize.rs *)

(* An "aborted" output goes right behind every call whose id no output has. *)
EnsureCallOutputsPresent(items) ==
  LET answered == IdsOf(items, "output")
  IN  FlattenSeq([i \in 1..Len(items) |->
        IF items[i].type = "call" /\ items[i].call_id \notin answered
        THEN <<items[i], Output(items[i].call_id, 0)>>
        ELSE <<items[i]>>])

OrphanOutputs(items) ==
  {i \in 1..Len(items) : items[i].type = "output"
                           /\ items[i].call_id \notin IdsOf(items, "call")}

RemoveOrphanOutputs(items) == Only(items, (1..Len(items)) \ OrphanOutputs(items))

ForPrompt(items) == RemoveOrphanOutputs(EnsureCallOutputsPresent(items))

(* The first item goes, and with it the first item that matches it.         *)
Counterparts(items, removed) ==
  {i \in 1..Len(items) :
     /\ items[i].call_id = removed.call_id
     /\ \/ removed.type = "call" /\ items[i].type = "output"
        \/ removed.type = "output" /\ items[i].type = "call"}

(* Mutant: the matching item stays.                                         *)
RemoveFirstOnly(items) == IF items = <<>> THEN items ELSE Tail(items)

RemoveFirstItem(items) ==
  LET rest == Tail(items)
      match == Counterparts(rest, Head(items))
  IN  IF items = <<>> THEN items
      ELSE IF match = {} THEN rest
      ELSE RemoveAt(rest, Min(match))

(* A rollback cuts at the n-th last user message (the first one at most)    *)
(* and at the contextual messages right above it.  "context" messages are   *)
(* not turn boundaries; a compaction summary is a user message like others. *)
UserTurns(items) ==
  {i \in 1..Len(items) : items[i] \in {Message("user"), Message("summary"), Unsupported}}

RollbackCut(items, n) ==
  LET turns == UserTurns(items)
      first == Min(turns)
      cut == IF n >= Cardinality(turns) THEN first
             ELSE Max({i \in turns : Cardinality({j \in turns : j >= i}) >= n})
  IN  Min({k \in first..cut : \A i \in k..(cut - 1) : items[i] = Message("context")})

DropLastNUserTurns(items, n) ==
  IF n = 0 \/ UserTurns(items) = {} THEN items
  ELSE SubSeq(items, 1, RollbackCut(items, n) - 1)

(* build_compacted_history: the user messages, then the summary.  A former  *)
(* summary is not kept.                                                     *)
CompactedHistory(items) ==
  Append(Only(items, {i \in 1..Len(items) : items[i] = Message("user")}), Message("summary"))

-----------------------------------------------------------------------------
(* chat_req.rs *)

ChatStart == [messages |-> <<>>, seen |-> {}, needing |-> {}, failed |-> FALSE]

ChatItem(acc, it) ==
  CASE acc.failed -> acc
    [] it.type = "message" -> [acc EXCEPT !.messages = Append(@, it)]
    [] it.type = "call" ->
         [acc EXCEPT !.messages = Append(@, it), !.seen = @ \cup {it.call_id},
                     !.needing = @ \cup {it.call_id}]
    [] it.type = "output" /\ it.call_id \notin acc.seen -> acc
    [] it.type = "output" /\ it.call_id \in acc.seen ->
         [acc EXCEPT !.messages = Append(@, it), !.needing = @ \ {it.call_id}]
    [] it.type = "unsupported" -> [acc EXCEPT !.failed = TRUE]

OutputsOf(messages, id) ==
  {i \in 1..Len(messages) : messages[i].type = "output" /\ messages[i].call_id = id}

(* Mutants: the messages stay as they are; or all results go to the end.    *)
ReorderNothing(messages) == messages
ReorderToEnd(messages) ==
  LET outputs == {i \in 1..Len(messages) : messages[i].type = "output"}
  IN  Only(messages, (1..Len(messages)) \ outputs) \o Only(messages, outputs)

(* Behind the first assistant message with an id come all tool messages of  *)
(* that id, in their order; tool messages that match none go to the end.    *)
ReorderToolMessages(messages) ==
  LET firstWith(i) == \A j \in 1..(i - 1) : messages[j].type = "call"
                                              => messages[j].call_id # messages[i].call_id
      toolsOf(id) == Only(messages, OutputsOf(messages, id))
  IN  FlattenSeq([i \in 1..Len(messages) |->
        CASE messages[i].type = "output" -> <<>>
          [] messages[i].type = "call" /\ firstWith(i) ->
               <<messages[i]>> \o toolsOf(messages[i].call_id)
          [] OTHER -> <<messages[i]>>])
        \o Only(messages, OrphanOutputs(messages))

(* Mutant: no placeholders.                                                 *)
BuildChatBare(items) ==
  LET acc == FoldLeft(ChatItem, ChatStart, items)
  IN  [failed |-> acc.failed, messages |-> ReorderToolMessages(acc.messages)]

(* The order in which the placeholders are appended (a HashSet's) does not  *)
(* matter: the reordering puts each of them behind its own call.            *)
BuildChat(items) ==
  LET acc == FoldLeft(ChatItem, ChatStart, items)
      ids == SetToSeq(acc.needing)
      placeholders == [i \in 1..Len(ids) |-> Output(ids[i], 0)]
  IN  [failed   |-> acc.failed,
       messages |-> ReorderToolMessages(acc.messages \o placeholders)]

-----------------------------------------------------------------------------
(* anthropic_req.rs: turns [role, blocks] *)

TurnRole(it) == IF it.role = "assistant" THEN "assistant" ELSE "user"

(* Mutant: one turn per block.                                              *)
PushTurn(turns, it) == Append(turns, [role |-> TurnRole(it), blocks |-> <<it>>])

PushBlock(turns, it) ==
  IF turns # <<>> /\ turns[Len(turns)].role = TurnRole(it)
  THEN [turns EXCEPT ![Len(turns)].blocks = Append(@, it)]
  ELSE Append(turns, [role |-> TurnRole(it), blocks |-> <<it>>])

AnthropicStart == [turns |-> <<>>, seen |-> {}, needing |-> <<>>, failed |-> FALSE]

AnthropicItem(acc, it) ==
  CASE acc.failed -> acc
    [] it.type = "message" -> [acc EXCEPT !.turns = PushBlock(@, it)]
    [] it.type = "call" ->
         [acc EXCEPT !.turns = PushBlock(@, it), !.seen = @ \cup {it.call_id},
                     !.needing = Append(@, it.call_id)]
    [] it.type = "output" /\ it.call_id \notin acc.seen -> acc
    [] it.type = "output" /\ it.call_id \in acc.seen ->
         [acc EXCEPT !.turns = PushBlock(@, it),
                     !.needing = Only(@, {i \in 1..Len(@) : @[i] # it.call_id})]
    [] it.type = "unsupported" -> [acc EXCEPT !.failed = TRUE]

BuildAnthropic(items) ==
  LET acc == FoldLeft(AnthropicItem, AnthropicStart, items)
      placeholders == [i \in 1..Len(acc.needing) |-> Output(acc.needing[i], 0)]
  IN  [failed |-> acc.failed,
       turns  |-> FoldLeft(PushBlock, acc.turns, placeholders)]

-----------------------------------------------------------------------------
(* What the two upstream protocols ask of a request. *)

(* Chat: every call is directly followed by exactly one tool message, which *)
(* is the result of that very call (or an invented one), and there is no    *)
(* other tool message.                                                      *)
ChatPaired(messages) ==
  /\ \A i \in 1..Len(messages) : messages[i].type = "call" =>
       /\ i < Len(messages)
       /\ messages[i + 1].type = "output"
       /\ messages[i + 1].call_id = messages[i].call_id
       /\ messages[i + 1].of \in {0, messages[i].of}
  /\ \A i \in 1..Len(messages) : messages[i].type = "output" =>
       i > 1 /\ messages[i - 1].type = "call"

(* Anthropic: roles alternate; the results of a call are in later turns.    *)
Alternates(turns) == \A k \in 1..(Len(turns) - 1) : turns[k].role # turns[k + 1].role

AnthropicAnswered(turns) ==
  /\ Alternates(turns)
  /\ \A k \in 1..Len(turns) : \A b \in ToSet(turns[k].blocks) : b.type = "call" =>
       LET results == UNION {{<<l, j>> : j \in OutputsOf(turns[l].blocks, b.call_id)} :
                               l \in 1..Len(turns)}
       IN  /\ Cardinality(results) = 1
           /\ \A r \in results : r[1] > k /\ turns[r[1]].blocks[r[2]].of \in {0, b.of}
=============================================================================
