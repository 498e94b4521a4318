---------------------------- MODULE Conversation ----------------------------
(***************************************************************************)
(* A thread whose model requests go through llm-switch: what codex-core    *)
(* records into the history (session/turn.rs, stream_events_utils.rs,      *)
(* tasks/mod.rs, compact.rs) and, at every point where it may send a       *)
(* request, what that request looks like.  The upstream answers with       *)
(* function calls and text; tools run, their outputs are recorded in the   *)
(* order of the calls; the turn may be interrupted with outputs missing;   *)
(* the thread may be rolled back or compacted, and a compaction that does  *)
(* not fit the context window drops the oldest items of its own copy.      *)
(***************************************************************************)
EXTENDS ToolRequests

CONSTANTS
  NamesCalls,     \* whether the upstream gives its calls ids: a set of BOOLEANs
  MaxItems,       \* bound on the length of the history
  MaxParallel,    \* bound on the calls of one response
  MaxCalls        \* bound on the calls of the thread

ASSUME ConversationAssumption ==
  /\ NamesCalls \subseteq BOOLEAN
  /\ MaxItems \in Nat /\ MaxParallel \in Nat /\ MaxCalls \in Nat

VARIABLES
  items,      \* the thread's history
  inflight,   \* calls whose tools still run, oldest first
  made,       \* how many calls there have been
  kept,       \* how many of the items the last compaction left, 0 without one
  copy,       \* the history a running compaction works on
  compacting, \* a compaction is running
  lastSent    \* Chat messages of the last request of a turn, <<>> after a rewrite

vars == <<items, inflight, made, kept, copy, compacting, lastSent>>

Idle == inflight = <<>> /\ ~compacting

(* Both connectors refuse the request before anything is sent. *)
HardFails(history) == BuildChat(ForPrompt(history)).failed

Init ==
  /\ items = <<>>
  /\ inflight = <<>>
  /\ made = 0
  /\ kept = 0
  /\ copy = <<>>
  /\ compacting = FALSE
  /\ lastSent = <<>>

UserMessage ==
  /\ Idle
  /\ Len(items) < MaxItems
  /\ \E m \in {Message("user"), Unsupported} : items' = Append(items, m)
  /\ UNCHANGED <<inflight, made, kept, copy, compacting, lastSent>>

(* One sampling request and its answer.  The translators emit the calls     *)
(* before the text, so that is the order in which they are recorded.  A     *)
(* call without an upstream id gets the translator's next synthesized id,   *)
(* counted from 1 in every response.                                        *)
Respond ==
  /\ Idle
  /\ items # <<>>
  /\ ~HardFails(items)
  /\ \E n \in 0..MaxParallel, says \in BOOLEAN, named \in NamesCalls :
       LET id(k) == IF named THEN [from |-> "upstream", n |-> made + k]
                    ELSE [from |-> "call", n |-> k]
           calls == [k \in 1..n |-> Call(id(k), made + k)]
           text == IF says THEN <<Message("assistant")>> ELSE <<>>
       IN  /\ Len(items) + n + Len(text) <= MaxItems
           /\ made + n <= MaxCalls
           /\ items' = items \o calls \o text
           /\ inflight' = calls
           /\ made' = made + n
  /\ lastSent' = BuildChat(ForPrompt(items)).messages
  /\ UNCHANGED <<kept, copy, compacting>>

(* drain_in_flight awaits the tool futures in the order of the calls.       *)
ToolOutput ==
  /\ inflight # <<>>
  /\ items' = Append(items, Output(Head(inflight).call_id, Head(inflight).of))
  /\ inflight' = Tail(inflight)
  /\ UNCHANGED <<made, kept, copy, compacting, lastSent>>

(* An interrupt cancels the tools, which then answer that they were         *)
(* aborted (ToolOutput); those that have not when the grace period ends are *)
(* killed and record nothing.  A marker message closes the turn.            *)
Interrupt ==
  /\ ~compacting /\ items # <<>>
  /\ inflight # <<>> \/ Len(items) < MaxItems
  /\ items' \in {items, Append(items, Message("context"))}
  /\ inflight' = <<>>
  /\ UNCHANGED <<made, kept, copy, compacting, lastSent>>

(* The history is rebuilt from the rollout (RolloutReplay).  While the      *)
(* compaction that the history begins with survives, that is the history    *)
(* cut; with n = turns it depends on whether that compaction was part of    *)
(* the turn.  Otherwise the replay starts behind the compaction, or from an *)
(* older one that survives, and then goes through all items again.          *)
Rollback ==
  /\ Idle
  /\ UserTurns(items) # {}
  /\ \E n \in 1..2 :
       LET younger == SubSeq(items, kept + 1, Len(items))
           turns == Cardinality(UserTurns(younger))
           whole == DropLastNUserTurns(items, n)
       IN  \/ /\ kept = 0 \/ n <= turns
              /\ items' = whole
              /\ UNCHANGED kept
           \/ /\ kept # 0 /\ n >= turns
              /\ items' \in {whole, DropLastNUserTurns(younger, n)}
              /\ kept' = 0
  /\ lastSent' = <<>>
  /\ UNCHANGED <<inflight, made, copy, compacting>>

(* The compaction request is the history and the prompt that asks for a     *)
(* summary.                                                                 *)
CompactStart ==
  /\ Idle
  /\ items # <<>>
  /\ copy' = Append(items, Message("user"))
  /\ compacting' = TRUE
  /\ UNCHANGED <<items, inflight, made, kept, lastSent>>

ContextWindowExceeded ==
  /\ compacting
  /\ ~HardFails(copy)
  /\ Len(ForPrompt(copy)) > 1
  /\ copy' = RemoveFirstItem(copy)
  /\ UNCHANGED <<items, inflight, made, kept, compacting, lastSent>>

CompactDone ==
  /\ compacting
  /\ ~HardFails(copy)
  /\ items' = CompactedHistory(items)
  /\ kept' = Len(items')
  /\ copy' = <<>>
  /\ compacting' = FALSE
  /\ lastSent' = <<>>
  /\ UNCHANGED <<inflight, made>>

(* A failed attempt may already have recorded what the model said.          *)
CompactFails ==
  /\ compacting
  /\ \/ items' = items
     \/ /\ ~HardFails(copy) /\ Len(items) < MaxItems
        /\ items' = Append(items, Message("assistant"))
  /\ copy' = <<>>
  /\ compacting' = FALSE
  /\ UNCHANGED <<inflight, made, kept, lastSent>>

Next ==
  \/ UserMessage \/ Respond \/ ToolOutput \/ Interrupt
  \/ Rollback
  \/ CompactStart \/ ContextWindowExceeded \/ CompactDone \/ CompactFails

Spec == Init /\ [][Next]_vars

-----------------------------------------------------------------------------
(* The history a request would be built from now, if one may be. *)
History == IF compacting THEN copy ELSE items
MayRequest == inflight = <<>> /\ ~HardFails(History)

(* Chat: in every request, whatever was interrupted, rolled back, compacted *)
(* or trimmed before, each call is directly followed by its own result and  *)
(* no result stands anywhere else (reorder_tool_messages: "each tool        *)
(* message immediately follows the assistant tool_calls that produced it"). *)
(* The connector's own repair does not depend on that of core: a request    *)
(* from the raw history, also in the middle of a turn, is paired too, with  *)
(* a placeholder for every call that has no output yet.                     *)
ChatRequestsPaired ==
  /\ MayRequest => ChatPaired(BuildChat(ForPrompt(History)).messages)
  /\ ~HardFails(History) => ChatPaired(BuildChat(History).messages)

(* Anthropic: turns alternate, and every tool_use has exactly one           *)
(* tool_result, its own or an invented one, in a later turn.                *)
AnthropicRequestsAnswered ==
  MayRequest => AnthropicAnswered(BuildAnthropic(ForPrompt(History)).turns)

(* No history ever holds an output without its call, also not the copy that *)
(* remove_first_item shortens without a normalization pass; otherwise       *)
(* remove_orphan_outputs stops a debug build with error_or_panic.           *)
NoOrphanOutputs == MayRequest => OrphanOutputs(EnsureCallOutputsPresent(History)) = {}

(* Prompt caching: until the history is rewritten, every Chat request       *)
(* starts with the messages of the request before it; repairing, reordering *)
(* and interrupting never change what was already sent.                     *)
RequestsExtend ==
  MayRequest /\ ~compacting
    => IsPrefix(lastSent, BuildChat(ForPrompt(items)).messages)

=============================================================================
