---------------------------- MODULE RolloutReplay ----------------------------
(***************************************************************************)
(* A thread's rollout and the state rebuilt from it.                       *)
(*   - session/rollout_reconstruction.rs: the scan of the rollout from its *)
(*     newest item and the replay of what the scan leaves;                 *)
(*   - session/mod.rs, session/turn.rs, compact.rs, session/handlers.rs:   *)
(*     what turns, compactions and rollbacks record and persist.           *)
(*                                                                         *)
(* An item of the history is [role, turn]: "user" and "assistant" messages *)
(* of a turn, the "summary" of a compaction, the "bundle" with the whole   *)
(* initial context, and "context" for settings diffs, interruption markers *)
(* and the continuation of a goal.  Turn 0 stands for no turn.  A turn's   *)
(* TurnContext is the turn.                                                *)
(* Compactions without a replacement history, which old versions wrote,    *)
(* and inter-agent messages, which count like user messages, are left out; *)
(* so is the UserMessage event, which goes with every "user" item.         *)
(***************************************************************************)
EXTENDS Integers, Sequences, SequencesExt, FiniteSets, FiniteSetsExt

CONSTANT
  Bounds   \* the threads considered, by name, each with bounds on its turns,
           \* its compactions (windows), its rollbacks and the turns one of
           \* them drops, the messages a turn records, and whether the user
           \* steers running turns, asks for reviews and has set a goal

ASSUME BoundsAssumption ==
  \A b \in DOMAIN Bounds :
    Bounds[b] \in [turns : Nat, windows : Nat, rollbacks : Nat, messages : Nat,
                  steers : BOOLEAN, reviews : BOOLEAN, goals : BOOLEAN]

VARIABLES
  scenario,   \* the name of the bounds of this thread
  rollout,    \* the persisted items, oldest first
  history,    \* ContextManager.items
  reference,  \* reference_context_item: turn whose context later diffs are against
  settings,   \* previous_turn_settings: turn they were taken from
  window,     \* auto_compact_window number
  turn,       \* number of turns started so far
  phase,      \* what the current turn has done
  recorded,   \* messages it has recorded
  marks       \* for each user turn not rolled back: the turn, and the histories
              \* it started from

thread == <<history, reference, settings, window>>
vars == <<scenario, rollout, history, reference, settings, window, turn, phase, recorded, marks>>

Bound == Bounds[scenario]

(* An item is a "user", "assistant" or "context" message, the "summary" of  *)
(* a compaction, or the initial context of a turn (a "bundle").             *)
Item(role, t) == [role |-> role, turn |-> t]
Contextual(item) == item.role \in {"bundle", "context"}
IsUserTurnBoundary(item) == item.role \in {"user", "summary"}

(* Rollout items. *)
Started(t) == [kind |-> "started", turn |-> t]
Complete(t) == [kind |-> "complete", turn |-> t]
Aborted(t) == [kind |-> "aborted", turn |-> t]
Context(t) == [kind |-> "context", turn |-> t]
Response(item) == [kind |-> "response", item |-> item]
Compacted(h, w) == [kind |-> "compacted", replacement |-> h, window |-> w]
RolledBack(n) == [kind |-> "rolledback", turns |-> n]

Responses(items) == [i \in 1..Len(items) |-> Response(items[i])]

-----------------------------------------------------------------------------
(* The scan, newest item first. *)

NeverSet == -1
Cleared == 0

NoSegment == [open |-> FALSE, turn |-> 0, user |-> FALSE, settings |-> 0,
              reference |-> NeverSet, base |-> <<>>, window |-> 0]

(* base holds the replacement history, if there is one; the replay covers   *)
(* the items from suffix on.                                                *)
ScanStart == [base |-> <<>>, settings |-> 0, reference |-> NeverSet, window |-> 0,
              pending |-> 0, suffix |-> 1, seg |-> NoSegment]

Opened(seg, t) == [seg EXCEPT !.open = TRUE, !.turn = IF @ = 0 THEN t ELSE @]

(* Mutant: a rollback counts every segment.                                 *)
FinalizeCountsAll(acc) ==
  IF acc.pending > 0
  THEN [acc EXCEPT !.seg = NoSegment, !.pending = @ - 1]
  ELSE [acc EXCEPT
          !.seg = NoSegment,
          !.base = IF @ = <<>> THEN acc.seg.base ELSE @,
          !.window = IF @ = 0 THEN acc.seg.window ELSE @,
          !.settings = IF @ = 0 /\ acc.seg.user THEN acc.seg.settings ELSE @,
          !.reference = IF @ = NeverSet /\ (acc.seg.user \/ acc.seg.reference = Cleared)
                        THEN acc.seg.reference ELSE @]

(* Mutant: a turn without a prompt gives the settings.                      *)
FinalizeAnyTurn(acc) ==
  IF acc.pending > 0
  THEN [acc EXCEPT !.seg = NoSegment, !.pending = IF acc.seg.user THEN @ - 1 ELSE @]
  ELSE [acc EXCEPT
          !.seg = NoSegment,
          !.base = IF @ = <<>> THEN acc.seg.base ELSE @,
          !.window = IF @ = 0 THEN acc.seg.window ELSE @,
          !.settings = IF @ = 0 THEN acc.seg.settings ELSE @,
          !.reference = IF @ = NeverSet THEN acc.seg.reference ELSE @]

Finalize(acc) ==
  LET seg == acc.seg
  IN  IF acc.pending > 0
      THEN [acc EXCEPT !.seg = NoSegment, !.pending = IF seg.user THEN @ - 1 ELSE @]
      ELSE [acc EXCEPT
              !.seg = NoSegment,
              !.base = IF @ = <<>> THEN seg.base ELSE @,
              !.window = IF @ = 0 THEN seg.window ELSE @,
              !.settings = IF @ = 0 /\ seg.user THEN seg.settings ELSE @,
              !.reference = IF @ = NeverSet /\ (seg.user \/ seg.reference = Cleared)
                            THEN seg.reference ELSE @]

(* Mutant: a compaction leaves the baseline of older items alone.           *)
ScanCompactedKeeps(acc, i, it) ==
  LET seg == Opened(acc.seg, 0)
  IN  [acc EXCEPT !.seg = [seg EXCEPT
                             !.window = IF @ = 0 THEN it.window ELSE @,
                             !.base = IF @ = <<>> THEN <<it.replacement>> ELSE @],
                  !.suffix = IF seg.base = <<>> THEN i + 1 ELSE @]

ScanCompacted(acc, i, it) ==
  LET seg == Opened(acc.seg, 0)
  IN  [acc EXCEPT !.seg = [seg EXCEPT
                             !.window = IF @ = 0 THEN it.window ELSE @,
                             !.reference = IF @ = NeverSet THEN Cleared ELSE @,
                             !.base = IF @ = <<>> THEN <<it.replacement>> ELSE @],
                  !.suffix = IF seg.base = <<>> THEN i + 1 ELSE @]

ScanContext(acc, it) ==
  LET seg == Opened(acc.seg, it.turn)
  IN  IF seg.turn # it.turn THEN [acc EXCEPT !.seg = seg]
      ELSE [acc EXCEPT !.seg = [seg EXCEPT
              !.settings = it.turn,
              !.reference = IF @ = NeverSet THEN it.turn ELSE @]]

ScanItem(acc, i, it) ==
  CASE it.kind = "compacted"  -> ScanCompacted(acc, i, it)
    [] it.kind = "rolledback" -> [acc EXCEPT !.pending = @ + it.turns]
    [] it.kind \in {"complete", "aborted"} -> [acc EXCEPT !.seg = Opened(@, it.turn)]
    [] it.kind = "context"    -> ScanContext(acc, it)
    [] it.kind = "started"    ->
         IF acc.seg.open /\ acc.seg.turn \in {0, it.turn} THEN Finalize(acc) ELSE acc
    [] it.kind = "response"   ->
         [acc EXCEPT !.seg = [Opened(@, 0) EXCEPT !.user = @ \/ IsUserTurnBoundary(it.item)]]

(* The scan stops as soon as everything it looks for is known.              *)
Known(acc) == acc.base # <<>> /\ acc.settings # 0 /\ acc.reference # NeverSet

Scan(items) ==
  LET step(i, acc) == IF Known(acc) THEN acc ELSE ScanItem(acc, i, items[i])
      end == FoldRight(step, [i \in 1..Len(items) |-> i], ScanStart)
  IN  IF end.seg.open THEN Finalize(end) ELSE end

-----------------------------------------------------------------------------
(* The replay. *)

UserTurns(items) == {i \in 1..Len(items) : IsUserTurnBoundary(items[i])}

(* trim_pre_turn_context_updates: the contextual items right above the cut  *)
(* go with it, but none from before the first user turn.                    *)
TrimCut(items, first, cut) ==
  CHOOSE k \in first..cut :
    /\ \A i \in k..(cut - 1) : Contextual(items[i])
    /\ k = first \/ ~Contextual(items[k - 1])

DropLastNUserTurns(items, n) ==
  LET users == UserTurns(items)
      first == Min(users)
      cut == IF n >= Cardinality(users) THEN first
             ELSE CHOOSE i \in users : Cardinality({j \in users : j >= i}) = n
  IN  IF n = 0 \/ users = {} THEN items
      ELSE SubSeq(items, 1, TrimCut(items, first, cut) - 1)

(* Mutant: rollback markers are not replayed.                               *)
ReplayNoRollback(items, it) ==
  CASE it.kind = "response"   -> Append(items, it.item)
    [] it.kind = "compacted"  -> it.replacement
    [] it.kind = "rolledback" -> items

ReplayItem(items, it) ==
  CASE it.kind = "response"   -> Append(items, it.item)
    [] it.kind = "compacted"  -> it.replacement
    [] it.kind = "rolledback" -> DropLastNUserTurns(items, it.turns)

(* What the replay does not ignore. *)
Replayed(items) ==
  SelectSeq(items, LAMBDA it : it.kind \in {"response", "compacted", "rolledback"})

Reconstruct(items) ==
  LET scan == Scan(items)
      base == IF scan.base = <<>> THEN <<>> ELSE Head(scan.base)
      compactions == {i \in 1..Len(items) : items[i].kind = "compacted"}
  IN  [history   |-> FoldLeft(ReplayItem, base, Replayed(SubSeq(items, scan.suffix, Len(items)))),
       reference |-> IF scan.reference = NeverSet THEN 0 ELSE scan.reference,
       settings  |-> scan.settings,
       window    |-> IF scan.window = 0 THEN Cardinality(compactions) ELSE scan.window]

ApplyRolloutReconstruction(items) ==
  LET r == Reconstruct(items)
  IN  /\ history' = r.history
      /\ reference' = r.reference
      /\ settings' = r.settings
      /\ window' = r.window

-----------------------------------------------------------------------------
(* The thread. *)

Conversational(items) == SelectSeq(items, LAMBDA it : ~Contextual(it))

Init ==
  /\ scenario \in DOMAIN Bounds
  /\ rollout = <<>>
  /\ history = <<>>
  /\ reference = 0
  /\ settings = 0
  /\ window = 0
  /\ turn = 0
  /\ phase = "idle"
  /\ recorded = 0
  /\ marks = <<>>

Persist(items) == rollout' = rollout \o items

(* record_conversation_items: into the history and into the rollout.        *)
Record(items) ==
  /\ history' = history \o items
  /\ Persist(Responses(items))

(* The ghost marks.  A turn's mark begins with the history the turn finds,  *)
(* takes the one its prompt finds too, and is withdrawn when the turn ends  *)
(* without a prompt.                                                        *)
Prompted(items, t) == \E i \in 1..Len(items) : items[i] = Response(Item("user", t))
NewMark == Append(marks, [turn |-> turn + 1, from |-> {Conversational(history)}])
MarkPrompt == [marks EXCEPT ![Len(marks)].from = @ \cup {Conversational(history)}]
EndMark == IF phase = "idle" \/ Prompted(rollout', turn) THEN marks ELSE Front(marks)

(* A regular turn, or the turn of a compaction that the user asked for.     *)
StartTurn ==
  /\ phase = "idle"
  /\ turn < Bound.turns
  /\ turn' = turn + 1
  /\ phase' = "started"
  /\ recorded' = 0
  /\ Persist(<<Started(turn + 1)>>)
  /\ marks' = NewMark
  /\ UNCHANGED <<scenario, thread>>

(* collect_user_messages and build_compacted_history                        *)
CompactedHistory(items) ==
  Append(SelectSeq(items, LAMBDA it : it.role = "user"), Item("summary", turn))

(* insert_initial_context_before_last_real_user_or_summary                  *)
WithInitialContext(items) ==
  LET users == {i \in 1..Len(items) : items[i].role = "user"}
      at == IF users # {} THEN Max(users) ELSE Max({1} \cup UserTurns(items))
  IN  InsertAt(items, at, Item("bundle", turn))

(* The compaction request runs before the turn's context is recorded.       *)
(* Its answer, the summary, is recorded as an assistant message first.      *)
PreTurnCompact ==
  /\ phase = "started"
  /\ window < Bound.windows
  /\ LET h == CompactedHistory(history)
     IN  /\ history' = h
         /\ Persist(Responses(<<Item("assistant", turn)>>) \o <<Compacted(h, window + 1)>>)
  /\ window' = window + 1
  /\ reference' = 0
  /\ UNCHANGED <<scenario, settings, turn, phase, recorded, marks>>

(* The attempt fails after its answer was recorded; the turn then ends.     *)
CompactFails ==
  /\ phase = "started"
  /\ window < Bound.windows
  /\ recorded < Bound.messages
  /\ Record(<<Item("assistant", turn)>>)
  /\ recorded' = recorded + 1
  /\ UNCHANGED <<scenario, reference, settings, window, turn, phase, marks>>

(* Without a baseline the whole initial context is recorded, otherwise      *)
(* what changed since the baseline, if anything did.                        *)
RecordContextUpdates ==
  /\ phase = "started"
  /\ \E diff \in {<<>>, <<Item("context", turn)>>} :
       LET items == IF reference = 0 THEN <<Item("bundle", turn)>> ELSE diff
       IN  /\ history' = history \o items
           /\ Persist(Append(Responses(items), Context(turn)))
  /\ reference' = turn
  /\ phase' = "context"
  /\ UNCHANGED <<scenario, settings, window, turn, recorded, marks>>

(* run_hooks_and_record_inputs, with the prompt as input.                   *)
RecordUserPrompt ==
  /\ phase = "context"
  /\ Record(<<Item("user", turn)>>)
  /\ phase' = "inputs"
  /\ recorded' = 1
  /\ marks' = MarkPrompt
  /\ UNCHANGED <<scenario, reference, settings, window, turn>>

(* A turn that continues a goal has no input of its own: it is started      *)
(* (try_start_turn_if_idle) with the goal's item as pending input.          *)
NoInput ==
  /\ Bound.goals
  /\ phase = "context"
  /\ phase' = "inputs"
  /\ recorded' = 0
  /\ UNCHANGED <<scenario, rollout, thread, turn, marks>>

(* After the inputs, whether there were any or not.                         *)
SetPreviousTurnSettings ==
  /\ phase = "inputs"
  /\ settings' = turn
  /\ phase' = IF recorded = 0 THEN "pending" ELSE "open"
  /\ UNCHANGED <<scenario, rollout, history, reference, window, turn, recorded, marks>>

(* The turn takes its pending input before its first request.               *)
ContinueGoal ==
  /\ phase = "pending"
  /\ Record(<<Item("context", turn)>>)
  /\ phase' = "open"
  /\ UNCHANGED <<scenario, reference, settings, window, turn, recorded, marks>>

(* What the model says, and what the user steers into the running turn.     *)
RecordMessage(role) ==
  /\ phase = "open"
  /\ recorded < Bound.messages
  /\ Record(<<Item(role, turn)>>)
  /\ recorded' = recorded + 1
  /\ UNCHANGED <<scenario, reference, settings, window, turn, phase>>

Respond == RecordMessage("assistant") /\ UNCHANGED marks
Steer ==
  /\ Bound.steers
  /\ RecordMessage("user")
  /\ marks' = IF Prompted(rollout, turn) THEN marks ELSE MarkPrompt

(* A compaction between two requests of a turn puts the context back in.    *)
ReplaceHistory(before, h) ==
  /\ phase = "open"
  /\ window < Bound.windows
  /\ history' = h
  /\ Persist(Responses(before) \o <<Compacted(h, window + 1), Context(turn)>>)
  /\ window' = window + 1
  /\ reference' = turn
  /\ UNCHANGED <<scenario, settings, turn, phase, recorded, marks>>

MidTurnCompact ==
  ReplaceHistory(<<Item("assistant", turn)>>, WithInitialContext(CompactedHistory(history)))

(* The new_context_window tool keeps nothing but the initial context.       *)
NewContextWindow == ReplaceHistory(<<>>, <<Item("bundle", turn)>>)

(* A review runs in a thread of its own.  This one gets no TurnStarted and  *)
(* no context for it, and at the end two messages with its result.          *)
StartReview ==
  /\ Bound.reviews
  /\ phase = "idle"
  /\ turn < Bound.turns
  /\ turn' = turn + 1
  /\ phase' = "review"
  /\ recorded' = 0
  /\ marks' = NewMark
  /\ UNCHANGED <<scenario, rollout, history, reference, settings, window>>

ReviewResult == <<Item("user", turn), Item("assistant", turn)>>

ExitReviewMode ==
  /\ phase = "review"
  /\ Record(ReviewResult)
  /\ phase' = "reviewed"
  /\ UNCHANGED <<scenario, reference, settings, window, turn, recorded, marks>>

EndTurn(items, event) ==
  /\ history' = history \o items
  /\ Persist(Append(Responses(items), event))
  /\ phase' = "idle"
  /\ marks' = EndMark
  /\ UNCHANGED <<scenario, reference, settings, window, turn, recorded>>

Finish ==
  /\ phase \notin {"idle", "review"}
  /\ EndTurn(<<>>, Complete(turn))

(* Aborting a review also exits the review mode; a marker is recorded only  *)
(* for an interruption, and only if the configuration asks for it.          *)
Abort ==
  /\ phase # "idle"
  /\ LET result == IF phase \in {"review", "reviewed"} THEN ReviewResult ELSE <<>>
     IN  \E marker \in {<<>>, <<Item("context", turn)>>} :
           EndTurn(result \o marker, Aborted(turn))

(* The process ends, in the middle of a turn or between two, and the thread *)
(* is resumed (or forked) from its rollout.                                 *)
Resume ==
  /\ ApplyRolloutReconstruction(rollout)
  /\ phase' = "idle"
  /\ UNCHANGED <<scenario, rollout, turn, recorded>>
  /\ marks' = EndMark

Rollbacks == Cardinality({i \in 1..Len(rollout) : rollout[i].kind = "rolledback"})

ThreadRollback(n) ==
  /\ phase = "idle"
  /\ Rollbacks < Bound.rollbacks
  /\ Persist(<<RolledBack(n)>>)
  /\ ApplyRolloutReconstruction(rollout')
  /\ marks' = SubSeq(marks, 1, Len(marks) - n)
  /\ UNCHANGED <<scenario, turn, phase, recorded>>

Next ==
  \/ StartTurn \/ PreTurnCompact \/ CompactFails
  \/ RecordContextUpdates \/ RecordUserPrompt \/ NoInput \/ SetPreviousTurnSettings
  \/ ContinueGoal \/ Respond \/ Steer
  \/ MidTurnCompact \/ NewContextWindow
  \/ StartReview \/ ExitReviewMode
  \/ Finish \/ Abort \/ Resume
  \/ \E n \in 1..Bound.rollbacks : ThreadRollback(n)

Spec == Init /\ [][Next]_vars

-----------------------------------------------------------------------------
(* Whether the rollout has a TurnStarted for every turn that recorded       *)
(* something: it has none for a review.                                     *)
EveryTurnStarted ==
  \A i \in 1..Len(rollout) :
    rollout[i].kind = "response" =>
      \E j \in 1..i : rollout[j] = Started(rollout[i].item.turn)

(* The last user turn that was not rolled back. *)
LastUserTurn ==
  Max({0} \cup {marks[i].turn : i \in {i \in 1..Len(marks) : Prompted(rollout, marks[i].turn)}})

(* The turn recorded more after its prompt, so it took its settings.        *)
WentOn(t) ==
  \E i, j \in 1..Len(rollout) :
    /\ i < j
    /\ rollout[i] = Response(Item("user", t))
    /\ rollout[j] \in {Response(Item("assistant", t)), Response(Item("user", t))}

(* Whatever the thread went through, its rollout says what it is: resumed   *)
(* at any moment, in the middle of a turn, of a compaction or between two,  *)
(* it has the same history and the same window number as the session that   *)
(* ended, and as previous-turn settings those of the last user turn that    *)
(* was not rolled back.  These are the ones the session had, except after a *)
(* turn that only continued a goal (set_previous_turn_settings runs for it, *)
(* the scan skips it) and for a turn that ended between its prompt and      *)
(* set_previous_turn_settings.  The scan needs the TurnStarted of every     *)
(* turn for the settings, and for the history once turns were rolled back.  *)
ResumeKeepsThread ==
  LET r == Reconstruct(rollout)
  IN  /\ EveryTurnStarted \/ Rollbacks = 0 => r.history = history /\ r.window = window
      /\ EveryTurnStarted =>
           /\ r.settings = LastUserTurn
           /\ \/ settings = r.settings
              \/ settings > r.settings /\ ~Prompted(rollout, settings)
              \/ r.settings # 0 /\ ~WentOn(r.settings)

(* Context is only diffed against a baseline that the model can see: as     *)
(* long as there is a reference_context_item, the history holds an initial  *)
(* context.  Without it later turns would send diffs and nothing else.      *)
(* Stated for threads without rollbacks: after one over a compaction the    *)
(* baseline of an older turn returns and its initial context does not.      *)
BaselineInHistory ==
  Rollbacks = 0 /\ reference # 0 => \E i \in 1..Len(history) : history[i].role = "bundle"

(* Threads in which a user turn is what its name says: every turn has a     *)
(* TurnStarted and one prompt, and none was compacted away.                 *)
PlainTurns ==
  /\ EveryTurnStarted
  /\ \A i \in 1..Len(rollout) : rollout[i].kind # "compacted"
  /\ \A i, j \in 1..Len(rollout) :
       /\ rollout[i].kind = "response" /\ rollout[i].item.role = "user"
       /\ rollout[j] = rollout[i]
       => i = j

(* A rollback of n turns leaves the conversation as it was when the n-th    *)
(* last surviving user turn started (or when it recorded its prompt), after *)
(* interruptions, failed compactions, resumes and other rollbacks.  Stated  *)
(* for plain turns: of a steered turn only the part after the last input    *)
(* goes, and over a compaction the conversation before it is lost.  History *)
(* and metadata stay in step: the settings are those of the last turn whose *)
(* prompt is still there, and there are none only when no prompt is left.   *)
RollbackRestores ==
  [][\A n \in 1..Bound.rollbacks : ThreadRollback(n) /\ PlainTurns =>
       /\ n <= Len(marks) => Conversational(history') \in marks[Len(marks) - n + 1].from
       /\ LET prompts == {history'[i].turn : i \in {i \in 1..Len(history') : history'[i].role = "user"}}
          IN  settings' = Max({0} \cup prompts)]_vars
==============================================================================
