--------------------------- MODULE TurnLifecycle ---------------------------
(***************************************************************************)
(* The turn lifecycle of one core session (codex-rs/core): which task runs *)
(* the active turn, who may replace or abort it, and where every accepted  *)
(* input is while the submission loop, background callers and the spawned  *)
(* tasks interleave.                                                       *)
(*                                                                         *)
(* The unit of atomicity is one critical section of Session::active_turn,  *)
(* of a TurnState or of the mailbox mutex; the awaits between two critical *)
(* sections are the interleaving points.  Every `Arc<Mutex<TurnState>>` is *)
(* an index into tstate, so Arc::ptr_eq is equality of indexes.            *)
(*                                                                         *)
(* Left out: telemetry, metrics, git enrichment, the guardian circuit      *)
(* breaker and the text of events.  JoinHandle::abort is taken to stop the *)
(* task at the await it is in: it takes no further step.                   *)
(***************************************************************************)
EXTENDS Naturals, Sequences, FiniteSets, SequencesExt

CONSTANTS
    Turns,          \* turn contexts (sub ids) that may ever be created
    NoTask,         \* ActiveTurn::task = None
    Loop,           \* the submission loop, which runs its handlers one by one
    Background,     \* callers outside the loop: app-server requests, tools
    Starters,       \* those that also start or abort turns: the guardian
                    \* breaker and extensions with idle work
    UserInputs,     \* TurnInput::UserInput, each submitted once
    ResponseItems,  \* TurnInput::ResponseItem, each injected once
    Mails,          \* TurnInput::InterAgentCommunication, each sent once
    TriggerMails,   \* the mails with trigger_turn set
    MaxAborts,      \* bound: Interrupt operations and guardian aborts
    MaxCompacts     \* bound: Compact and RunUserShellCommand operations

ASSUME ConstantsAssumption ==
    /\ NoTask \notin Turns
    /\ Loop \notin Background
    /\ Starters \subseteq Background
    /\ TriggerMails \subseteq Mails
    /\ UserInputs \cap ResponseItems = {}
    /\ Mails \cap (UserInputs \cup ResponseItems) = {}
    /\ MaxAborts \in Nat /\ MaxCompacts \in Nat

Callers == {Loop} \cup Background
Inputs  == UserInputs \cup ResponseItems \cup Mails

VARIABLES
    active,    \* Session::active_turn; state = 0 stands for None
    tstate,    \* every TurnState allocated so far
    mailbox,   \* InputQueue::mailbox_pending_mails
    task,      \* the tokio task of each turn context, if one was spawned
    caller,    \* the call each caller is executing
    history,   \* what record_pending_input put into the conversation
    blocked,   \* user inputs a UserPromptSubmit hook refused
    returned,  \* inputs handed back to whoever offered them
    unsent,    \* inputs nobody has offered yet
    steered,   \* the turn that steer_input named when it accepted the input
    aborts, compacts, \* operations counted against MaxAborts, MaxCompacts
    overwrote  \* a start_task found ActiveTurn::task already set

vars == <<active, tstate, mailbox, task, caller, history, blocked, returned,
          unsent, steered, aborts, compacts, overwrote>>

(* State of the records. *)

NoTurn == [task |-> NoTask, state |-> 0]

TurnState == [input : Seq(Inputs), phase : {"CurrentTurn", "NextTurn"}]

DefaultTurnState == [input |-> <<>>, phase |-> "CurrentTurn"]

\* What a task runs: run_turn, a compaction or review, or a user's shell
\* command, whose TaskKind is Regular although it never drains input.
Kinds == {"Regular", "Compact", "Shell"}

Task == [pc : {"unborn", "begin", "recordInput", "drain", "drainMail", "recordPending",
               "sample", "exitCheck", "exit", "finTake", "finInput",
               "finRecord", "finEvent", "finClear", "done"},
         kind      : Kinds,
         cancelled : BOOLEAN,   \* the cancellation token
         buf       : Seq(Inputs),
         canDrain  : BOOLEAN,   \* run_turn's can_drain_pending_input
         hook      : {"none", "blocked", "accepted"},
         ts        : Nat,       \* on_task_finished's turn_state
         failed    : BOOLEAN,   \* run returned Err(CodexErr::TurnAborted)
         ends      : Seq({"TurnComplete", "TurnAborted"})]  \* events sent

UnbornTask == [pc |-> "unborn", kind |-> "Regular", cancelled |-> FALSE,
               buf |-> <<>>, canDrain |-> TRUE, hook |-> "none", ts |-> 0,
               failed |-> FALSE, ends |-> <<>>]

\* The future of task t is gone, and its locals with it: it ran to its end,
\* or its JoinHandle was aborted.
EndedTask(t) == [UnbornTask EXCEPT !.pc = "done",
                                   !.cancelled = task[t].cancelled,
                                   !.ends = task[t].ends]

Caller == [pc : {"idle", "abortTake", "abortWait", "abortEmit", "abortClear",
                 "maybeCheck", "maybeReserve", "startDrain", "startMail",
                 "startInsert", "startExtend", "startSpawn", "tryReserve",
                 "tryRecheck", "tryClear", "tryStill", "tryExtend"},
           turn   : Turns \cup {NoTask},   \* the turn context it created
           kind   : Kinds,
           input  : Seq(Inputs),           \* the input of start_task
           buf    : Seq(Inputs),           \* start_task's pending_items
           ts     : Nat,                   \* a TurnState it holds
           victim : Turns \cup {NoTask},   \* the RunningTask it took
           reason : {"Interrupted", "Replaced"}]

IdleCaller == [pc |-> "idle", turn |-> NoTask, kind |-> "Regular",
               input |-> <<>>, buf |-> <<>>, ts |-> 0, victim |-> NoTask,
               reason |-> "Replaced"]

Init ==
    /\ active = NoTurn
    /\ tstate = <<>>
    /\ mailbox = <<>>
    /\ task = [t \in Turns |-> UnbornTask]
    /\ caller = [c \in Callers |-> IdleCaller]
    /\ history = <<>>
    /\ blocked = {}
    /\ returned = {}
    /\ unsent = Inputs
    /\ steered = [i \in UserInputs |-> NoTask]
    /\ aborts = 0
    /\ compacts = 0
    /\ overwrote = FALSE

-----------------------------------------------------------------------------
(* The input queue (session/input_queue.rs). *)

\* The input of the active turn: the first half of get_pending_input.
TurnPending ==
    IF active.state = 0 THEN <<>> ELSE tstate[active.state].input

AcceptsMailboxDelivery ==
    active.state # 0 => tstate[active.state].phase = "CurrentTurn"

TurnPendingTaken ==
    IF active.state = 0 THEN tstate
                        ELSE [tstate EXCEPT ![active.state].input = <<>>]

HasPendingInput ==
    TurnPending # <<>> \/ (AcceptsMailboxDelivery /\ mailbox # <<>>)

HasTriggerTurnMailboxItems == ToSet(mailbox) \cap TriggerMails # {}

-----------------------------------------------------------------------------
(* The task that runs a turn (tasks/mod.rs, tasks/regular.rs and the input *)
(* loop of session/turn.rs).                                               *)

Runs(t, pc) == task[t].pc = pc

QueuesUnchanged == UNCHANGED <<active, tstate, mailbox>>

TaskOnly == UNCHANGED <<caller, returned, unsent, steered, aborts, compacts,
                        overwrote>>

Recorded == UNCHANGED <<history, blocked>>

\* run_turn gets to its input: the pre-sampling compaction, the skills and
\* plugins and the session-start hooks went through.
BeginTurn(t) ==
    /\ Runs(t, "begin")
    /\ task' = [task EXCEPT ![t].pc = "recordInput"]
    /\ QueuesUnchanged /\ TaskOnly /\ Recorded

\* run_turn returns before it has recorded its input or drained any: the
\* pre-sampling compaction failed, the skills and plugins were cancelled, or
\* a session-start hook stopped it.  The input it was given is dropped.  A
\* compaction that ends with CodexErr::TurnAborted, and a prewarm that is
\* cancelled, also leave RegularTask::run.
GiveUp(t) ==
    /\ Runs(t, "begin")
    /\ \/ task' = [task EXCEPT ![t].pc = "exitCheck", ![t].buf = <<>>]
       \/ task' = [task EXCEPT ![t].pc = "exit", ![t].buf = <<>>,
                               ![t].failed = TRUE]
    /\ QueuesUnchanged /\ TaskOnly /\ Recorded

\* run_hooks_and_record_inputs, and the same loop in on_task_finished, for
\* the next input of the batch: a UserPromptSubmit hook may refuse a user
\* input, every other input is recorded.
RecordOne(t) ==
    /\ \E pc \in {"recordInput", "recordPending", "finRecord"} : Runs(t, pc)
    /\ task[t].buf # <<>>
    /\ LET i == Head(task[t].buf)
           rest == Tail(task[t].buf)
       IN \/ /\ history' = Append(history, i)
             /\ blocked' = blocked
             /\ task' = [task EXCEPT ![t].buf = rest,
                           ![t].hook = IF i \in UserInputs THEN "accepted" ELSE @]
          \/ /\ i \in UserInputs
             /\ blocked' = blocked \cup {i}
             /\ history' = history
             /\ task' = [task EXCEPT ![t].buf = rest,
                           ![t].hook = IF @ = "accepted" THEN @ ELSE "blocked"]
    /\ QueuesUnchanged /\ TaskOnly

\* The batch is recorded.  run_turn gives up when every user input of the
\* batch was blocked; on_task_finished ignores that.
RecordDone(t) ==
    /\ task[t].buf = <<>>
    /\ \/ /\ Runs(t, "recordInput")
          /\ task' = [task EXCEPT ![t].hook = "none",
                        ![t].pc = IF task[t].hook = "blocked" THEN "exitCheck"
                                                              ELSE "drain"]
       \/ /\ Runs(t, "recordPending")
          /\ task' = [task EXCEPT ![t].hook = "none",
                        ![t].pc = IF task[t].hook = "blocked" THEN "exitCheck"
                                                              ELSE "sample"]
       \/ /\ Runs(t, "finRecord")
          /\ task' = [task EXCEPT ![t].hook = "none", ![t].pc = "finEvent"]
    /\ QueuesUnchanged /\ TaskOnly /\ Recorded

\* Seeded fault: get_pending_input copies the input instead of taking it.
DrainCopies(t) ==
    /\ Runs(t, "drain")
    /\ task' = [task EXCEPT ![t].buf = TurnPending, ![t].pc = "drainMail"]
    /\ UNCHANGED <<active, tstate, mailbox>> /\ TaskOnly /\ Recorded

\* get_pending_input of the sampling loop, under the active_turn lock.
Drain(t) ==
    /\ Runs(t, "drain")
    /\ IF task[t].canDrain
       THEN /\ task' = [task EXCEPT ![t].buf = TurnPending,
                          ![t].pc = IF AcceptsMailboxDelivery
                                    THEN "drainMail" ELSE "recordPending"]
            /\ tstate' = TurnPendingTaken
       ELSE /\ task' = [task EXCEPT ![t].pc = "recordPending"]
            /\ tstate' = tstate
    /\ UNCHANGED <<active, mailbox>> /\ TaskOnly /\ Recorded

\* drain_mailbox_input_items, under the mailbox lock.
DrainMail(t) ==
    /\ Runs(t, "drainMail")
    /\ task' = [task EXCEPT ![t].buf = @ \o mailbox, ![t].pc = "recordPending"]
    /\ mailbox' = <<>>
    /\ UNCHANGED <<active, tstate>> /\ TaskOnly /\ Recorded

\* turn_state_for_sub_id: the state of the active turn if t still runs it.
OwnsActiveTurn(t) == active.task = t

\* The final answer was recorded: late mail waits for the next turn, unless
\* input for this turn is already waiting.
DeferMailboxDelivery(t) ==
    /\ Runs(t, "sample") /\ task[t].kind = "Regular"
    /\ OwnsActiveTurn(t) /\ TurnPending = <<>>
    /\ tstate' = [tstate EXCEPT ![active.state].phase = "NextTurn"]
    /\ UNCHANGED <<active, mailbox, task>> /\ TaskOnly /\ Recorded

\* The model called a tool: mail may join this turn again.
AcceptMailboxDelivery(t) ==
    /\ Runs(t, "sample") /\ task[t].kind = "Regular"
    /\ OwnsActiveTurn(t)
    /\ tstate' = [tstate EXCEPT ![active.state].phase = "CurrentTurn"]
    /\ UNCHANGED <<active, mailbox, task>> /\ TaskOnly /\ Recorded

\* Seeded fault: can_drain_pending_input is not set again after a request.
SampleFollowUpKeepsFlag(t) ==
    /\ Runs(t, "sample") /\ task[t].kind = "Regular"
    /\ task' = [task EXCEPT ![t].pc = "drain"]
    /\ QueuesUnchanged /\ TaskOnly /\ Recorded

\* A sampling request ends: another one follows when the model asks for it,
\* when input is pending, or when a stop hook blocks the end of the turn.
SampleFollowUp(t) ==
    /\ Runs(t, "sample") /\ task[t].kind = "Regular"
    /\ task' = [task EXCEPT ![t].pc = "drain", ![t].canDrain = TRUE]
    /\ QueuesUnchanged /\ TaskOnly /\ Recorded

\* The same with a compaction in between: a follow-up the model asked for is
\* resumed before pending input is drained.
SampleCompact(t) ==
    /\ Runs(t, "sample") /\ task[t].kind = "Regular"
    /\ \E modelNeedsFollowUp \in BOOLEAN :
         /\ modelNeedsFollowUp \/ HasPendingInput
         /\ task' = [task EXCEPT ![t].pc = "drain",
                                 ![t].canDrain = ~modelNeedsFollowUp]
    /\ QueuesUnchanged /\ TaskOnly /\ Recorded

\* The model is done and nothing is pending; a non-regular task just ends.
SampleStop(t) ==
    /\ Runs(t, "sample")
    /\ task[t].kind = "Regular" => ~HasPendingInput
    /\ task' = [task EXCEPT ![t].pc = IF task[t].kind = "Regular"
                                      THEN "exitCheck" ELSE "exit"]
    /\ QueuesUnchanged /\ TaskOnly /\ Recorded

\* The request failed: CodexErr::TurnAborted leaves RegularTask::run at once,
\* every other error only ends run_turn.
SampleError(t) ==
    /\ Runs(t, "sample")
    /\ \/ /\ task[t].kind # "Shell"
          /\ task' = [task EXCEPT ![t].pc = "exit", ![t].failed = TRUE]
       \/ /\ task[t].kind = "Regular"
          /\ task' = [task EXCEPT ![t].pc = "exitCheck"]
    /\ QueuesUnchanged /\ TaskOnly /\ Recorded

\* RegularTask::run after run_turn: call it again, without input of its own,
\* while input is pending.
ExitCheck(t) ==
    /\ Runs(t, "exitCheck")
    /\ task' = [task EXCEPT ![t].canDrain = TRUE,
                  ![t].pc = IF HasPendingInput THEN "begin" ELSE "exit"]
    /\ QueuesUnchanged /\ TaskOnly /\ Recorded

\* The spawned future after run: a cancelled task does not finish its turn.
CheckCancelled(t) ==
    /\ Runs(t, "exit")
    /\ task' = [task EXCEPT ![t] = IF task[t].cancelled
                                   THEN EndedTask(t)
                                   ELSE [@ EXCEPT !.pc = "finTake"]]
    /\ QueuesUnchanged /\ TaskOnly /\ Recorded

\* Seeded fault: the finishing task is looked at, not taken.
FinishPeek(t) ==
    /\ Runs(t, "finTake")
    /\ task' = [task EXCEPT ![t] = IF active.task = NoTask THEN EndedTask(t)
                   ELSE [@ EXCEPT !.pc = "finInput", !.ts = active.state]]
    /\ QueuesUnchanged /\ TaskOnly /\ Recorded

\* on_task_finished takes the task of whatever turn is active.
FinishTake(t) ==
    /\ Runs(t, "finTake")
    /\ IF active.task = NoTask
       THEN /\ task' = [task EXCEPT ![t] = EndedTask(t)]
            /\ active' = active
       ELSE /\ task' = [task EXCEPT ![t].pc = "finInput", ![t].ts = active.state]
            /\ active' = [active EXCEPT !.task = NoTask]
    /\ UNCHANGED <<tstate, mailbox>> /\ TaskOnly /\ Recorded

\* Seeded fault: input still pending when the task ends is thrown away.
FinishDiscards(t) ==
    /\ Runs(t, "finInput")
    /\ task' = [task EXCEPT ![t].pc = "finRecord"]
    /\ tstate' = [tstate EXCEPT ![task[t].ts].input = <<>>]
    /\ UNCHANGED <<active, mailbox>> /\ TaskOnly /\ Recorded

\* on_task_finished takes the input that is still pending.
FinishInput(t) ==
    /\ Runs(t, "finInput")
    /\ task' = [task EXCEPT ![t].pc = "finRecord",
                            ![t].buf = tstate[task[t].ts].input]
    /\ tstate' = [tstate EXCEPT ![task[t].ts].input = <<>>]
    /\ UNCHANGED <<active, mailbox>> /\ TaskOnly /\ Recorded

FinishEvent(t) ==
    /\ Runs(t, "finEvent")
    /\ task' = [task EXCEPT ![t].pc = "finClear",
                  ![t].ends = Append(@, IF task[t].failed THEN "TurnAborted"
                                                          ELSE "TurnComplete")]
    /\ QueuesUnchanged /\ TaskOnly /\ Recorded

\* The turn is cleared only if it is still this one and nobody runs it.
FinishClear(t) ==
    /\ Runs(t, "finClear")
    /\ active' = IF active.task = NoTask /\ active.state = task[t].ts
                 THEN NoTurn ELSE active
    /\ task' = [task EXCEPT ![t] = EndedTask(t)]
    /\ UNCHANGED <<tstate, mailbox>> /\ TaskOnly /\ Recorded

TaskStep(t) ==
    \/ BeginTurn(t) \/ GiveUp(t)
    \/ RecordOne(t) \/ RecordDone(t) \/ Drain(t) \/ DrainMail(t)
    \/ DeferMailboxDelivery(t) \/ AcceptMailboxDelivery(t)
    \/ SampleFollowUp(t) \/ SampleCompact(t) \/ SampleStop(t) \/ SampleError(t)
    \/ ExitCheck(t) \/ CheckCancelled(t)
    \/ FinishTake(t) \/ FinishInput(t) \/ FinishEvent(t) \/ FinishClear(t)

-----------------------------------------------------------------------------
(* Steering and injection (session/mod.rs, session/inject.rs): one critical *)
(* section of active_turn each.                                             *)

\* Turn contexts nobody has created yet: the bound on turns.
FreshTurns ==
    {t \in Turns : /\ task[t].pc = "unborn"
                   /\ \A c \in Callers : caller[c].turn # t}

Idle(c) == caller[c].pc = "idle"

Offer(i) == i \in unsent /\ unsent' = unsent \ {i}

\* steer_input takes the input: a task of TaskKind::Regular owns the active
\* turn, and it is the expected one if the client named one.
SteerAccepts(i, expected) ==
    /\ active.task # NoTask
    /\ expected \in {NoTask, active.task}
    /\ task[active.task].kind # "Compact"
    /\ tstate' = [tstate EXCEPT ![active.state] =
                    [input |-> Append(@.input, i), phase |-> "CurrentTurn"]]
    /\ steered' = [steered EXCEPT ![i] = active.task]
    /\ returned' = returned

\* steer_input fails although a task owns the turn: another turn was
\* expected, or a review or compaction turn cannot be steered.
SteerRejects(i, expected) ==
    /\ active.task # NoTask
    /\ expected \notin {NoTask, active.task} \/ task[active.task].kind = "Compact"
    /\ returned' = returned \cup {i}
    /\ UNCHANGED <<tstate, steered>>

\* CodexThread::steer_input, called by the app server for turn/steer.
SteerInput(c) ==
    /\ c \in Background /\ Idle(c)
    /\ \E i \in UserInputs, expected \in Turns \cup {NoTask} :
         /\ Offer(i)
         /\ \/ SteerAccepts(i, expected)
            \/ SteerRejects(i, expected)
            \/ /\ active.task = NoTask
               /\ returned' = returned \cup {i}
               /\ UNCHANGED <<tstate, steered>>
    /\ UNCHANGED <<active, mailbox, task, caller, history, blocked, aborts,
                   compacts, overwrote>>

\* inject_no_new_turn: into the active turn if there is one, else straight
\* into the conversation.
InjectNoNewTurn(c) ==
    /\ Idle(c)
    /\ \E i \in ResponseItems :
         /\ Offer(i)
         /\ IF active.state # 0
            THEN /\ tstate' = [tstate EXCEPT ![active.state].input = Append(@, i)]
                 /\ history' = history
            ELSE /\ history' = Append(history, i)
                 /\ tstate' = tstate
    /\ UNCHANGED <<active, mailbox, task, caller, blocked, returned, steered,
                   aborts, compacts, overwrote>>

-----------------------------------------------------------------------------
(* Operations of the submission loop (session/handlers.rs). *)

SubmissionOnly == UNCHANGED <<active, task, history, blocked, overwrote>>

\* user_input_or_turn: steer the active turn, or spawn a regular task when
\* there is none.
UserInputOrTurn ==
    /\ Idle(Loop)
    /\ \E i \in UserInputs, t \in FreshTurns :
         /\ Offer(i)
         /\ \/ (SteerAccepts(i, NoTask) \/ SteerRejects(i, NoTask)) /\ caller' = caller
            \/ /\ active.task = NoTask
               /\ caller' = [caller EXCEPT ![Loop] =
                    [IdleCaller EXCEPT !.pc = "abortTake", !.turn = t, !.input = <<i>>]]
               /\ UNCHANGED <<tstate, returned, steered>>
    /\ UNCHANGED <<mailbox, aborts, compacts>> /\ SubmissionOnly

\* compact (and review): spawn a task that cannot be steered.
Compact ==
    /\ Idle(Loop) /\ compacts < MaxCompacts
    /\ \E t \in FreshTurns :
         caller' = [caller EXCEPT ![Loop] =
             [IdleCaller EXCEPT !.pc = "abortTake", !.turn = t, !.kind = "Compact"]]
    /\ compacts' = compacts + 1
    /\ UNCHANGED <<tstate, mailbox, returned, unsent, steered, aborts>>
    /\ SubmissionOnly

\* run_user_shell_command without a running task: a standalone turn.  Beside
\* a running task the command is no task of its own and touches no queue.
RunUserShellCommand ==
    /\ Idle(Loop) /\ compacts < MaxCompacts
    /\ active.task = NoTask
    /\ \E t \in FreshTurns :
         caller' = [caller EXCEPT ![Loop] =
             [IdleCaller EXCEPT !.pc = "abortTake", !.turn = t, !.kind = "Shell"]]
    /\ compacts' = compacts + 1
    /\ UNCHANGED <<tstate, mailbox, returned, unsent, steered, aborts>>
    /\ SubmissionOnly

\* interrupt: abort_all_tasks(Interrupted).
Interrupt ==
    /\ Idle(Loop) /\ aborts < MaxAborts
    /\ \E t \in FreshTurns :
         caller' = [caller EXCEPT ![Loop] =
             [IdleCaller EXCEPT !.pc = "abortTake", !.turn = t,
                                !.reason = "Interrupted"]]
    /\ aborts' = aborts + 1
    /\ UNCHANGED <<tstate, mailbox, returned, unsent, steered, compacts>>
    /\ SubmissionOnly

\* inter_agent_communication: enqueue the mail, then let a trigger mail wake
\* an idle session.
InterAgentCommunication ==
    /\ Idle(Loop)
    /\ \E m \in Mails, t \in FreshTurns :
         /\ Offer(m)
         /\ mailbox' = Append(mailbox, m)
         /\ caller' = IF m \in TriggerMails
                      THEN [caller EXCEPT ![Loop] =
                              [IdleCaller EXCEPT !.pc = "maybeCheck", !.turn = t]]
                      ELSE caller
    /\ UNCHANGED <<tstate, returned, steered, aborts, compacts>>
    /\ SubmissionOnly

-----------------------------------------------------------------------------
(* abort_all_tasks, abort_turn_if_active and handle_task_abort. *)

CallerOnly == UNCHANGED <<history, blocked, unsent, steered, aborts, compacts>>

At(c, pc) == caller[c].pc = pc

Goto(c, pc) == caller' = [caller EXCEPT ![c].pc = pc]

Return(c) == caller' = [caller EXCEPT ![c] = IdleCaller]

\* Seeded fault: the turn is taken but its token is not cancelled.
TakeOnly(c) ==
    /\ active' = NoTurn
    /\ task' = task
    /\ caller' = [caller EXCEPT ![c].pc = "abortWait", ![c].ts = active.state,
                                ![c].victim = active.task]

\* Taking the active turn hands its RunningTask to the aborting caller, which
\* cancels the token before it awaits anything.
TakeAndCancel(c) ==
    /\ active' = NoTurn
    /\ task' = [task EXCEPT ![active.task].cancelled = TRUE]
    /\ caller' = [caller EXCEPT ![c].pc = "abortWait", ![c].ts = active.state,
                                ![c].victim = active.task]

\* abort_all_tasks without a task to abort: the turn, if any, is just dropped.
AbortTake(c) ==
    /\ At(c, "abortTake")
    /\ IF active.task # NoTask
       THEN TakeAndCancel(c)
       ELSE /\ active' = NoTurn
            /\ task' = task
            /\ IF caller[c].reason = "Interrupted" THEN Return(c)
                                                   ELSE Goto(c, "startDrain")
    /\ UNCHANGED <<tstate, mailbox, returned, overwrote>> /\ CallerOnly

\* abort_turn_if_active, spawned by the guardian's rejection breaker for the
\* turn it watched.
AbortTurnIfActive(c) ==
    /\ c \in Starters /\ Idle(c) /\ aborts < MaxAborts
    /\ active.task # NoTask
    /\ \E t \in FreshTurns :
         /\ active' = NoTurn
         /\ task' = [task EXCEPT ![active.task].cancelled = TRUE]
         /\ caller' = [caller EXCEPT ![c] =
              [IdleCaller EXCEPT !.pc = "abortWait", !.turn = t,
                                 !.ts = active.state, !.victim = active.task,
                                 !.reason = "Interrupted"]]
    /\ aborts' = aborts + 1
    /\ UNCHANGED <<tstate, mailbox, history, blocked, returned, unsent, steered,
                   compacts, overwrote>>

\* Seeded fault: no timeout, the caller waits until the task has ended.
AbortWaitsForDone(c) ==
    /\ At(c, "abortWait")
    /\ task[caller[c].victim].pc = "done"
    /\ task' = task
    /\ Goto(c, "abortEmit")
    /\ UNCHANGED <<active, tstate, mailbox, returned, overwrote>> /\ CallerOnly

\* Seeded fault: after the timeout the handle is not aborted.
AbortWithoutKill(c) ==
    /\ At(c, "abortWait")
    /\ task' = task
    /\ Goto(c, "abortEmit")
    /\ UNCHANGED <<active, tstate, mailbox, returned, overwrote>> /\ CallerOnly

\* The wait for a graceful end is over: the task notified `done`, or
\* GRACEFULL_INTERRUPTION_TIMEOUT_MS passed.  The handle is aborted.
AbortKill(c) ==
    /\ At(c, "abortWait")
    /\ task' = [task EXCEPT ![caller[c].victim] = EndedTask(caller[c].victim)]
    /\ Goto(c, "abortEmit")
    /\ UNCHANGED <<active, tstate, mailbox, returned, overwrote>> /\ CallerOnly

AbortEmit(c) ==
    /\ At(c, "abortEmit")
    /\ task' = [task EXCEPT ![caller[c].victim].ends = Append(@, "TurnAborted")]
    /\ Goto(c, "abortClear")
    /\ UNCHANGED <<active, tstate, mailbox, returned, overwrote>> /\ CallerOnly

\* clear_pending drops the input buffered for the aborted turn; an interrupt
\* then looks for mail that should start the next turn.
AbortClear(c) ==
    /\ At(c, "abortClear")
    /\ tstate' = [tstate EXCEPT ![caller[c].ts].input = <<>>]
    /\ caller' = [caller EXCEPT ![c].ts = 0, ![c].victim = NoTask,
                    ![c].pc = IF caller[c].reason = "Interrupted"
                              THEN "maybeCheck" ELSE "startDrain"]
    /\ UNCHANGED <<active, mailbox, task, returned, overwrote>> /\ CallerOnly

-----------------------------------------------------------------------------
(* maybe_start_turn_for_pending_work and start_task. *)

MaybeCheck(c) ==
    /\ At(c, "maybeCheck")
    /\ IF HasTriggerTurnMailboxItems THEN Goto(c, "maybeReserve") ELSE Return(c)
    /\ QueuesUnchanged /\ UNCHANGED <<task, returned, overwrote>> /\ CallerOnly

\* ActiveTurn::default(), stored in an empty active_turn.
InsertActiveTurn ==
    /\ tstate' = Append(tstate, DefaultTurnState)
    /\ active' = [task |-> NoTask, state |-> Len(tstate) + 1]

\* Seeded fault: the idle check of maybe_start_turn_for_pending_work is gone.
MaybeStartBusy(c) ==
    /\ At(c, "maybeReserve")
    /\ Goto(c, "startDrain")
    /\ IF active.state # 0 THEN UNCHANGED <<active, tstate>> ELSE InsertActiveTurn
    /\ UNCHANGED <<mailbox, task, returned, overwrote>> /\ CallerOnly

MaybeReserve(c) ==
    /\ At(c, "maybeReserve")
    /\ IF active.state # 0
       THEN Return(c) /\ UNCHANGED <<active, tstate>>
       ELSE Goto(c, "startDrain") /\ InsertActiveTurn
    /\ UNCHANGED <<mailbox, task, returned, overwrote>> /\ CallerOnly

StartDrain(c) ==
    /\ At(c, "startDrain")
    /\ caller' = [caller EXCEPT ![c].buf = TurnPending,
                    ![c].pc = IF AcceptsMailboxDelivery THEN "startMail"
                                                        ELSE "startInsert"]
    /\ tstate' = TurnPendingTaken
    /\ UNCHANGED <<active, mailbox, task, returned, overwrote>> /\ CallerOnly

StartMail(c) ==
    /\ At(c, "startMail")
    /\ caller' = [caller EXCEPT ![c].buf = @ \o mailbox, ![c].pc = "startInsert"]
    /\ mailbox' = <<>>
    /\ UNCHANGED <<active, tstate, task, returned, overwrote>> /\ CallerOnly

\* get_or_insert_with(ActiveTurn::default) and the clone of its turn_state.
StartInsert(c) ==
    /\ At(c, "startInsert")
    /\ IF active.state = 0 THEN InsertActiveTurn ELSE UNCHANGED <<active, tstate>>
    /\ caller' = [caller EXCEPT ![c].pc = "startExtend", ![c].ts = active'.state]
    /\ overwrote' = (overwrote \/ active.task # NoTask)
    /\ UNCHANGED <<mailbox, task, returned>> /\ CallerOnly

StartExtend(c) ==
    /\ At(c, "startExtend")
    /\ tstate' = [tstate EXCEPT ![caller[c].ts].input = @ \o caller[c].buf]
    /\ caller' = [caller EXCEPT ![c].pc = "startSpawn", ![c].buf = <<>>]
    /\ UNCHANGED <<active, mailbox, task, returned, overwrote>> /\ CallerOnly

SpawnedTask(c) ==
    [UnbornTask EXCEPT
        !.pc = IF caller[c].kind = "Regular" THEN "begin" ELSE "sample",
        !.kind = caller[c].kind,
        !.buf = caller[c].input,
        !.canDrain = caller[c].input = <<>>]

\* Storing the new RunningTask drops the one it overwrites, and
\* AbortOnDropHandle aborts that task.
StartSpawn(c) ==
    /\ At(c, "startSpawn")
    /\ IF active.state = 0
       THEN /\ tstate' = Append(tstate, DefaultTurnState)
            /\ active' = [task |-> caller[c].turn, state |-> Len(tstate) + 1]
       ELSE /\ active' = [active EXCEPT !.task = caller[c].turn]
            /\ tstate' = tstate
    /\ task' = [t \in Turns |->
                  IF t = caller[c].turn THEN SpawnedTask(c)
                  ELSE IF t = active.task THEN EndedTask(t)
                  ELSE task[t]]
    /\ overwrote' = (overwrote \/ active.task # NoTask)
    /\ Return(c)
    /\ UNCHANGED <<mailbox, returned>> /\ CallerOnly

-----------------------------------------------------------------------------
(* try_start_turn_if_idle: work an extension offers to an idle session. *)

GiveBack(c) == returned' = returned \cup ToSet(caller[c].input)

\* The two checks before the reservation; plan mode is an arbitrary refusal.
TryStartTurnIfIdle(c) ==
    /\ c \in Starters /\ Idle(c)
    /\ \E i \in ResponseItems, t \in FreshTurns :
         /\ Offer(i)
         /\ \/ /\ ~HasTriggerTurnMailboxItems
               /\ caller' = [caller EXCEPT ![c] =
                    [IdleCaller EXCEPT !.pc = "tryReserve", !.turn = t, !.input = <<i>>]]
               /\ returned' = returned
            \/ returned' = returned \cup {i} /\ caller' = caller
    /\ QueuesUnchanged
    /\ UNCHANGED <<task, history, blocked, steered, aborts, compacts, overwrote>>

TryReserve(c) ==
    /\ At(c, "tryReserve")
    /\ IF active.state # 0
       THEN Return(c) /\ GiveBack(c) /\ UNCHANGED <<active, tstate>>
       ELSE /\ InsertActiveTurn
            /\ caller' = [caller EXCEPT ![c].pc = "tryRecheck",
                                        ![c].ts = Len(tstate) + 1]
            /\ returned' = returned
    /\ UNCHANGED <<mailbox, task, overwrote>> /\ CallerOnly

\* The checks made again after the reservation and around the creation of
\* the turn context.
TryRecheck(c) ==
    /\ At(c, "tryRecheck")
    /\ \/ ~HasTriggerTurnMailboxItems /\ Goto(c, "tryStill")
       \/ Goto(c, "tryClear")
    /\ QueuesUnchanged /\ UNCHANGED <<task, returned, overwrote>> /\ CallerOnly

\* clear_reserved_idle_turn, then pending mail gets its turn instead.
TryClear(c) ==
    /\ At(c, "tryClear")
    /\ active' = IF active.task = NoTask /\ active.state = caller[c].ts
                 THEN NoTurn ELSE active
    /\ GiveBack(c)
    /\ caller' = [caller EXCEPT ![c] =
                    [IdleCaller EXCEPT !.pc = "maybeCheck", !.turn = caller[c].turn]]
    /\ UNCHANGED <<tstate, mailbox, task, overwrote>> /\ CallerOnly

TryStill(c) ==
    /\ At(c, "tryStill")
    /\ IF active.task = NoTask /\ active.state = caller[c].ts
       THEN Goto(c, "tryExtend") /\ returned' = returned
       ELSE Return(c) /\ GiveBack(c)
    /\ QueuesUnchanged /\ UNCHANGED <<task, overwrote>> /\ CallerOnly

TryExtend(c) ==
    /\ At(c, "tryExtend")
    /\ tstate' = [tstate EXCEPT ![caller[c].ts].input = @ \o caller[c].input]
    /\ caller' = [caller EXCEPT ![c].pc = "startDrain", ![c].input = <<>>]
    /\ UNCHANGED <<active, mailbox, task, returned, overwrote>> /\ CallerOnly

-----------------------------------------------------------------------------

CallStep(c) ==
    \/ AbortTake(c) \/ AbortKill(c) \/ AbortEmit(c) \/ AbortClear(c)
    \/ MaybeCheck(c) \/ MaybeReserve(c)
    \/ StartDrain(c) \/ StartMail(c) \/ StartInsert(c) \/ StartExtend(c)
    \/ StartSpawn(c)
    \/ TryReserve(c) \/ TryRecheck(c) \/ TryClear(c) \/ TryStill(c)
    \/ TryExtend(c)

Submission ==
    \/ UserInputOrTurn \/ Compact \/ RunUserShellCommand \/ Interrupt
    \/ InterAgentCommunication

Offered(c) ==
    \/ SteerInput(c) \/ InjectNoNewTurn(c) \/ AbortTurnIfActive(c)
    \/ TryStartTurnIfIdle(c)

Next ==
    \/ Submission
    \/ \E c \in Callers : CallStep(c) \/ Offered(c)
    \/ \E t \in Turns : TaskStep(t)

Spec == Init /\ [][Next]_vars

\* The runtime keeps polling: a call goes on to its end and a task that is
\* not waiting for the model goes on.  Sampling requests end, and compaction
\* does not follow compaction for ever (session/turn.rs states that
\* assumption); the model may ask for follow-ups for ever.  Nothing bounds how
\* often run_turn gives up at its start.
TaskRuns(t) ==
    \/ BeginTurn(t) \/ GiveUp(t) \/ RecordOne(t) \/ RecordDone(t) \/ Drain(t) \/ DrainMail(t)
    \/ ExitCheck(t) \/ CheckCancelled(t)
    \/ FinishTake(t) \/ FinishInput(t) \/ FinishEvent(t) \/ FinishClear(t)

Fairness ==
    /\ \A c \in Callers : WF_vars(CallStep(c))
    /\ \A t \in Turns : /\ WF_vars(TaskRuns(t))
                        /\ SF_vars(SampleFollowUp(t) \/ SampleStop(t))

FairSpec == Spec /\ Fairness

-----------------------------------------------------------------------------
(* Properties. *)

QueueTypes ==
    /\ active \in [task : Turns \cup {NoTask}, state : 0 .. Len(tstate)]
    /\ active.task # NoTask => active.state # 0
    /\ tstate \in Seq(TurnState)
    /\ mailbox \in Seq(Mails)

TaskTypes ==
    /\ task \in [Turns -> Task]
    /\ \A t \in Turns : /\ task[t].ts \in 0 .. Len(tstate)
                        /\ task[t].pc = "finInput" => task[t].ts # 0

\* Where a caller uses the TurnState, and the RunningTask, that it holds.
UsesTurnState == {"abortWait", "abortEmit", "abortClear", "startExtend",
                  "tryRecheck", "tryClear", "tryStill", "tryExtend"}

UsesVictim == {"abortWait", "abortEmit"}

CallerTypes ==
    /\ caller \in [Callers -> Caller]
    /\ \A c \in Callers :
          /\ caller[c].ts \in 0 .. Len(tstate)
          /\ caller[c].pc \in UsesTurnState => caller[c].ts # 0
          /\ caller[c].pc \in UsesVictim => caller[c].victim # NoTask

LedgerTypes ==
    /\ history \in Seq(Inputs)
    /\ blocked \subseteq UserInputs
    /\ returned \subseteq Inputs
    /\ unsent \subseteq Inputs
    /\ steered \in [UserInputs -> Turns \cup {NoTask}]
    /\ aborts \in 0 .. MaxAborts /\ compacts \in 0 .. MaxCompacts
    /\ overwrote \in BOOLEAN

\* The records have the shapes declared above, and every reference to a
\* TurnState (held by active_turn, by a task or by a caller) points at an
\* allocated one.
TypeOK == QueueTypes /\ TaskTypes /\ CallerTypes /\ LedgerTypes

\* The states in which a task still works on its turn.
Working == {"begin", "recordInput", "drain", "drainMail", "recordPending", "sample",
            "exitCheck", "exit", "finTake"}

Finishing == {"finInput", "finRecord", "finEvent", "finClear"}

Live(t) == task[t].pc \in Working /\ ~task[t].cancelled

\* ActiveTurn::task always names a task that is still working and that nobody
\* has cancelled or aborted: the early return of handle_task_abort for a
\* cancelled token never hides an abort.
ActiveTaskIsLive == active.task # NoTask => Live(active.task)

\* Every task that works on a turn and was not told to stop is the active
\* one, so that an interrupt reaches it and steering finds it.
LiveTaskIsActive == \A t \in Turns : Live(t) => active.task = t

\* The client sees at most one TurnComplete or TurnAborted for a turn,
\* whether the task finishes, is aborted, or both race.
OneTerminalEvent == \A t \in Turns : Len(task[t].ends) <= 1

\* debug_assert!(turn.task.is_none()) in both halves of start_task.
StartFindsNoTask == ~overwrote

\* Somebody will still look at TurnState s: it is active, its task is about
\* to take its input, or a caller is about to add to it.
Reachable(s) ==
    \/ active.state = s
    \/ \E t \in Turns : task[t].pc = "finInput" /\ task[t].ts = s
    \/ \E c \in Callers : caller[c].ts = s

Pending(i) ==
    \/ i \in ToSet(mailbox)
    \/ \E s \in DOMAIN tstate : Reachable(s) /\ i \in ToSet(tstate[s].input)
    \/ \E t \in Turns : i \in ToSet(task[t].buf)
    \/ \E c \in Callers : i \in ToSet(caller[c].buf) \cup ToSet(caller[c].input)

Handled(i) == i \in ToSet(history) \cup blocked \cup returned

\* Input that steer_input accepted for a turn is queued or handled for as
\* long as nobody aborts that turn: it survives the race with the end of the
\* turn and with the start of the next one.
SteeredInputKept ==
    \A i \in UserInputs :
        steered[i] # NoTask =>
            Pending(i) \/ Handled(i) \/ task[steered[i]].cancelled

\* No input is ever held twice, however the drains of start_task, of the
\* sampling loop and of on_task_finished interleave.
Copies(i) ==
      {<<"mailbox", k>> : k \in {k \in DOMAIN mailbox : mailbox[k] = i}}
    \cup {<<"history", k>> : k \in {k \in DOMAIN history : history[k] = i}}
    \cup (UNION {{<<"turn", s, k>> : k \in {k \in DOMAIN tstate[s].input :
                  tstate[s].input[k] = i}} : s \in DOMAIN tstate})
    \cup (UNION {{<<"task", t, k>> : k \in {k \in DOMAIN task[t].buf :
                  task[t].buf[k] = i}} : t \in Turns})
    \cup (UNION {{<<"caller", c, k>> : k \in {k \in DOMAIN caller[c].buf :
                  caller[c].buf[k] = i}} : c \in Callers})
    \cup (UNION {{<<"start", c, k>> : k \in {k \in DOMAIN caller[c].input :
                  caller[c].input[k] = i}} : c \in Callers})

NoDuplicate == \A i \in Inputs : Cardinality(Copies(i)) <= 1

\* The submission loop always comes back to its queue, even when the task it
\* aborts ignores the cancellation token.
LoopReturns == caller[Loop].pc # "idle" ~> caller[Loop].pc = "idle"

\* Steered input is recorded, refused by a hook, or its turn is aborted, or
\* RegularTask::run calls run_turn again and again, for the input that is
\* pending, and run_turn gives up every time before it drains it.
SteeredInputHandled ==
    \/ \A i \in UserInputs :
          steered[i] # NoTask ~>
              \/ Handled(i)
              \/ \E t \in Turns : t = steered[i] /\ task[t].cancelled
    \/ \E t \in Turns : []<><<GiveUp(t)>>_vars

\* followup_task gives an agent a new task and triggers a turn: trigger mail
\* does not stay in the mailbox for ever.
TriggerMailDelivered ==
    \A m \in TriggerMails : m \in ToSet(mailbox) ~> m \notin ToSet(mailbox)

=============================================================================
