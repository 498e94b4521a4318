# Formal models of codez

codez is the codex agent (`codex-rs/`) with two modules of its own (`zmod/`):
`llm-switch`, which sends a model request to another provider, and
`llm-compress`, which shrinks tool output before a request leaves the process.
This directory models the parts whose correctness depends on the order in which
several actors take their steps, on what failed in between, or on a long
sequence of legal calls. TLC checks the models on small instances; TLAPS proves
the properties that carry most weight for every instance.

Paths below are relative to `src/`; `core/src` is `codex-rs/core/src`.

## 1. Inventory

| part | state | operations | what is hard | what makes it correct |
|---|---|---|---|---|
| turn lifecycle: `core/src/tasks`, `core/src/state/turn.rs`, `core/src/session/{inject,input_queue,handlers}.rs` | `active_turn`, one `TurnState` per turn, the mailbox, spawned tasks and their tokens | submit, steer, inject, interrupt, compact, run a shell command, mail; start, abort and finish a turn | the submission loop, app-server calls, extensions, the guardian and the tasks interleave at every await; a task may finish while it is aborted | one live task, and it is the active one; one terminal event per turn; no accepted input lost or doubled; the loop always returns |
| SSE egress: `zmod/llm-switch/src/sse.rs`, `connector/*_sse.rs` | reader task, buffer, translator, channel of 64 events | read a frame, translate, send, finish | arbitrary cuts of the body, interleaved fragments, slow or vanished consumer, errors in mid-stream | the stream says what the wire says, in the order llm-switch promises; the reader ends |
| request building: `connector/{chat,anthropic}_req.rs`, `core/src/context_manager/normalize.rs` | none of its own; the history | build a request | histories that an interrupt, a rollback or a compaction has cut | calls and outputs are paired as the wire demands; a request extends the one before it |
| history and compaction: `core/src/context_manager/history.rs`, `core/src/compact.rs` | items, token info, baseline | record, roll back, remove the oldest, compact | compaction that itself does not fit | no output without its call |
| tool-output compression: `zmod/llm-compress/src` | registry of one request, files of a thread | compress every output, persist originals, evict | eviction while a request is built, failing file operations, re-sending a growing history | no lossy text without a path; identical bytes on every request; bounded directory |
| rollout reconstruction: `core/src/session/rollout_reconstruction.rs` | rollout, history, baseline, previous-turn settings, window number | record, compact, review, abort, resume, roll back | a crash between any two records; rollback across compactions | a resumed thread is the thread that ended; a rollback restores what was there |
| routing: `zmod/llm-switch/src/{lib,purpose,namespace,config}.rs` | process-wide configuration | route, bypass the websocket | decided at different places of one request | both places agree |
| model client: `core/src/client.rs` | websocket session, fallback flag | stream over websocket or HTTP, retry after 401 | stale connection state, fallback for the rest of the session | no request lost or sent twice |
| waiters: `core/src/state/turn.rs`, `core/src/session/mod.rs` | pending approvals, permissions, elicitations | request, notify, clear | an answer racing the end of the turn | every waiter is woken |
| agents: `core/src/agent` | registry of threads, reserved slots | spawn, message, close | a spawn that fails half way | slots are counted right |
| unified exec: `core/src/unified_exec` | process table | start, write, poll, prune | eviction at the limit while a poll runs | no live process forgotten |
| rollout recorder: `codex-rs/rollout/src/{recorder,compression}.rs` | writer task, queue, pending items, open file; plain and compressed file | record, persist, flush, shut down, append by path, resume, compress, unpack | writes that fail half-way, retries, a crash between two file operations, the compression worker beside a writer | what was acknowledged is readable, in order and once; every barrier is answered |
| memory jobs: `codex-rs/state/src/runtime/memories.rs`, `codex-rs/memories/write/src` | job rows, outputs, the consolidation lock, the memory directory and its git baseline | claim, extract, mark, select, sync, diff, consolidate, commit | leases that expire under a worker, several processes, a crash between directory and database | done means extracted; caps and retries hold; the digest is of what was selected |
| rest of the state runtime: `codex-rs/state/src/runtime` | SQLite tables | single updates of rows | | not modelled |
| remote control: `codex-rs/app-server-transport/src/transport/remote_control` | clients, assemblies, subscribe cursor, outbound buffer, sequence numbers | read, reassemble, forward, number, send, acknowledge, reconnect | redelivery after a reconnect, an app server that is full, acknowledgements of segments, connections replaced under one key | in order and once inwards, nothing lost outwards |
| exec server: `codex-rs/exec-server/src` | session registry, process table with retained output; client connection, sessions, recovery | attach, detach, expire, start, read, write, terminate, recover | a connection lost at any moment, retained output that has gone, retried writes, timers of earlier detachments | the consumer sees what the process did; no write twice; nothing hangs and no process is left over |
| TUI, app server, schemas, sandboxes, telemetry, login | | | presentation, conversions, generated code or operating-system specifics | not modelled |

How the modelled parts interact: the turn's sampling loop builds a prompt from
the history (`ForPrompt`), `llm-compress` rewrites its tool outputs,
`llm-switch` turns it into a provider's request and the answer into a stream of
`ResponseEvent`s. Completed items go into the history and, with the
turn's events, into the rollout. Interrupts, rollbacks and compactions change
the history between two requests. The records of a thread go through the
recorder (`RolloutStore`), and `RolloutReplay` rebuilds the thread from them; what
idle threads leave there is later extracted and consolidated (`MemoryJobs`).
A turn's commands may run on an exec server (`ExecSession`), and its events may
go to remote clients (`RemoteControl`).

The hazards, each at its line and with the properties aimed at it, are in
`PROJECT.json`.

## 2. Modules

| module | models | state and actions |
|---|---|---|
| `TurnLifecycle` | the turn lifecycle of one session | `active` is `Session::active_turn`, `tstate[k]` the k-th `Arc<Mutex<TurnState>>`, `mailbox` the mail queue, `task[t]` the spawned task of turn `t` with its program counter, `caller[c]` the call that the loop or a background caller is in. Each action is one critical section; the awaits between them are the interleaving points. `Abort*` is `abort_all_tasks`/`handle_task_abort`, `Maybe*` `maybe_start_turn_for_pending_work`, `Try*` `try_start_turn_if_idle`, `Start*` `start_task`, `Finish*` `on_task_finished`, the rest `run_turn`: `BeginTurn` where it gets to its input, `GiveUp` where it returns before that, `ExitCheck` the loop of `RegularTask::run` that calls it again |
| `ChatSse`, `AnthropicSse` | the two translators, as operators on their state | `PushChunk`/`PushEvent`, `ChatFinish`/`AnthropicFinish`; `*Ref*` are the reference readings of a whole stream |
| `SseEgress` | `run_egress` with one of them | the wire is a sequence of newline and line-piece tokens, `buf` the bytes after the last frame, `outbox` the events of the running send loop, `queued` the fill of the channel |
| `ResponseStreamContract` | what llm-switch promises of a stream, with the reasons the sampling loop gives for it | abstract specification; `SseEgress` implements it under the mapping of `pc` to `phase` |
| `ToolRequests` | normalization, trimming, both request builders, as operators | `EnsureCallOutputsPresent`, `RemoveOrphanOutputs`, `BuildChat`, `ReorderToolMessages`, `BuildAnthropic`, ... |
| `Conversation` | a thread whose requests are built with them | responses with parallel calls, outputs, interrupts, rollback, compaction on a copy |
| `Compress` | `transform` over a growing history, and the store of originals | one `CompressItem` per tool output, with every outcome of the file operations; `Profile` says what a text is to the compressors |
| `RolloutReplay` | what a thread persists and what is rebuilt from it | `rollout`, `history`, `reference`, `settings`, `window`; `Scan` is the reverse pass, `ReplayItem` the forward one. A turn records its prompt (`RecordUserPrompt`) or, when it only continues a goal, has none (`NoInput`, `ContinueGoal`); `SetPreviousTurnSettings` comes after either. `marks` is a ghost variable with the conversation each turn's prompts found |
| `RolloutStore` | the file of one thread: its writer task, the compression worker, crash and resume | `inodes`, `plain` and `zst` are the file system, `w` the `RolloutWriterState` with its program counter, `c` the worker's pass, `queue` the channel. `Trying`/`Failed` are the two attempts of `write_pending_with_recovery`, `Materialize`, `Link` and `UnlinkZst` the steps of unpacking, `FindCold` to `UnlinkPlain` those of compressing. `acked`, `torn` and `incidents` are ghosts |
| `MemoryJobs` | phases 1 and 2 of the memory pipeline, run by several processes | `jobs` and `outputs` are the rows of a thread, `global` the consolidation job, the workspace and baseline the memory directory, `wk[w]` a process. Each action is one SQL transaction or one step on the directory; leases, back-off and cool-down end by actions of the clock. A run whose heartbeat fails is `giving_up`, releases the job (`MarkGlobalFailed`), and is then `closing` until `ShutdownAgent`; its agent writes all the while. `lingered` (ghost): the job was claimed beside such an agent |
| `ExecSession` | one session of the exec server with one process, and its recovering client | `proc`, `session`, `handler[c]` are the server, `status`, `recovery`, `start`, `writing` and `state` the client, `up`, `inbox` and `call` the JSON-RPC connections. `log` (ghost) is what the process did, `state.seen` what the consumer was shown |
| `RemoteControl` | reader, tracker, reassembler and writer behind the websocket to the relay | `sent` is the relay's log, `cursor` the `subscribe_cursor`, `client` and `tasks` the `ClientTracker`, `assembly` and `chunked` the reassembler, `buffer` the envelopes in the `BoundedOutboundBuffer`, which `Connect` sends again in the order of their numbers (`ServerEnvelopes`); `got`, `numbered` and `received` are ghosts |
| `MC*` | instances for TLC | model values, payloads, text profiles, symmetry |
| `TurnProofs` | proofs about `TurnLifecycle` | types; the active task, terminal events, overwritten tasks; where each user input is |
| `SseProofs` | proofs about `SseEgress` | the refinement of `ResponseStreamContract`; what a completed stream says |
| `ConversationProofs` | proofs about `Conversation` and the operators of `ToolRequests` | orphans, pairing, repeated requests, Anthropic turns |
| `StoreProofs` | proofs about `RolloutStore` | what a reader finds in the file |
| `CompressProofs` | proofs about `Compress` | types, paths, the directory, repeated requests, pointers |
| `MemoryProofs` | proofs about `MemoryJobs` | extraction jobs, the consolidation lock, the memory directory |
| `ExecProofs` | proofs about `ExecSession` | the held session, writes, what the consumer sees |
| `RemoteProofs` | proofs about `RemoteControl` | clients to app server; app server to clients |

A definition that begins with the name of another one and is marked "Mutant" is
a deliberately wrong variant. It is not used by any specification; it documents
the bug that the property next to it in `PROJECT.json` would catch.

Data is abstracted to what the properties tell apart. Texts, arguments and names
are model values or short sequences of them; a call is known by its id and by
the ghost number `of` that tells two calls with the same id apart; a compressor
is its lossiness and the size of its product; a turn's context is the turn.

## 3. Runs

### Turn lifecycle

* `turn_loop` (two turns, two user inputs, one trigger mail, one abort, fair):
  when only the submission loop starts and aborts turns, a working task is
  always the active one (`LiveTaskIsActive`), a turn ends with at most one
  terminal event (`OneTerminalEvent`), `start_task` never finds a task
  (`StartFindsNoTask`), and input accepted by `steer_input` stays queued or
  handled unless its turn is aborted (`SteeredInputKept`). The loop comes back
  to its queue (`LoopReturns`), and steered input is recorded, refused or aborted
  (`SteeredInputHandled`), unless `run_turn` gives up again and again before it
  drains any. Two turns are the smallest number in
  which one turn replaces another that is finishing.
* `turn_starters` (a background caller that also starts idle work and aborts,
  an injected item, and a compaction or a shell command): `active_turn` still names a live task
  (`ActiveTaskIsLive`) and no input is held twice (`NoDuplicate`).
* `turn_stuck_mail` (violation): trigger mail that arrives while a turn ends is
  never delivered.

### SSE egress

* `sse_stream` has three feeds. `cut`: every cut of a wire of up to six tokens
  into chunks (two frames, a split boundary, a frame that never ends), a channel
  of one event. `chat` and `anthropic`: whole frames with every kind of payload
  in every order: interleaved fragments of calls, ids that come late or never,
  usage, errors, `[DONE]`, invalid JSON. `StreamReflectsWire` compares the stream
  with a reading of all bytes at once, and wants an id of its own for every call
  the upstream did not name; `ReaderEnds` is liveness; `ImplementsContract` is the
  refinement of `ResponseStreamContract`: the order documented at
  `ChatSseState::finish`. It matters to `try_run_sampling_request`, which starts
  a tool as soon as its item arrives and repeats the request after an error.

### Conversation

* `conversation_named` (up to five items, four calls, two in parallel): requests
  at any point of a thread. `ChatRequestsPaired` (also
  without core's normalization), `AnthropicRequestsAnswered`,
  `NoOrphanOutputs`, `RequestsExtend`. Two parallel calls with one output
  recorded and an interrupt, followed by trimming from the front, is the
  smallest case that breaks a naive repair; the bounds admit it.

### Compression

* `compress_store`: room for one file, texts that evict one another, at most one
  failed write or removal. `TypeOK` includes the final size gate;
  `LossyTextHasPath` is the rule in the header of `ccr.rs`; `PrefixStable`
  (identical bytes on the next request) and `DirectoryBounded` speak of threads
  without failures, `PointersResolve` of requests whose originals fit in the
  store together.

### Rollout

* `rollout_replay` has three scenarios. `mixed`: two turns, a compaction, a
  rollback, steering, reviews, a crash anywhere. `undone`: three turns and two
  rollbacks of one or two turns. `goal`: two turns that may only continue a goal,
  with a compaction and a rollback. `ResumeKeepsThread` (history, window and
  settings) and `BaselineInHistory` are about resuming; `RollbackRestores` (history
  and settings) about rolling back turns of one prompt without a compaction.
* `rollout_store` (two items besides the session's first line, two barriers, two
  failed file operations, one crash): `AckedReadable` (in order, once, and
  whatever was acknowledged), `BarrierAnswered`. Two failures are one more than the writer's
  retry survives; one item written before and one after a failure show loss,
  repetition and reordering.

### Memories

* `memory_jobs` (two threads, two processes, two versions of a thread, one
  extraction at a time, one retry, one selected memory; either one update of a
  thread and one pollution or deletion, or two of these, such as a pollution and
  the deletion after it, or a consolidation that stalls): `DoneIsExtracted`, `RunningCapped`,
  `RetriesBounded`, `DirectoryExclusive`, `DigestIsSelection`. Two processes are
  enough for one that lost its lease or gave up and its successor, beside its
  agent; a cap of one with two threads makes the cap bind.

### Exec server

* `exec_session` (two chunks of output with one retained, or one write; two
  connections): `SeenInOrder`, `WrittenOnce`, `ConnectedHolds`. With one chunk
  retained, a connection that is lost long enough leaves a gap that recovery
  must notice.
* `exec_recovery` (a process without output, fair): `EndReported`, `NoOrphan`. A
  client that installs a connection that has broken again is the bug
  `EndReported` would find.

### Remote control

* `remote_control` (two streams of two clients, a buffer of two envelopes, up to
  three connections to the app server; workloads with a lost websocket, a
  forward that times out and a dropped connection, with up to three outbound
  messages, and with interleaved chunks): `DeliveredOnce`, `CursorCovers`,
  `RelayInOrder`, `OutboundArrives`.

The violation is a disagreement between the code and a document of the
repository; `PROJECT.json` quotes both.

### Where the properties stop

The hypotheses of the properties above are needed. What the models do outside
them, and how to see it:

* `StartFindsNoTask`, added to `TurnStarters.cfg`, fails: idle work started by an
  extension and a user turn can overwrite each other's task.
* An item injected between a turn's last take of pending input and its end is
  dropped with the turn's state; only steered input is covered by
  `SteeredInputKept`.
* A turn that gives up (`run_turn` returns after a failed pre-sampling
  compaction, cancelled skills and plugins or a session-start hook, `GiveUp`)
  drops the input it was given, which neither is recorded nor can be found in a
  queue. While steered input or mail is pending, `RegularTask::run` calls
  `run_turn` again at once (`core/src/tasks/regular.rs:73-88`); when the compaction
  keeps failing, it does so for ever and the pending input is never drained.
  `SteeredInputHandled` excuses exactly that; without its second disjunct it
  fails in `turn_loop`.
* The liveness run has no shell commands. A user shell task is of kind `Regular`
  (`core/src/tasks/user_shell.rs:72`), so it can be steered, and what is steered
  into it is taken when it finishes; `turn_starters` and the theorems cover that.
* `ResponseStreamContract` is not all that codex-core asks of a stream. At every
  `OutputTextDelta` the sampling loop asserts that an item is active
  (`core/src/session/turn.rs:2311`, "OutputTextDelta without active item"), which
  takes an `OutputItemAdded`; neither translator sends one. Every text delta of
  either connector fails the assertion: `error_or_panic` panics in a debug build,
  and a release build logs the error and drops the delta, so that text reaches the
  user only with the message item. That is so for every delta and in every order
  of events; the contract leaves it out, and its proof says nothing about it.
* A Chat body that ends without `[DONE]` completes like one that has it, and
  `ResponseStreamContract` allows that.
* On the Anthropic wire a message recorded between a call and its output
  separates the two; `AnthropicRequestsAnswered` says only that every call has
  an answer.
* With `NamesCalls = {FALSE}` in `ConversationNamed.cfg`, `ChatRequestsPaired`
  fails in the second response: synthesized ids count from 1 in each.
* A request with more lossy outputs than the store holds evicts originals that
  it already mentions (`enforce_limits`); `PointersResolve` covers the others.
* With `ReuseIds = TRUE`, or after a failed write, `PrefixStable` fails: a
  product depends on what the store could keep. A structured product that
  replaces lossily preprocessed text carries no pointer; `LossyTextHasPath` is
  about texts. The directory may hold one file more than `MaxFiles`.
* `RollbackRestores` needs its hypothesis (`PlainTurns`).
  A steered message is a user message without a turn of its own, so that history
  and metadata count differently; and when the rolled-back turn holds the newest
  compaction, the replay starts behind that compaction from an empty history.
* A review persists the end of a turn that has no `TurnStarted`, so
  `ResumeKeepsThread` speaks of the settings only where every turn was started,
  and of history and window where that holds or nothing was rolled back.
  `set_previous_turn_settings` runs in every turn that gets past its inputs, the
  scan counts only turns with a user message: after a turn that only continued a
  goal (`ext/goal/src/runtime.rs:394`) the session has that turn's settings, and
  a resume those of the last user turn; for a turn that ended between its prompt
  and its settings it is the other way round. `ResumeKeepsThread` says so. After
  a rollback over a compaction the baseline may name a context that the history
  no longer holds.
* The compression worker may remove a file a writer has opened after the
  worker's last check; the writer's flushes go on succeeding. A writer that
  reopens its file after the worker compressed it creates a plain file that
  hides the compressed one. `AckedReadable` excuses runs with such an
  `incident`, and one item for each half-written line, which the next write
  turns into one line that does not parse.
* A consolidation that stalls past its lease between its confirmation and its
  reset of the baseline resets its successor's workspace; `DirectoryExclusive`
  and `DigestIsSelection` exempt runs with a stall. A run whose heartbeat fails
  releases the job first and has its agent shut down afterwards by a spawned task
  (`phase2.rs:435-448`, with a timeout of 10 s). The back-off of the released job
  makes it unlikely, but nothing orders the shutdown before the next claim:
  the model lets the two overlap, `DirectoryExclusive` excuses an agent that is
  `closing`, and `DigestIsSelection` a job that was claimed beside one. Without
  the first excuse `DirectoryExclusive` fails in `memory_jobs`.
* `Attach` removes an expired session and shuts its process down in one step. In
  the code the shutdown first awaits the lock on the process table
  (`session_registry.rs:110`), and a disconnect in that moment drops the handler
  (`processor.rs:104`): the session is gone from the registry and its child runs
  on. `NoOrphan` does not cover that window.
* Acknowledgements are of segments that the relay received; one without a segment
  id is that of the message's last segment. They are taken to have no `cursor`, as
  in the repository's tests: `record_client_message_delivery` would move the
  `subscribe_cursor` for one that had, also past a chunk of a message that is
  still being assembled.
* When an `initialize` is delivered again, the outbound task of the replaced
  connection, joined later, closes the connection that replaced it; messages of
  a stream whose connection was closed are not covered by `CursorCovers`.
* `DeliveredOnce` speaks of a connection, and of a stream's connections one after
  the other, not of a stream. With one stream, `sends` 3, `breaks` 2 and `drops` 1:
  a message in chunks is delivered and the websocket lost before that is
  recorded; the connection idles out, the `initialize` is delivered again and
  opens another one, and the message is delivered a second time on that.
* Two streams of one client share one assembly and reset each other's message.
  If an envelope of another stream comes between the chunks of a message and is
  recorded, the cursor has passed the first chunk; when the websocket is lost
  before the message is delivered, that chunk is not sent again and the message
  never completes. `CursorCovers` therefore speaks of whole messages and of
  those with adjacent chunks (`Whole`).

### Bounds

`Turns`, `MaxAborts`, `MaxCompacts`, `MaxItems`, `MaxParallel`, `MaxCalls`,
`MaxHistory`, `MaxRequests`, `MaxFaults`, the fields of `Feeds`, `Bounds`,
`Budgets` and `Workloads`, `MaxBarriers`, `MaxQueue`, `MaxFailures`, `MaxCrashes`,
`MaxInodes`, `MaxVersion`, `MaxConnections` and `MaxConns` bound the models and
have no counterpart in the code, except that the channel of a feed and `MaxQueue`
are channel capacities made small. `MaxFiles`, `MaxThreadBytes`, `MaxFileBytes`,
`PerItemMin`, `ErrorMax`, `MaxRunning`, `MaxSelected`, `Retries`,
`RetainedChunks` and `Capacity` are the code's own limits, made small so that
they are reached. Deadlock is not checked in `TurnLifecycle`, where a session
with nothing left to do waits for the next submission, and in `Compress`,
`RolloutStore`, `MemoryJobs`, `ExecSession` and `RemoteControl`, where the work
is bounded and everyone rests once it is done.

### Fairness

`TurnLifecycle!FairSpec` assumes that the tokio runtime polls what can run (weak
fairness of a caller's call and of a task outside sampling) and that sampling
requests do end and are not for ever followed by compactions (strong fairness of
`SampleFollowUp`/`SampleStop`; `session/turn.rs` states that assumption). It
does not assume that a model stops asking for follow-ups, nor that a task
honours its token: `handle_task_abort` has a timeout. `SseEgress!FairSpec`
assumes a polled reader task and a consumer that reads until it drops the
stream, and nothing of the upstream.

`RolloutStore!FairSpec` assumes only that the writer task is polled: file
operations may fail as often as the bound allows. `ExecSession!FairSpec` assumes
that the tasks of client and server run, that the recovery timeout and the expiry
timer fire, and that a broken transport is noticed; it assumes nothing of the
child process. `RemoteControl!FairSpec` assumes that reader and writer run, that
the websocket is opened again (`run` reconnects for ever), and that the relay
receives and acknowledges what is sent on a websocket that stays up.

## 4. Proofs

Assumptions are the named `ASSUME`s of the modules, which TLC evaluates in the
runs. Sets of inputs, workers and streams have no bound beyond finiteness; sizes,
versions and limits are natural numbers, the limits of running jobs, retries,
connections and envelopes not 0 (the code's constants are not); starters are
background callers; a `json` token carries a payload of its connector's kind,
whose texts and fragments are sequences and whose indices are integers, and the
ids in it are none of those `synth_id` makes up (`FeedsAssumption`; `call_1` from
an upstream would collide with the id of an unnamed call of the same response).

Every theorem below follows from an inductive invariant; TLC checked each as an
invariant of the component's run before it was proved.

* **Turn lifecycle.** `TypeCorrect`: `Spec => []TypeOK`. `TypeOK` is inductive
  because it says more than shapes: every index of a `TurnState` that a task or a
  caller holds is allocated, and is not 0 where it is used. It is a lemma of the
  proofs and no question of its own, so no run asks it. One lemma per action,
  over shared lemmas on replacing one task, one caller, one queue.
  `ActiveTaskLive`: `Spec => []ActiveTaskIsLive`. `LiveInv` adds that the victim
  of an abort is no longer the active task, and that a turn context is used by
  one caller only and is unborn until its task is spawned. Every action is first
  reduced to a *view* (`TaskView`, ...): what it does to the program counter, the
  token, the terminal events and `active_turn`.
  `LoopTaskActive`, `LoopNeverOverwrites`, `LoopOneTerminal`: for
  `Starters = {}`, `[]LiveTaskIsActive`, `[]StartFindsNoTask` and
  `[]OneTerminalEvent`. `SerialInv` strengthens them by what each stage of a
  start or abort knows about `active_turn`. The hypothesis is needed: the second
  property fails with a starter (section 3).
  `InputsHeldOnce`: `Spec => []NoDuplicate`, with any starters, from `SingleInv`.
  Every place that can hold inputs (the mailbox, what a caller passes or has
  drained, the pending list of a `TurnState`, a task's hands, the history) is a *box* with a
  sequence of inputs, and each input is at one position of one box at most. A
  step moves a box's content behind that of another, drops it, takes its head,
  or puts in an input that was never sent; a lemma for each kind of move, then
  one per action.
  `LoopKeepsSteered`: for `Starters = {}`, `[]SteeredInputKept`, from `SteerInv`,
  which is `SerialInv` with two more parts. `OwnInv`: a task about to take what is
  left in its `TurnState` shares that `TurnState` with no other such task, with
  no active task and with no abort of the loop. `KeptInv`: a steered input of a
  turn that was not aborted is recorded, refused, in its task's hands, or in the
  `TurnState` its task will take it from.

* **SSE egress.** `EgressImplementsContract`: `Spec => ImplementsContract`, step by
  step (`InitImplements`, `StepImplements`): `Send` is the contract's `Emit`,
  `Connected` and `Refused` its `Connect`, the others stutter or end the stream.
  `Emit` must be allowed to follow, so `IInv` describes what is still to be
  sent. `BytesInv`: buffer and frame hold tokens of the feed. `TranslatorInv`: the
  accumulator's index set is finite, and the text it holds is the text streamed
  plus that of the deltas still in the outbox. `ReaderInv`: the outbox is a run
  of deltas after which reading goes on (`Talking`), one error (`Failing`), or
  the calls, message and `Completed` of `finish` (`Finishing`). That a stream
  with text ends in a message with exactly that text is `FinishShape` together
  with `TranslatorInv`. The proof needs no more of the fold over a chunk's tool
  calls than that it exists and adds finitely many indices (`FoldsExist`,
  `AddToolCallsFinite`), by the least subset that would contradict it.
  `StreamSaysTheWire`: `Spec => []StreamReflectsWire`, from `StreamInv` on top of
  `IInv`. The reference reads the whole wire at once, the reader one chunk, frame
  and line at a time, so the invariant says where on the wire it stands. `WireInv`:
  the buffer is what follows a frame boundary and the frame what is left before
  it, from the beginning of a line. `ReadInv`: the accumulators, and the deltas
  sent or in the outbox, are the reference reading of the data lines before that
  place, none of which is `[DONE]`; bytes that arrive later do not change those
  lines. `EndInv`: once `finish` was called the stream is the reference reading of
  all of the wire. One lemma per action moves the place. Below them are lemmas
  on what one more payload does to both readings (`ChatHolds`, `AnthropicHolds`),
  by finite induction over sets of positions (`UpTo`), and on `synth_id`, whose
  counter grows with every unnamed call (`SynthIdsDiffer`).

* **Compression.** `CompressTypeCorrect`, `LossyHasPath` and
  `DirectoryStaysBounded`, from `IInv`: every segment sent is good (not larger
  than its original, and with a path if it is a lossy text), and while nothing
  failed the directory holds at most `MaxFiles + 1` files. The last needs
  `EvictionBound`: after eviction at most `MaxFiles` remain, whatever order
  equal times give.
  `RequestsRepeat`: `~ReuseIds => (Spec => []PrefixStable)`, and
  `PointedFilesExist`: `Spec => []PointersResolve`, from `RequestInv`. `StableInv`:
  while nothing failed, the request being built and the last one sent are the
  products of the history item by item, each a function of that item alone
  because with distinct ids every output has its own hint. `PointerInv`: a path
  mentioned is in the request's registry. `PathInv`: a path has one file, a file
  written by this request is in its registry, and the registry's files are all
  there as long as together they fit the store. Eviction removes the oldest
  first, so it would have to remove every older file before one of this request;
  that the rest then fits is arithmetic on sums over sets of files. Such a sum
  is the size of a set of units, one for each byte of each file (`Units`,
  `BytesCount`), which turns comparing sums into comparing finite sets and needs
  no induction scheme.

* **Requests.** `NoOrphans`: `Spec => []NoOrphanOutputs`, from `HistoryInv`, for
  upstreams that name their calls and for those that do not. An upstream without
  ids uses the same made-up ones in every response, so that a call cannot be
  found by its id; `Answers` says instead that before every output there is a
  call with its id and no output of that id in between. Dropping the first item and
  its first counterpart keeps that, a rollback and a compaction do because they
  keep a prefix and user messages only; `FlightInv` says that no output came yet
  behind a running call, so that a late one finds it.
  `ChatRequestsArePaired`, `RequestsAreExtended` and `AnthropicRequestsAreAnswered`:
  `NamesCalls \subseteq {TRUE} => (Spec => []...)`, from `RequestInv`. With names,
  call ids and output ids are distinct and an output comes after its call
  (`Clean`). Then whatever order the outputs came in, and whether core filled the
  gaps or the connector did, a Chat request is the same: each item that is not an
  output, a call together with its output or a placeholder (`ChatOf`). Pairing can
  be read off that form, and so can what happens to it when an item is appended
  (`SentInv`: the last request is the form of a prefix of the history, and no
  call that still runs was in it; a request waits for its calls). For Anthropic the proof
  carries a map from items to blocks (`Placed`) through the fold over the history.
  The hypothesis is needed, as section 3 shows with `NamesCalls = {FALSE}`.

* **Rollout recorder.** `AckedIsReadable`: `Spec => []AckedReadable`, from an
  `IInv` with four parts beside the types. `OrderInv`: what is pending and queued
  is in the order it was handed over. `FileInv`: in every file that exists, also the
  half written, removed and compressed ones, the items increase and come before
  all that is still to be written; a retry continues behind the last line, so
  nothing can be repeated. `PassInv`: what the worker and the writer know of the
  two files between their steps. `LossInv`: the acknowledged and the written items that the
  visible file lacks, together with the line that is open at its end, are at
  most as many as writes were torn.

* **Memory jobs.** `IInv` has four parts. `JobInv` proves `DoneIsExtracted`,
  `RunningCapped` and `RetriesBounded`: failures and retries add up to `Retries`,
  a running job has a retry left, and the version a worker that owns a job
  claimed is the one its row asks for, so that marking it done records what was
  extracted although a lease may have passed to another worker. `LockInv`: unless
  a worker stalled, whoever is between claiming and finishing a consolidation,
  or about to give it up, has a live lease on it; at most one has, and the others
  in the directory have given it up and are closing their agents
  (`DirectoryExclusive`). `SpaceInv`: what the worker at each step knows of the
  directory and its baseline; without a stall a committed digest is that of the
  selection (`DigestIsSelection`). Agents that still write would break that, so it
  has `ClosesAlone`: as long as no job was claimed beside one, whoever closes an
  agent is alone in the directory and the job is not recorded done.

* **Exec server.** `ClientHoldsSession`, `WritesExactlyOnce` and
  `ConsumerSeesPrefix`, all from one `IInv`. `HoldInv`: a connection that has
  resumed and is up is the session's current one. `OrderInv`: no write waits on a
  connection before it is initialized. `WriteInv`: a write on its way on the
  current connection is in the child's input already or newer than all of it; the
  second part is where a retry could have written twice. `LogInv`: the process is
  launched once and its `closed` comes last. `SeenInv`: every event, answer and
  pending entry tells the truth about the log. The parts need each other: what
  the consumer is shown after a recovery is true because a read's answer is,
  and that because nothing follows the close.

* **Remote control.** `ConnectionsGetOnce` (`DeliveredOnce`) and
  `CursorIsCovered` (`CursorCovers`) from `InIInv`: the relay's log numbers each
  stream's messages upwards (`LogInv`), the reader handles the newest envelope it
  has read, behind the cursor (`ReadInv`), a stream has one connection that is
  not closed and `last` bounds what that connection got (`TrackInv`), and, for
  streams never closed: what was passed without being recorded are chunks
  (`PassedInv`), what is half assembled is the next message to complete
  (`HeldInv`), and what was recorded or noted was delivered (`OpenInv`).
  `RelaySeesPrefix` (`RelayInOrder`) from `OutIInv`: the buffer holds whatever the
  relay lacks, and on an open websocket whatever comes before an envelope has
  arrived or is on its way ahead of it.
  The proof changed the properties: the first statements of `DeliveredOnce` and
  `CursorCovers` held within the run's bounds and fail beyond them, in the two
  ways section 3 describes; the statements now say what holds for all bounds.

Only model-checked, and why:

* Liveness (`LoopReturns`, `SteeredInputHandled`, `ReaderEnds`, `BarrierAnswered`,
  `EndReported`, `NoOrphan`, `OutboundArrives`): fairness and ENABLED are out of
  the provers' reach.
* `ResumeKeepsThread`, `BaselineInHistory` and the action property
  `RollbackRestores` of `RolloutReplay`: the reconstruction scans a rollout from its newest
  item, so that one more item changes where the fold over all the others begins.
  What it computes would have to be described for every rollout at once, which is
  induction over data of several mutually dependent counters.

## 5. Not modelled

* Waiters in `TurnState` (approvals, elicitations), goal and budget accounting at
  the end of a task, the guardian's own state.
* The model client, routing and HTTP retry around the egress engine.
* Images, instructions, tool schemas and sampling parameters of requests; token
  estimates and truncation; remote compaction.
* The line compressors themselves: string transformations.
* Compactions without replacement history (old rollouts) and inter-agent
  messages in `RolloutReplay`; listing and metadata of rollouts in
  `RolloutStore`. The compression worker runs only with the feature
  `LocalThreadStoreCompression` (`core/src/thread_manager.rs`).
* `MemoryJobs`: the watermarks of consolidation, pruning of old outputs and the
  reset of all memories.
* `ExecSession`: signals, polling reads (`Session::read`), more than one process
  in a session, the cap on remembered write ids, clients that do not recover,
  file system and HTTP calls.
* `RemoteControl`: enrollment and authentication, pings, malformed and oversized
  envelopes, clients without stream ids.
* The remaining parts of the inventory. TUI, app server, schemas, sandboxes,
  telemetry and login are presentation, conversions, generated code or bound to
  an operating system.

## 6. Plan

1. Done: turn lifecycle, SSE egress and its contract, request building,
   compression, rollout reconstruction and recorder, memory jobs, exec server,
   remote control; the theorems of section 4.
2. Next modules, most important first: `TurnWaiters` (approvals racing the end
   of a turn; composes with `TurnLifecycle`), `ModelClient` (websocket, fallback,
   401 recovery, with `llm-switch` routing), `AgentRegistry` (slots and the agent
   tree), `UnifiedExec`; the composition of `RolloutStore` with `RolloutReplay`;
   an ordered channel as the abstract specification of `RemoteControl`.
3. Next proofs: `RolloutReplay`, with the reverse scan described by the positions
   of the turns that survive instead of by a fold.
