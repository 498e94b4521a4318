----------------------------- MODULE MemoryJobs -----------------------------
(***************************************************************************)
(* The memory pipeline: every start of codex runs it once, in the          *)
(* background, against one database and one directory.                     *)
(*   - state/src/runtime/memories.rs: the jobs and stage1_outputs tables;  *)
(*   - memories/write/src/phase1.rs, phase2.rs: what a worker does between *)
(*     two calls to the database.                                          *)
(*                                                                         *)
(* A worker is one start, so it claims a job at most once and its name     *)
(* stands for the ownership token of the claim.  A thread's updated_at is  *)
(* a version.  A time in a row is what a comparison with the clock makes   *)
(* of it: a lease is live until it expires, a backoff or a cooldown is on  *)
(* until it ends, an output is fresh until it has not been used for        *)
(* max_unused_days.  A memory is <<thread, version>>.  The watermarks and  *)
(* retry_remaining of the global job are not there: nothing reads them.    *)
(***************************************************************************)
EXTENDS Integers, FiniteSets, FiniteSetsExt

CONSTANTS
  Threads, Workers,
  MaxVersion,     \* bound on the versions of a thread
  MaxRunning,     \* max_rollouts_per_startup
  MaxSelected,    \* max_raw_memories_for_consolidation
  Retries,        \* DEFAULT_RETRY_REMAINING (3 in the code)
  Budgets         \* bounds: updates of threads, changes of their memory mode and
                  \* deletions (changes), and how often a worker that is not dead
                  \* sleeps through its phase-2 lease (stalls)

ASSUME MemoryAssumption ==
  /\ IsFiniteSet(Threads) /\ IsFiniteSet(Workers)
  /\ MaxVersion \in Nat /\ MaxRunning \in Nat \ {0} /\ MaxSelected \in Nat
  /\ Retries \in Nat \ {0} /\ Budgets \subseteq [updates : Nat, changes : Nat, stalls : Nat]

NoWorker == "none"
ASSUME WorkerAssumption == NoWorker \notin Workers

VARIABLES
  thread,     \* threads table: memory mode and version of each thread
  jobs,       \* jobs rows of kind memory_stage1
  outputs,    \* stage1_outputs rows
  global,     \* the jobs row of kind memory_consolidate_global
  space,      \* the memory directory: raw inputs, and the agent's digest
  base,       \* its git baseline: {} or {contents}
  wk,         \* the workers
  extracted,  \* versions whose extraction a worker completed
  budget,     \* what is left of the bounds
  stalled,    \* whether a worker has slept through its phase-2 lease
  lingered,   \* whether the job was claimed while the agent of an earlier run ran
  failed,     \* failures recorded for the thread's newest claimed version
  promised    \* {} or {the selection of the last run that succeeded}

database == <<thread, jobs, outputs, global>>
bounded == <<budget, stalled, lingered>>
ghosts == <<extracted, failed, promised, bounded>>
vars == <<database, space, base, wk, ghosts>>

(* Versions of a thread are 1..MaxVersion; a memory is a thread and the     *)
(* version it was extracted from.                                           *)
NoVersion == 0

NoJob == [status |-> "none", token |-> NoWorker, live |-> FALSE, backoff |-> FALSE,
          retry |-> Retries, input |-> NoVersion, success |-> NoVersion]
NoOutput == [source |-> NoVersion, selected |-> FALSE, fresh |-> FALSE]
NoGlobal == [status |-> "none", token |-> NoWorker, live |-> FALSE, backoff |-> FALSE,
             cooldown |-> FALSE]
EmptySpace == [inputs |-> {}, digest |-> {}]
NothingListed == [t \in Threads |-> NoVersion]
NewWorker == [pc |-> "new", listed |-> NothingListed, claims |-> NothingListed,
              selection |-> {}, seen |-> {}]

(* A thread being deleted loses its memories first, then its row.           *)
Enabled(t) == thread[t].mode \in {"enabled", "deleting"}

Init ==
  /\ thread = [t \in Threads |-> [mode |-> "enabled", version |-> 1]]
  /\ jobs = [t \in Threads |-> NoJob]
  /\ outputs = [t \in Threads |-> NoOutput]
  /\ global = NoGlobal
  /\ space = EmptySpace /\ base = {}
  /\ wk = [w \in Workers |-> NewWorker]
  /\ extracted = [t \in Threads |-> {}]
  /\ failed = [t \in Threads |-> 0]
  /\ promised = {}
  /\ budget \in Budgets /\ stalled = FALSE /\ lingered = FALSE

(* enqueue_global_consolidation: a running job stays as it is.              *)
Enqueued(g) ==
  IF g.status = "running" THEN g ELSE [g EXCEPT !.status = "pending", !.backoff = FALSE]

-----------------------------------------------------------------------------
(* Phase 1: extraction. *)

(* prune_stage1_outputs_for_retention, then the scan of the threads table;  *)
(* age, idle time and the scan limit leave some of the enabled threads.     *)
Start(w) ==
  /\ wk[w].pc = "new"
  /\ outputs' = [t \in Threads |->
                   IF ~outputs[t].selected /\ ~outputs[t].fresh THEN NoOutput ELSE outputs[t]]
  /\ \E ts \in SUBSET {t \in Threads : Enabled(t)} :
       wk' = [wk EXCEPT ![w].pc = "phase1",
                        ![w].listed = [t \in Threads |->
                                         IF t \in ts THEN thread[t].version ELSE NoVersion]]
  /\ UNCHANGED <<thread, jobs, global, space, base, ghosts>>

UpToDate(t, v) == outputs[t].source >= v \/ jobs[t].success >= v

RunningElsewhere(t) == {u \in Threads \ {t} : jobs[u].status = "running" /\ jobs[u].live}

(* Mutant: the cap is checked for existing rows only.                       *)
ClaimableUncapped(t, v) ==
  LET job == jobs[t]
  IN /\ ~UpToDate(t, v)
     /\ job.status # "none" => Cardinality(RunningElsewhere(t)) < MaxRunning
     /\ ~(job.status = "running" /\ job.live)
     /\ ~job.backoff \/ v > job.input
     /\ job.retry > 0 \/ v > job.input

(* The conditions of try_claim_stage1_job's upsert.                         *)
Claimable(t, v) ==
  LET job == jobs[t]
  IN /\ ~UpToDate(t, v)
     /\ Cardinality(RunningElsewhere(t)) < MaxRunning
     /\ ~(job.status = "running" /\ job.live)
     /\ ~job.backoff \/ v > job.input
     /\ job.retry > 0 \/ v > job.input

NumClaims(w) == Cardinality({t \in Threads : wk[w].claims[t] # NoVersion})

(* One candidate of claim_stage1_jobs_for_startup: a newer version gets     *)
(* its retries back.                                                        *)
TryClaimStage1(w, t) ==
  LET v == wk[w].listed[t]
      claimed == NumClaims(w) < MaxRunning /\ Claimable(t, v)
      newer == v > jobs[t].input
  IN /\ wk[w].pc = "phase1" /\ v # NoVersion
     /\ wk' = [wk EXCEPT ![w].listed[t] = NoVersion,
                         ![w].claims[t] = IF claimed THEN v ELSE @]
     /\ jobs' = IF ~claimed THEN jobs
                ELSE [jobs EXCEPT ![t].status = "running", ![t].token = w, ![t].live = TRUE,
                                  ![t].backoff = FALSE, ![t].input = v,
                                  ![t].retry = IF newer THEN Retries ELSE @]
     /\ failed' = IF claimed /\ newer THEN [failed EXCEPT ![t] = 0] ELSE failed
     /\ UNCHANGED <<thread, outputs, global, space, base, extracted, promised, bounded>>

Extracting(w, t) ==
  wk[w].pc = "phase1" /\ wk[w].listed = NothingListed /\ wk[w].claims[t] # NoVersion

(* Mutant: whoever comes back finishes the job.                             *)
OwnsRunning(w, t) == jobs[t].status = "running"

Owns(w, t) == jobs[t].status = "running" /\ jobs[t].token = w

Succeeded(t) ==
  jobs' = [jobs EXCEPT ![t].status = "done", ![t].live = FALSE, ![t].success = jobs[t].input]

(* mark_stage1_job_succeeded.                                               *)
MarkStage1Succeeded(w, t) ==
  /\ Extracting(w, t) /\ Owns(w, t)
  /\ Succeeded(t)
  /\ LET v == wk[w].claims[t]
     IN /\ outputs' = IF v < outputs[t].source THEN outputs
                      ELSE [outputs EXCEPT ![t].source = v, ![t].fresh = TRUE]
        /\ extracted' = [extracted EXCEPT ![t] = @ \cup {v}]
  /\ global' = Enqueued(global)
  /\ wk' = [wk EXCEPT ![w].claims[t] = NoVersion]
  /\ UNCHANGED <<thread, space, base, failed, promised, bounded>>

(* mark_stage1_job_succeeded_no_output: there is nothing to remember.       *)
MarkStage1SucceededNoOutput(w, t) ==
  /\ Extracting(w, t) /\ Owns(w, t)
  /\ Succeeded(t)
  /\ outputs' = [outputs EXCEPT ![t] = NoOutput]
  /\ global' = IF outputs[t] = NoOutput THEN global ELSE Enqueued(global)
  /\ extracted' = [extracted EXCEPT ![t] = @ \cup {wk[w].claims[t]}]
  /\ wk' = [wk EXCEPT ![w].claims[t] = NoVersion]
  /\ UNCHANGED <<thread, space, base, failed, promised, bounded>>

(* Mutant: a failure does not use up a retry.                               *)
MarkStage1FailedFree(w, t) ==
  /\ Extracting(w, t) /\ Owns(w, t)
  /\ jobs' = [jobs EXCEPT ![t].status = "error", ![t].live = FALSE, ![t].backoff = TRUE]
  /\ failed' = [failed EXCEPT ![t] = @ + 1]
  /\ wk' = [wk EXCEPT ![w].claims[t] = NoVersion]
  /\ UNCHANGED <<thread, outputs, global, space, base, extracted, promised, bounded>>

(* mark_stage1_job_failed.                                                  *)
MarkStage1Failed(w, t) ==
  /\ Extracting(w, t) /\ Owns(w, t)
  /\ jobs' = [jobs EXCEPT ![t].status = "error", ![t].live = FALSE, ![t].backoff = TRUE,
                          ![t].retry = @ - 1]
  /\ failed' = [failed EXCEPT ![t] = @ + 1]
  /\ wk' = [wk EXCEPT ![w].claims[t] = NoVersion]
  /\ UNCHANGED <<thread, outputs, global, space, base, extracted, promised, bounded>>

(* A worker that lost its row, or whose last call to the database fails,    *)
(* changes nothing.                                                         *)
DropClaim(w, t) ==
  /\ Extracting(w, t)
  /\ wk' = [wk EXCEPT ![w].claims[t] = NoVersion]
  /\ UNCHANGED <<database, space, base, ghosts>>

-----------------------------------------------------------------------------
(* Phase 2: consolidation. *)

(* Mutant: a job that runs is claimed, too.                                 *)
ClaimableGlobalRunning == ~global.backoff /\ ~global.cooldown

ClaimableGlobal ==
  ~global.backoff /\ ~(global.status = "running" /\ global.live) /\ ~global.cooldown

(* A task that ends keeps nothing.                                          *)
Ended == [NewWorker EXCEPT !.pc = "done"]
Goes(w, pc) == wk' = [wk EXCEPT ![w] = IF pc = "done" THEN Ended ELSE [@ EXCEPT !.pc = pc]]

(* try_claim_global_phase2_job.                                             *)
TryClaimGlobal(w) ==
  /\ wk[w].pc = "phase1" /\ wk[w].listed = NothingListed /\ wk[w].claims = NothingListed
  /\ IF ClaimableGlobal
     THEN /\ global' = [NoGlobal EXCEPT !.status = "running", !.token = w, !.live = TRUE]
          /\ Goes(w, "prepare")
          /\ lingered' = (lingered \/ \E v \in Workers : wk[v].pc = "closing")
     ELSE Goes(w, "done") /\ UNCHANGED <<global, lingered>>
  /\ UNCHANGED <<thread, jobs, outputs, space, base, extracted, failed, promised, budget, stalled>>

OwnsGlobal(w) == global.status = "running" /\ global.token = w

(* Mutant: every run starts from a new baseline.                            *)
PrepareAnew(w) ==
  /\ wk[w].pc = "prepare"
  /\ base' = {space}
  /\ Goes(w, "select")
  /\ UNCHANGED <<database, space, ghosts>>

(* prepare_memory_workspace: without a usable baseline, the directory as it *)
(* is becomes the baseline.                                                 *)
Prepare(w) ==
  /\ wk[w].pc = "prepare"
  /\ base' = IF base = {} THEN {space} ELSE base
  /\ Goes(w, "select")
  /\ UNCHANGED <<database, space, ghosts>>

Eligible == {t \in Threads : outputs[t].fresh /\ Enabled(t)}

(* get_phase2_input_selection: the first n of the fresh outputs of enabled  *)
(* threads, in an order that is left open.                                  *)
Select(w) ==
  /\ wk[w].pc = "select"
  /\ \E ts \in SUBSET Eligible :
       /\ Cardinality(ts) <= MaxSelected
       /\ Cardinality(ts) = MaxSelected \/ ts = Eligible
       /\ wk' = [wk EXCEPT ![w].pc = "sync",
                           ![w].selection = {<<t, outputs[t].source>> : t \in ts}]
  /\ UNCHANGED <<database, space, base, ghosts>>

(* sync_phase2_workspace_inputs.                                            *)
Sync(w) ==
  /\ wk[w].pc = "sync"
  /\ space' = [space EXCEPT !.inputs = wk[w].selection]
  /\ Goes(w, "diff")
  /\ UNCHANGED <<database, base, ghosts>>

(* memory_workspace_diff: without changes there is nothing to consolidate,  *)
(* else the agent is started on the inputs as they are.                     *)
Diff(w) ==
  /\ wk[w].pc = "diff" /\ base # {}
  /\ IF base = {space} THEN Goes(w, "succeed")
     ELSE wk' = [wk EXCEPT ![w].pc = "agent", ![w].seen = space.inputs]
  /\ UNCHANGED <<database, space, base, ghosts>>

(* The agent writes; it has completed when it has digested what it saw.  It *)
(* goes on writing when the run has given up, until it is shut down.        *)
AgentWrites(w) ==
  /\ wk[w].pc \in {"agent", "giving_up", "closing"}
  /\ \E d \in {wk[w].seen, wk[w].seen \cup space.digest} :
       /\ space' = [space EXCEPT !.digest = d]
       /\ \/ wk[w].pc = "agent" /\ d = wk[w].seen /\ Goes(w, "confirm")
          \/ UNCHANGED wk
  /\ UNCHANGED <<database, base, ghosts>>

(* heartbeat_global_phase2_job keeps the lease of an owner, also one that   *)
(* expired; the run gives up when it lost the job or the call fails.        *)
Heartbeat(w) ==
  /\ wk[w].pc = "agent"
  /\ \/ OwnsGlobal(w) /\ global' = [global EXCEPT !.live = TRUE] /\ UNCHANGED wk
     \/ Goes(w, "giving_up") /\ UNCHANGED global
  /\ UNCHANGED <<thread, jobs, outputs, space, base, ghosts>>

(* "Do not reset the workspace baseline if we lost the lock."               *)
Confirm(w) ==
  /\ wk[w].pc = "confirm"
  /\ IF OwnsGlobal(w) THEN global' = [global EXCEPT !.live = TRUE] /\ Goes(w, "reset")
     ELSE Goes(w, "done") /\ UNCHANGED global
  /\ UNCHANGED <<thread, jobs, outputs, space, base, ghosts>>

(* reset_memory_workspace_baseline removes the repository and commits the   *)
(* directory to a new one.                                                  *)
RemoveBaseline(w) ==
  /\ wk[w].pc = "reset"
  /\ base' = {}
  /\ Goes(w, "commit")
  /\ UNCHANGED <<database, space, ghosts>>

CommitBaseline(w) ==
  /\ wk[w].pc = "commit"
  /\ base' = {space}
  /\ Goes(w, "succeed")
  /\ UNCHANGED <<database, space, ghosts>>

(* mark_global_phase2_job_succeeded: exactly the selected versions that are *)
(* still there are marked; a worker that lost the job changes nothing.      *)
MarkGlobalSucceeded(w) ==
  /\ wk[w].pc = "succeed"
  /\ Goes(w, "done")
  /\ IF OwnsGlobal(w)
     THEN /\ global' = [NoGlobal EXCEPT !.status = "done", !.token = w, !.cooldown = TRUE]
          /\ outputs' = [t \in Threads |->
               [outputs[t] EXCEPT !.selected = <<t, outputs[t].source>> \in wk[w].selection]]
          /\ promised' = {wk[w].selection}
     ELSE UNCHANGED <<global, outputs, promised>>
  /\ UNCHANGED <<thread, jobs, space, base, extracted, failed, bounded>>

(* Any step up to the last can fail; so can the agent, which then has       *)
(* stopped.  A run that gives up first marks its job as failed (the call    *)
(* may fail, too) and then has its agent shut down by a task of its own.    *)
MarkGlobalFailed(w) ==
  /\ wk[w].pc \in {"prepare", "select", "sync", "diff", "agent", "giving_up", "confirm", "reset",
                   "commit"}
  /\ \/ /\ OwnsGlobal(w)
        /\ global' = [NoGlobal EXCEPT !.status = "error", !.token = w, !.backoff = TRUE]
     \/ UNCHANGED global
  /\ Goes(w, IF wk[w].pc = "giving_up" THEN "closing" ELSE "done")
  /\ UNCHANGED <<thread, jobs, outputs, space, base, ghosts>>

(* shutdown_consolidation_agent.                                            *)
ShutdownAgent(w) ==
  /\ wk[w].pc = "closing"
  /\ Goes(w, "done")
  /\ UNCHANGED <<database, space, base, ghosts>>

(* The process ends, with the worker's agent, and its claims stay.          *)
Crash(w) ==
  /\ wk[w].pc \notin {"new", "done"}
  /\ Goes(w, "done")
  /\ UNCHANGED <<database, space, base, ghosts>>

-----------------------------------------------------------------------------
(* Time. *)

(* A lease and a backoff take an hour, a scan seconds.                      *)
NobodyScans == \A w \in Workers : wk[w].listed = NothingListed

LeaseExpires(t) ==
  /\ jobs[t].live /\ NobodyScans
  /\ jobs' = [jobs EXCEPT ![t].live = FALSE]
  /\ UNCHANGED <<thread, outputs, global, space, base, wk, ghosts>>

BackoffEnds(t) ==
  /\ jobs[t].backoff /\ NobodyScans
  /\ jobs' = [jobs EXCEPT ![t].backoff = FALSE]
  /\ UNCHANGED <<thread, outputs, global, space, base, wk, ghosts>>

(* The heartbeats of a worker that is awake keep its lease.                 *)
GlobalLeaseExpires ==
  /\ global.live
  /\ \/ wk[global.token].pc = "done" /\ UNCHANGED bounded
     \/ /\ wk[global.token].pc # "done" /\ budget.stalls > 0
        /\ budget' = [budget EXCEPT !.stalls = @ - 1] /\ stalled' = TRUE
        /\ UNCHANGED lingered
  /\ global' = [global EXCEPT !.live = FALSE]
  /\ UNCHANGED <<thread, jobs, outputs, space, base, wk, extracted, failed, promised>>

GlobalWaitEnds ==
  /\ global.backoff \/ global.cooldown
  /\ global' = [global EXCEPT !.backoff = FALSE, !.cooldown = FALSE]
  /\ UNCHANGED <<thread, jobs, outputs, space, base, wk, ghosts>>

OutputAges(t) ==
  /\ outputs[t].fresh
  /\ outputs' = [outputs EXCEPT ![t].fresh = FALSE]
  /\ UNCHANGED <<thread, jobs, global, space, base, wk, ghosts>>

-----------------------------------------------------------------------------
(* Users. *)

UpdateThread(t) ==
  /\ thread[t].mode = "enabled" /\ thread[t].version < MaxVersion /\ budget.updates > 0
  /\ thread' = [thread EXCEPT ![t].version = @ + 1]
  /\ budget' = [budget EXCEPT !.updates = @ - 1]
  /\ UNCHANGED <<jobs, outputs, global, space, base, wk, extracted, failed, promised, stalled,
                 lingered>>

(* record_stage1_output_usage.                                              *)
RecordUsage(t) ==
  /\ outputs[t].source # NoVersion /\ ~outputs[t].fresh
  /\ outputs' = [outputs EXCEPT ![t].fresh = TRUE]
  /\ UNCHANGED <<thread, jobs, global, space, base, wk, ghosts>>

(* mark_thread_memory_mode_polluted.                                        *)
PolluteThread(t) ==
  /\ thread[t].mode = "enabled" /\ budget.changes > 0
  /\ thread' = [thread EXCEPT ![t].mode = "polluted"]
  /\ global' = IF outputs[t].selected THEN Enqueued(global) ELSE global
  /\ budget' = [budget EXCEPT !.changes = @ - 1]
  /\ UNCHANGED <<jobs, outputs, space, base, wk, extracted, failed, promised, stalled, lingered>>

(* delete_thread_memory.                                                    *)
DeleteThreadMemory(t) ==
  /\ thread[t].mode \in {"enabled", "polluted"} /\ budget.changes > 0
  /\ outputs' = [outputs EXCEPT ![t] = NoOutput]
  /\ jobs' = [jobs EXCEPT ![t] = NoJob]
  /\ global' = IF outputs[t].selected THEN Enqueued(global) ELSE global
  /\ failed' = [failed EXCEPT ![t] = 0]
  /\ thread' = [thread EXCEPT ![t].mode = IF @ = "enabled" THEN "deleting" ELSE "deleted"]
  /\ budget' = [budget EXCEPT !.changes = @ - 1]
  /\ UNCHANGED <<space, base, wk, extracted, promised, stalled, lingered>>

DeleteThread(t) ==
  /\ thread[t].mode = "deleting"
  /\ thread' = [thread EXCEPT ![t].mode = "deleted"]
  /\ UNCHANGED <<jobs, outputs, global, space, base, wk, ghosts>>

-----------------------------------------------------------------------------

Phase1Step(w, t) ==
  \/ TryClaimStage1(w, t)
  \/ MarkStage1Succeeded(w, t) \/ MarkStage1SucceededNoOutput(w, t)
  \/ MarkStage1Failed(w, t) \/ DropClaim(w, t)

WorkerStep(w) ==
  \/ Start(w)
  \/ \E t \in Threads : Phase1Step(w, t)
  \/ TryClaimGlobal(w) \/ Prepare(w) \/ Select(w) \/ Sync(w) \/ Diff(w)
  \/ AgentWrites(w) \/ Heartbeat(w) \/ Confirm(w) \/ RemoveBaseline(w) \/ CommitBaseline(w)
  \/ MarkGlobalSucceeded(w) \/ MarkGlobalFailed(w) \/ ShutdownAgent(w) \/ Crash(w)

ThreadStep(t) ==
  \/ LeaseExpires(t) \/ BackoffEnds(t) \/ OutputAges(t)
  \/ UpdateThread(t) \/ RecordUsage(t) \/ PolluteThread(t)
  \/ DeleteThreadMemory(t) \/ DeleteThread(t)

Next ==
  \/ \E w \in Workers : WorkerStep(w)
  \/ \E t \in Threads : ThreadStep(t)
  \/ GlobalLeaseExpires \/ GlobalWaitEnds

Spec == Init /\ [][Next]_vars

-----------------------------------------------------------------------------
(* Properties. *)

(* A version recorded as done was extracted, by a worker that read at least *)
(* that version: a worker that lost its lease and finishes late cannot make *)
(* the job skip a version nobody extracted (mark_stage1_job_succeeded).     *)
DoneIsExtracted ==
  \A t \in Threads :
    /\ jobs[t].success \in extracted[t] \cup {NoVersion}
    /\ outputs[t].source \in extracted[t] \cup {NoVersion}

(* The extractions with a live lease, of all processes together, respect    *)
(* the cap, whichever way their rows were claimed (try_claim_stage1_job).   *)
RunningCapped ==
  Cardinality({t \in Threads : jobs[t].live}) <= MaxRunning

(* A version is not tried again once its retries have failed, whatever      *)
(* other workers, other versions and expired leases come in between.        *)
RetriesBounded ==
  \A t \in Threads : failed[t] <= Retries

InDirectory(w) == wk[w].pc \notin {"new", "phase1", "done"}

(* Workers whose leases are kept have the memory directory to themselves    *)
(* from the claim to the last call (try_claim_global_phase2_job), but for   *)
(* agents that are being shut down: a run that gives up because a heartbeat *)
(* failed releases the job first, and until its agent is closed the next    *)
(* run may work beside it.  No two runs that still have their job, and no   *)
(* run that is about to give it up, ever do.                                *)
DirectoryExclusive ==
  ~stalled => \A v, w \in Workers :
    InDirectory(v) /\ InDirectory(w) => v = w \/ "closing" \in {wk[v].pc, wk[w].pc}

(* When a run has succeeded, the baseline holds what it selected and the    *)
(* digest of just that, wherever earlier runs failed or died, also between  *)
(* the commit and the database, and whether or not an agent had to run: a   *)
(* memory that was deleted, polluted or replaced before the selection is    *)
(* not in the digest any more.  Two workers may write after a stall, and    *)
(* when the job was claimed before the agent of an earlier run was closed.  *)
DigestIsSelection ==
  global.status = "done" /\ ~stalled /\ ~lingered =>
    base = {[inputs |-> s, digest |-> s] : s \in promised}
=============================================================================
