---------------------------- MODULE MemoryProofs ----------------------------
(***************************************************************************)
(* Proofs about MemoryJobs for every set of threads and workers, every     *)
(* number of versions and every cap: the invariants of the extraction jobs *)
(* (JobInv), of the consolidation's lock (LockInv) and of the memory       *)
(* directory (SpaceInv), each inductive together with the types.           *)
(***************************************************************************)
EXTENDS MemoryJobs, FiniteSetTheorems, TLAPS

Memories == Threads \X Nat

Job == [status : {"none", "running", "done", "error"}, token : Workers \cup {NoWorker},
        live : BOOLEAN, backoff : BOOLEAN, retry : Nat, input : Nat, success : Nat]

Output == [source : Nat, selected : BOOLEAN, fresh : BOOLEAN]

Global == [status : {"none", "pending", "running", "done", "error"},
           token : Workers \cup {NoWorker}, live : BOOLEAN, backoff : BOOLEAN,
           cooldown : BOOLEAN]

Space == [inputs : SUBSET Memories, digest : SUBSET Memories]

(* Where a worker that claimed the consolidation job may be, until it gives *)
(* the job back; its agent may still be closing then.                       *)
Inside == {"prepare", "select", "sync", "diff", "agent", "giving_up", "confirm", "reset",
           "commit", "succeed"}
Places == {"new", "phase1", "done", "closing"} \cup Inside

Worker == [pc : Places, listed : [Threads -> Nat],
           claims : [Threads -> Nat], selection : SUBSET Memories, seen : SUBSET Memories]

TypeInv ==
  /\ thread \in [Threads -> [mode : {"enabled", "polluted", "deleting", "deleted"},
                             version : Nat]]
  /\ jobs \in [Threads -> Job]
  /\ outputs \in [Threads -> Output]
  /\ global \in Global
  /\ space \in Space
  /\ base \in SUBSET Space
  /\ wk \in [Workers -> Worker]
  /\ extracted \in [Threads -> SUBSET Nat]
  /\ failed \in [Threads -> Nat]
  /\ promised \in SUBSET SUBSET Memories
  /\ stalled \in BOOLEAN /\ lingered \in BOOLEAN

(* A job that runs has a retry left, and each failure has used up one.      *)
RetryInv ==
  \A t \in Threads : /\ failed[t] + jobs[t].retry = Retries
                     /\ jobs[t].status = "running" => jobs[t].retry > 0

(* The owner of a running job holds the version the row asks for.           *)
ClaimInv ==
  \A t \in Threads, w \in Workers :
    Owns(w, t) /\ wk[w].claims[t] # NoVersion => jobs[t].input = wk[w].claims[t]

LiveInv == \A t \in Threads : jobs[t].live => jobs[t].status = "running"

JobInv == RetryInv /\ ClaimInv /\ LiveInv /\ DoneIsExtracted /\ RunningCapped

(* Without a stall, a worker that is inside has a live lease on the job.    *)
Holds(w) == OwnsGlobal(w) /\ global.live

LockInv ==
  /\ global.live => global.status = "running"
  /\ global.status = "running" => global.token \in Workers
  /\ ~stalled => \A w \in Workers : wk[w].pc \in Inside => Holds(w)

(* The digest of a directory is of its inputs.                              *)
Clean(s) == s.inputs = s.digest

(* What a worker that is inside knows of the directory and the baseline.    *)
Knows(w) ==
  LET pc == wk[w].pc
      selected == space.inputs = wk[w].selection
  IN  /\ pc \in {"select", "sync", "diff", "agent", "giving_up", "confirm", "reset", "closing"}
           => base # {}
      /\ pc \in {"diff", "agent", "confirm", "reset", "commit", "succeed"} => selected
      /\ pc = "agent" => wk[w].seen = space.inputs
      /\ pc \in {"confirm", "reset", "commit", "succeed"} => Clean(space)
      /\ pc = "succeed" => base = {space}

(* Nobody works beside an agent that is closing.                            *)
ClosesAlone ==
  \A w \in Workers : wk[w].pc = "closing" =>
    global.status # "done" /\ \A v \in Workers : wk[v].pc \notin Inside

(* Unless a worker stalled or an agent lingered: a directory without a      *)
(* baseline is clean, and so is the baseline.                               *)
SpaceInv ==
  ~stalled /\ ~lingered =>
    /\ base = {} => Clean(space)
    /\ base # {} => \E s \in Space : Clean(s) /\ base = {s}
    /\ \A w \in Workers : Knows(w)
    /\ ClosesAlone
    /\ global.status = "done" => base = {[inputs |-> s, digest |-> s] : s \in promised}

IInv == TypeInv /\ JobInv /\ LockInv /\ SpaceInv

-----------------------------------------------------------------------------
(* Types. *)

(* The constants the proofs use.                                            *)
LEMMA Constants ==
  /\ IsFiniteSet(Threads) /\ Retries \in Nat \ {0} /\ MaxRunning \in Nat \ {0}
  /\ NoWorker \notin Workers
  BY MemoryAssumption, WorkerAssumption DEF MemoryAssumption, WorkerAssumption

(* The initial rows and the initial worker are well typed.                  *)
LEMMA InitialTypes ==
  /\ NoJob \in Job /\ NoOutput \in Output /\ NoGlobal \in Global /\ EmptySpace \in Space
  /\ NothingListed \in [Threads -> Nat] /\ NewWorker \in Worker
<1>1. NothingListed \in [Threads -> Nat]
  BY DEF NothingListed, NoVersion
<1>2. NewWorker \in Worker
  BY <1>1 DEF NewWorker, Worker, Places
<1> QED
  BY <1>1, <1>2, Constants
     DEF NoJob, NoOutput, NoGlobal, EmptySpace, Job, Output, Global, Space, NoVersion

(* enqueue_global_consolidation leaves a running job, its owner and its     *)
(* lease alone.                                                             *)
LEMMA EnqueuedKeeps ==
  ASSUME NEW g \in Global
  PROVE  /\ Enqueued(g) \in Global
         /\ Enqueued(g).token = g.token /\ Enqueued(g).live = g.live
         /\ Enqueued(g).status = "running" <=> g.status = "running"
         /\ Enqueued(g).status # "done"
  BY DEF Enqueued, Global

(* A worker's program counter, list and claims change within their types.   *)
LEMMA GoesType ==
  ASSUME TypeInv, NEW w \in Workers, NEW pc \in Places, Goes(w, pc)
  PROVE  wk' \in [Workers -> Worker]
<1>1. wk[w] \in Worker
  BY DEF TypeInv
<1>2. [wk[w] EXCEPT !.pc = pc] \in Worker
  BY <1>1 DEF Worker
<1>3. Ended \in Worker
  BY InitialTypes DEF Ended, Worker, Places
<1> QED
  BY <1>2, <1>3 DEF TypeInv, Goes

LEMMA DropsType ==
  ASSUME TypeInv, NEW w \in Workers, NEW t \in Threads,
         wk' = [wk EXCEPT ![w].claims[t] = NoVersion]
  PROVE  wk' \in [Workers -> Worker]
<1>1. wk[w] \in Worker /\ wk[w].claims \in [Threads -> Nat]
  BY DEF TypeInv, Worker
<1>2. [wk[w].claims EXCEPT ![t] = NoVersion] \in [Threads -> Nat]
  BY <1>1 DEF NoVersion
<1>3. [wk[w] EXCEPT !.claims[t] = NoVersion] \in Worker
  BY <1>1, <1>2 DEF Worker
<1> QED
  BY <1>3 DEF TypeInv

LEMMA InitTypeInv == Init => TypeInv
<1> SUFFICES ASSUME Init PROVE TypeInv
  OBVIOUS
<1>1. wk \in [Workers -> Worker]
  BY InitialTypes DEF Init
<1>2. global \in Global /\ space \in Space /\ base \in SUBSET Space
  BY InitialTypes DEF Init
<1>3. jobs \in [Threads -> Job] /\ outputs \in [Threads -> Output]
  BY InitialTypes DEF Init
<1>4. thread \in [Threads -> [mode : {"enabled", "polluted", "deleting", "deleted"},
                              version : Nat]]
  BY DEF Init
<1> QED
  BY <1>1, <1>2, <1>3, <1>4 DEF Init, TypeInv

LEMMA Phase1Types ==
  ASSUME TypeInv, RetryInv, NEW w \in Workers, NEW t \in Threads, Phase1Step(w, t)
  PROVE  TypeInv'
<1>1. CASE TryClaimStage1(w, t)
  <2> DEFINE v == wk[w].listed[t]
             claimed == NumClaims(w) < MaxRunning /\ Claimable(t, v)
             listed == [wk[w].listed EXCEPT ![t] = NoVersion]
             claims == [wk[w].claims EXCEPT ![t] = IF claimed THEN v ELSE @]
             retry == IF v > jobs[t].input THEN Retries ELSE jobs[t].retry
  <2>a. wk[w] \in Worker /\ jobs[t] \in Job
    BY DEF TypeInv
  <2>b. wk[w].listed \in [Threads -> Nat] /\ wk[w].claims \in [Threads -> Nat]
    BY <2>a DEF Worker
  <2>1. wk' \in [Workers -> Worker]
    <3>1. listed \in [Threads -> Nat] /\ claims \in [Threads -> Nat]
      BY <2>b DEF NoVersion
    <3>2. [wk[w] EXCEPT !.listed = listed, !.claims = claims] \in Worker
      BY <2>a, <3>1 DEF Worker
    <3>3. wk' = [wk EXCEPT ![w] = [wk[w] EXCEPT !.listed = listed, !.claims = claims]]
      BY <1>1, <2>a DEF TryClaimStage1, TypeInv, Worker
    <3> QED
      BY <3>2, <3>3 DEF TypeInv
  <2>2. jobs' \in [Threads -> Job]
    <3>1. v \in Nat /\ retry \in Nat
      BY <2>a, <2>b, Constants DEF Job
    <3>2. [jobs[t] EXCEPT !.status = "running", !.token = w, !.live = TRUE, !.backoff = FALSE,
                          !.input = v, !.retry = retry] \in Job
      BY <2>a, <3>1 DEF Job
    <3> QED
      BY <1>1, <3>2 DEF TryClaimStage1, TypeInv
  <2>3. failed' \in [Threads -> Nat]
    BY <1>1 DEF TryClaimStage1, TypeInv
  <2> QED
    BY <1>1, <2>1, <2>2, <2>3 DEF TryClaimStage1, TypeInv, bounded
<1>2. CASE MarkStage1Succeeded(w, t)
  <2>1. wk' \in [Workers -> Worker]
    BY <1>2, DropsType DEF MarkStage1Succeeded
  <2>2. jobs' \in [Threads -> Job]
    <3>1. [jobs[t] EXCEPT !.status = "done", !.live = FALSE, !.success = jobs[t].input] \in Job
      BY ZenonT(60) DEF TypeInv, Job
    <3> QED
      BY <1>2, <3>1 DEF MarkStage1Succeeded, Succeeded, TypeInv
  <2>3. wk[w].claims[t] \in Nat
    BY DEF TypeInv, Worker
  <2>4. outputs' \in [Threads -> Output]
    BY <1>2, <2>3 DEF MarkStage1Succeeded, TypeInv, Output
  <2>5. extracted' \in [Threads -> SUBSET Nat]
    BY <1>2, <2>3 DEF MarkStage1Succeeded, TypeInv
  <2>6. global' \in Global
    BY <1>2, EnqueuedKeeps DEF MarkStage1Succeeded, TypeInv
  <2> QED
    BY <1>2, <2>1, <2>2, <2>4, <2>5, <2>6 DEF MarkStage1Succeeded, TypeInv, bounded
<1>3. CASE MarkStage1SucceededNoOutput(w, t)
  <2>1. wk' \in [Workers -> Worker]
    BY <1>3, DropsType DEF MarkStage1SucceededNoOutput
  <2>2. jobs' \in [Threads -> Job]
    <3>1. [jobs[t] EXCEPT !.status = "done", !.live = FALSE, !.success = jobs[t].input] \in Job
      BY ZenonT(60) DEF TypeInv, Job
    <3> QED
      BY <1>3, <3>1 DEF MarkStage1SucceededNoOutput, Succeeded, TypeInv
  <2>3. wk[w].claims[t] \in Nat
    BY DEF TypeInv, Worker
  <2>4. outputs' \in [Threads -> Output]
    BY <1>3, InitialTypes DEF MarkStage1SucceededNoOutput, TypeInv
  <2>5. extracted' \in [Threads -> SUBSET Nat]
    BY <1>3, <2>3 DEF MarkStage1SucceededNoOutput, TypeInv
  <2>6. global' \in Global
    BY <1>3, EnqueuedKeeps DEF MarkStage1SucceededNoOutput, TypeInv
  <2> QED
    BY <1>3, <2>1, <2>2, <2>4, <2>5, <2>6 DEF MarkStage1SucceededNoOutput, TypeInv, bounded
<1>4. CASE MarkStage1Failed(w, t)
  <2>1. wk' \in [Workers -> Worker]
    BY <1>4, DropsType DEF MarkStage1Failed
  <2>2. jobs[t].retry - 1 \in Nat
    BY <1>4 DEF MarkStage1Failed, Owns, RetryInv, TypeInv, Job
  <2>3. [jobs[t] EXCEPT !.status = "error", !.live = FALSE, !.backoff = TRUE,
                        !.retry = @ - 1] \in Job
    BY <2>2, ZenonT(60) DEF TypeInv, Job
  <2>4. jobs' \in [Threads -> Job]
    BY <1>4, <2>3 DEF MarkStage1Failed, TypeInv
  <2>5. failed' \in [Threads -> Nat]
    BY <1>4 DEF MarkStage1Failed, TypeInv
  <2> QED
    BY <1>4, <2>1, <2>4, <2>5 DEF MarkStage1Failed, TypeInv, bounded
<1>5. CASE DropClaim(w, t)
  <2>1. wk' \in [Workers -> Worker]
    BY <1>5, DropsType DEF DropClaim
  <2> QED
    BY <1>5, <2>1 DEF DropClaim, TypeInv, database, ghosts, bounded
<1> QED
  BY <1>1, <1>2, <1>3, <1>4, <1>5 DEF Phase1Step

LEMMA WorkerTypes ==
  ASSUME TypeInv, RetryInv, NEW w \in Workers, WorkerStep(w)
  PROVE  TypeInv'
<1> USE DEF Inside, Places
<1>0. wk[w] \in Worker
  BY DEF TypeInv
<1>1. CASE Start(w)
  <2>1. outputs' \in [Threads -> Output]
    BY <1>1, InitialTypes DEF Start, TypeInv
  <2>2. PICK ts \in SUBSET {t \in Threads : Enabled(t)} :
          wk' = [wk EXCEPT ![w].pc = "phase1",
                           ![w].listed = [t \in Threads |->
                                            IF t \in ts THEN thread[t].version ELSE NoVersion]]
    BY <1>1 DEF Start
  <2> DEFINE listed == [t \in Threads |-> IF t \in ts THEN thread[t].version ELSE NoVersion]
  <2>3. listed \in [Threads -> Nat]
    BY DEF TypeInv, NoVersion
  <2> HIDE DEF listed
  <2>4. [wk[w] EXCEPT !.pc = "phase1", !.listed = listed] \in Worker
    BY <1>0, <2>3 DEF Worker
  <2>5. wk' \in [Workers -> Worker]
    BY <2>2, <2>4 DEF TypeInv, listed
  <2> QED
    BY <1>1, <2>1, <2>5 DEF Start, TypeInv, ghosts, bounded
<1>2. ASSUME NEW t \in Threads, Phase1Step(w, t) PROVE TypeInv'
  BY <1>2, Phase1Types
<1>3. CASE TryClaimGlobal(w)
  <2>1. wk' \in [Workers -> Worker]
    <3>1. Goes(w, "prepare") \/ Goes(w, "done")
      BY <1>3 DEF TryClaimGlobal
    <3> QED
      BY <3>1, GoesType
  <2>2. global' \in Global
    BY <1>3, InitialTypes DEF TryClaimGlobal, TypeInv, Global
  <2> QED
    BY <1>3, <2>1, <2>2 DEF TryClaimGlobal, TypeInv
<1>4. CASE Prepare(w)
  <2>1. wk' \in [Workers -> Worker]
    BY <1>4, GoesType DEF Prepare
  <2> QED
    BY <1>4, <2>1 DEF Prepare, TypeInv, database, ghosts, bounded
<1>5. CASE Select(w)
  <2>1. PICK ts \in SUBSET Eligible :
          wk' = [wk EXCEPT ![w].pc = "sync",
                           ![w].selection = {<<t, outputs[t].source>> : t \in ts}]
    BY <1>5 DEF Select
  <2> DEFINE selection == {<<t, outputs[t].source>> : t \in ts}
  <2>2. selection \in SUBSET Memories
    BY DEF Eligible, TypeInv, Output, Memories
  <2> HIDE DEF selection
  <2>3. [wk[w] EXCEPT !.pc = "sync", !.selection = selection] \in Worker
    BY <1>0, <2>2 DEF Worker
  <2>4. wk' \in [Workers -> Worker]
    BY <2>1, <2>3 DEF TypeInv, selection
  <2> QED
    BY <1>5, <2>4 DEF Select, TypeInv, database, ghosts, bounded
<1>6. CASE Sync(w)
  <2>1. wk' \in [Workers -> Worker]
    BY <1>6, GoesType DEF Sync
  <2>2. space' \in Space
    BY <1>0, <1>6 DEF Sync, TypeInv, Space, Worker
  <2> QED
    BY <1>6, <2>1, <2>2 DEF Sync, TypeInv, database, ghosts, bounded
<1>7. CASE Diff(w)
  <2>1. wk' \in [Workers -> Worker]
    <3>1. CASE base = {space}
      BY <1>7, <3>1, GoesType DEF Diff
    <3>2. CASE base # {space}
      <4>1. [wk[w] EXCEPT !.pc = "agent", !.seen = space.inputs] \in Worker
        BY <1>0 DEF Worker, TypeInv, Space
      <4> QED
        BY <1>7, <3>2, <4>1 DEF Diff, TypeInv
    <3> QED
      BY <3>1, <3>2
  <2> QED
    BY <1>7, <2>1 DEF Diff, TypeInv, database, ghosts, bounded
<1>8. CASE AgentWrites(w)
  <2>1. wk' \in [Workers -> Worker]
    <3>1. Goes(w, "confirm") \/ UNCHANGED wk
      BY <1>8 DEF AgentWrites
    <3> QED
      BY <3>1, GoesType DEF TypeInv
  <2>2. PICK d \in {wk[w].seen, wk[w].seen \cup space.digest} :
          space' = [space EXCEPT !.digest = d]
    BY <1>8 DEF AgentWrites
  <2>3. d \in SUBSET Memories
    BY <1>0 DEF Worker, TypeInv, Space
  <2>4. space' \in Space
    BY <2>2, <2>3 DEF TypeInv, Space
  <2> QED
    BY <1>8, <2>1, <2>4 DEF AgentWrites, TypeInv, database, ghosts, bounded
<1>9. CASE Heartbeat(w) \/ Confirm(w)
  <2>1. wk' \in [Workers -> Worker]
    <3>1. Goes(w, "reset") \/ Goes(w, "giving_up") \/ Goes(w, "done") \/ UNCHANGED wk
      BY <1>9 DEF Heartbeat, Confirm
    <3> QED
      BY <3>1, GoesType DEF TypeInv
  <2>2. global' \in Global
    BY <1>9 DEF Heartbeat, Confirm, TypeInv, Global
  <2> QED
    BY <1>9, <2>1, <2>2 DEF Heartbeat, Confirm, TypeInv, ghosts, bounded
<1>10. CASE RemoveBaseline(w) \/ CommitBaseline(w)
  <2>1. wk' \in [Workers -> Worker]
    BY <1>10, GoesType DEF RemoveBaseline, CommitBaseline
  <2> QED
    BY <1>10, <2>1 DEF RemoveBaseline, CommitBaseline, TypeInv, database, ghosts, bounded
<1>11. CASE MarkGlobalSucceeded(w)
  <2>1. wk' \in [Workers -> Worker]
    BY <1>11, GoesType DEF MarkGlobalSucceeded
  <2>2. global' \in Global
    BY <1>11, InitialTypes DEF MarkGlobalSucceeded, TypeInv, Global
  <2>3. outputs' \in [Threads -> Output]
    <3>1. \A t \in Threads : \A b \in BOOLEAN : [outputs[t] EXCEPT !.selected = b] \in Output
      BY DEF TypeInv, Output
    <3>2. \A t \in Threads : (<<t, outputs[t].source>> \in wk[w].selection) \in BOOLEAN
      OBVIOUS
    <3>3. \A t \in Threads : [outputs[t] EXCEPT !.selected =
                                <<t, outputs[t].source>> \in wk[w].selection] \in Output
      BY <3>1, <3>2, Zenon
    <3>4. CASE OwnsGlobal(w)
      <4>1. outputs' = [t \in Threads |->
               [outputs[t] EXCEPT !.selected = <<t, outputs[t].source>> \in wk[w].selection]]
        BY <1>11, <3>4 DEF MarkGlobalSucceeded
      <4> QED
        BY <3>3, <4>1, Zenon
    <3> QED
      BY <1>11, <3>4 DEF MarkGlobalSucceeded, TypeInv
  <2>4. promised' \in SUBSET SUBSET Memories
    BY <1>0, <1>11 DEF MarkGlobalSucceeded, TypeInv, Worker
  <2> QED
    BY <1>11, <2>1, <2>2, <2>3, <2>4 DEF MarkGlobalSucceeded, TypeInv, bounded
<1>12. CASE MarkGlobalFailed(w)
  <2>1. wk' \in [Workers -> Worker]
    <3>1. Goes(w, "closing") \/ Goes(w, "done")
      BY <1>12 DEF MarkGlobalFailed
    <3> QED
      BY <3>1, GoesType
  <2>2. global' \in Global
    BY <1>12, InitialTypes DEF MarkGlobalFailed, TypeInv, Global
  <2> QED
    BY <1>12, <2>1, <2>2 DEF MarkGlobalFailed, TypeInv, ghosts, bounded
<1>13. CASE ShutdownAgent(w) \/ Crash(w)
  <2>1. wk' \in [Workers -> Worker]
    BY <1>13, GoesType DEF ShutdownAgent, Crash
  <2> QED
    BY <1>13, <2>1 DEF ShutdownAgent, Crash, TypeInv, database, ghosts, bounded
<1> QED
  BY <1>1, <1>2, <1>3, <1>4, <1>5, <1>6, <1>7, <1>8, <1>9, <1>10, <1>11, <1>12, <1>13
     DEF WorkerStep

LEMMA ThreadTypes ==
  ASSUME TypeInv, NEW t \in Threads, ThreadStep(t)
  PROVE  TypeInv'
<1> DEFINE Rows == [mode : {"enabled", "polluted", "deleting", "deleted"}, version : Nat]
<1>1. CASE LeaseExpires(t)
  <2>1. [jobs[t] EXCEPT !.live = FALSE] \in Job
    BY ZenonT(60) DEF TypeInv, Job
  <2> QED
    BY <1>1, <2>1 DEF LeaseExpires, TypeInv, ghosts, bounded
<1>2. CASE BackoffEnds(t)
  <2>1. [jobs[t] EXCEPT !.backoff = FALSE] \in Job
    BY ZenonT(60) DEF TypeInv, Job
  <2> QED
    BY <1>2, <2>1 DEF BackoffEnds, TypeInv, ghosts, bounded
<1>3. CASE OutputAges(t) \/ RecordUsage(t)
  <2>1. \A b \in BOOLEAN : [outputs[t] EXCEPT !.fresh = b] \in Output
    BY DEF TypeInv, Output
  <2> QED
    BY <1>3, <2>1 DEF OutputAges, RecordUsage, TypeInv, ghosts, bounded
<1>4. CASE UpdateThread(t)
  <2>1. [thread[t] EXCEPT !.version = @ + 1] \in Rows
    BY DEF TypeInv
  <2>2. thread' \in [Threads -> Rows]
    BY <1>4, <2>1 DEF UpdateThread, TypeInv
  <2> QED
    BY <1>4, <2>2 DEF UpdateThread, TypeInv
<1>5. CASE PolluteThread(t)
  <2>1. [thread[t] EXCEPT !.mode = "polluted"] \in Rows
    BY DEF TypeInv
  <2>2. thread' \in [Threads -> Rows]
    BY <1>5, <2>1 DEF PolluteThread, TypeInv
  <2>3. global' \in Global
    BY <1>5, EnqueuedKeeps DEF PolluteThread, TypeInv
  <2> QED
    BY <1>5, <2>2, <2>3 DEF PolluteThread, TypeInv, ghosts, bounded
<1>6. CASE DeleteThreadMemory(t)
  <2>1. \A m \in {"deleting", "deleted"} : [thread[t] EXCEPT !.mode = m] \in Rows
    BY DEF TypeInv
  <2>2. thread' \in [Threads -> Rows]
    BY <1>6, <2>1 DEF DeleteThreadMemory, TypeInv
  <2>3. global' \in Global
    BY <1>6, EnqueuedKeeps DEF DeleteThreadMemory, TypeInv
  <2>4. /\ jobs' \in [Threads -> Job] /\ outputs' \in [Threads -> Output]
        /\ failed' \in [Threads -> Nat]
    BY <1>6, InitialTypes DEF DeleteThreadMemory, TypeInv
  <2> QED
    BY <1>6, <2>2, <2>3, <2>4 DEF DeleteThreadMemory, TypeInv, bounded
<1>7. CASE DeleteThread(t)
  <2>1. [thread[t] EXCEPT !.mode = "deleted"] \in Rows
    BY DEF TypeInv
  <2>2. thread' \in [Threads -> Rows]
    BY <1>7, <2>1 DEF DeleteThread, TypeInv
  <2> QED
    BY <1>7, <2>2 DEF DeleteThread, TypeInv, ghosts, bounded
<1> QED
  BY <1>1, <1>2, <1>3, <1>4, <1>5, <1>6, <1>7 DEF ThreadStep

LEMMA NextTypes ==
  ASSUME TypeInv, RetryInv, [Next]_vars
  PROVE  TypeInv'
<1>1. CASE GlobalLeaseExpires
  <2>1. global' \in Global
    BY <1>1 DEF GlobalLeaseExpires, TypeInv, Global
  <2>2. stalled' \in BOOLEAN /\ lingered' \in BOOLEAN
    BY <1>1 DEF GlobalLeaseExpires, TypeInv, bounded
  <2> QED
    BY <1>1, <2>1, <2>2 DEF GlobalLeaseExpires, TypeInv
<1>2. CASE GlobalWaitEnds
  <2>1. global' \in Global
    BY <1>2 DEF GlobalWaitEnds, TypeInv, Global
  <2> QED
    BY <1>2, <2>1 DEF GlobalWaitEnds, TypeInv, ghosts, bounded
<1>3. CASE UNCHANGED vars
  BY <1>3 DEF vars, database, ghosts, bounded, TypeInv
<1> QED
  BY <1>1, <1>2, <1>3, WorkerTypes, ThreadTypes DEF Next

-----------------------------------------------------------------------------
(* The extraction jobs. *)

(* A step that leaves the rows, the extracted versions and the failures     *)
(* alone, and outputs and claims but for some that are dropped.             *)
LEMMA JobFrame ==
  ASSUME TypeInv, JobInv, UNCHANGED <<jobs, extracted, failed>>,
         \A t \in Threads : outputs'[t].source \in {outputs[t].source, NoVersion},
         \A w \in Workers, t \in Threads : wk'[w].claims[t] \in {wk[w].claims[t], NoVersion}
  PROVE  JobInv'
<1>1. RetryInv' /\ LiveInv' /\ RunningCapped'
  BY DEF JobInv, RetryInv, LiveInv, RunningCapped
<1>2. ClaimInv'
  BY DEF JobInv, ClaimInv, Owns
<1>3. DoneIsExtracted'
  BY DEF JobInv, DoneIsExtracted
<1> QED
  BY <1>1, <1>2, <1>3 DEF JobInv

(* The cap survives a step that adds no live lease.                         *)
LEMMA CapKept ==
  ASSUME TypeInv, RunningCapped, \A t \in Threads : jobs'[t].live => jobs[t].live
  PROVE  RunningCapped'
<1> DEFINE before == {t \in Threads : jobs[t].live}
           after == {t \in Threads : jobs'[t].live}
<1>1. IsFiniteSet(before) /\ after \subseteq before
  BY Constants, FS_Subset
<1>2. Cardinality(after) <= Cardinality(before) /\ IsFiniteSet(after)
  BY <1>1, FS_Subset
<1>3. Cardinality(after) \in Nat /\ Cardinality(before) \in Nat
  BY <1>1, <1>2, FS_CardinalityType
<1> HIDE DEF before, after
<1>4. Cardinality(after) <= MaxRunning
  BY <1>2, <1>3, Constants DEF RunningCapped, before
<1> QED
  BY <1>4 DEF RunningCapped, after

(* A row that is claimed was below the cap without its own lease.           *)
LEMMA CapClaimed ==
  ASSUME TypeInv, LiveInv, NEW t \in Threads, Cardinality(RunningElsewhere(t)) < MaxRunning,
         \A u \in Threads \ {t} : jobs'[u] = jobs[u]
  PROVE  RunningCapped'
<1> DEFINE others == RunningElsewhere(t)
           after == {u \in Threads : jobs'[u].live}
<1>1. IsFiniteSet(others) /\ t \notin others
  BY Constants, FS_Subset DEF RunningElsewhere
<1>2. after \subseteq others \cup {t}
  BY DEF RunningElsewhere, LiveInv
<1>3. /\ IsFiniteSet(others \cup {t})
      /\ Cardinality(others \cup {t}) = Cardinality(others) + 1
  BY <1>1, FS_AddElement
<1> HIDE DEF others, after
<1>4. IsFiniteSet(after) /\ Cardinality(after) <= Cardinality(others \cup {t})
  BY <1>2, <1>3, FS_Subset
<1>5. Cardinality(after) \in Nat /\ Cardinality(others) \in Nat
  BY <1>1, <1>4, FS_CardinalityType
<1>6. Cardinality(after) <= MaxRunning
  BY <1>3, <1>4, <1>5, Constants DEF others
<1> QED
  BY <1>6 DEF RunningCapped, after

LEMMA InitJobInv == Init => JobInv
<1> SUFFICES ASSUME Init PROVE JobInv
  OBVIOUS
<1>1. {t \in Threads : jobs[t].live} = {}
  BY DEF Init, NoJob
<1>2. RunningCapped
  BY <1>1, FS_EmptySet, Constants DEF RunningCapped
<1> QED
  BY <1>2, Constants DEF Init, NoJob, NoOutput, JobInv, RetryInv, ClaimInv, Owns, LiveInv,
                         DoneIsExtracted

(* One candidate of claim_stage1_jobs_for_startup.                          *)
LEMMA ClaimKeepsJobInv ==
  ASSUME TypeInv, JobInv, NEW w \in Workers, NEW t \in Threads, TryClaimStage1(w, t)
  PROVE  JobInv'
<1> DEFINE v == wk[w].listed[t]
           claimed == NumClaims(w) < MaxRunning /\ Claimable(t, v)
           newer == v > jobs[t].input
           retry == IF newer THEN Retries ELSE jobs[t].retry
<1>1. wk[w] \in Worker /\ jobs[t] \in Job /\ v \in Nat /\ v # NoVersion
  BY DEF TypeInv, Worker, TryClaimStage1
<1>2. \A x \in Workers, u \in Threads :
        wk'[x].claims[u] = IF claimed /\ x = w /\ u = t THEN v ELSE wk[x].claims[u]
  BY <1>1 DEF TryClaimStage1, TypeInv, Worker
<1>3. UNCHANGED <<outputs, extracted>>
  BY DEF TryClaimStage1
<1>4. CASE ~claimed
  <2>1. UNCHANGED <<jobs, failed>>
    BY <1>4 DEF TryClaimStage1
  <2> QED
    BY <1>2, <1>3, <1>4, <2>1, JobFrame
<1>5. CASE claimed
  <2>1. jobs' = [jobs EXCEPT ![t] = [jobs[t] EXCEPT !.status = "running", !.token = w,
                   !.live = TRUE, !.backoff = FALSE, !.input = v, !.retry = retry]]
    BY <1>5 DEF TryClaimStage1, TypeInv, Job
  <2>2. /\ jobs'[t].status = "running" /\ jobs'[t].token = w /\ jobs'[t].input = v
        /\ jobs'[t].retry = retry /\ jobs'[t].success = jobs[t].success
        /\ \A u \in Threads \ {t} : jobs'[u] = jobs[u]
    BY <1>1, <2>1 DEF TypeInv, Job
  <2>3. /\ failed'[t] = IF newer THEN 0 ELSE failed[t]
        /\ \A u \in Threads \ {t} : failed'[u] = failed[u]
    BY <1>5 DEF TryClaimStage1, TypeInv
  <2>4. retry > 0
    BY <1>5, Constants DEF Claimable
  <2>5. RetryInv'
    <3>1. failed'[t] + jobs'[t].retry = Retries /\ jobs'[t].retry > 0
      BY <2>2, <2>3, <2>4, Constants DEF JobInv, RetryInv
    <3> QED
      BY <2>2, <2>3, <3>1 DEF JobInv, RetryInv
  <2>6. ClaimInv'
    BY <1>2, <1>5, <2>2 DEF JobInv, ClaimInv, Owns
  <2>7. LiveInv'
    BY <2>2 DEF JobInv, LiveInv
  <2>8. DoneIsExtracted'
    BY <1>3, <2>2 DEF JobInv, DoneIsExtracted
  <2>9. RunningCapped'
    BY <1>5, <2>2, CapClaimed DEF JobInv, Claimable
  <2> QED
    BY <2>5, <2>6, <2>7, <2>8, <2>9 DEF JobInv
<1> QED
  BY <1>4, <1>5

(* mark_stage1_job_succeeded and mark_stage1_job_succeeded_no_output: the   *)
(* version that the row asks for is the one its owner has extracted.        *)
LEMMA SuccessKeepsJobInv ==
  ASSUME TypeInv, JobInv, NEW w \in Workers, NEW t \in Threads,
         MarkStage1Succeeded(w, t) \/ MarkStage1SucceededNoOutput(w, t)
  PROVE  JobInv'
<1> DEFINE v == wk[w].claims[t]
<1>1. jobs[t].input = v /\ jobs[t].status = "running" /\ wk[w] \in Worker /\ jobs[t] \in Job
  BY DEF MarkStage1Succeeded, MarkStage1SucceededNoOutput, Extracting, JobInv, ClaimInv, Owns,
         TypeInv
<1>2. /\ jobs'[t].status = "done" /\ ~jobs'[t].live
      /\ jobs'[t].success = v /\ jobs'[t].retry = jobs[t].retry
      /\ \A u \in Threads \ {t} : jobs'[u] = jobs[u]
  BY <1>1 DEF MarkStage1Succeeded, MarkStage1SucceededNoOutput, Succeeded, TypeInv, Job
<1>3. \A x \in Workers, u \in Threads :
        wk'[x].claims[u] = IF x = w /\ u = t THEN NoVersion ELSE wk[x].claims[u]
  BY <1>1 DEF MarkStage1Succeeded, MarkStage1SucceededNoOutput, TypeInv, Worker
<1>4. UNCHANGED failed
  BY DEF MarkStage1Succeeded, MarkStage1SucceededNoOutput
<1>5. /\ extracted'[t] = extracted[t] \cup {v}
      /\ \A u \in Threads \ {t} : extracted'[u] = extracted[u]
  BY DEF MarkStage1Succeeded, MarkStage1SucceededNoOutput, TypeInv
<1>6. /\ outputs'[t].source \in {outputs[t].source, v, NoVersion}
      /\ \A u \in Threads \ {t} : outputs'[u] = outputs[u]
  BY DEF MarkStage1Succeeded, MarkStage1SucceededNoOutput, TypeInv, Output, NoOutput
<1>7. RetryInv' /\ LiveInv'
  BY <1>2, <1>4 DEF JobInv, RetryInv, LiveInv
<1>8. ClaimInv'
  BY <1>2, <1>3 DEF JobInv, ClaimInv, Owns
<1>9. DoneIsExtracted'
  BY <1>2, <1>5, <1>6 DEF JobInv, DoneIsExtracted
<1>10. RunningCapped'
  BY <1>2, CapKept DEF JobInv
<1> QED
  BY <1>7, <1>8, <1>9, <1>10 DEF JobInv

LEMMA FailureKeepsJobInv ==
  ASSUME TypeInv, JobInv, NEW w \in Workers, NEW t \in Threads, MarkStage1Failed(w, t)
  PROVE  JobInv'
<1>1. jobs[t].status = "running" /\ wk[w] \in Worker /\ jobs[t] \in Job
  BY DEF MarkStage1Failed, Owns, TypeInv
<1>2. /\ jobs'[t].status = "error" /\ ~jobs'[t].live
      /\ jobs'[t].success = jobs[t].success /\ jobs'[t].retry = jobs[t].retry - 1
      /\ \A u \in Threads \ {t} : jobs'[u] = jobs[u]
  BY <1>1 DEF MarkStage1Failed, TypeInv, Job
<1>3. \A x \in Workers, u \in Threads :
        wk'[x].claims[u] = IF x = w /\ u = t THEN NoVersion ELSE wk[x].claims[u]
  BY <1>1 DEF MarkStage1Failed, TypeInv, Worker
<1>4. /\ failed'[t] = failed[t] + 1
      /\ \A u \in Threads \ {t} : failed'[u] = failed[u]
  BY DEF MarkStage1Failed, TypeInv
<1>5. UNCHANGED <<outputs, extracted>>
  BY DEF MarkStage1Failed
<1>6. RetryInv'
  <2>1. failed'[t] + jobs'[t].retry = Retries
    BY <1>1, <1>2, <1>4, Constants DEF JobInv, RetryInv, TypeInv, Job
  <2> QED
    BY <1>2, <1>4, <2>1 DEF JobInv, RetryInv
<1>7. LiveInv'
  BY <1>2 DEF JobInv, LiveInv
<1>8. ClaimInv'
  BY <1>2, <1>3 DEF JobInv, ClaimInv, Owns
<1>9. DoneIsExtracted'
  BY <1>2, <1>5 DEF JobInv, DoneIsExtracted
<1>10. RunningCapped'
  BY <1>2, CapKept DEF JobInv
<1> QED
  BY <1>6, <1>7, <1>8, <1>9, <1>10 DEF JobInv

(* The lease of a row expires, or its backoff ends.                         *)
LEMMA TimeKeepsJobInv ==
  ASSUME TypeInv, JobInv, NEW t \in Threads, LeaseExpires(t) \/ BackoffEnds(t)
  PROVE  JobInv'
<1>1. /\ jobs'[t].status = jobs[t].status /\ jobs'[t].token = jobs[t].token
      /\ jobs'[t].input = jobs[t].input /\ jobs'[t].success = jobs[t].success
      /\ jobs'[t].retry = jobs[t].retry /\ (jobs'[t].live => jobs[t].live)
      /\ \A u \in Threads \ {t} : jobs'[u] = jobs[u]
  BY DEF LeaseExpires, BackoffEnds, TypeInv, Job
<1>2. UNCHANGED <<outputs, wk, extracted, failed>>
  BY DEF LeaseExpires, BackoffEnds, ghosts
<1>3. RetryInv' /\ LiveInv'
  BY <1>1, <1>2 DEF JobInv, RetryInv, LiveInv
<1>4. ClaimInv'
  BY <1>1, <1>2 DEF JobInv, ClaimInv, Owns
<1>5. DoneIsExtracted'
  BY <1>1, <1>2 DEF JobInv, DoneIsExtracted
<1>6. RunningCapped'
  BY <1>1, CapKept DEF JobInv
<1> QED
  BY <1>3, <1>4, <1>5, <1>6 DEF JobInv

LEMMA DeleteKeepsJobInv ==
  ASSUME TypeInv, JobInv, NEW t \in Threads, DeleteThreadMemory(t)
  PROVE  JobInv'
<1>1. /\ jobs'[t] = NoJob /\ outputs'[t] = NoOutput /\ failed'[t] = 0
      /\ \A u \in Threads \ {t} : /\ jobs'[u] = jobs[u] /\ outputs'[u] = outputs[u]
                                  /\ failed'[u] = failed[u]
  BY DEF DeleteThreadMemory, TypeInv
<1>2. UNCHANGED <<wk, extracted>>
  BY DEF DeleteThreadMemory
<1>3. RetryInv' /\ LiveInv'
  BY <1>1, Constants DEF JobInv, RetryInv, LiveInv, NoJob
<1>4. ClaimInv'
  BY <1>1, <1>2 DEF JobInv, ClaimInv, Owns, NoJob
<1>5. DoneIsExtracted'
  BY <1>1, <1>2 DEF JobInv, DoneIsExtracted, NoJob, NoOutput
<1>6. RunningCapped'
  BY <1>1, CapKept DEF JobInv, NoJob
<1> QED
  BY <1>3, <1>4, <1>5, <1>6 DEF JobInv

LEMMA WorkerKeepsJobInv ==
  ASSUME TypeInv, JobInv, NEW w \in Workers, WorkerStep(w)
  PROVE  JobInv'
<1>0. wk[w] \in Worker
  BY DEF TypeInv
<1>1. CASE Start(w)
  <2>1. \A x \in Workers, t \in Threads : wk'[x].claims[t] = wk[x].claims[t]
    BY <1>0, <1>1 DEF Start, TypeInv, Worker
  <2>2. \A t \in Threads : outputs'[t].source \in {outputs[t].source, NoVersion}
    BY <1>1 DEF Start, NoOutput
  <2> QED
    BY <1>1, <2>1, <2>2, JobFrame DEF Start, ghosts
<1>2. ASSUME NEW t \in Threads, Phase1Step(w, t) PROVE JobInv'
  <2>1. CASE DropClaim(w, t)
    <3>1. \A x \in Workers, u \in Threads : wk'[x].claims[u] \in {wk[x].claims[u], NoVersion}
      BY <1>0, <2>1 DEF DropClaim, TypeInv, Worker
    <3> QED
      BY <2>1, <3>1, JobFrame DEF DropClaim, database, ghosts
  <2> QED
    BY <1>2, <2>1, ClaimKeepsJobInv, SuccessKeepsJobInv, FailureKeepsJobInv DEF Phase1Step
<1>g. ASSUME NEW pc, Goes(w, pc)
      PROVE  \A x \in Workers, t \in Threads : wk'[x].claims[t] \in {wk[x].claims[t], NoVersion}
  BY <1>0, <1>g DEF Goes, Ended, NewWorker, NothingListed, TypeInv, Worker
<1>3. CASE ShutdownAgent(w) \/ Crash(w)
  BY <1>3, <1>g, JobFrame DEF ShutdownAgent, Crash, database, ghosts
<1>4. CASE MarkGlobalSucceeded(w)
  <2>1. \A x \in Workers, t \in Threads : wk'[x].claims[t] \in {wk[x].claims[t], NoVersion}
    BY <1>4, <1>g DEF MarkGlobalSucceeded
  <2>2. \A t \in Threads : outputs'[t].source = outputs[t].source
    <3>1. \A t \in Threads : \A b \in BOOLEAN :
            [outputs[t] EXCEPT !.selected = b].source = outputs[t].source
      BY DEF TypeInv, Output
    <3>2. CASE OwnsGlobal(w)
      <4>1. outputs' = [t \in Threads |->
               [outputs[t] EXCEPT !.selected = <<t, outputs[t].source>> \in wk[w].selection]]
        BY <1>4, <3>2 DEF MarkGlobalSucceeded
      <4>2. \A t \in Threads : (<<t, outputs[t].source>> \in wk[w].selection) \in BOOLEAN
        OBVIOUS
      <4> QED
        BY <3>1, <4>1, <4>2, Zenon
    <3> QED
      BY <1>4, <3>2 DEF MarkGlobalSucceeded
  <2> QED
    BY <1>4, <2>1, <2>2, JobFrame DEF MarkGlobalSucceeded
<1>5. CASE \/ TryClaimGlobal(w) \/ Prepare(w) \/ Select(w) \/ Sync(w) \/ Diff(w)
           \/ AgentWrites(w) \/ Heartbeat(w) \/ Confirm(w)
           \/ RemoveBaseline(w) \/ CommitBaseline(w) \/ MarkGlobalFailed(w)
  <2>2. \A x \in Workers, t \in Threads : wk'[x].claims[t] \in {wk[x].claims[t], NoVersion}
    <3>1. CASE Select(w)
      BY <1>0, <3>1 DEF Select, TypeInv, Worker
    <3>2. CASE Diff(w)
      <4>1. CASE base = {space}
        BY <1>g, <3>2, <4>1 DEF Diff
      <4>2. CASE base # {space}
        <5>1. wk' = [wk EXCEPT ![w].pc = "agent", ![w].seen = space.inputs]
          BY <3>2, <4>2 DEF Diff
        <5> QED
          BY <1>0, <5>1 DEF TypeInv, Worker
      <4> QED
        BY <4>1, <4>2
    <3>3. CASE TryClaimGlobal(w)
      BY <1>g, <3>3 DEF TryClaimGlobal
    <3>4. CASE Prepare(w) \/ Sync(w) \/ RemoveBaseline(w) \/ CommitBaseline(w)
      BY <1>g, <3>4 DEF Prepare, Sync, RemoveBaseline, CommitBaseline
    <3>5. CASE AgentWrites(w) \/ Heartbeat(w) \/ Confirm(w) \/ MarkGlobalFailed(w)
      BY <1>g, <3>5 DEF AgentWrites, Heartbeat, Confirm, MarkGlobalFailed
    <3> QED
      BY <1>5, <3>1, <3>2, <3>3, <3>4, <3>5
  <2>3. UNCHANGED <<jobs, outputs, extracted, failed>>
    <3>1. CASE \/ Prepare(w) \/ Select(w) \/ Sync(w) \/ Diff(w) \/ AgentWrites(w)
               \/ RemoveBaseline(w) \/ CommitBaseline(w)
      BY <3>1 DEF Prepare, Select, Sync, Diff, AgentWrites, RemoveBaseline, CommitBaseline,
                  database, ghosts
    <3>2. CASE TryClaimGlobal(w) \/ Heartbeat(w) \/ Confirm(w) \/ MarkGlobalFailed(w)
      BY <3>2 DEF TryClaimGlobal, Heartbeat, Confirm, MarkGlobalFailed, ghosts
    <3> QED
      BY <1>5, <3>1, <3>2
  <2> QED
    BY <2>2, <2>3, JobFrame
<1> QED
  BY <1>1, <1>2, <1>3, <1>4, <1>5 DEF WorkerStep

LEMMA NextJobInv ==
  ASSUME TypeInv, JobInv, [Next]_vars
  PROVE  JobInv'
<1>1. ASSUME NEW t \in Threads, ThreadStep(t) PROVE JobInv'
  <2>1. CASE OutputAges(t) \/ RecordUsage(t)
    <3>1. \E b \in BOOLEAN : outputs' = [outputs EXCEPT ![t].fresh = b]
      BY <2>1 DEF OutputAges, RecordUsage
    <3>2. \A u \in Threads : outputs'[u].source = outputs[u].source
      BY <3>1, SMTT(60) DEF TypeInv, Output
    <3> QED
      BY <2>1, <3>2, JobFrame DEF OutputAges, RecordUsage, ghosts
  <2>2. CASE UpdateThread(t) \/ PolluteThread(t) \/ DeleteThread(t)
    <3>1. UNCHANGED <<jobs, outputs, extracted, failed, wk>>
      BY <2>2 DEF UpdateThread, PolluteThread, DeleteThread, ghosts
    <3> QED
      BY <3>1, JobFrame
  <2> QED
    BY <1>1, <2>1, <2>2, TimeKeepsJobInv, DeleteKeepsJobInv DEF ThreadStep
<1>2. CASE GlobalLeaseExpires \/ GlobalWaitEnds \/ UNCHANGED vars
  <2>1. UNCHANGED <<jobs, outputs, extracted, failed, wk>>
    BY <1>2 DEF GlobalLeaseExpires, GlobalWaitEnds, vars, database, ghosts
  <2> QED
    BY <2>1, JobFrame
<1> QED
  BY <1>1, <1>2, WorkerKeepsJobInv DEF Next

-----------------------------------------------------------------------------
(* The lock of the consolidation. *)

(* Without a stall nobody but the owner of the live lease is inside.        *)
LEMMA OneInside ==
  ASSUME LockInv, ~stalled, NEW v \in Workers, NEW w \in Workers,
         wk[v].pc \in Inside, wk[w].pc \in Inside
  PROVE  v = w
  BY DEF LockInv, Holds, OwnsGlobal

LEMMA InitLockInv == Init => LockInv
  BY DEF Init, NoGlobal, NewWorker, Inside, LockInv

(* A step that leaves the job's row as it is, up to wait times and being    *)
(* enqueued, and takes no worker inside.                                    *)
LEMMA LockFrame ==
  ASSUME TypeInv, LockInv, UNCHANGED stalled,
         global'.token = global.token, global'.live = global.live,
         global'.status = "running" <=> global.status = "running",
         \A w \in Workers : wk'[w].pc \in Inside => wk[w].pc \in Inside
  PROVE  LockInv'
  BY DEF LockInv, Holds, OwnsGlobal

(* The one inside leaves with the job, or keeps the lease of its job.       *)
LEMMA LockLeave ==
  ASSUME TypeInv, LockInv, UNCHANGED stalled, NEW w \in Workers, wk[w].pc \in Inside,
         wk'[w].pc \notin Inside, \A v \in Workers \ {w} : wk'[v].pc = wk[v].pc,
         ~global'.live, global'.status # "running"
  PROVE  LockInv'
  BY OneInside DEF LockInv

LEMMA LockBeat ==
  ASSUME TypeInv, LockInv, UNCHANGED stalled, OwnsGlobal(global.token),
         global' = [global EXCEPT !.live = TRUE],
         \A v \in Workers : wk'[v].pc \in Inside => wk[v].pc \in Inside
  PROVE  LockInv'
<1>1. global'.live /\ global'.status = "running" /\ global'.token = global.token
  BY DEF TypeInv, Global, OwnsGlobal
<1> QED
  BY <1>1 DEF LockInv, Holds, OwnsGlobal

LEMMA GoesPc ==
  ASSUME TypeInv, NEW w \in Workers, NEW pc, Goes(w, pc)
  PROVE  wk'[w].pc = pc /\ \A v \in Workers \ {w} : wk'[v] = wk[v]
  BY DEF Goes, Ended, NewWorker, TypeInv, Worker

(* Nothing moves while a worker extracts.                                   *)
LEMMA Phase1Pc ==
  ASSUME TypeInv, NEW w \in Workers, NEW t \in Threads, Phase1Step(w, t)
  PROVE  \A v \in Workers : /\ wk'[v].pc = wk[v].pc
                            /\ wk'[v].selection = wk[v].selection /\ wk'[v].seen = wk[v].seen
<1>0. wk[w] \in Worker
  BY DEF TypeInv
<1>1. CASE TryClaimStage1(w, t)
  BY <1>0, <1>1 DEF TryClaimStage1, TypeInv, Worker
<1>2. CASE wk' = [wk EXCEPT ![w].claims[t] = NoVersion]
  BY <1>0, <1>2 DEF TypeInv, Worker
<1> QED
  BY <1>1, <1>2 DEF Phase1Step, MarkStage1Succeeded, DropClaim, MarkStage1SucceededNoOutput,
                    MarkStage1Failed

LEMMA WorkerKeepsLockInv ==
  ASSUME TypeInv, LockInv, NEW w \in Workers, WorkerStep(w)
  PROVE  LockInv'
<1> USE DEF Inside
<1>0. wk[w] \in Worker
  BY DEF TypeInv
<1>1. CASE Start(w)
  <2>1. \A v \in Workers : wk'[v].pc \in Inside => wk[v].pc \in Inside
    BY <1>0, <1>1 DEF Start, TypeInv, Worker
  <2> QED
    BY <1>1, <2>1, LockFrame DEF Start, ghosts, bounded
<1>2. ASSUME NEW t \in Threads, Phase1Step(w, t) PROVE LockInv'
  <2>1. \A v \in Workers : wk'[v].pc = wk[v].pc
    BY <1>2, Phase1Pc
  <2>2. UNCHANGED stalled /\ (UNCHANGED global \/ global' = Enqueued(global))
    BY <1>2 DEF Phase1Step, TryClaimStage1, MarkStage1Succeeded, DropClaim, database, ghosts,
                MarkStage1SucceededNoOutput, MarkStage1Failed, bounded
  <2> QED
    BY <2>1, <2>2, EnqueuedKeeps, LockFrame DEF TypeInv
<1>3. CASE TryClaimGlobal(w)
  <2>1. CASE ClaimableGlobal
    <3>1. Goes(w, "prepare") /\ UNCHANGED stalled
      BY <1>3, <2>1 DEF TryClaimGlobal
    <3>2. global'.status = "running" /\ global'.token = w /\ global'.live
      BY <1>3, <2>1 DEF TryClaimGlobal, NoGlobal
    <3>3. ~stalled => \A v \in Workers : wk[v].pc \notin Inside
      BY <2>1 DEF ClaimableGlobal, LockInv, Holds, OwnsGlobal
    <3> QED
      BY <3>1, <3>2, <3>3, GoesPc DEF LockInv, Holds, OwnsGlobal
  <2>2. CASE ~ClaimableGlobal
    <3>1. Goes(w, "done") /\ UNCHANGED <<global, stalled>>
      BY <1>3, <2>2 DEF TryClaimGlobal
    <3> QED
      BY <3>1, GoesPc, LockFrame
  <2> QED
    BY <2>1, <2>2
<1>4. CASE \/ Prepare(w) \/ Select(w) \/ Sync(w) \/ Diff(w) \/ AgentWrites(w)
           \/ RemoveBaseline(w) \/ CommitBaseline(w) \/ ShutdownAgent(w) \/ Crash(w)
  <2>1. UNCHANGED <<global, stalled>>
    BY <1>4 DEF Prepare, Select, Sync, Diff, AgentWrites, RemoveBaseline, CommitBaseline,
                ShutdownAgent, Crash, database, ghosts, bounded
  <2>2. \A v \in Workers : wk'[v].pc \in Inside => wk[v].pc \in Inside
    <3>1. CASE Prepare(w) \/ Sync(w) \/ RemoveBaseline(w) \/ CommitBaseline(w)
      BY <3>1, GoesPc DEF Prepare, Sync, RemoveBaseline, CommitBaseline
    <3>2. CASE AgentWrites(w)
      BY <3>2, GoesPc DEF AgentWrites
    <3>3. CASE Select(w)
      BY <1>0, <3>3 DEF Select, TypeInv, Worker
    <3>4. CASE Diff(w)
      BY <1>0, <3>4, GoesPc DEF Diff, TypeInv, Worker
    <3>5. CASE ShutdownAgent(w) \/ Crash(w)
      BY <3>5, GoesPc DEF ShutdownAgent, Crash
    <3> QED
      BY <1>4, <3>1, <3>2, <3>3, <3>4, <3>5
  <2> QED
    BY <2>1, <2>2, LockFrame
<1>5. CASE Heartbeat(w) \/ Confirm(w)
  <2>1. UNCHANGED stalled
    BY <1>5 DEF Heartbeat, Confirm, ghosts, bounded
  <2>2. \A v \in Workers : wk'[v].pc \in Inside => wk[v].pc \in Inside
    BY <1>5, GoesPc DEF Heartbeat, Confirm
  <2>3. CASE OwnsGlobal(w) /\ global' = [global EXCEPT !.live = TRUE]
    <3>1. OwnsGlobal(global.token)
      BY <2>3 DEF OwnsGlobal
    <3> QED
      BY <2>1, <2>2, <2>3, <3>1, LockBeat
  <2>4. CASE UNCHANGED global
    BY <2>1, <2>2, <2>4, LockFrame
  <2> QED
    BY <1>5, <2>3, <2>4 DEF Heartbeat, Confirm
<1>6. CASE MarkGlobalSucceeded(w) \/ MarkGlobalFailed(w)
  <2>1. (Goes(w, "done") \/ Goes(w, "closing")) /\ UNCHANGED stalled /\ wk[w].pc \in Inside
    BY <1>6 DEF MarkGlobalSucceeded, MarkGlobalFailed, ghosts, bounded
  <2>2. wk'[w].pc \notin Inside /\ \A v \in Workers \ {w} : wk'[v] = wk[v]
    BY <2>1, GoesPc
  <2>3. \/ ~global'.live /\ global'.status # "running"
        \/ UNCHANGED global
    BY <1>6 DEF MarkGlobalSucceeded, MarkGlobalFailed, NoGlobal
  <2>4. CASE UNCHANGED global
    BY <2>1, <2>2, <2>4, LockFrame
  <2> QED
    BY <2>1, <2>2, <2>3, <2>4, LockLeave
<1> QED
  BY <1>1, <1>2, <1>3, <1>4, <1>5, <1>6 DEF WorkerStep

LEMMA NextLockInv ==
  ASSUME TypeInv, LockInv, [Next]_vars
  PROVE  LockInv'
<1>1. ASSUME NEW t \in Threads, ThreadStep(t) PROVE LockInv'
  <2>1. UNCHANGED <<wk, stalled>> /\ (UNCHANGED global \/ global' = Enqueued(global))
    BY <1>1 DEF ThreadStep, LeaseExpires, BackoffEnds, OutputAges, UpdateThread, RecordUsage,
                PolluteThread, DeleteThreadMemory, DeleteThread, ghosts, bounded
  <2> QED
    BY <2>1, EnqueuedKeeps, LockFrame DEF TypeInv
<1>2. CASE GlobalLeaseExpires
  <2>1. /\ ~global'.live /\ global'.status = global.status /\ global'.token = global.token
        /\ UNCHANGED wk
    BY <1>2 DEF GlobalLeaseExpires, TypeInv, Global
  <2>2. ~stalled' => wk[global.token].pc = "done" /\ ~stalled
    BY <1>2 DEF GlobalLeaseExpires, bounded
  <2>3. ~stalled' => \A w \in Workers : wk[w].pc \notin Inside
    BY <2>2 DEF LockInv, Holds, OwnsGlobal, Inside
  <2> QED
    BY <2>1, <2>3 DEF LockInv
<1>3. CASE GlobalWaitEnds
  <2>1. /\ global'.live = global.live /\ global'.status = global.status
        /\ global'.token = global.token
    BY <1>3 DEF GlobalWaitEnds, TypeInv, Global
  <2> QED
    BY <1>3, <2>1, LockFrame DEF GlobalWaitEnds, ghosts, bounded
<1>4. CASE UNCHANGED vars
  BY <1>4, LockFrame DEF vars, database, ghosts, bounded
<1> QED
  BY <1>1, <1>2, <1>3, <1>4, WorkerKeepsLockInv DEF Next

-----------------------------------------------------------------------------
(* The memory directory. *)

LEMMA InitSpaceInv == Init => SpaceInv
  BY DEF Init, EmptySpace, NoGlobal, NewWorker, SpaceInv, Knows, Clean, ClosesAlone

(* A worker that is inside is alone in the directory.                       *)
LEMMA Alone ==
  ASSUME LockInv, SpaceInv, ~stalled, ~lingered, NEW w \in Workers, wk[w].pc \in Inside
  PROVE  \A v \in Workers \ {w} : wk[v].pc \notin Inside \cup {"closing"}
<1>1. \A v \in Workers \ {w} : wk[v].pc \notin Inside
  BY OneInside
<1>2. \A v \in Workers : wk[v].pc # "closing"
  BY DEF SpaceInv, ClosesAlone
<1> QED
  BY <1>1, <1>2

(* A step that leaves the directory, its baseline and the promise alone,    *)
(* takes no worker further inside and finishes no job.                      *)
LEMMA SpaceFrame ==
  ASSUME TypeInv, SpaceInv, ~stalled, ~lingered, UNCHANGED <<space, base, promised>>,
         global'.status = "done" => global.status = "done",
         \A w \in Workers : \/ wk'[w].pc \in {"new", "phase1", "done"}
                            \/ /\ wk'[w].pc = wk[w].pc /\ wk'[w].seen = wk[w].seen
                               /\ wk'[w].selection = wk[w].selection
  PROVE  SpaceInv'
<1>1. ClosesAlone'
  BY DEF SpaceInv, ClosesAlone, Inside
<1>2. \A w \in Workers : Knows(w)'
  BY DEF SpaceInv, Knows, Clean
<1> QED
  BY <1>1, <1>2 DEF SpaceInv, Clean

(* A step of the one worker that is inside: what the others know is         *)
(* nothing, and the job is not done.                                        *)
LEMMA SpaceStep ==
  ASSUME TypeInv, LockInv, SpaceInv, ~stalled, ~lingered, NEW w \in Workers,
         wk[w].pc \in Inside, wk'[w].pc # "closing",
         UNCHANGED <<global, promised>>,
         \A v \in Workers \ {w} : wk'[v] = wk[v],
         (base = {} => Clean(space))', (base # {} => \E s \in Space : Clean(s) /\ base = {s})',
         Knows(w)'
  PROVE  SpaceInv'
<1>1. \A v \in Workers \ {w} : wk'[v].pc \notin Inside \cup {"closing"}
  BY Alone
<1>2. \A v \in Workers : Knows(v)'
  BY <1>1 DEF Knows, Inside
<1>3. global'.status # "done"
  BY DEF LockInv, Holds, OwnsGlobal
<1>4. ClosesAlone'
  BY <1>1 DEF ClosesAlone
<1> QED
  BY <1>2, <1>3, <1>4 DEF SpaceInv

LEMMA WorkerKeepsSpaceInv ==
  ASSUME TypeInv, LockInv, SpaceInv, ~stalled, ~lingered, ~lingered', NEW w \in Workers,
         WorkerStep(w)
  PROVE  SpaceInv'
<1> USE DEF Inside
<1>0. wk[w] \in Worker /\ space \in Space
  BY DEF TypeInv
<1>a. /\ base = {} => Clean(space)
      /\ base # {} => \E s \in Space : Clean(s) /\ base = {s}
      /\ Knows(w)
  BY DEF SpaceInv
<1>1. CASE Start(w)
  <2>1. wk'[w].pc = "phase1" /\ \A v \in Workers \ {w} : wk'[v] = wk[v]
    BY <1>0, <1>1 DEF Start, TypeInv, Worker
  <2> QED
    BY <1>1, <2>1, SpaceFrame DEF Start, ghosts
<1>2. ASSUME NEW t \in Threads, Phase1Step(w, t) PROVE SpaceInv'
  <2>1. UNCHANGED <<space, base, promised>> /\ (UNCHANGED global \/ global' = Enqueued(global))
    BY <1>2 DEF Phase1Step, TryClaimStage1, MarkStage1Succeeded, DropClaim, database, ghosts,
                MarkStage1SucceededNoOutput, MarkStage1Failed
  <2> QED
    BY <1>2, <2>1, Phase1Pc, EnqueuedKeeps, SpaceFrame DEF TypeInv
<1>3. CASE TryClaimGlobal(w)
  <2>1. CASE ClaimableGlobal
    <3>1. wk'[w].pc = "prepare" /\ \A v \in Workers \ {w} : wk'[v] = wk[v]
      BY <1>3, <2>1, GoesPc DEF TryClaimGlobal
    <3>2. \A v \in Workers : wk[v].pc # "closing"
      BY <1>3, <2>1 DEF TryClaimGlobal
    <3>3. ClosesAlone'
      BY <3>1, <3>2 DEF ClosesAlone
    <3>4. UNCHANGED <<space, base, promised>> /\ global'.status = "running"
      BY <1>3, <2>1 DEF TryClaimGlobal, NoGlobal
    <3>5. \A v \in Workers : Knows(v)'
      BY <3>1, <3>4 DEF SpaceInv, Knows, Clean
    <3> QED
      BY <3>3, <3>4, <3>5 DEF SpaceInv, Clean
  <2>2. CASE ~ClaimableGlobal
    <3>1. Goes(w, "done") /\ UNCHANGED <<space, base, promised, global>>
      BY <1>3, <2>2 DEF TryClaimGlobal
    <3> QED
      BY <3>1, GoesPc, SpaceFrame
  <2> QED
    BY <2>1, <2>2
<1>4. CASE Prepare(w)
  <2>1. wk'[w].pc = "select" /\ \A v \in Workers \ {w} : wk'[v] = wk[v]
    BY <1>4, GoesPc DEF Prepare
  <2>2. UNCHANGED <<space, global, promised>> /\ base' = IF base = {} THEN {space} ELSE base
    BY <1>4 DEF Prepare, database, ghosts
  <2>3. base' # {} /\ \E s \in Space : Clean(s) /\ base' = {s}
    BY <1>0, <1>a, <2>2
  <2>4. Knows(w)'
    BY <2>1, <2>3 DEF Knows
  <2> QED
    BY <1>4, <2>1, <2>2, <2>3, <2>4, SpaceStep DEF Prepare, Clean
<1>5. CASE Select(w)
  <2>1. wk'[w].pc = "sync" /\ \A v \in Workers \ {w} : wk'[v] = wk[v]
    BY <1>0, <1>5 DEF Select, TypeInv, Worker
  <2>2. UNCHANGED <<space, base, global, promised>>
    BY <1>5 DEF Select, database, ghosts
  <2>3. Knows(w)'
    BY <1>5, <1>a, <2>1, <2>2 DEF Select, Knows
  <2> QED
    BY <1>5, <1>a, <2>1, <2>2, <2>3, SpaceStep DEF Select, Clean
<1>6. CASE Sync(w)
  <2>1. /\ wk'[w].pc = "diff" /\ wk'[w].selection = wk[w].selection
        /\ \A v \in Workers \ {w} : wk'[v] = wk[v]
    BY <1>0, <1>6 DEF Sync, Goes, TypeInv, Worker
  <2>2. UNCHANGED <<base, global, promised>> /\ space'.inputs = wk[w].selection
    BY <1>0, <1>6 DEF Sync, Space, database, ghosts
  <2>3. base # {}
    BY <1>6, <1>a DEF Sync, Knows
  <2>4. Knows(w)'
    BY <2>1, <2>2, <2>3 DEF Knows
  <2> QED
    BY <1>6, <1>a, <2>1, <2>2, <2>3, <2>4, SpaceStep DEF Sync, Clean
<1>7. CASE Diff(w)
  <2>1. UNCHANGED <<space, base, global, promised>> /\ base # {}
    BY <1>7 DEF Diff, database, ghosts
  <2>2. space.inputs = wk[w].selection
    BY <1>7, <1>a DEF Diff, Knows
  <2>3. /\ wk'[w].selection = wk[w].selection /\ \A v \in Workers \ {w} : wk'[v] = wk[v]
        /\ \/ base = {space} /\ wk'[w].pc = "succeed"
           \/ wk'[w].pc = "agent" /\ wk'[w].seen = space.inputs
    BY <1>0, <1>7 DEF Diff, Goes, TypeInv, Worker
  <2>4. base = {space} => Clean(space)
    BY <1>a, <2>1
  <2>5. Knows(w)'
    BY <2>1, <2>2, <2>3, <2>4 DEF Knows, Clean
  <2> QED
    BY <1>7, <1>a, <2>1, <2>3, <2>5, SpaceStep DEF Diff, Clean
<1>15. CASE AgentWrites(w) /\ wk[w].pc \in {"giving_up", "closing"}
  <2>1. UNCHANGED <<base, global, promised, wk>>
    BY <1>15 DEF AgentWrites, database, ghosts
  <2>2. base # {}
    BY <1>15, <1>a DEF Knows
  <2>3. \A v \in Workers \ {w} : wk[v].pc \notin Inside
    BY <1>15, Alone DEF SpaceInv, ClosesAlone
  <2>4. \A v \in Workers : Knows(v)'
    BY <1>15, <2>1, <2>2, <2>3 DEF Knows
  <2>5. ClosesAlone' /\ global'.status # "done"
    BY <1>15, <2>1 DEF SpaceInv, ClosesAlone, LockInv, Holds, OwnsGlobal
  <2> QED
    BY <1>a, <2>1, <2>2, <2>4, <2>5 DEF SpaceInv, Clean
<1>8. CASE AgentWrites(w) /\ wk[w].pc = "agent"
  <2>1. UNCHANGED <<base, global, promised>> /\ space'.inputs = space.inputs
    BY <1>0, <1>8 DEF AgentWrites, Space, database, ghosts
  <2>2. base # {} /\ space.inputs = wk[w].selection /\ wk[w].seen = space.inputs
    BY <1>8, <1>a DEF AgentWrites, Knows
  <2>3. /\ wk'[w].selection = wk[w].selection /\ wk'[w].seen = wk[w].seen
        /\ \A v \in Workers \ {w} : wk'[v] = wk[v]
        /\ wk'[w].pc = "agent" \/ (wk'[w].pc = "confirm" /\ space'.digest = wk[w].seen)
    BY <1>0, <1>8 DEF AgentWrites, Goes, TypeInv, Worker, Space
  <2>4. Knows(w)'
    BY <2>1, <2>2, <2>3 DEF Knows, Clean
  <2> QED
    BY <1>8, <1>a, <2>1, <2>2, <2>3, <2>4, SpaceStep DEF AgentWrites, Clean
<1>9. CASE Heartbeat(w) \/ Confirm(w)
  <2>1. UNCHANGED <<space, base, promised>>
    BY <1>9 DEF Heartbeat, Confirm, ghosts
  <2>2. OwnsGlobal(w) /\ global.live
    BY <1>9 DEF Heartbeat, Confirm, LockInv, Holds
  <2>3. UNCHANGED global
    BY <1>9, <2>2 DEF Heartbeat, Confirm, TypeInv, Global
  <2>4. /\ wk'[w].selection = wk[w].selection /\ wk'[w].seen = wk[w].seen
        /\ \A v \in Workers \ {w} : wk'[v] = wk[v]
        /\ \/ wk'[w].pc = wk[w].pc \/ (wk[w].pc = "confirm" /\ wk'[w].pc = "reset")
           \/ wk[w].pc = "agent" /\ wk'[w].pc = "giving_up"
    BY <1>0, <1>9, <2>2 DEF Heartbeat, Confirm, Goes, TypeInv, Worker
  <2>5. Knows(w)'
    BY <1>9, <1>a, <2>1, <2>4 DEF Heartbeat, Confirm, Knows, Clean
  <2> QED
    BY <1>9, <1>a, <2>1, <2>3, <2>4, <2>5, SpaceStep DEF Heartbeat, Confirm, Clean
<1>10. CASE RemoveBaseline(w)
  <2>1. UNCHANGED <<space, global, promised>> /\ base' = {}
    BY <1>10 DEF RemoveBaseline, database, ghosts
  <2>2. Clean(space) /\ space.inputs = wk[w].selection
    BY <1>10, <1>a DEF RemoveBaseline, Knows
  <2>3. /\ wk'[w].pc = "commit" /\ wk'[w].selection = wk[w].selection
        /\ \A v \in Workers \ {w} : wk'[v] = wk[v]
    BY <1>0, <1>10 DEF RemoveBaseline, Goes, TypeInv, Worker
  <2>4. Knows(w)'
    BY <2>1, <2>2, <2>3 DEF Knows, Clean
  <2> QED
    BY <1>10, <2>1, <2>2, <2>3, <2>4, SpaceStep DEF RemoveBaseline, Clean
<1>11. CASE CommitBaseline(w)
  <2>1. UNCHANGED <<space, global, promised>> /\ base' = {space}
    BY <1>11 DEF CommitBaseline, database, ghosts
  <2>2. Clean(space) /\ space.inputs = wk[w].selection
    BY <1>11, <1>a DEF CommitBaseline, Knows
  <2>3. /\ wk'[w].pc = "succeed" /\ wk'[w].selection = wk[w].selection
        /\ \A v \in Workers \ {w} : wk'[v] = wk[v]
    BY <1>0, <1>11 DEF CommitBaseline, Goes, TypeInv, Worker
  <2>4. Knows(w)'
    BY <2>1, <2>2, <2>3 DEF Knows, Clean
  <2> QED
    BY <1>0, <1>11, <2>1, <2>2, <2>3, <2>4, SpaceStep DEF CommitBaseline, Clean
<1>12. CASE MarkGlobalSucceeded(w)
  <2>1. OwnsGlobal(w)
    BY <1>12 DEF MarkGlobalSucceeded, LockInv, Holds
  <2>2. UNCHANGED <<space, base>> /\ promised' = {wk[w].selection}
    BY <1>12, <2>1 DEF MarkGlobalSucceeded
  <2>3. Clean(space) /\ space.inputs = wk[w].selection /\ base = {space}
    BY <1>12, <1>a DEF MarkGlobalSucceeded, Knows
  <2>4. space = [inputs |-> wk[w].selection, digest |-> wk[w].selection]
    BY <1>0, <2>3 DEF Space, Clean
  <2>5. base' = {[inputs |-> s, digest |-> s] : s \in promised'}
    BY <2>2, <2>3, <2>4
  <2>6. \A v \in Workers : wk'[v].pc \notin Inside \cup {"closing"}
    BY <1>12, GoesPc, Alone DEF MarkGlobalSucceeded
  <2>7. (\A v \in Workers : Knows(v)') /\ ClosesAlone'
    BY <2>6 DEF Knows, ClosesAlone
  <2> QED
    BY <1>a, <2>2, <2>5, <2>7 DEF SpaceInv, Clean
<1>13. CASE MarkGlobalFailed(w)
  <2>1. global'.status = "done" => global.status = "done"
    BY <1>13 DEF MarkGlobalFailed, NoGlobal
  <2>2. UNCHANGED <<space, base, promised>>
    BY <1>13 DEF MarkGlobalFailed, ghosts
  <2>3. CASE Goes(w, "done")
    BY <2>1, <2>2, <2>3, GoesPc, SpaceFrame
  <2>4. CASE wk[w].pc = "giving_up" /\ Goes(w, "closing")
    <3>1. wk'[w].pc = "closing" /\ \A v \in Workers \ {w} : wk'[v] = wk[v]
      BY <2>4, GoesPc
    <3>2. \A v \in Workers \ {w} : wk'[v].pc \notin Inside \cup {"closing"}
      BY <2>4, <3>1, Alone
    <3>3. global'.status # "done"
      BY <1>13, <2>1, <2>4 DEF LockInv, Holds, OwnsGlobal
    <3>4. base' # {}
      BY <1>a, <2>2, <2>4 DEF Knows
    <3>5. ClosesAlone' /\ \A v \in Workers : Knows(v)'
      BY <3>1, <3>2, <3>3, <3>4 DEF ClosesAlone, Knows
    <3> QED
      BY <1>a, <2>2, <3>3, <3>4, <3>5 DEF SpaceInv, Clean
  <2> QED
    BY <1>13, <2>3, <2>4 DEF MarkGlobalFailed
<1>14. CASE ShutdownAgent(w) \/ Crash(w)
  <2>1. Goes(w, "done") /\ UNCHANGED <<space, base, promised, global>>
    BY <1>14 DEF ShutdownAgent, Crash, database, ghosts
  <2> QED
    BY <2>1, GoesPc, SpaceFrame
<1> QED
  BY <1>1, <1>2, <1>3, <1>4, <1>5, <1>6, <1>7, <1>8, <1>9, <1>10, <1>11, <1>12, <1>13, <1>14,
     <1>15 DEF WorkerStep, AgentWrites

LEMMA NextSpaceInv ==
  ASSUME TypeInv, LockInv, SpaceInv, [Next]_vars
  PROVE  SpaceInv'
<1> SUFFICES ASSUME ~stalled', ~lingered' PROVE SpaceInv'
  BY DEF SpaceInv
<1>1. ~stalled /\ ~lingered
  <2>1. ASSUME NEW w \in Workers, WorkerStep(w) PROVE UNCHANGED stalled /\ (lingered => lingered')
    <3>1. ASSUME NEW t \in Threads, Phase1Step(w, t) PROVE UNCHANGED <<stalled, lingered>>
      BY <3>1 DEF Phase1Step, TryClaimStage1, MarkStage1Succeeded, DropClaim, ghosts, bounded,
                  MarkStage1SucceededNoOutput, MarkStage1Failed
    <3>2. CASE TryClaimGlobal(w)
      <4>1. lingered \in BOOLEAN
        BY DEF TypeInv
      <4>2. CASE UNCHANGED lingered
        BY <3>2, <4>2 DEF TryClaimGlobal
      <4>3. CASE lingered' = (lingered \/ \E v \in Workers : wk[v].pc = "closing")
        BY <3>2, <4>1, <4>3, Zenon DEF TryClaimGlobal
      <4> QED
        BY <3>2, <4>2, <4>3 DEF TryClaimGlobal
    <3>3. CASE \/ Start(w) \/ Prepare(w) \/ Select(w) \/ Sync(w) \/ Diff(w)
               \/ RemoveBaseline(w) \/ CommitBaseline(w) \/ ShutdownAgent(w) \/ Crash(w)
      BY <3>3 DEF Start, Prepare, Select, Sync, Diff, RemoveBaseline, CommitBaseline,
                  ShutdownAgent, Crash, ghosts, bounded
    <3>4. CASE \/ AgentWrites(w) \/ Heartbeat(w) \/ Confirm(w)
               \/ MarkGlobalSucceeded(w) \/ MarkGlobalFailed(w)
      BY <3>4 DEF AgentWrites, Heartbeat, Confirm, MarkGlobalSucceeded, MarkGlobalFailed,
                  ghosts, bounded
    <3> QED
      BY <2>1, <3>1, <3>2, <3>3, <3>4 DEF WorkerStep
  <2>2. ASSUME NEW t \in Threads, ThreadStep(t) PROVE UNCHANGED <<stalled, lingered>>
    BY <2>2 DEF ThreadStep, LeaseExpires, BackoffEnds, OutputAges, UpdateThread, RecordUsage,
                PolluteThread, DeleteThreadMemory, DeleteThread, ghosts, bounded
  <2> QED
    BY <2>1, <2>2 DEF Next, GlobalLeaseExpires, GlobalWaitEnds, vars, ghosts, bounded
<1>2. ASSUME NEW t \in Threads, ThreadStep(t) PROVE SpaceInv'
  <2>1. /\ UNCHANGED <<wk, space, base, promised>>
        /\ UNCHANGED global \/ global' = Enqueued(global)
    BY <1>2 DEF ThreadStep, LeaseExpires, BackoffEnds, OutputAges, UpdateThread, RecordUsage,
                PolluteThread, DeleteThreadMemory, DeleteThread, ghosts
  <2> QED
    BY <1>1, <2>1, EnqueuedKeeps, SpaceFrame DEF TypeInv
<1>3. CASE GlobalLeaseExpires \/ GlobalWaitEnds \/ UNCHANGED vars
  <2>1. global'.status = global.status /\ UNCHANGED <<wk, space, base, promised>>
    BY <1>3 DEF GlobalLeaseExpires, GlobalWaitEnds, TypeInv, Global, vars, database, ghosts
  <2> QED
    BY <1>1, <2>1, SpaceFrame
<1> QED
  BY <1>1, <1>2, <1>3, WorkerKeepsSpaceInv DEF Next

-----------------------------------------------------------------------------
(* The theorems. *)

LEMMA InitIInv == Init => IInv
  BY InitTypeInv, InitJobInv, InitLockInv, InitSpaceInv DEF IInv

LEMMA NextIInv == IInv /\ [Next]_vars => IInv'
  BY NextTypes, NextJobInv, NextLockInv, NextSpaceInv DEF IInv, JobInv

(* A version recorded as done was extracted (mark_stage1_job_succeeded),    *)
(* for every number of workers that lose and take over leases.              *)
THEOREM DoneWasExtracted == Spec => []DoneIsExtracted
<1>1. IInv => DoneIsExtracted
  BY DEF IInv, JobInv
<1> QED
  BY <1>1, InitIInv, NextIInv, PTL DEF Spec

(* Live leases of extractions never exceed the cap (try_claim_stage1_job).  *)
THEOREM ExtractionsCapped == Spec => []RunningCapped
<1>1. IInv => RunningCapped
  BY DEF IInv, JobInv
<1> QED
  BY <1>1, InitIInv, NextIInv, PTL DEF Spec

(* No version fails more often than it has retries (mark_stage1_job_failed, *)
(* try_claim_stage1_job).                                                   *)
THEOREM FailuresBounded == Spec => []RetriesBounded
<1>1. IInv => RetriesBounded
  BY Constants DEF IInv, JobInv, RetryInv, RetriesBounded, TypeInv, Job
<1> QED
  BY <1>1, InitIInv, NextIInv, PTL DEF Spec

(* Workers whose leases are kept have the directory to themselves, but for  *)
(* agents that are being shut down (try_claim_global_phase2_job).           *)
THEOREM DirectoryIsExclusive == Spec => []DirectoryExclusive
<1>1. IInv => DirectoryExclusive
  <2> SUFFICES ASSUME IInv, ~stalled, NEW v \in Workers, NEW w \in Workers,
                      InDirectory(v), InDirectory(w),
                      wk[v].pc # "closing", wk[w].pc # "closing"
               PROVE  v = w
    BY DEF DirectoryExclusive
  <2>1. wk[v].pc \in Inside /\ wk[w].pc \in Inside
    BY DEF IInv, TypeInv, Worker, Places, InDirectory
  <2> QED
    BY <2>1, OneInside DEF IInv
<1> QED
  BY <1>1, InitIInv, NextIInv, PTL DEF Spec

(* After a consolidation succeeded, the baseline is the digest of exactly   *)
(* its selection, wherever earlier runs failed or died                      *)
(* (reset_memory_workspace_baseline, mark_global_phase2_job_succeeded).     *)
THEOREM DigestOfSelection == Spec => []DigestIsSelection
<1>1. IInv => DigestIsSelection
  BY DEF IInv, SpaceInv, DigestIsSelection
<1> QED
  BY <1>1, InitIInv, NextIInv, PTL DEF Spec
=============================================================================
