---------------------------- MODULE RolloutStore ----------------------------
(***************************************************************************)
(* A thread's rollout file: the task that writes it, the worker that       *)
(* compresses it once it is old, and what a reader finds.                  *)
(*   - rollout/src/recorder.rs: RolloutRecorder, rollout_writer and        *)
(*     RolloutWriterState; append_rollout_item_to_path;                    *)
(*   - rollout/src/compression.rs: materialization for append, the         *)
(*     compression of one cold file, and the choice of the file to read.   *)
(*                                                                         *)
(* A file is an inode: its lines, and what follows the last newline.  The  *)
(* path of the rollout names at most one inode; a writer keeps the inode   *)
(* it opened even when the path no longer names it.  Items are numbered in *)
(* the order they are handed over; item 0 is the session meta.  An append  *)
(* that fails leaves nothing, part of the line, or all of it but the       *)
(* newline.  What one file of the store goes through does not depend on    *)
(* the others, so there is one; there is one writer per thread and, thanks *)
(* to the run marker, one compression worker.                              *)
(***************************************************************************)
EXTENDS Integers, Sequences, SequencesExt, FiniteSets

CONSTANTS
  MaxItems,       \* bound on the items handed over
  MaxBarriers,    \* bound on the persist, flush and shutdown requests
  MaxQueue,       \* capacity of the command channel (256 in the code)
  MaxFailures,    \* bound on the I/O calls that fail
  MaxCrashes,     \* bound on the deaths of the recorder's process
  MaxInodes       \* bound on the plain files ever created

ASSUME StoreAssumption ==
  /\ MaxItems \in Nat /\ MaxBarriers \in Nat /\ MaxQueue \in Nat \ {0}
  /\ MaxFailures \in Nat /\ MaxCrashes \in Nat /\ MaxInodes \in Nat

VARIABLES
  inodes,     \* contents of the plain files created so far
  plain,      \* inode the .jsonl path names, or NoInode
  zst,        \* {} or {contents of the .jsonl.zst file}
  cold,       \* inodes whose mtime is at least MIN_ROLLOUT_AGE old
  queue,      \* commands in the recorder's channel
  mode,       \* who has the rollout: a recorder, one being resumed, an append
  w,          \* RolloutWriterState and the command being processed
  c,          \* the compression worker's pass over this file
  sent,       \* items handed over so far
  given,      \* of them, what the running writer has received
  acked,      \* of them, what a successful barrier covers
  barriers, failures, crashes,   \* how often these happened
  torn,       \* appends that failed half-way
  incidents   \* how the worker and a writer got in each other's way

vars == <<inodes, plain, zst, cold, queue, mode, w, c, sent, given, acked,
          barriers, failures, crashes, torn, incidents>>

NoInode == 0
Items == 0..MaxItems
SessionMeta == 0

(* A file has lines, each an item or Garbage that does not parse; after the *)
(* last newline there is Nothing, half a line (Garbage), or an item without *)
(* its newline.                                                             *)
Garbage == -1
Nothing == -2
EmptyFile == [lines |-> <<>>, tail |-> Nothing]

Barriers == {"persist", "flush", "shutdown"}
Add(i) == [op |-> "add", item |-> i]
Barrier(op) == [op |-> op, item |-> SessionMeta]
NoCommand == Barrier("flush")

(* A successful append completes the line that a torn one left behind.      *)
Appended(f, i) ==
  [lines |-> Append(f.lines, IF f.tail = Nothing THEN i ELSE Garbage), tail |-> Nothing]

(* A failed one adds nothing, half a line, or a line without its newline.   *)
TornTails(f, i) == IF f.tail = Nothing THEN {Garbage, i} ELSE {Garbage}

(* load_rollout_items: the items by line number.  Lines that do not parse   *)
(* are skipped; the last one needs no newline.                              *)
Parse(f) ==
  LET read == IF f.tail \in Items THEN Append(f.lines, f.tail) ELSE f.lines
  IN [k \in {k \in DOMAIN read : read[k] # Garbage} |-> read[k]]

(* existing_rollout_path prefers the plain file.                            *)
Visible ==
  IF plain # NoInode THEN inodes[plain]
  ELSE IF zst # {} THEN CHOOSE f \in zst : TRUE
  ELSE EmptyFile

Readable == Parse(Visible)

-----------------------------------------------------------------------------

NoPass == [pc |-> "idle", inode |-> NoInode, state |-> EmptyFile]
WriterStart(meta, pc) ==
  [pc |-> pc, handle |-> NoInode, deferred |-> meta, meta |-> meta, pending |-> <<>>,
   cmd |-> NoCommand, attempt |-> 1, temp |-> EmptyFile]

(* A thread starts with a recorder in Create mode: no file is opened yet.   *)
Init ==
  /\ inodes = <<>> /\ plain = NoInode /\ zst = {} /\ cold = {}
  /\ queue = <<>>
  /\ mode = "record"
  /\ w = WriterStart(TRUE, "idle")
  /\ c = NoPass
  /\ sent = 0 /\ given = {SessionMeta} /\ acked = {}
  /\ barriers = 0 /\ failures = 0 /\ crashes = 0
  /\ torn = 0 /\ incidents = {}

counters == <<barriers, failures, crashes, torn, incidents>>
disk == <<inodes, plain, zst, cold>>

-----------------------------------------------------------------------------
(* The recorder's callers. *)

RecordCanonicalItems ==
  /\ mode = "record" /\ Len(queue) < MaxQueue /\ sent < MaxItems
  /\ sent' = sent + 1
  /\ queue' = Append(queue, Add(sent + 1))
  /\ UNCHANGED <<disk, mode, w, c, given, acked, counters>>

RequestBarrier(op) ==
  /\ mode = "record" /\ Len(queue) < MaxQueue /\ barriers < MaxBarriers
  /\ barriers' = barriers + 1
  /\ queue' = Append(queue, Barrier(op))
  /\ UNCHANGED <<disk, mode, w, c, sent, given, acked, failures, crashes, torn, incidents>>

-----------------------------------------------------------------------------
(* The writer task: rollout_writer and RolloutWriterState. *)

IsDeferred == w.handle = NoInode /\ w.deferred

Trying(attempt, cmd, handle) ==
  [w EXCEPT !.pc = IF handle = NoInode THEN "materialize" ELSE "write",
            !.cmd = cmd, !.attempt = attempt, !.handle = handle]

(* The recorder is gone: commands still queued are answered with an error.  *)
Closed(acked1) ==
  /\ mode' = "none" /\ queue' = <<>> /\ given' = {} /\ acked' = acked1
  /\ w' = WriterStart(FALSE, "idle")

(* An item is written at once, unless the file is still to be created.      *)
RecvAdd ==
  /\ mode = "record" /\ w.pc = "idle" /\ queue # <<>> /\ Head(queue).op = "add"
  /\ queue' = Tail(queue)
  /\ given' = given \cup {Head(queue).item}
  /\ LET pending == Append(w.pending, Head(queue).item)
     IN w' = IF IsDeferred THEN [w EXCEPT !.pending = pending]
             ELSE [Trying(1, Head(queue), w.handle) EXCEPT !.pending = pending]
  /\ UNCHANGED <<disk, mode, c, sent, acked, counters>>

(* Mutant: a barrier with nothing to write is not answered.                 *)
RecvBarrierUnanswered ==
  /\ mode = "record" /\ w.pc = "idle" /\ queue # <<>> /\ Head(queue).op \in Barriers
  /\ ~IsDeferred \/ w.pending # <<>> \/ Head(queue).op = "persist"
  /\ queue' = Tail(queue)
  /\ w' = Trying(1, Head(queue), w.handle)
  /\ UNCHANGED <<disk, mode, c, sent, given, acked, counters>>

(* flush and shutdown do not create a file for a thread without items.      *)
RecvBarrier ==
  /\ mode = "record" /\ w.pc = "idle" /\ queue # <<>> /\ Head(queue).op \in Barriers
  /\ LET op == Head(queue).op
         nothingToDo == op # "persist" /\ IsDeferred /\ w.pending = <<>>
     IN IF nothingToDo /\ op = "shutdown" THEN Closed(acked)
        ELSE /\ queue' = Tail(queue)
             /\ w' = IF nothingToDo THEN w ELSE Trying(1, Head(queue), w.handle)
             /\ UNCHANGED <<mode, given, acked>>
  /\ UNCHANGED <<disk, c, sent, counters>>

(* Mutant: the items that could not be written are dropped.                 *)
FailedForgets ==
  /\ failures < MaxFailures /\ failures' = failures + 1
  /\ IF mode = "record"
     THEN /\ w' = [w EXCEPT !.pc = "idle", !.handle = NoInode, !.pending = <<>>]
          /\ UNCHANGED <<mode, queue, given, acked>>
     ELSE Closed(acked)

(* write_pending_with_recovery: the first failure drops the handle and      *)
(* tries again, the second one is reported and leaves the items pending.    *)
(* A resume or an append by path is tried once.                             *)
Failed ==
  /\ failures < MaxFailures /\ failures' = failures + 1
  /\ IF mode = "record"
     THEN /\ w' = IF w.attempt = 1 THEN Trying(2, w.cmd, NoInode)
                  ELSE [w EXCEPT !.pc = "idle", !.handle = NoInode]
          /\ UNCHANGED <<mode, queue, given, acked>>
     ELSE Closed(acked)

(* Mutant: the compressed file goes before the plain one is there.          *)
MaterializeRemovesFirst ==
  /\ w.pc = "materialize"
  /\ IF plain = NoInode /\ zst # {}
     THEN w' = [w EXCEPT !.pc = "link", !.temp = CHOOSE f \in zst : TRUE] /\ zst' = {}
     ELSE w' = [w EXCEPT !.pc = "open"] /\ UNCHANGED zst
  /\ UNCHANGED <<inodes, plain, cold, queue, mode, c, sent, given, acked, counters>>

(* materialize_rollout_for_append: the plain file is used as it is; without *)
(* it, the compressed one is unpacked beside it.                            *)
Materialize ==
  /\ w.pc = "materialize"
  /\ w' = IF plain = NoInode /\ zst # {}
          THEN [w EXCEPT !.pc = "link", !.temp = CHOOSE f \in zst : TRUE]
          ELSE [w EXCEPT !.pc = "open"]
  /\ UNCHANGED <<disk, queue, mode, c, sent, given, acked, counters>>

(* The unpacked file gets the plain name; nobody else gave it to a file.    *)
Link ==
  /\ w.pc = "link"
  /\ inodes' = Append(inodes, w.temp) /\ plain' = Len(inodes) + 1
  /\ w' = [w EXCEPT !.pc = "unlink_zst", !.temp = EmptyFile]
  /\ UNCHANGED <<zst, cold, queue, mode, c, sent, given, acked, counters>>

UnlinkZst ==
  /\ w.pc = "unlink_zst"
  /\ zst' = {}
  /\ w' = [w EXCEPT !.pc = "open"]
  /\ UNCHANGED <<inodes, plain, cold, queue, mode, c, sent, given, acked, counters>>

(* The recorder creates a missing file, a resume or an append by path does  *)
(* not.  A file created beside a compressed one hides it.                   *)
Open ==
  /\ w.pc = "open"
  /\ IF plain # NoInode
     THEN /\ w' = [w EXCEPT !.handle = plain, !.deferred = FALSE,
                            !.pc = IF mode = "resume" THEN "idle" ELSE "write"]
          /\ mode' = IF mode = "resume" THEN "record" ELSE mode
          /\ UNCHANGED <<inodes, plain, queue, given, acked, incidents>>
     ELSE IF mode = "record"
     THEN /\ inodes' = Append(inodes, EmptyFile) /\ plain' = Len(inodes) + 1
          /\ w' = [w EXCEPT !.handle = Len(inodes) + 1, !.deferred = FALSE, !.pc = "write"]
          /\ incidents' = incidents \cup (IF zst = {} THEN {} ELSE {"hidden"})
          /\ UNCHANGED <<mode, queue, given, acked>>
     ELSE /\ Closed(acked)
          /\ UNCHANGED <<inodes, plain, incidents>>
  /\ UNCHANGED <<zst, cold, c, sent, barriers, failures, crashes, torn>>

ToWrite == IF w.meta THEN SessionMeta ELSE Head(w.pending)

(* Mutant: the session meta stays to be written.                            *)
WriteLineKeepsMeta ==
  /\ w.pc = "write" /\ (w.meta \/ w.pending # <<>>)
  /\ inodes' = [inodes EXCEPT ![w.handle] = Appended(@, ToWrite)]
  /\ cold' = cold \ {w.handle}
  /\ w' = [w EXCEPT !.pending = IF @ = <<>> THEN @ ELSE Tail(@), !.meta = @ /\ w.pending # <<>>]
  /\ UNCHANGED <<plain, zst, queue, mode, c, sent, given, acked, counters>>

(* write_line: the session meta first, then the items in order.  What is    *)
(* written is no longer pending.                                            *)
WriteLine ==
  /\ w.pc = "write" /\ (w.meta \/ w.pending # <<>>)
  /\ inodes' = [inodes EXCEPT ![w.handle] = Appended(@, ToWrite)]
  /\ cold' = cold \ {w.handle}
  /\ w' = IF w.meta THEN [w EXCEPT !.meta = FALSE] ELSE [w EXCEPT !.pending = Tail(@)]
  /\ UNCHANGED <<plain, zst, queue, mode, c, sent, given, acked, counters>>

(* The line is not, or not entirely, written.                               *)
WriteFails ==
  /\ w.pc = "write" /\ (w.meta \/ w.pending # <<>>)
  /\ Failed
  /\ \/ UNCHANGED <<inodes, cold, torn>>
     \/ \E tail \in TornTails(inodes[w.handle], ToWrite) :
          /\ inodes' = [inodes EXCEPT ![w.handle].tail = tail]
          /\ cold' = cold \ {w.handle}
          /\ torn' = torn + 1
  /\ UNCHANGED <<plain, zst, c, sent, barriers, crashes, incidents>>

(* Unpacking, linking or opening fails.                                     *)
OpenFails ==
  /\ w.pc \in {"materialize", "link", "unlink_zst", "open"}
  /\ Failed
  /\ UNCHANGED <<disk, c, sent, barriers, crashes, torn, incidents>>

(* Everything is written: the barrier is answered.  A shutdown ends the     *)
(* task, and so does the only write of an append by path.                   *)
Answer ==
  /\ w.pc = "write" /\ ~w.meta /\ w.pending = <<>>
  /\ IF mode = "append" \/ w.cmd.op = "shutdown" THEN Closed(acked \cup given)
     ELSE /\ acked' = IF w.cmd.op \in Barriers THEN acked \cup given ELSE acked
          /\ w' = [w EXCEPT !.pc = "idle"]
          /\ UNCHANGED <<queue, mode, given>>
  /\ UNCHANGED <<disk, c, sent, counters>>

(* The process dies between two calls, or in the middle of a write.         *)
Crash ==
  /\ mode # "none" /\ crashes < MaxCrashes
  /\ crashes' = crashes + 1
  /\ Closed(acked)
  /\ UNCHANGED <<disk, c, sent, barriers, failures, torn, incidents>>

CrashInWrite ==
  /\ w.pc = "write" /\ (w.meta \/ w.pending # <<>>) /\ crashes < MaxCrashes
  /\ crashes' = crashes + 1
  /\ \E tail \in TornTails(inodes[w.handle], ToWrite) :
       inodes' = [inodes EXCEPT ![w.handle].tail = tail]
  /\ cold' = cold \ {w.handle}
  /\ torn' = torn + 1
  /\ Closed(acked)
  /\ UNCHANGED <<plain, zst, c, sent, barriers, failures, incidents>>

(* get_rollout_history finds the thread id, then RolloutRecorder::new opens *)
(* the file for append.                                                     *)
Resume ==
  /\ mode = "none" /\ SessionMeta \in Range(Readable)
  /\ mode' = "resume"
  /\ w' = WriterStart(FALSE, "materialize")
  /\ UNCHANGED <<disk, queue, c, sent, given, acked, counters>>

(* append_rollout_item_to_path, for a thread that is not loaded.            *)
AppendRolloutItemToPath ==
  /\ mode = "none" /\ DOMAIN Readable # {} /\ sent < MaxItems
  /\ mode' = "append"
  /\ sent' = sent + 1
  /\ given' = {sent + 1}
  /\ w' = [WriterStart(FALSE, "materialize") EXCEPT !.pending = <<sent + 1>>]
  /\ UNCHANGED <<disk, queue, c, acked, counters>>

-----------------------------------------------------------------------------
(* The compression worker: compress_rollout_if_cold_blocking. *)

(* Seven days pass, while nobody is in the middle of anything.              *)
Age ==
  /\ w.pc = "idle" /\ queue = <<>> /\ c = NoPass
  /\ plain # NoInode /\ plain \notin cold
  /\ cold' = cold \cup {plain}
  /\ UNCHANGED <<inodes, plain, zst, queue, mode, w, c, sent, given, acked, counters>>

SameFileState == plain = c.inode /\ plain # NoInode /\ inodes[plain] = c.state

FindCold ==
  /\ c.pc = "idle" /\ plain \in cold /\ zst = {} /\ Len(inodes) < MaxInodes
  /\ c' = [pc |-> "encode", inode |-> plain, state |-> inodes[plain]]
  /\ UNCHANGED <<disk, queue, mode, w, sent, given, acked, counters>>

(* The file is encoded, and installed if it has not changed since the check *)
(* and nobody installed one; the contents encoded are those checked.        *)
Encode ==
  /\ c.pc = "encode"
  /\ IF SameFileState /\ zst = {}
     THEN zst' = {c.state} /\ c' = [c EXCEPT !.pc = "confirm"]
     ELSE c' = NoPass /\ UNCHANGED zst
  /\ UNCHANGED <<inodes, plain, cold, queue, mode, w, sent, given, acked, counters>>

(* Changed in the meantime: the compressed file is withdrawn.               *)
Confirm ==
  /\ c.pc = "confirm"
  /\ IF SameFileState THEN c' = [c EXCEPT !.pc = "unlink"] /\ UNCHANGED zst
     ELSE c' = NoPass /\ zst' = {}
  /\ UNCHANGED <<inodes, plain, cold, queue, mode, w, sent, given, acked, counters>>

(* The plain file goes.  It is "unlinked" under a writer that has it open,  *)
(* and "dropped" when it was written after the last check.                  *)
UnlinkPlain ==
  /\ c.pc = "unlink"
  /\ plain' = NoInode
  /\ c' = NoPass
  /\ incidents' = incidents
       \cup (IF w.handle # NoInode /\ w.handle = plain THEN {"unlinked"} ELSE {})
       \cup (IF SameFileState THEN {} ELSE {"dropped"})
  /\ UNCHANGED <<inodes, zst, cold, queue, mode, w, sent, given, acked, barriers,
                 failures, crashes, torn>>

(* An I/O error, or the death of the worker's process, at any point.        *)
WorkerStops ==
  /\ c.pc # "idle"
  /\ c' = NoPass
  /\ UNCHANGED <<disk, queue, mode, w, sent, given, acked, counters>>

-----------------------------------------------------------------------------

WriterStep ==
  \/ RecvAdd \/ RecvBarrier
  \/ Materialize \/ Link \/ UnlinkZst \/ Open
  \/ WriteLine \/ WriteFails \/ OpenFails \/ Answer

Next ==
  \/ RecordCanonicalItems
  \/ \E op \in Barriers : RequestBarrier(op)
  \/ WriterStep
  \/ Crash \/ CrashInWrite \/ Resume \/ AppendRolloutItemToPath
  \/ Age \/ FindCold \/ Encode \/ Confirm \/ UnlinkPlain \/ WorkerStops

Spec == Init /\ [][Next]_vars

(* The writer task is polled until it waits for a command.                  *)
FairSpec == Spec /\ WF_vars(WriterStep)

-----------------------------------------------------------------------------
(* Properties. *)

(* Whatever failed, crashed or was compressed, a reader finds the items in  *)
(* the order they were recorded and none of them twice: retried writes      *)
(* neither repeat nor reorder (write_pending_items_once).  And it finds     *)
(* what a successful persist, flush, shutdown or append by path covered,    *)
(* through failed attempts, crashes, resumes and changes of representation. *)
(* Each write that failed half-way costs at most one acknowledged item, the *)
(* one that completes its line; otherwise items are lost only where the     *)
(* compression worker and a writer that holds or reopens the file get in    *)
(* each other's way.                                                        *)
AckedReadable ==
  /\ \A i, j \in DOMAIN Readable : i < j => Readable[i] < Readable[j]
  /\ incidents = {} => Cardinality(acked \ Range(Readable)) <= torn

(* Every persist, flush and shutdown is answered, or its recorder dies:     *)
(* a writer that keeps failing still empties its queue.                     *)
BarrierAnswered ==
  (mode = "record" /\ \E i \in 1..Len(queue) : queue[i].op \in Barriers)
    ~> (queue = <<>> /\ w.pc = "idle")
=============================================================================
