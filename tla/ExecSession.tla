---------------------------- MODULE ExecSession ----------------------------
(***************************************************************************)
(* A remote process and its client, across lost connections                *)
(* (codex-rs/exec-server).                                                 *)
(*                                                                         *)
(* The server keeps a session for 30 s after its connection is gone; three *)
(* tasks per process (two output streams and the exit watcher) number      *)
(* their events under the process table's lock and send each notification  *)
(* after the lock, to whatever connection the session has by then.  The    *)
(* client puts the events back in order, and when its connection closes it *)
(* resumes the session on a new one and asks for what it missed; the reply *)
(* has output only, so the exit and the close are inferred from it.        *)
(*                                                                         *)
(* One session with one process.  A connection is a number; connection 1   *)
(* is initialized and its session attached.  Not modelled: the first       *)
(* initialize, file-system and HTTP methods, signals, the consumer's own   *)
(* polling (it keeps no state), and clients without a reconnect strategy,  *)
(* whose recovery fails at once.                                           *)
(***************************************************************************)
EXTENDS Naturals, Sequences, FiniteSets, FiniteSetsExt, SequencesExt

CONSTANTS Streams,         \* the output streams: stdout and stderr
          MaxConnections,  \* connections ever opened
          RetainedChunks,  \* RETAINED_OUTPUT_BYTES_PER_PROCESS, in chunks
          Workloads        \* how many chunks the process prints and how many writes it gets

ASSUME StreamsAssumption == IsFiniteSet(Streams) /\ "exit" \notin Streams
ASSUME ConnectionsAssumption == MaxConnections \in Nat \ {0}
ASSUME RetainedAssumption == RetainedChunks \in Nat
ASSUME WorkloadsAssumption == Workloads \subseteq [outputs : Nat, writes : Nat]

Conns == 1..MaxConnections
None == 0
Tasks == Streams \union {"exit"}
Callers == {"start", "cleanup", "recover", "write"}

VARIABLES
  load,     \* the workload of this behaviour
  \* the transports
  opened,   \* how many connections were opened
  alive,    \* connections whose transport still carries messages
  up,       \* up[c]: requests on their way to the server
  \* the server
  handler,  \* handler[c]: "none", "fresh", "session" or "shut"
  session,  \* SessionEntry: kept in the registry, attachment, deadline
  proc,     \* the process table's entry and the child itself
  task,     \* task[t]: what the task does next
  unsent,   \* unsent[t]: the sequence number the task still has to notify
  log,      \* the events the process numbered, in order: next_seq = Len + 1
  stdin,    \* the write ids whose bytes the child received
  \* the client
  status,   \* ConnectionStatus, with the connected client
  closed,   \* connections whose RpcClient is disconnected
  inbox,    \* inbox[c]: events under way to the client's event task
  call,     \* call[a]: the connection a waits on, and the reply under way
  recovery, \* where the recovery task is
  start,    \* where start_process and its clean-up are
  writing,  \* the write under way and its phase
  state     \* SessionState and its registration

serverVars == <<handler, session, proc, task, unsent, log, stdin>>
clientVars == <<status, closed, inbox, call, recovery, start, writing, state>>
netVars == <<load, opened, alive, up>>
vars == <<netVars, serverVars, clientVars>>

-----------------------------------------------------------------------------
(* Messages.  A request names its caller, and the reply goes back to it.   *)

Note(seq) == [is |-> "event", seq |-> seq, kind |-> log[seq]]
Closing == [is |-> "disconnected", seq |-> 0, kind |-> "none"]
NoRead == [chunks |-> {}, target |-> 0, exited |-> FALSE, closed |-> FALSE]
Calling(c, res) == [conn |-> c, res |-> res, read |-> NoRead]
NoCall == Calling(None, "none")

(* A message to a dead transport is lost. *)
Push(queue, c, m) == IF c \in alive THEN [queue EXCEPT ![c] = Append(@, m)] ELSE queue

(* RpcClient::call: refused on a disconnected client, else it waits for    *)
(* the reply or for the reader to find the transport closed.               *)
Call(a, c, m) ==
  IF c \in closed
    THEN call' = [call EXCEPT ![a] = Calling(c, "closed")] /\ up' = up
    ELSE call' = [call EXCEPT ![a] = Calling(c, "wait")] /\ up' = Push(up, c, m)

Answered(a) == call[a].res \notin {"none", "wait"}
Hang(a) == call' = [call EXCEPT ![a] = NoCall]

Init ==
  /\ load \in Workloads
  /\ opened = 1 /\ alive = {1}
  /\ up = [c \in Conns |-> <<>>]
  /\ handler = [c \in Conns |-> IF c = 1 THEN "session" ELSE "none"]
  /\ session = [kept |-> TRUE, current |-> 1, detached |-> None, timers |-> {}]
  /\ proc = [entry |-> "none", child |-> "none"]
  /\ task = [t \in Tasks |-> "none"] /\ unsent = [t \in Tasks |-> None]
  /\ log = <<>> /\ stdin = <<>>
  /\ status = [is |-> "connected", conn |-> 1]
  /\ closed = {} /\ inbox = [c \in Conns |-> <<>>]
  /\ call = [a \in Callers |-> NoCall]
  /\ recovery = "idle"
  /\ start = [at |-> "none", conn |-> None]
  /\ writing = [at |-> "idle", id |-> 0, acked |-> {}]
  /\ state = [reg |-> "none", recoverable |-> FALSE, seen |-> <<>>,
              pending |-> <<>>, failed |-> FALSE]

-----------------------------------------------------------------------------
(* The transport may close at any time.  Either end finds out later and    *)
(* may by then have received any part of what was under way (Disconnect,   *)
(* ReadClosed).                                                            *)

Break(c) ==
  /\ c \in alive
  /\ alive' = alive \ {c}
  /\ UNCHANGED <<load, opened, up, serverVars, clientVars>>

-----------------------------------------------------------------------------
(* The server's process table and its tasks.                               *)

Numbered(kind) == Append(log, kind)
ExitCode == Contains(log, "exited")
ProcClosed == Contains(log, "closed")
OpenStreams == {t \in Streams : task[t] \in {"read", "send"}}

(* stream_output: number a chunk under the lock, notify after it. *)
Output(s) ==
  /\ task[s] = "read" /\ proc.entry = "running"
  /\ Cardinality({i \in DOMAIN log : log[i] = "output"}) < load.outputs
  /\ log' = Numbered("output")
  /\ unsent' = [unsent EXCEPT ![s] = Len(log')]
  /\ task' = [task EXCEPT ![s] = "send"]
  /\ UNCHANGED <<netVars, handler, session, proc, stdin, clientVars>>

(* finish_output_stream: the child closed the stream. *)
EndOfStream(s) ==
  /\ task[s] = "read"
  /\ task' = [task EXCEPT ![s] = "check"]
  /\ UNCHANGED <<netVars, handler, session, proc, unsent, log, stdin, clientVars>>

ChildExits ==
  /\ proc.child = "up"
  /\ proc' = [proc EXCEPT !.child = "dead"]
  /\ UNCHANGED <<netVars, handler, session, task, unsent, log, stdin, clientVars>>

(* watch_exit *)
Exit ==
  /\ task["exit"] = "read" /\ proc.child = "dead"
  /\ IF proc.entry = "running"
       THEN /\ log' = Numbered("exited")
            /\ unsent' = [unsent EXCEPT !["exit"] = Len(log')]
            /\ task' = [task EXCEPT !["exit"] = "send"]
       ELSE /\ task' = [task EXCEPT !["exit"] = "check"]
            /\ UNCHANGED <<log, unsent>>
  /\ UNCHANGED <<netVars, handler, session, proc, stdin, clientVars>>

(* The notification goes to the sender the session has now. *)
Notify(t) ==
  /\ task[t] \in {"send", "close"}
  /\ inbox' = IF session.current = None THEN inbox
              ELSE Push(inbox, session.current, Note(unsent[t]))
  /\ unsent' = [unsent EXCEPT ![t] = None]
  /\ task' = [task EXCEPT ![t] = CASE @ = "close" -> "done"
                                   [] t = "exit" -> "check"
                                   [] OTHER -> "read"]
  /\ UNCHANGED <<netVars, handler, session, proc, log, stdin, status, closed, call, recovery,
                 start, writing, state>>

(* maybe_emit_closed, called by each task at its end. *)
CheckClosed(t) ==
  /\ task[t] = "check"
  /\ IF proc.entry = "running" /\ ~ProcClosed /\ OpenStreams = {} /\ ExitCode
       THEN /\ log' = Numbered("closed")
            /\ unsent' = [unsent EXCEPT ![t] = Len(log')]
            /\ task' = [task EXCEPT ![t] = "close"]
       ELSE /\ task' = [task EXCEPT ![t] = "done"]
            /\ UNCHANGED <<log, unsent>>
  /\ UNCHANGED <<netVars, handler, session, proc, stdin, clientVars>>

(* A closed process leaves the table EXITED_PROCESS_RETENTION later. *)
Retire ==
  /\ proc.entry = "running" /\ ProcClosed
  /\ proc' = [proc EXCEPT !.entry = "none"]
  /\ UNCHANGED <<netVars, handler, session, task, unsent, log, stdin, clientVars>>

(* LocalProcess::shutdown *)
Drained == [proc EXCEPT !.entry = "none",
                        !.child = IF proc.entry = "running" THEN "dead" ELSE @]

(* process.output: the newest chunks. *)
Retained ==
  LET outputs == {i \in DOMAIN log : log[i] = "output"}
  IN  {i \in outputs : Cardinality({j \in outputs : j > i}) < RetainedChunks}

(* exec_read with no byte limit and no wait. *)
ReadResponse(after) ==
  [chunks |-> {i \in Retained : i > after}, target |-> Len(log),
   exited |-> ExitCode, closed |-> ProcClosed]

-----------------------------------------------------------------------------
(* The server's sessions and the handlers of its connections.  A handler   *)
(* takes its connection's requests one at a time.                          *)

Takes(c, op) ==
  /\ handler[c] \in {"fresh", "session"} /\ up[c] # <<>> /\ Head(up[c]).op = op
  /\ up' = [up EXCEPT ![c] = Tail(@)]

Respond(c, a, res, read) ==
  /\ call' = IF c \in alive /\ call[a] = Calling(c, "wait")
               THEN [call EXCEPT ![a] = [conn |-> c, res |-> res, read |-> read]] ELSE call
  /\ UNCHANGED <<status, closed, inbox, recovery, start, writing, state>>
Answers(c, res) == Respond(c, Head(up[c]).from, res, NoRead)

(* require_session_attached *)
Attached(c) == handler[c] = "session" /\ session.current = c

(* SessionRegistry::attach: resume a session that no connection holds.  A  *)
(* detached session may have passed its deadline without its timer having  *)
(* run yet; it is removed and its process shut down in one step here.  In  *)
(* the code a disconnect while the shutdown waits for the lock on the      *)
(* processes drops the handler between the two.                            *)
Attach(c) ==
  /\ Takes(c, "initialize")
  /\ \/ /\ ~session.kept
        /\ Answers(c, "unknown")
        /\ UNCHANGED <<handler, session, proc>>
     \/ /\ session.kept /\ session.detached # None
        /\ session' = [session EXCEPT !.kept = FALSE]
        /\ proc' = Drained
        /\ Answers(c, "unknown")
        /\ UNCHANGED handler
     \/ /\ session.kept /\ session.current # None
        /\ Answers(c, "attached")
        /\ UNCHANGED <<handler, session, proc>>
     \/ /\ session.kept /\ session.current = None
        /\ session' = [session EXCEPT !.current = c, !.detached = None]
        /\ handler' = [handler EXCEPT ![c] = "session"]
        /\ Answers(c, "ok")
        /\ UNCHANGED proc
  /\ UNCHANGED <<load, opened, alive, task, unsent, log, stdin>>

(* exec: the entry is Starting while the child is spawned, and stays so    *)
(* when the connection goes away meanwhile and the handler is dropped.     *)
ServeExec(c) ==
  /\ Attached(c)
  /\ Takes(c, "exec")
  /\ IF proc.entry # "none"
       THEN Answers(c, "error") /\ UNCHANGED <<handler, proc>>
       ELSE /\ proc' = [proc EXCEPT !.entry = "starting"]
            /\ handler' = [handler EXCEPT ![c] = "spawning"]
            /\ UNCHANGED clientVars
  /\ UNCHANGED <<load, opened, alive, session, task, unsent, log, stdin>>

Spawned(c) ==
  /\ handler[c] = "spawning"
  /\ handler' = [handler EXCEPT ![c] = "session"]
  /\ \/ /\ proc' = [entry |-> "running", child |-> "up"]
        /\ task' = [t \in Tasks |-> "read"]
        /\ Respond(c, "start", "ok", NoRead)
     \/ /\ proc' = [proc EXCEPT !.entry = "none"]
        /\ Respond(c, "start", "error", NoRead)
        /\ UNCHANGED task
  /\ UNCHANGED <<netVars, session, unsent, log, stdin>>

ServeRead(c) ==
  /\ Attached(c)
  /\ Takes(c, "read")
  /\ LET m == Head(up[c])
     IN  IF proc.entry = "running"
           THEN Respond(c, m.from, "ok", ReadResponse(m.after))
           ELSE Answers(c, "error")
  /\ UNCHANGED <<load, opened, alive, serverVars>>

(* terminate_process: also cancels a start that is under way. *)
ServeTerminate(c) ==
  /\ Attached(c)
  /\ Takes(c, "terminate")
  /\ proc' = CASE proc.entry = "running" /\ ~ExitCode -> [proc EXCEPT !.child = "dead"]
               [] proc.entry = "starting" -> [proc EXCEPT !.entry = "none"]
               [] OTHER -> proc
  /\ Answers(c, "ok")
  /\ UNCHANGED <<load, opened, alive, handler, session, task, unsent, log, stdin>>

(* Mutant: the ids of accepted writes are not looked up. *)
ServeWriteForgets(c) ==
  /\ Attached(c)
  /\ Takes(c, "write")
  /\ proc.entry = "running"
  /\ Answers(c, "accepted") /\ stdin' = Append(stdin, Head(up[c]).id)
  /\ UNCHANGED <<load, opened, alive, handler, session, proc, task, unsent, log>>

(* exec_write: the bytes are sent and their write id remembered together;  *)
(* a repeated id is accepted and not sent.                                 *)
ServeWrite(c) ==
  /\ Attached(c)
  /\ Takes(c, "write")
  /\ LET id == Head(up[c]).id
     IN  \/ /\ proc.entry # "running"
            /\ Answers(c, "error") /\ UNCHANGED stdin
         \/ /\ proc.entry = "running" /\ Contains(stdin, id)
            /\ Answers(c, "accepted") /\ UNCHANGED stdin
         \/ /\ proc.entry = "running" /\ ~Contains(stdin, id)
            /\ Answers(c, "accepted") /\ stdin' = Append(stdin, id)
         \/ /\ proc.entry = "running" /\ ~Contains(stdin, id) /\ proc.child = "dead"
            /\ Answers(c, "error") /\ UNCHANGED stdin
  /\ UNCHANGED <<load, opened, alive, handler, session, proc, task, unsent, log>>

(* run_connection ends: requests it has not taken are dropped, a request   *)
(* under way is abandoned, and the session is detached and its expiry      *)
(* timer started.                                                          *)
Disconnect(c) ==
  /\ handler[c] \in {"fresh", "session", "spawning"} /\ c \notin alive
  /\ handler' = [handler EXCEPT ![c] = "shut"]
  /\ up' = [up EXCEPT ![c] = <<>>]
  /\ session' = IF session.current = c
                  THEN [session EXCEPT !.current = None, !.detached = c,
                                       !.timers = @ \union {c}]
                  ELSE session
  /\ UNCHANGED <<load, opened, alive, proc, task, unsent, log, stdin, clientVars>>

(* Mutant: the timer does not look whether the session was resumed. *)
ExpireUnchecked(c) ==
  /\ c \in session.timers /\ session.kept
  /\ session' = [session EXCEPT !.timers = @ \ {c}, !.kept = FALSE]
  /\ proc' = Drained
  /\ UNCHANGED <<netVars, handler, task, unsent, log, stdin, clientVars>>

(* expire_if_detached wakes, for the connection that was detached when it  *)
(* was started: the session may have been resumed since.                   *)
Expire(c) ==
  /\ c \in session.timers
  /\ IF session.kept /\ session.current = None /\ session.detached = c
       THEN /\ session' = [session EXCEPT !.timers = @ \ {c}, !.kept = FALSE]
            /\ proc' = Drained
       ELSE /\ session' = [session EXCEPT !.timers = @ \ {c}]
            /\ UNCHANGED proc
  /\ UNCHANGED <<netVars, handler, task, unsent, log, stdin, clientVars>>

-----------------------------------------------------------------------------
(* The client's connections.  A reply resolves its call and a notification *)
(* joins the queue of the event task; the two are awaited independently.   *)

(* The reader finds the transport closed: what had not arrived is lost. It *)
(* marks the client disconnected, fails its calls, and only then tells the *)
(* event task.                                                             *)
ReadClosed(c) ==
  /\ c \in 1..opened \ (alive \union closed)
  /\ closed' = closed \union {c}
  /\ \E lost \in SUBSET {a \in Callers : call[a].conn = c},
        n \in 0..Len(inbox[c]) :
       /\ {a \in Callers : call[a] = Calling(c, "wait")} \subseteq lost
       /\ call' = [a \in Callers |-> IF a \in lost THEN Calling(c, "closed") ELSE call[a]]
       /\ inbox' = [inbox EXCEPT ![c] = Append(SubSeq(@, 1, n), Closing)]
  /\ UNCHANGED <<netVars, serverVars, status, recovery, start, writing, state>>

(* entry(seq).or_insert: what is there stays. *)
OrInsert(pending, seqs, kind) ==
  [i \in DOMAIN pending \union seqs |-> IF i \in DOMAIN pending THEN pending[i] ELSE kind]

(* publish_ready: everything up to the first hole. *)
Published(st, pending) ==
  LET last == Len(st.seen)
      n == Max({last} \union {j \in DOMAIN pending : (last + 1)..j \subseteq DOMAIN pending})
      seen == st.seen \o [i \in 1..(n - last) |-> pending[last + i]]
  IN  [st EXCEPT !.seen = seen,
                 !.pending = [j \in DOMAIN pending \ 1..n |-> pending[j]],
                 !.reg = IF Contains(seen, "closed") THEN "gone" ELSE @]

Over(st) == st.failed \/ Contains(st.seen, "closed")

(* publish_ordered_event *)
PublishEvent(st, m) ==
  IF st.reg # "present" \/ Over(st) \/ m.seq <= Len(st.seen) THEN st
  ELSE Published(st, OrInsert(st.pending, {m.seq}, m.kind))

(* set_failure, by one who took the session out of the routing table. *)
SetFailure(st) ==
  IF Over(st) THEN [st EXCEPT !.reg = "gone"]
  ELSE [st EXCEPT !.reg = "gone", !.failed = TRUE, !.pending = <<>>]

(* request_recovery: only for the connection that is in use. *)
HandleEvent(c) ==
  /\ inbox[c] # <<>>
  /\ LET m == Head(inbox[c])
     IN  IF m.is = "event"
           THEN state' = PublishEvent(state, m) /\ UNCHANGED <<status, recovery>>
           ELSE IF status = [is |-> "connected", conn |-> c]
             THEN /\ status' = [is |-> "recovering", conn |-> None]
                  /\ recovery' = "starts"
                  /\ UNCHANGED state
             ELSE UNCHANGED <<state, status, recovery>>
  /\ inbox' = [inbox EXCEPT ![c] = Tail(@)]
  /\ UNCHANGED <<netVars, serverVars, closed, call, start, writing>>

-----------------------------------------------------------------------------
(* Recovery.  The candidate connection is the last one opened.             *)

Answer == call["recover"].res

(* The candidate's RpcClient is dropped, and with it the transport and the *)
(* events nobody handled.                                                  *)
Drop(c) ==
  /\ alive' = alive \ {c} /\ closed' = closed \union {c}
  /\ inbox' = [inbox EXCEPT ![c] = <<>>]

Retry ==
  /\ Drop(opened) /\ recovery' = "connect" /\ Hang("recover")
  /\ UNCHANGED <<load, opened, up, status, state>>

(* fail: the status first, the sessions in a step of their own. *)
Fail ==
  /\ status' = [is |-> "failed", conn |-> None]
  /\ recovery' = "failing" /\ Hang("recover")
  /\ Drop(opened)
  /\ UNCHANGED <<load, opened, up, state>>

Ask(m, at) ==
  /\ Call("recover", opened, m) /\ recovery' = at
  /\ UNCHANGED <<load, opened, alive, closed, inbox, status>>

(* wait_for_process_starts *)
StartsDone ==
  /\ recovery = "starts" /\ start.at \notin {"begun", "calling"}
  /\ recovery' = "connect"
  /\ UNCHANGED <<netVars, serverVars, status, closed, inbox, call, start, writing, state>>

(* resume_once, up to sending initialize. *)
Connect ==
  /\ recovery = "connect" /\ opened < MaxConnections
  /\ opened' = opened + 1
  /\ alive' = alive \union {opened'}
  /\ handler' = [handler EXCEPT ![opened'] = "fresh"]
  /\ up' = [up EXCEPT ![opened'] = <<[from |-> "recover", op |-> "initialize"]>>]
  /\ call' = [call EXCEPT !["recover"] = Calling(opened', "wait")]
  /\ recovery' = "init"
  /\ UNCHANGED <<load, session, proc, task, unsent, log, stdin, status, closed, inbox,
                 start, writing, state>>

(* Mutant: the new connection is used without asking for missed events. *)
InitializedInstalls ==
  /\ recovery = "init" /\ Answered("recover")
  /\ \/ /\ Answer = "ok"
        /\ recovery' = "install" /\ Hang("recover")
        /\ UNCHANGED <<netVars, status, closed, inbox, state>>
     \/ Answer \in {"closed", "attached"} /\ Retry
     \/ Answer = "unknown" /\ Fail
  /\ UNCHANGED <<serverVars, start, writing>>

(* initialize was answered: ask for what a recoverable session missed. *)
Initialized ==
  /\ recovery = "init" /\ Answered("recover")
  /\ \/ /\ Answer = "ok" /\ state.reg = "present" /\ state.recoverable
        /\ Ask([from |-> "recover", op |-> "read", after |-> Len(state.seen)], "read")
        /\ UNCHANGED state
     \/ /\ Answer = "ok" /\ ~(state.reg = "present" /\ state.recoverable)
        /\ recovery' = "install" /\ Hang("recover")
        /\ UNCHANGED <<netVars, status, closed, inbox, state>>
     \/ Answer \in {"closed", "attached"} /\ Retry
     \/ Answer = "unknown" /\ Fail
  /\ UNCHANGED <<serverVars, start, writing>>

(* Mutant: the exit goes to the first hole, however many there are. *)
RecoveredIgnoresGaps(st, r) ==
  LET last == Len(st.seen)
      chunks == OrInsert(st.pending, {j \in r.chunks : j > last}, "output")
      filled == IF r.closed THEN OrInsert(chunks, {r.target}, "closed") ELSE chunks
      missing == {i \in (last + 1)..r.target : i \notin DOMAIN filled}
  IN  IF Over(st) \/ r.target <= last THEN [ok |-> TRUE, st |-> st]
      ELSE IF r.exited /\ ~Contains(st.seen, "exited") /\ missing # {}
        THEN [ok |-> TRUE, st |-> Published(st, OrInsert(filled, {Min(missing)}, "exited"))]
        ELSE [ok |-> missing = {}, st |-> Published(st, filled)]

(* recover_events: chunks, then Closed at the target, then Exited in the   *)
(* one place that is left; anything else missing was evicted.  It is an    *)
(* error when something else is known where the reply closes.              *)
Recovered(st, r) ==
  LET last == Len(st.seen)
      chunks == OrInsert(st.pending, {j \in r.chunks : j > last}, "output")
      filled == IF r.closed THEN OrInsert(chunks, {r.target}, "closed") ELSE chunks
      exitKnown == Contains(st.seen, "exited")
                     \/ \E i \in DOMAIN filled : i <= r.target /\ filled[i] = "exited"
      missing == {i \in (last + 1)..r.target : i \notin DOMAIN filled}
      conflict == r.closed /\ filled[r.target] # "closed"
      infers == r.exited /\ ~exitKnown
  IN  IF Over(st) \/ r.target <= last THEN [ok |-> TRUE, st |-> st]
      ELSE IF ~conflict /\ infers /\ Cardinality(missing) = 1
        THEN [ok |-> TRUE, st |-> Published(st, OrInsert(filled, missing, "exited"))]
      ELSE IF ~conflict /\ ~infers /\ missing = {}
        THEN [ok |-> TRUE, st |-> Published(st, filled)]
      ELSE [ok |-> FALSE, st |-> [st EXCEPT !.pending = filled]]

(* recover_processes, after the read: a session whose events are lost has  *)
(* its process terminated.                                                 *)
ReadAnswered ==
  /\ recovery = "read" /\ Answered("recover")
  /\ \/ Answer = "closed" /\ Retry
     \/ /\ Answer = "error"
        /\ Ask([from |-> "recover", op |-> "terminate"], "terminate")
        /\ UNCHANGED state
     \/ /\ Answer = "ok"
        /\ LET recovered == Recovered(state, call["recover"].read)
           IN  /\ state' = recovered.st
               /\ IF recovered.ok
                    THEN /\ recovery' = "install" /\ Hang("recover")
                         /\ UNCHANGED <<netVars, status, closed, inbox>>
                    ELSE Ask([from |-> "recover", op |-> "terminate"], "terminate")
  /\ UNCHANGED <<serverVars, start, writing>>

TerminateAnswered ==
  /\ recovery = "terminate" /\ Answered("recover")
  /\ \/ Answer = "closed" /\ Retry
     \/ /\ Answer # "closed"
        /\ state' = SetFailure(state)
        /\ recovery' = "install" /\ Hang("recover")
        /\ UNCHANGED <<netVars, status, closed, inbox>>
  /\ UNCHANGED <<serverVars, start, writing>>

(* Mutant: the candidate is installed without looking at it again. *)
InstallUnchecked ==
  /\ recovery = "install"
  /\ status' = [is |-> "connected", conn |-> opened]
  /\ recovery' = "idle"
  /\ UNCHANGED <<netVars, serverVars, closed, inbox, call, start, writing, state>>

(* install_recovered_client: not one that has died meanwhile. *)
Install ==
  /\ recovery = "install"
  /\ IF opened \in closed
       THEN Retry
       ELSE /\ status' = [is |-> "connected", conn |-> opened]
            /\ recovery' = "idle"
            /\ UNCHANGED <<netVars, closed, inbox, call, state>>
  /\ UNCHANGED <<serverVars, start, writing>>

(* SESSION_RECOVERY_TIMEOUT *)
RecoveryTimeout ==
  /\ recovery \in {"starts", "connect", "init", "read", "terminate"}
  /\ Fail
  /\ UNCHANGED <<serverVars, start, writing>>

(* fail_all_sessions *)
FailSessions ==
  /\ recovery = "failing"
  /\ state' = IF state.reg = "present" THEN SetFailure(state) ELSE state
  /\ recovery' = "idle"
  /\ UNCHANGED <<netVars, serverVars, status, closed, inbox, call, start, writing>>

-----------------------------------------------------------------------------
(* start_process and its clean-up.                                         *)

Usable == status.is = "connected" /\ status.conn \notin closed
CanCall == Usable \/ status.is = "failed"

BeginStart ==
  /\ start.at = "none" /\ Usable
  /\ start' = [at |-> "begun", conn |-> status.conn]
  /\ UNCHANGED <<netVars, serverVars, status, closed, inbox, call, recovery, writing, state>>

(* insert_session refuses once the client has failed. *)
InsertSession ==
  /\ start.at = "begun"
  /\ IF status.is = "failed"
       THEN start' = [start EXCEPT !.at = "over"] /\ UNCHANGED <<up, call, state>>
       ELSE /\ state' = [state EXCEPT !.reg = "present"]
            /\ Call("start", start.conn, [from |-> "start", op |-> "exec"])
            /\ start' = [start EXCEPT !.at = "calling"]
  /\ UNCHANGED <<load, opened, alive, serverVars, status, closed, inbox, recovery, writing>>

(* The start is answered; its caller may be gone by then. *)
StartAnswered ==
  /\ start.at = "calling" /\ Answered("start")
  /\ \/ /\ call["start"].res = "ok"
        /\ start' = [start EXCEPT !.at = "started"]
        /\ state' = [state EXCEPT !.recoverable = TRUE]
     \/ /\ call["start"].res \in {"ok", "closed"}
        /\ start' = [start EXCEPT !.at = "cleanup"]
        /\ UNCHANGED state
     \/ /\ call["start"].res = "error"
        /\ start' = [start EXCEPT !.at = "over"]
        /\ state' = [state EXCEPT !.reg = "gone"]
  /\ Hang("start")
  /\ UNCHANGED <<netVars, serverVars, status, closed, inbox, recovery, writing>>

(* cleanup_process_start: terminate, again after a lost connection. *)
Cleanup ==
  /\ start.at = "cleanup" /\ CanCall
  /\ IF Usable
       THEN /\ Call("cleanup", status.conn, [from |-> "cleanup", op |-> "terminate"])
            /\ start' = [start EXCEPT !.at = "cleaning"]
            /\ UNCHANGED state
       ELSE /\ start' = [start EXCEPT !.at = "over"]
            /\ state' = [state EXCEPT !.reg = "gone"]
            /\ UNCHANGED <<up, call>>
  /\ UNCHANGED <<load, opened, alive, serverVars, status, closed, inbox, recovery, writing>>

(* Mutant: a terminate that was lost with its connection is not repeated. *)
CleanupAnsweredOnce ==
  /\ start.at = "cleaning" /\ Answered("cleanup")
  /\ start' = [start EXCEPT !.at = "over"]
  /\ state' = [state EXCEPT !.reg = "gone"]
  /\ Hang("cleanup")
  /\ UNCHANGED <<netVars, serverVars, status, closed, inbox, recovery, writing>>

CleanupAnswered ==
  /\ start.at = "cleaning" /\ Answered("cleanup")
  /\ IF call["cleanup"].res = "closed" /\ status.is # "failed"
       THEN start' = [start EXCEPT !.at = "cleanup"] /\ UNCHANGED state
       ELSE /\ start' = [start EXCEPT !.at = "over"]
            /\ state' = [state EXCEPT !.reg = "gone"]
  /\ Hang("cleanup")
  /\ UNCHANGED <<netVars, serverVars, status, closed, inbox, recovery, writing>>

-----------------------------------------------------------------------------
(* Session::write: one id per write, kept over its retries.                *)

Write ==
  /\ start.at = "started" /\ writing.at = "idle" /\ writing.id < load.writes
  /\ writing' = [writing EXCEPT !.at = "ready", !.id = @ + 1]
  /\ UNCHANGED <<netVars, serverVars, status, closed, inbox, call, recovery, start, state>>

SendWrite ==
  /\ writing.at = "ready" /\ CanCall
  /\ IF Usable
       THEN /\ Call("write", status.conn, [from |-> "write", op |-> "write", id |-> writing.id])
            /\ writing' = [writing EXCEPT !.at = "calling"]
       ELSE writing' = [writing EXCEPT !.at = "idle"] /\ UNCHANGED <<up, call>>
  /\ UNCHANGED <<load, opened, alive, serverVars, status, closed, inbox, recovery, start, state>>

WriteAnswered ==
  /\ writing.at = "calling" /\ Answered("write")
  /\ LET res == call["write"].res
     IN  writing' = CASE res = "closed" /\ status.is # "failed" -> [writing EXCEPT !.at = "ready"]
                      [] res = "accepted" -> [writing EXCEPT !.at = "idle", !.acked = @ \union {writing.id}]
                      [] OTHER -> [writing EXCEPT !.at = "idle"]
  /\ Hang("write")
  /\ UNCHANGED <<netVars, serverVars, status, closed, inbox, recovery, start, state>>

-----------------------------------------------------------------------------
Handle(c) ==
  \/ Attach(c) \/ ServeExec(c) \/ Spawned(c) \/ ServeRead(c) \/ ServeTerminate(c)
  \/ ServeWrite(c) \/ Disconnect(c)
Recover ==
  \/ StartsDone \/ Connect \/ Initialized \/ ReadAnswered \/ TerminateAnswered
  \/ Install \/ FailSessions
StartProcess == InsertSession \/ StartAnswered \/ Cleanup \/ CleanupAnswered

Next ==
  \/ \E c \in Conns : Break(c) \/ Handle(c) \/ Expire(c) \/ ReadClosed(c)
                        \/ HandleEvent(c)
  \/ \E s \in Streams : Output(s) \/ EndOfStream(s)
  \/ \E t \in Tasks : Notify(t) \/ CheckClosed(t)
  \/ ChildExits \/ Exit \/ Retire
  \/ Recover \/ RecoveryTimeout
  \/ BeginStart \/ StartProcess
  \/ Write \/ SendWrite \/ WriteAnswered

Spec == Init /\ [][Next]_vars

(* Every task of the runtime runs, and every timer fires.  Nothing makes   *)
(* the child print, close its streams, or exit.                            *)
Fairness ==
  /\ \A c \in Conns : /\ WF_vars(Handle(c)) /\ WF_vars(Expire(c))
                      /\ WF_vars(ReadClosed(c)) /\ WF_vars(HandleEvent(c))
  /\ \A t \in Tasks : WF_vars(Notify(t) \/ CheckClosed(t))
  /\ WF_vars(Recover) /\ WF_vars(RecoveryTimeout)
  /\ WF_vars(StartProcess)

FairSpec == Spec /\ Fairness

-----------------------------------------------------------------------------
(* Properties.                                                             *)

(* What the consumer is shown is what the process did, from the start, in  *)
(* order, nothing twice and nothing left out, over any number of lost      *)
(* connections (publish_ordered_event, recover_events): the exit and the   *)
(* close that recovery infers are where the process had them.              *)
SeenInOrder == IsPrefix(state.seen, log)

(* A write reaches the child at most once and in the order of the writes,  *)
(* although it is retried on every new connection (Session::write,         *)
(* exec_write), and an acknowledged one has reached it.                    *)
WrittenOnce ==
  /\ \A i, j \in DOMAIN stdin : i < j => stdin[i] < stdin[j]
  /\ writing.acked \subseteq Range(stdin)

(* A client that is connected holds the session: no expiry timer of an     *)
(* earlier detachment, and no other connection, takes it while the         *)
(* transport is up (attach, detach, expire_if_detached).                   *)
ConnectedHolds ==
  status.is = "connected" /\ status.conn \in alive
    => session.kept /\ session.current = status.conn

(* The consumer of a process that has ended is told: it sees the close, or *)
(* a failure, whichever connections were lost on the way.                  *)
EndReported ==
  (ProcClosed /\ start.at = "started") ~> Over(state)

(* A process whose start nobody will answer for does not run on: clean-up  *)
(* terminates it, or the session expires with it.                          *)
NoOrphan == (start.at = "cleanup") ~> (proc.child # "up" /\ proc.entry # "starting")
=============================================================================
