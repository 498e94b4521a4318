----------------------------- MODULE ExecProofs -----------------------------
(***************************************************************************)
(* Proofs about ExecSession for every number of connections, streams,      *)
(* chunks and writes: a connected client holds its session (HoldInv), a    *)
(* write reaches the child once and in order (WriteInv), and the consumer  *)
(* sees what the process did (LogInv, SeenInv).                            *)
(***************************************************************************)
EXTENDS ExecSession, FiniteSetTheorems, WellFoundedInduction, TLAPS

Kinds == {"output", "exited", "closed"}

Msg ==
  [from : {"recover"}, op : {"initialize"}]
    \union [from : {"recover"}, op : {"read"}, after : Nat]
    \union [from : {"recover", "cleanup"}, op : {"terminate"}]
    \union [from : {"start"}, op : {"exec"}]
    \union [from : {"write"}, op : {"write"}, id : Nat]

Event == [is : {"event", "disconnected"}, seq : Nat, kind : Kinds \union {"none"}]

Reply == [chunks : SUBSET Nat, target : Nat, exited : BOOLEAN, closed : BOOLEAN]

CallState ==
  [conn : Conns \union {None}, read : Reply,
   res : {"none", "wait", "closed", "ok", "error", "unknown", "attached", "accepted"}]

Pending == UNION {[S -> Kinds] : S \in SUBSET Nat}

SessionState == [reg : {"none", "present", "gone"}, recoverable : BOOLEAN, seen : Seq(Kinds),
                 pending : Pending, failed : BOOLEAN]

Recovering == {"starts", "connect", "init", "read", "terminate", "install"}

NetTypes ==
  /\ load \in [outputs : Nat, writes : Nat]
  /\ opened \in Conns /\ alive \subseteq 1..opened /\ closed \subseteq 1..opened
  /\ up \in [Conns -> Seq(Msg)]

ServerTypes ==
  /\ handler \in [Conns -> {"none", "fresh", "session", "spawning", "shut"}]
  /\ session \in [kept : BOOLEAN, current : Conns \union {None},
                  detached : Conns \union {None}, timers : SUBSET Conns]
  /\ proc \in [entry : {"none", "starting", "running"}, child : {"none", "up", "dead"}]
  /\ task \in [Tasks -> {"none", "read", "send", "check", "close", "done"}]
  /\ unsent \in [Tasks -> Nat]
  /\ log \in Seq(Kinds)
  /\ stdin \in Seq(Nat)

ClientTypes ==
  /\ status \in [is : {"connected", "recovering", "failed"}, conn : Conns \union {None}]
  /\ status.is = "connected" => status.conn \in 1..opened
  /\ inbox \in [Conns -> Seq(Event)]
  /\ call \in [Callers -> CallState]
  /\ recovery \in Recovering \union {"idle", "failing"}
  /\ start \in [at : {"none", "begun", "calling", "started", "cleanup", "cleaning", "over"},
                conn : Conns \union {None}]
  /\ start.at # "none" => start.conn \in 1..opened
  /\ writing \in [at : {"idle", "ready", "calling"}, id : Nat, acked : SUBSET Nat]
  /\ state \in SessionState

TypeInv == NetTypes /\ ServerTypes /\ ClientTypes

-----------------------------------------------------------------------------
(* A request of kind op is waiting on connection c.                        *)
Waits(c, i, op) == i \in DOMAIN up[c] /\ up[c][i].op = op

(* The candidate connection has taken the session.                         *)
Resumed == \/ recovery \in {"read", "terminate", "install"}
           \/ recovery = "init" /\ call["recover"].res = "ok"

HoldInv ==
  /\ session.current # None => session.kept /\ session.detached = None
  /\ alive \cap closed = {}
  /\ recovery \in Recovering <=> status.is = "recovering"
  /\ recovery = "failing" => status.is = "failed"
  /\ recovery \in Recovering \ {"starts"} => start.at # "begun"
  /\ recovery = "init" =>
       /\ call["recover"].conn = opened
       /\ Len(up[opened]) <= 1 /\ \A i \in DOMAIN up[opened] : Waits(opened, i, "initialize")
  /\ Resumed /\ opened \in alive => session.current = opened
  /\ ConnectedHolds

(* Nothing is written on a connection before it is initialized.            *)
Initializes(c) == \E i \in DOMAIN up[c] : Waits(c, i, "initialize")

OrderInv ==
  /\ Resumed => ~Initializes(opened)
  /\ status.is = "connected" => ~Initializes(status.conn)
  /\ \A c \in Conns : \A i \in DOMAIN up[c] : Waits(c, i, "write") => ~Initializes(c)

(* A write on its way is in stdin already, or newer than all that is.      *)
Fresh(id) == \A i \in DOMAIN stdin : stdin[i] < id

QueuedWrite(c, i) ==
  /\ up[c][i].id <= writing.id
  /\ \A j \in DOMAIN up[c] : Waits(c, j, "write") => i = j
  /\ c = session.current => Contains(stdin, up[c][i].id) \/ Fresh(up[c][i].id)
  /\ c \notin closed => call["write"] = Calling(c, "wait") /\ up[c][i].id = writing.id

WriteInv ==
  /\ \A c \in Conns : \A i \in DOMAIN up[c] : Waits(c, i, "write") => QueuedWrite(c, i)
  /\ \A i \in DOMAIN stdin : stdin[i] <= writing.id
  /\ call["write"].res = "accepted" => Contains(stdin, writing.id)
  /\ writing.at # "calling" => call["write"] = NoCall
  /\ WrittenOnce

-----------------------------------------------------------------------------
(* The process is started once, and nothing follows its close.             *)
Unstarted == \A t \in Tasks : task[t] = "none"

LaunchInv ==
  /\ \A c \in Conns : \A i \in DOMAIN up[c] : Waits(c, i, "exec") =>
       /\ start.at \notin {"none", "begun"} /\ Unstarted
       /\ \A d \in Conns : handler[d] # "spawning"
       /\ \A d \in Conns : \A j \in DOMAIN up[d] : Waits(d, j, "exec") => d = c /\ j = i
  /\ \A c \in Conns : handler[c] = "spawning" =>
       /\ start.at \notin {"none", "begun"} /\ Unstarted
       /\ \A d \in Conns : handler[d] = "spawning" => d = c
  /\ start.at \in {"none", "begun"} => Unstarted

TraceInv ==
  /\ (\A t \in Tasks : task[t] # "none") \/ (Unstarted /\ log = <<>>)
  /\ ExitCode => task["exit"] # "read"
  /\ \A i \in DOMAIN log : log[i] = "closed" => i = Len(log) /\ OpenStreams = {} /\ ExitCode
  /\ \A t \in Tasks : task[t] \in {"send", "close"} => unsent[t] \in 1..Len(log)

LogInv == LaunchInv /\ TraceInv

(* What the server has told of the log is true of it.                      *)
Told(seq, kind) == seq \in 1..Len(log) /\ log[seq] = kind

TrueReply(r) ==
  /\ r.target <= Len(log)
  /\ \A j \in r.chunks : Told(j, "output")
  /\ r.exited => \E j \in 1..r.target : log[j] = "exited"
  /\ r.closed => Told(r.target, "closed")

SeenInv ==
  /\ \A c \in Conns : \A i \in DOMAIN inbox[c] :
       inbox[c][i].is = "event" => Told(inbox[c][i].seq, inbox[c][i].kind)
  /\ \A a \in Callers : TrueReply(call[a].read)
  /\ \A j \in DOMAIN state.pending : Told(j, state.pending[j])
  /\ SeenInOrder

IInv == TypeInv /\ HoldInv /\ OrderInv /\ WriteInv /\ LogInv /\ SeenInv

-----------------------------------------------------------------------------
(* Connections, queues and calls. *)

LEMMA Constants ==
  /\ Conns = 1..MaxConnections /\ MaxConnections \in Nat \ {0} /\ 1 \in Conns
  /\ None = 0 /\ None \notin Conns
  /\ Workloads \subseteq [outputs : Nat, writes : Nat]
  /\ "exit" \in Tasks /\ "exit" \notin Streams /\ Streams \subseteq Tasks
  /\ Callers = {"start", "cleanup", "recover", "write"}
  BY ConnectionsAssumption, WorkloadsAssumption, StreamsAssumption
     DEF Conns, None, Tasks, Callers

(* What a request of each kind looks like.                                 *)
LEMMA MsgFacts ==
  ASSUME NEW m \in Msg
  PROVE  /\ m.from \in Callers /\ m.op \in {"initialize", "read", "terminate", "exec", "write"}
         /\ m.op = "write" <=> m.from = "write"
         /\ m.op = "exec" <=> m.from = "start"
         /\ m.op \in {"initialize", "read"} => m.from = "recover"
         /\ m.op = "write" => m.id \in Nat
         /\ m.op = "read" => m.after \in Nat
  BY DEF Msg, Callers

LEMMA TailQueue ==
  ASSUME NEW S, NEW q \in Seq(S), q # <<>>
  PROVE  /\ Tail(q) \in Seq(S) /\ Len(Tail(q)) = Len(q) - 1
         /\ 1 \in DOMAIN q /\ Head(q) = q[1] /\ Head(q) \in S
         /\ \A i \in DOMAIN Tail(q) : i + 1 \in DOMAIN q /\ Tail(q)[i] = q[i + 1]
  OBVIOUS

LEMMA AppendQueue ==
  ASSUME NEW S, NEW q \in Seq(S), NEW x \in S
  PROVE  /\ Append(q, x) \in Seq(S) /\ Len(Append(q, x)) = Len(q) + 1
         /\ DOMAIN Append(q, x) = DOMAIN q \union {Len(q) + 1}
         /\ Len(q) + 1 \notin DOMAIN q /\ DOMAIN q = 1..Len(q)
         /\ \A i \in DOMAIN q : Append(q, x)[i] = q[i]
         /\ Append(q, x)[Len(q) + 1] = x
  OBVIOUS

(* The states of a call.                                                   *)
LEMMA CallTypes ==
  /\ NoRead \in Reply
  /\ \A c \in Conns \union {None} :
       Calling(c, "wait") \in CallState /\ Calling(c, "closed") \in CallState
  /\ NoCall \in CallState
  BY DEF NoRead, Reply, Calling, CallState, NoCall

LEMMA CallingFields ==
  ASSUME NEW c, NEW res
  PROVE  /\ Calling(c, res).conn = c /\ Calling(c, res).res = res
         /\ Calling(c, res).read = NoRead
  BY DEF Calling

(* A call is refused, or its request joins the queue of its connection, or *)
(* is lost.                                                                *)
LEMMA CallEffect ==
  ASSUME TypeInv, NEW a \in Callers, NEW c \in 1..opened, NEW m \in Msg, Call(a, c, m)
  PROVE  /\ call' \in [Callers -> CallState] /\ up' \in [Conns -> Seq(Msg)]
         /\ \A b \in Callers \ {a} : call'[b] = call[b]
         /\ call'[a] = Calling(c, IF c \in closed THEN "closed" ELSE "wait")
         /\ \A d \in Conns \ {c} : up'[d] = up[d]
         /\ \/ up'[c] = up[c]
            \/ c \in alive /\ c \notin closed /\ up'[c] = Append(up[c], m)
<1>1. c \in Conns
  BY Constants DEF TypeInv, NetTypes
<1>2. CASE c \in closed
  BY <1>1, <1>2, CallTypes DEF Call, TypeInv, NetTypes, ClientTypes
<1>3. CASE c \notin closed
  <2>1. up[c] \in Seq(Msg) /\ Append(up[c], m) \in Seq(Msg)
    BY <1>1 DEF TypeInv, NetTypes
  <2>2. up' = up \/ (c \in alive /\ up' = [up EXCEPT ![c] = Append(up[c], m)])
    BY <1>3 DEF Call, Push
  <2>3. call' = [call EXCEPT ![a] = Calling(c, "wait")]
    BY <1>3 DEF Call
  <2>4. Calling(c, "wait") \in CallState
    BY <1>1, CallTypes
  <2>5. /\ call' \in [Callers -> CallState] /\ call'[a] = Calling(c, "wait")
        /\ \A b \in Callers \ {a} : call'[b] = call[b]
    BY <2>3, <2>4 DEF TypeInv, ClientTypes
  <2>6. up' \in [Conns -> Seq(Msg)] /\ \A d \in Conns \ {c} : up'[d] = up[d]
    BY <1>1, <2>1, <2>2 DEF TypeInv, NetTypes
  <2>7. up'[c] = up[c] \/ (c \in alive /\ up'[c] = Append(up[c], m))
    BY <1>1, <2>2 DEF TypeInv, NetTypes
  <2> QED
    BY <1>3, <2>5, <2>6, <2>7
<1> QED
  BY <1>2, <1>3

LEMMA HangEffect ==
  ASSUME TypeInv, NEW a \in Callers, Hang(a)
  PROVE  /\ call' \in [Callers -> CallState] /\ call'[a] = NoCall
         /\ \A b \in Callers \ {a} : call'[b] = call[b]
  BY CallTypes DEF Hang, TypeInv, ClientTypes

LEMMA TakesEffect ==
  ASSUME TypeInv, NEW c \in Conns, NEW op, Takes(c, op)
  PROVE  /\ up[c] \in Seq(Msg) /\ up[c] # <<>>
         /\ up' \in [Conns -> Seq(Msg)] /\ up'[c] = Tail(up[c])
         /\ Head(up[c]) \in Msg /\ Head(up[c]).op = op
         /\ \A d \in Conns \ {c} : up'[d] = up[d]
         /\ handler[c] \in {"fresh", "session"}
<1>1. up[c] \in Seq(Msg) /\ up[c] # <<>> /\ up' = [up EXCEPT ![c] = Tail(up[c])]
  BY DEF Takes, TypeInv, NetTypes
<1>2. Tail(up[c]) \in Seq(Msg) /\ Head(up[c]) \in Msg
  BY <1>1, TailQueue
<1> QED
  BY <1>1, <1>2 DEF Takes, TypeInv, NetTypes

(* A reply reaches its caller if it still waits for it.                    *)
LEMMA RespondEffect ==
  ASSUME TypeInv, NEW c \in Conns, NEW a \in Callers, NEW read \in Reply,
         NEW res \in {"ok", "error", "unknown", "attached", "accepted"},
         Respond(c, a, res, read)
  PROVE  /\ call' \in [Callers -> CallState]
         /\ \A b \in Callers \ {a} : call'[b] = call[b]
         /\ \/ call'[a] = call[a]
            \/ /\ c \in alive /\ call[a] = Calling(c, "wait")
               /\ call'[a] = [conn |-> c, res |-> res, read |-> read]
         /\ UNCHANGED <<status, closed, inbox, recovery, start, writing, state>>
<1>1. [conn |-> c, res |-> res, read |-> read] \in CallState
  BY DEF CallState
<1> QED
  BY <1>1 DEF Respond, TypeInv, ClientTypes

LEMMA AnswersEffect ==
  ASSUME TypeInv, NEW c \in Conns, NEW op, Takes(c, op),
         NEW res \in {"ok", "error", "unknown", "attached", "accepted"}, Answers(c, res)
  PROVE  LET a == Head(up[c]).from
         IN  /\ call' \in [Callers -> CallState]
             /\ \A b \in Callers \ {a} : call'[b] = call[b]
             /\ \/ call'[a] = call[a]
                \/ /\ c \in alive /\ call[a] = Calling(c, "wait")
                   /\ call'[a] = [conn |-> c, res |-> res, read |-> NoRead]
             /\ UNCHANGED <<status, closed, inbox, recovery, start, writing, state>>
<1>1. Head(up[c]).from \in Callers
  BY TakesEffect, MsgFacts
<1> QED
  BY <1>1, RespondEffect, CallTypes DEF Answers

-----------------------------------------------------------------------------
(* Types. *)

LEMMA InitTypeInv == Init => TypeInv
<1> SUFFICES ASSUME Init PROVE TypeInv
  OBVIOUS
<1>1. NetTypes
  BY Constants DEF Init, NetTypes
<1>2. ServerTypes
  BY Constants DEF Init, ServerTypes
<1>3. ClientTypes
  <2>1. <<>> \in Pending
    <3>1. <<>> \in [{} -> Kinds]
      OBVIOUS
    <3> QED
      BY <3>1 DEF Pending
  <2>2. state \in SessionState
    BY <2>1 DEF Init, SessionState
  <2>3. call \in [Callers -> CallState]
    BY CallTypes DEF Init
  <2> QED
    BY <2>2, <2>3, Constants DEF Init, ClientTypes
<1> QED
  BY <1>1, <1>2, <1>3 DEF TypeInv

(* Steps of the server's process and its tasks.                            *)
ServerStep ==
  \/ \E s \in Streams : Output(s) \/ EndOfStream(s)
  \/ \E t \in Tasks : CheckClosed(t)
  \/ ChildExits \/ Exit \/ Retire \/ \E c \in Conns : Expire(c)

LEMMA ServerStepTypes ==
  ASSUME TypeInv, ServerStep
  PROVE  /\ TypeInv' /\ UNCHANGED <<netVars, handler, stdin, clientVars>>
<1>1. UNCHANGED <<netVars, handler, stdin, clientVars>>
  BY DEF ServerStep, Output, EndOfStream, CheckClosed, ChildExits, Exit, Retire, Expire
<1>2. ServerTypes'
  <2>1. \A k \in Kinds : Append(log, k) \in Seq(Kinds) /\ Len(Append(log, k)) \in Nat
    BY DEF TypeInv, ServerTypes
  <2>2. ASSUME NEW s \in Streams, Output(s) PROVE ServerTypes'
    BY <1>1, <2>1, <2>2, Constants DEF Output, Numbered, TypeInv, ServerTypes, Kinds
  <2>3. ASSUME NEW s \in Streams, EndOfStream(s) PROVE ServerTypes'
    BY <1>1, <2>3, Constants DEF EndOfStream, TypeInv, ServerTypes
  <2>4. ASSUME NEW t \in Tasks, CheckClosed(t) PROVE ServerTypes'
    <3>1. /\ task' \in [Tasks -> {"none", "read", "send", "check", "close", "done"}]
          /\ UNCHANGED <<session, proc>>
      BY <2>4 DEF CheckClosed, TypeInv, ServerTypes
    <3>2. log' \in Seq(Kinds) /\ unsent' \in [Tasks -> Nat]
      <4>1. \/ log' = Append(log, "closed") /\ unsent' = [unsent EXCEPT ![t] = Len(log')]
            \/ UNCHANGED <<log, unsent>>
        BY <2>4 DEF CheckClosed, Numbered
      <4>2. "closed" \in Kinds
        BY DEF Kinds
      <4>3. Append(log, "closed") \in Seq(Kinds) /\ Len(Append(log, "closed")) \in Nat
        BY <2>1, <4>2
      <4>4. log' \in Seq(Kinds) /\ (UNCHANGED unsent \/ Len(log') \in Nat)
        BY <4>1, <4>3 DEF TypeInv, ServerTypes
      <4> QED
        BY <4>1, <4>4, SMTT(30) DEF TypeInv, ServerTypes
    <3> QED
      BY <1>1, <3>1, <3>2 DEF TypeInv, ServerTypes
  <2>5. CASE ChildExits \/ Retire
    BY <1>1, <2>5 DEF ChildExits, Retire, TypeInv, ServerTypes
  <2>6. CASE Exit
    <3>1. /\ task' \in [Tasks -> {"none", "read", "send", "check", "close", "done"}]
          /\ UNCHANGED <<session, proc>>
      BY <2>6, Constants DEF Exit, TypeInv, ServerTypes
    <3>2. log' \in Seq(Kinds) /\ unsent' \in [Tasks -> Nat]
      <4>1. \/ log' = Append(log, "exited") /\ unsent' = [unsent EXCEPT !["exit"] = Len(log')]
            \/ UNCHANGED <<log, unsent>>
        BY <2>6 DEF Exit, Numbered
      <4>2. "exited" \in Kinds
        BY DEF Kinds
      <4>3. Append(log, "exited") \in Seq(Kinds) /\ Len(Append(log, "exited")) \in Nat
        BY <2>1, <4>2
      <4>4. log' \in Seq(Kinds) /\ (UNCHANGED unsent \/ Len(log') \in Nat)
        BY <4>1, <4>3 DEF TypeInv, ServerTypes
      <4> QED
        BY <4>1, <4>4, Constants DEF TypeInv, ServerTypes
    <3> QED
      BY <1>1, <3>1, <3>2 DEF TypeInv, ServerTypes
  <2>7. ASSUME NEW c \in Conns, Expire(c) PROVE ServerTypes'
    <3>1. session' \in [kept : BOOLEAN, current : Conns \union {None},
                        detached : Conns \union {None}, timers : SUBSET Conns]
      <4>1. session.timers \ {c} \in SUBSET Conns
        BY DEF TypeInv, ServerTypes
      <4>2. \/ session' = [session EXCEPT !.timers = session.timers \ {c}, !.kept = FALSE]
            \/ session' = [session EXCEPT !.timers = session.timers \ {c}]
        BY <2>7 DEF Expire, TypeInv, ServerTypes
      <4> QED
        BY <4>1, <4>2 DEF TypeInv, ServerTypes
    <3>2. proc' \in [entry : {"none", "starting", "running"}, child : {"none", "up", "dead"}]
      BY <2>7 DEF Expire, Drained, TypeInv, ServerTypes
    <3> QED
      BY <1>1, <2>7, <3>1, <3>2 DEF Expire, TypeInv, ServerTypes
  <2> QED
    BY <2>2, <2>3, <2>4, <2>5, <2>6, <2>7 DEF ServerStep
<1> QED
  BY <1>1, <1>2 DEF TypeInv, NetTypes, ClientTypes, netVars, clientVars

LEMMA BreakTypes ==
  ASSUME TypeInv, NEW c \in Conns, Break(c)
  PROVE  TypeInv'
<1>1. NetTypes'
  BY DEF Break, TypeInv, NetTypes, clientVars
<1> QED
  BY <1>1 DEF Break, TypeInv, ServerTypes, ClientTypes, serverVars, clientVars

LEMMA NotifyTypes ==
  ASSUME TypeInv, NEW t \in Tasks, Notify(t), unsent[t] \in 1..Len(log)
  PROVE  TypeInv'
<1>1. ServerTypes'
  <2>1. task' \in [Tasks -> {"none", "read", "send", "check", "close", "done"}]
    BY DEF Notify, TypeInv, ServerTypes
  <2>2. unsent' \in [Tasks -> Nat]
    BY Constants DEF Notify, TypeInv, ServerTypes
  <2> QED
    BY <2>1, <2>2 DEF Notify, TypeInv, ServerTypes
<1>2. inbox' \in [Conns -> Seq(Event)]
  <2>1. Note(unsent[t]) \in Event
    <3>1. log[unsent[t]] \in Kinds /\ unsent[t] \in Nat
      BY DEF TypeInv, ServerTypes
    <3> QED
      BY <3>1 DEF Note, Event
  <2>2. \A c \in Conns : inbox[c] \in Seq(Event) /\ Append(inbox[c], Note(unsent[t])) \in Seq(Event)
    BY <2>1 DEF TypeInv, ClientTypes
  <2>3. \/ inbox' = inbox
        \/ inbox' = [inbox EXCEPT ![session.current] =
                       Append(inbox[session.current], Note(unsent[t]))]
    BY DEF Notify, Push
  <2>4. session.current \in Conns \union {None}
    BY DEF TypeInv, ServerTypes
  <2> QED
    BY <2>2, <2>3, <2>4 DEF TypeInv, ClientTypes
<1> QED
  BY <1>1, <1>2, SMTT(30) DEF Notify, TypeInv, NetTypes, ClientTypes, netVars

(* A handler's step on the server.                                         *)
LEMMA AttachTypes ==
  ASSUME TypeInv, NEW c \in Conns, Attach(c)
  PROVE  TypeInv'
<1>1. Takes(c, "initialize") /\ UNCHANGED <<load, opened, alive, task, unsent, log, stdin>>
  BY DEF Attach
<1>2. \E res \in {"ok", "unknown", "attached"} : Answers(c, res)
  BY DEF Attach
<1>3. /\ call' \in [Callers -> CallState]
      /\ UNCHANGED <<status, closed, inbox, recovery, start, writing, state>>
  BY <1>1, <1>2, AnswersEffect
<1>4. handler' \in [Conns -> {"none", "fresh", "session", "spawning", "shut"}]
  BY DEF Attach, TypeInv, ServerTypes
<1>5. session' \in [kept : BOOLEAN, current : Conns \union {None},
                    detached : Conns \union {None}, timers : SUBSET Conns]
  BY DEF Attach, TypeInv, ServerTypes
<1>6. proc' \in [entry : {"none", "starting", "running"}, child : {"none", "up", "dead"}]
  BY DEF Attach, Drained, TypeInv, ServerTypes
<1>7. NetTypes'
  BY <1>1, <1>3, TakesEffect DEF TypeInv, NetTypes
<1>8. ServerTypes'
  BY <1>1, <1>4, <1>5, <1>6 DEF TypeInv, ServerTypes
<1>9. ClientTypes'
  BY <1>1, <1>3 DEF TypeInv, ClientTypes
<1> QED
  BY <1>7, <1>8, <1>9 DEF TypeInv

LEMMA ServeExecTypes ==
  ASSUME TypeInv, NEW c \in Conns, ServeExec(c)
  PROVE  TypeInv'
<1>1. /\ Takes(c, "exec")
      /\ UNCHANGED <<load, opened, alive, session, task, unsent, log, stdin>>
  BY DEF ServeExec
<1>2. /\ call' \in [Callers -> CallState]
      /\ UNCHANGED <<status, closed, inbox, recovery, start, writing, state>>
  <2>1. Answers(c, "error") \/ UNCHANGED clientVars
    BY DEF ServeExec
  <2> QED
    BY <1>1, <2>1, AnswersEffect DEF clientVars, TypeInv, ClientTypes
<1>3. ServerTypes'
  BY <1>1 DEF ServeExec, TypeInv, ServerTypes
<1> QED
  BY <1>1, <1>2, <1>3, TakesEffect, SMTT(30) DEF TypeInv, NetTypes, ClientTypes

LEMMA SpawnedTypes ==
  ASSUME TypeInv, NEW c \in Conns, Spawned(c)
  PROVE  TypeInv'
<1>1. /\ call' \in [Callers -> CallState]
      /\ UNCHANGED <<status, closed, inbox, recovery, start, writing, state>>
  <2>1. Respond(c, "start", "ok", NoRead) \/ Respond(c, "start", "error", NoRead)
    BY DEF Spawned
  <2> QED
    BY <2>1, RespondEffect, CallTypes, Constants
<1>2. UNCHANGED <<netVars, session, unsent, log, stdin>>
  BY DEF Spawned
<1>3. ServerTypes'
  BY <1>2 DEF Spawned, TypeInv, ServerTypes
<1> QED
  BY <1>1, <1>2, <1>3 DEF TypeInv, NetTypes, ClientTypes, netVars

LEMMA RetainedType ==
  ASSUME TypeInv, NEW after \in Nat
  PROVE  ReadResponse(after) \in Reply
<1>1. {i \in Retained : i > after} \in SUBSET Nat
  BY DEF Retained, TypeInv, ServerTypes
<1>2. Len(log) \in Nat /\ ExitCode \in BOOLEAN /\ ProcClosed \in BOOLEAN
  BY DEF TypeInv, ServerTypes, ExitCode, ProcClosed, Contains
<1> QED
  BY <1>1, <1>2, Zenon DEF ReadResponse, Reply

(* The requests that are answered at once.                                 *)
LEMMA ServeTypes ==
  ASSUME TypeInv, NEW c \in Conns, ServeRead(c) \/ ServeTerminate(c) \/ ServeWrite(c)
  PROVE  TypeInv'
<1>1. CASE ServeRead(c)
  <2>1. Takes(c, "read") /\ UNCHANGED <<load, opened, alive, serverVars>>
    BY <1>1 DEF ServeRead
  <2>2. Head(up[c]).from \in Callers /\ Head(up[c]).after \in Nat
    BY <2>1, TakesEffect, MsgFacts
  <2>3. \/ Respond(c, Head(up[c]).from, "ok", ReadResponse(Head(up[c]).after))
        \/ Answers(c, "error")
    BY <1>1 DEF ServeRead
  <2>4. /\ call' \in [Callers -> CallState]
        /\ UNCHANGED <<status, closed, inbox, recovery, start, writing, state>>
    BY <2>1, <2>2, <2>3, RespondEffect, AnswersEffect, RetainedType
  <2> QED
    <3>1. ServerTypes'
      BY <2>1 DEF TypeInv, ServerTypes, serverVars
    <3>2. NetTypes'
      BY <2>1, <2>4, TakesEffect DEF TypeInv, NetTypes
    <3>3. ClientTypes'
      BY <2>1, <2>4 DEF TypeInv, ClientTypes
    <3> QED
      BY <3>1, <3>2, <3>3 DEF TypeInv
<1>2. CASE ServeTerminate(c)
  <2>1. /\ Takes(c, "terminate") /\ Answers(c, "ok")
        /\ UNCHANGED <<load, opened, alive, handler, session, task, unsent, log, stdin>>
    BY <1>2 DEF ServeTerminate
  <2>2. ServerTypes'
    BY <1>2 DEF ServeTerminate, TypeInv, ServerTypes
  <2> QED
    BY <2>1, <2>2, TakesEffect, AnswersEffect, ZenonT(60) DEF TypeInv, NetTypes, ClientTypes
<1>3. CASE ServeWrite(c)
  <2>1. /\ Takes(c, "write") /\ (Answers(c, "error") \/ Answers(c, "accepted"))
        /\ UNCHANGED <<load, opened, alive, handler, session, proc, task, unsent, log>>
    BY <1>3 DEF ServeWrite
  <2>2. Head(up[c]).id \in Nat
    BY <2>1, TakesEffect, MsgFacts
  <2>3. ServerTypes'
    <3>1. stdin \in Seq(Nat) /\ Append(stdin, Head(up[c]).id) \in Seq(Nat)
      BY <2>2 DEF TypeInv, ServerTypes
    <3>2. stdin' \in Seq(Nat)
      BY <1>3, <3>1 DEF ServeWrite
    <3> QED
      BY <2>1, <3>2 DEF TypeInv, ServerTypes
  <2> QED
    BY <2>1, <2>3, TakesEffect, AnswersEffect, ZenonT(60) DEF TypeInv, NetTypes, ClientTypes
<1> QED
  BY <1>1, <1>2, <1>3

LEMMA DisconnectTypes ==
  ASSUME TypeInv, NEW c \in Conns, Disconnect(c)
  PROVE  TypeInv'
<1>1. NetTypes'
  <2>1. <<>> \in Seq(Msg)
    OBVIOUS
  <2> QED
    BY <2>1 DEF Disconnect, TypeInv, NetTypes, clientVars
<1>2. ServerTypes'
  BY DEF Disconnect, TypeInv, ServerTypes
<1> QED
  BY <1>1, <1>2 DEF Disconnect, TypeInv, ClientTypes, clientVars

LEMMA ReadClosedTypes ==
  ASSUME TypeInv, NEW c \in Conns, ReadClosed(c)
  PROVE  TypeInv'
<1>1. c \in 1..opened /\ closed' = closed \union {c}
  BY DEF ReadClosed, TypeInv, NetTypes
<1>2. PICK lost \in SUBSET {a \in Callers : call[a].conn = c}, n \in 0..Len(inbox[c]) :
        /\ call' = [a \in Callers |-> IF a \in lost THEN Calling(c, "closed") ELSE call[a]]
        /\ inbox' = [inbox EXCEPT ![c] = Append(SubSeq(inbox[c], 1, n), Closing)]
  BY DEF ReadClosed
<1>3. inbox' \in [Conns -> Seq(Event)]
  <2>1. inbox[c] \in Seq(Event) /\ Closing \in Event
    BY DEF TypeInv, ClientTypes, Closing, Event
  <2>2. SubSeq(inbox[c], 1, n) \in Seq(Event)
    BY <2>1
  <2>3. Append(SubSeq(inbox[c], 1, n), Closing) \in Seq(Event)
    BY <2>1, <2>2
  <2> QED
    BY <1>2, <2>3 DEF TypeInv, ClientTypes
<1>4. call' \in [Callers -> CallState]
  BY <1>2, CallTypes DEF TypeInv, ClientTypes
<1> QED
  <2>1. NetTypes'
    BY <1>1 DEF ReadClosed, TypeInv, NetTypes, netVars
  <2>2. ServerTypes'
    BY DEF ReadClosed, TypeInv, ServerTypes, serverVars
  <2>3. ClientTypes'
    BY <1>3, <1>4 DEF ReadClosed, TypeInv, ClientTypes, netVars
  <2> QED
    BY <2>1, <2>2, <2>3 DEF TypeInv

-----------------------------------------------------------------------------
(* What is published.                                                      *)

(* A set of numbers has a least one, and a bounded one a greatest.         *)
LEMMA LeastOf ==
  ASSUME NEW S, S \subseteq Nat, S # {}
  PROVE  \E x \in S : \A y \in S : x <= y
<1>1. PICK x \in S : \A y \in S : ~(<<y, x>> \in OpToRel(<, Nat))
  BY NatLessThanWellFounded, WFMin
<1>2. \A y \in S : ~(y < x)
  BY <1>1 DEF OpToRel
<1> QED
  BY <1>2

LEMMA GreatestOf ==
  ASSUME NEW n \in Nat, NEW S, S \subseteq 0..n, S # {}
  PROVE  Max(S) \in S /\ \A y \in S : Max(S) >= y
<1> DEFINE T == {n - y : y \in S}
<1>1. T \subseteq Nat
  OBVIOUS
<1>2. T # {}
  OBVIOUS
<1>3. PICK k \in T : \A j \in T : k <= j
  BY <1>1, <1>2, LeastOf
<1>4. PICK x \in S : k = n - x
  OBVIOUS
<1>5. \A y \in S : n - x <= n - y
  BY <1>3, <1>4
<1>6. \A y \in S : x >= y
  BY <1>5
<1> QED
  BY <1>6 DEF Max

(* or_insert keeps what is there.                                          *)
LEMMA OrInsertFacts ==
  ASSUME NEW p \in Pending, NEW seqs \in SUBSET Nat, NEW k \in Kinds
  PROVE  /\ OrInsert(p, seqs, k) \in Pending
         /\ DOMAIN OrInsert(p, seqs, k) = DOMAIN p \union seqs
         /\ \A i \in DOMAIN p : OrInsert(p, seqs, k)[i] = p[i]
         /\ \A i \in seqs \ DOMAIN p : OrInsert(p, seqs, k)[i] = k
<1>1. PICK S \in SUBSET Nat : p \in [S -> Kinds]
  BY DEF Pending
<1>2. OrInsert(p, seqs, k) \in [S \union seqs -> Kinds]
  BY <1>1 DEF OrInsert
<1>3. S \union seqs \in SUBSET Nat
  OBVIOUS
<1>4. OrInsert(p, seqs, k) \in Pending
  BY <1>2, <1>3 DEF Pending
<1> QED
  BY <1>1, <1>4 DEF OrInsert

(* How far publish_ready gets: to a number all events up to which are      *)
(* there.                                                                  *)
Reached(st, p) ==
  Max({Len(st.seen)} \union {j \in DOMAIN p : (Len(st.seen) + 1)..j \subseteq DOMAIN p})

LEMMA ReachedFacts ==
  ASSUME NEW st \in SessionState, NEW p \in Pending, NEW n \in Nat,
         Len(st.seen) <= n, DOMAIN p \subseteq 1..n
  PROVE  /\ Reached(st, p) \in Len(st.seen)..n
         /\ (Len(st.seen) + 1)..Reached(st, p) \subseteq DOMAIN p
<1> DEFINE last == Len(st.seen)
           S == {last} \union {j \in DOMAIN p : (last + 1)..j \subseteq DOMAIN p}
<1>1. last \in Nat
  BY DEF SessionState
<1>2. S \subseteq 0..n /\ S # {}
  BY <1>1
<1>3. Reached(st, p) \in S /\ Reached(st, p) >= last
  BY <1>2, GreatestOf DEF Reached
<1> HIDE DEF last
<1>4. CASE Reached(st, p) = last
  BY <1>1, <1>4 DEF last
<1>5. CASE Reached(st, p) # last
  <2>1. Reached(st, p) \in DOMAIN p /\ (last + 1)..Reached(st, p) \subseteq DOMAIN p
    BY <1>3, <1>5
  <2>2. Reached(st, p) \in 1..n
    BY <2>1
  <2> QED
    BY <1>1, <1>3, <2>1, <2>2 DEF last
<1> QED
  BY <1>4, <1>5

(* What publish_ready makes of a session state.                            *)
LEMMA PublishedFacts ==
  ASSUME NEW st \in SessionState, NEW p \in Pending, NEW n \in Nat,
         Len(st.seen) <= n, DOMAIN p \subseteq 1..n
  PROVE  LET r == Published(st, p)
             m == Reached(st, p)
         IN  /\ r \in SessionState
             /\ r.seen = st.seen \o [i \in 1..(m - Len(st.seen)) |-> p[Len(st.seen) + i]]
             /\ DOMAIN r.pending \subseteq DOMAIN p
             /\ \A j \in DOMAIN r.pending : r.pending[j] = p[j]
<1> DEFINE last == Len(st.seen)
           m == Reached(st, p)
           new == [i \in 1..(m - last) |-> p[last + i]]
           seen == st.seen \o new
           rest == [j \in DOMAIN p \ 1..m |-> p[j]]
           reg == IF Contains(seen, "closed") THEN "gone" ELSE st.reg
<1>1. last \in Nat /\ m \in last..n /\ (last + 1)..m \subseteq DOMAIN p
  BY ReachedFacts DEF SessionState
<1>2. PICK S \in SUBSET Nat : p \in [S -> Kinds]
  BY DEF Pending
<1> HIDE DEF last, m
<1>3. new \in Seq(Kinds)
  <2>1. m - last \in Nat
    BY <1>1
  <2>2. \A i \in 1..(m - last) : last + i \in DOMAIN p
    BY <1>1
  <2>3. new \in [1..(m - last) -> Kinds]
    BY <1>2, <2>2
  <2> QED
    BY <2>1, <2>3
<1>4. seen \in Seq(Kinds)
  BY <1>3 DEF SessionState
<1>5. rest \in Pending
  <2>1. rest \in [S \ 1..m -> Kinds]
    BY <1>2
  <2>2. S \ 1..m \in SUBSET Nat
    OBVIOUS
  <2> QED
    BY <2>1, <2>2 DEF Pending
<1>6. reg \in {"none", "present", "gone"}
  BY DEF SessionState
<1>7. Published(st, p) = [st EXCEPT !.seen = seen, !.pending = rest, !.reg = reg]
  BY DEF Published, Reached, last, m, SessionState
<1> HIDE DEF seen, rest, reg
<1>8. /\ Published(st, p) \in SessionState
      /\ Published(st, p).seen = seen /\ Published(st, p).pending = rest
  BY <1>4, <1>5, <1>6, <1>7 DEF SessionState
<1> QED
  BY <1>8 DEF seen, rest, last, m

LEMMA PrefixFacts ==
  ASSUME NEW s \in Seq(Kinds), NEW t \in Seq(Kinds)
  PROVE  IsPrefix(s, t) <=> Len(s) <= Len(t) /\ \A i \in 1..Len(s) : s[i] = t[i]
<1>1. Len(s) <= Len(t) =>
        (SubSeq(s, 1, Len(s)) = SubSeq(t, 1, Len(s)) <=> \A i \in 1..Len(s) : s[i] = t[i])
  <2> SUFFICES ASSUME Len(s) <= Len(t)
               PROVE  SubSeq(s, 1, Len(s)) = SubSeq(t, 1, Len(s))
                        <=> \A i \in 1..Len(s) : s[i] = t[i]
    OBVIOUS
  <2>1. /\ SubSeq(s, 1, Len(s)) = [i \in 1..Len(s) |-> s[i]]
        /\ SubSeq(t, 1, Len(s)) = [i \in 1..Len(s) |-> t[i]]
    OBVIOUS
  <2> HIDE DEF IsPrefix
  <2>2. ASSUME SubSeq(s, 1, Len(s)) = SubSeq(t, 1, Len(s)), NEW i \in 1..Len(s)
        PROVE  s[i] = t[i]
    BY <2>1, <2>2
  <2>3. ASSUME \A i \in 1..Len(s) : s[i] = t[i]
        PROVE  [i \in 1..Len(s) |-> s[i]] = [i \in 1..Len(s) |-> t[i]]
    BY <2>3
  <2> QED
    BY <2>1, <2>2, <2>3
<1> QED
  BY <1>1 DEF IsPrefix

(* A session state that agrees with the log.                               *)
TrueState(st) ==
  /\ st \in SessionState
  /\ \A j \in DOMAIN st.pending : Told(j, st.pending[j])
  /\ IsPrefix(st.seen, log)

LEMMA TruePublished ==
  ASSUME TypeInv, NEW st, TrueState(st), NEW p \in Pending, \A j \in DOMAIN p : Told(j, p[j])
  PROVE  TrueState(Published(st, p))
<1> DEFINE r == Published(st, p)
           m == Reached(st, p)
           last == Len(st.seen)
           new == [i \in 1..(m - last) |-> p[last + i]]
<1>1. st \in SessionState /\ log \in Seq(Kinds) /\ Len(log) \in Nat /\ st.seen \in Seq(Kinds)
  BY DEF TrueState, SessionState, TypeInv, ServerTypes
<1>2. last \in Nat /\ last <= Len(log) /\ \A i \in 1..last : st.seen[i] = log[i]
  BY <1>1, PrefixFacts DEF TrueState
<1>3. DOMAIN p \subseteq 1..Len(log)
  BY DEF Told
<1>4. /\ r \in SessionState /\ r.seen = st.seen \o new
      /\ DOMAIN r.pending \subseteq DOMAIN p
      /\ \A j \in DOMAIN r.pending : r.pending[j] = p[j]
  BY <1>1, <1>2, <1>3, PublishedFacts
<1>5. m \in last..Len(log) /\ (last + 1)..m \subseteq DOMAIN p
  BY <1>1, <1>2, <1>3, ReachedFacts
<1>6. IsPrefix(r.seen, log)
  <2>1. r.seen \in Seq(Kinds)
    BY <1>4 DEF SessionState
  <2> HIDE DEF r, m
  <2>2. \A i \in 1..(m - last) : last + i \in DOMAIN p /\ new[i] = log[last + i]
    BY <1>2, <1>5, SMTT(30) DEF Told
  <2>3. new \in Seq(Kinds) /\ Len(new) = m - last
    <3>1. \A i \in 1..(m - last) : log[last + i] \in Kinds
      BY <1>1, <1>2, <1>5
    <3>2. m - last \in Nat
      BY <1>2, <1>5
    <3>3. \A i \in 1..(m - last) : new[i] \in Kinds
      BY <2>2, <3>1
    <3> HIDE DEF last
    <3>4. new \in [1..(m - last) -> Kinds]
      BY <3>3
    <3> QED
      <4> DEFINE k == m - last
      <4>1. new \in [1..k -> Kinds] /\ k \in Nat
        BY <3>2, <3>4
      <4> HIDE DEF k, new
      <4>2. new \in Seq(Kinds) /\ Len(new) = k
        BY <4>1
      <4> QED
        BY <4>2 DEF k
  <2> HIDE DEF new
  <2>4. Len(r.seen) = m /\ m <= Len(log)
    BY <1>1, <1>2, <1>4, <1>5, <2>3
  <2>5. ASSUME NEW i \in 1..m PROVE r.seen[i] = log[i]
    <3>1. CASE i <= last
      BY <1>1, <1>2, <1>4, <1>5, <2>3, <3>1
    <3>2. CASE i > last
      <4>1. i - last \in 1..(m - last) /\ last + (i - last) = i
        BY <1>2, <1>5, <3>2
      <4>2. r.seen[i] = new[i - last]
        BY <1>1, <1>2, <1>4, <1>5, <2>3, <3>2
      <4> QED
        BY <2>2, <4>1, <4>2
    <3> QED
      BY <1>2, <1>5, <3>1, <3>2
  <2> QED
    BY <1>1, <2>1, <2>4, <2>5, PrefixFacts
<1> QED
  BY <1>4, <1>6 DEF TrueState

LEMMA ToldInsert ==
  ASSUME NEW p \in Pending, NEW seqs \in SUBSET Nat, NEW k \in Kinds,
         \A j \in DOMAIN p : Told(j, p[j]), \A j \in seqs : Told(j, k)
  PROVE  /\ OrInsert(p, seqs, k) \in Pending
         /\ \A j \in DOMAIN OrInsert(p, seqs, k) : Told(j, OrInsert(p, seqs, k)[j])
<1>1. /\ OrInsert(p, seqs, k) \in Pending
      /\ DOMAIN OrInsert(p, seqs, k) = DOMAIN p \union seqs
      /\ \A i \in DOMAIN p : OrInsert(p, seqs, k)[i] = p[i]
      /\ \A i \in seqs \ DOMAIN p : OrInsert(p, seqs, k)[i] = k
  BY OrInsertFacts, Zenon
<1>2. ASSUME NEW j \in DOMAIN OrInsert(p, seqs, k)
      PROVE  Told(j, OrInsert(p, seqs, k)[j])
  <2>1. CASE j \in DOMAIN p
    BY <1>1, <2>1
  <2>2. CASE j \in seqs \ DOMAIN p
    BY <1>1, <2>2
  <2> QED
    BY <1>1, <2>1, <2>2
<1> QED
  BY <1>1, <1>2

LEMMA TruePublishEvent ==
  ASSUME TypeInv, NEW st, TrueState(st), NEW m \in Event, Told(m.seq, m.kind)
  PROVE  TrueState(PublishEvent(st, m))
<1>1. m.kind \in Kinds /\ {m.seq} \in SUBSET Nat /\ st.pending \in Pending
  BY DEF Told, TypeInv, ServerTypes, TrueState, SessionState
<1>2. TrueState(Published(st, OrInsert(st.pending, {m.seq}, m.kind)))
  BY <1>1, ToldInsert, TruePublished DEF TrueState
<1> QED
  BY <1>2 DEF PublishEvent

(* The exit that recovery infers is where the process had it.              *)
LEMMA TrueRecovered ==
  ASSUME TypeInv, NEW st, TrueState(st), NEW r \in Reply, TrueReply(r)
  PROVE  TrueState(Recovered(st, r).st)
<1> DEFINE last == Len(st.seen)
           chunks == OrInsert(st.pending, {j \in r.chunks : j > last}, "output")
           filled == IF r.closed THEN OrInsert(chunks, {r.target}, "closed") ELSE chunks
           exitKnown == Contains(st.seen, "exited")
                          \/ \E i \in DOMAIN filled : i <= r.target /\ filled[i] = "exited"
           missing == {i \in (last + 1)..r.target : i \notin DOMAIN filled}
<1>1. /\ st.pending \in Pending /\ st.seen \in Seq(Kinds) /\ last \in Nat
      /\ r.chunks \in SUBSET Nat /\ r.target \in Nat
      /\ log \in Seq(Kinds) /\ Len(log) \in Nat
      /\ "output" \in Kinds /\ "closed" \in Kinds /\ "exited" \in Kinds
  BY DEF TrueState, SessionState, Reply, TypeInv, ServerTypes, Kinds
<1>2. chunks \in Pending /\ \A j \in DOMAIN chunks : Told(j, chunks[j])
  <2>1. {j \in r.chunks : j > last} \in SUBSET Nat
    BY <1>1
  <2>2. \A j \in {j \in r.chunks : j > last} : Told(j, "output")
    BY DEF TrueReply
  <2> QED
    BY <1>1, <2>1, <2>2, ToldInsert DEF TrueState
<1> HIDE DEF chunks
<1>3. filled \in Pending /\ \A j \in DOMAIN filled : Told(j, filled[j])
  <2>1. CASE r.closed
    <3>1. {r.target} \in SUBSET Nat /\ \A j \in {r.target} : Told(j, "closed")
      BY <1>1, <2>1 DEF TrueReply
    <3> QED
      BY <1>1, <1>2, <2>1, <3>1, ToldInsert
  <2>2. CASE ~r.closed
    BY <1>2, <2>2
  <2> QED
    BY <2>1, <2>2
<1> HIDE DEF filled
<1>4. last <= Len(log) /\ \A i \in 1..last : st.seen[i] = log[i]
  BY <1>1, PrefixFacts DEF TrueState
<1>5. ASSUME r.exited, ~exitKnown, Cardinality(missing) = 1
      PROVE  \A j \in missing : Told(j, "exited")
  <2>1. PICK p \in 1..r.target : log[p] = "exited"
    BY <1>5 DEF TrueReply
  <2>2. p > last
    <3> SUFFICES ASSUME p <= last PROVE FALSE
      BY <1>1
    <3>1. p \in 1..last /\ st.seen[p] = "exited"
      BY <1>1, <1>4, <2>1
    <3> QED
      BY <1>1, <1>5, <3>1 DEF Contains
  <2>3. p \notin DOMAIN filled
    BY <1>1, <1>3, <1>5, <2>1 DEF Told
  <2>4. p \in missing
    BY <1>1, <2>1, <2>2, <2>3
  <2>5. IsFiniteSet(missing)
    <3>1. last + 1 \in Int /\ r.target \in Int
      BY <1>1
    <3>2. IsFiniteSet((last + 1)..r.target)
      BY <3>1, FS_Interval
    <3> QED
      BY <3>2, FS_Subset
  <2>6. missing = {p}
    <3>1. \E x : missing = {x}
      BY <1>5, <2>5, FS_Singleton
    <3> QED
      BY <2>4, <3>1
  <2>7. p \in 1..Len(log)
    BY <1>1, <2>1 DEF TrueReply
  <2> QED
    BY <2>1, <2>6, <2>7 DEF Told
<1>6. missing \in SUBSET Nat
  BY <1>1
<1>7. ASSUME r.exited, ~exitKnown, Cardinality(missing) = 1
      PROVE  TrueState(Published(st, OrInsert(filled, missing, "exited")))
  BY <1>1, <1>3, <1>5, <1>6, <1>7, ToldInsert, TruePublished
<1>8. TrueState(Published(st, filled))
  BY <1>3, TruePublished
<1>9. TrueState([st EXCEPT !.pending = filled])
  <2>1. [st EXCEPT !.pending = filled] \in SessionState
    BY <1>3 DEF TrueState, SessionState
  <2>2. /\ [st EXCEPT !.pending = filled].pending = filled
        /\ [st EXCEPT !.pending = filled].seen = st.seen
    BY DEF TrueState, SessionState
  <2> QED
    BY <1>3, <2>1, <2>2 DEF TrueState
<1> QED
  <2>1. Recovered(st, r).st \in {st, Published(st, filled), [st EXCEPT !.pending = filled]}
         \/ (/\ r.exited /\ ~exitKnown /\ Cardinality(missing) = 1
             /\ Recovered(st, r).st = Published(st, OrInsert(filled, missing, "exited")))
    <3> DEFINE conflict == r.closed /\ filled[r.target] # "closed"
               infers == r.exited /\ ~exitKnown
    <3> HIDE DEF missing, exitKnown, conflict
    <3>1. Recovered(st, r) =
            IF Over(st) \/ r.target <= last THEN [ok |-> TRUE, st |-> st]
            ELSE IF ~conflict /\ infers /\ Cardinality(missing) = 1
              THEN [ok |-> TRUE, st |-> Published(st, OrInsert(filled, missing, "exited"))]
            ELSE IF ~conflict /\ ~infers /\ missing = {}
              THEN [ok |-> TRUE, st |-> Published(st, filled)]
            ELSE [ok |-> FALSE, st |-> [st EXCEPT !.pending = filled]]
      BY DEF Recovered, chunks, filled, missing, exitKnown, conflict
    <3> QED
      BY <3>1
  <2> QED
    BY <1>7, <1>8, <1>9, <2>1

LEMMA TrueSetFailure ==
  ASSUME NEW st, TrueState(st)
  PROVE  TrueState(SetFailure(st))
<1>1. <<>> \in Pending /\ DOMAIN <<>> = {}
  <2>1. <<>> \in [{} -> Kinds]
    OBVIOUS
  <2> QED
    BY <2>1 DEF Pending
<1> DEFINE a == [st EXCEPT !.reg = "gone"]
           b == [st EXCEPT !.reg = "gone", !.failed = TRUE, !.pending = <<>>]
<1>2. a \in SessionState /\ a.pending = st.pending /\ a.seen = st.seen
  BY DEF TrueState, SessionState
<1>3. b \in SessionState /\ b.pending = <<>> /\ b.seen = st.seen
  BY <1>1 DEF TrueState, SessionState
<1>4. TrueState(a) /\ TrueState(b)
  <2> HIDE DEF a, b
  <2> QED
    BY <1>1, <1>2, <1>3 DEF TrueState
<1> QED
  BY <1>4 DEF SetFailure

LEMMA HandleEventTypes ==
  ASSUME TypeInv, SeenInv, NEW c \in Conns, HandleEvent(c)
  PROVE  TypeInv' /\ TrueState(state')
<1>1. inbox[c] \in Seq(Event) /\ inbox[c] # <<>>
  BY DEF HandleEvent, TypeInv, ClientTypes
<1>2. /\ Tail(inbox[c]) \in Seq(Event) /\ Head(inbox[c]) \in Event
      /\ Head(inbox[c]) = inbox[c][1] /\ 1 \in DOMAIN inbox[c]
  BY <1>1, TailQueue
<1>3. /\ UNCHANGED <<netVars, serverVars, closed, call, start, writing>>
      /\ inbox' = [inbox EXCEPT ![c] = Tail(inbox[c])]
  BY DEF HandleEvent, TypeInv, ClientTypes
<1>4. TrueState(state)
  BY DEF TrueState, SeenInv, SeenInOrder, TypeInv, ClientTypes
<1>5. TrueState(state')
  <2>1. CASE Head(inbox[c]).is = "event"
    <3>1. Told(Head(inbox[c]).seq, Head(inbox[c]).kind)
      BY <1>2, <2>1 DEF SeenInv
    <3> QED
      BY <1>2, <1>4, <2>1, <3>1, TruePublishEvent DEF HandleEvent
  <2>2. CASE Head(inbox[c]).is # "event"
    BY <1>4, <2>2 DEF HandleEvent
  <2> QED
    BY <2>1, <2>2
<1>6. /\ status' \in [is : {"connected", "recovering", "failed"}, conn : Conns \union {None}]
      /\ status'.is = "connected" => status' = status
      /\ recovery' \in Recovering \union {"idle", "failing"}
  BY DEF HandleEvent, TypeInv, ClientTypes, Recovering
<1>7. NetTypes' /\ ServerTypes'
  BY <1>3 DEF TypeInv, NetTypes, ServerTypes, netVars, serverVars
<1>8. inbox' \in [Conns -> Seq(Event)]
  BY <1>2, <1>3 DEF TypeInv, ClientTypes
<1>9. state' \in SessionState
  BY <1>5 DEF TrueState
<1> QED
  BY <1>3, <1>5, <1>6, <1>7, <1>8, <1>9 DEF TypeInv, ClientTypes, netVars

-----------------------------------------------------------------------------
(* Recovery, by what its steps do.                                         *)
GivesUp == (Retry \/ Fail) /\ UNCHANGED <<serverVars, start, writing>>
Asks(m, at) == Ask(m, at) /\ UNCHANGED <<serverVars, start, writing>>
Proceeds == /\ recovery' = "install" /\ Hang("recover")
            /\ UNCHANGED <<netVars, status, closed, inbox, serverVars, start, writing>>
Installs == /\ recovery = "install" /\ opened \notin closed
            /\ status' = [is |-> "connected", conn |-> opened] /\ recovery' = "idle"
            /\ UNCHANGED <<netVars, serverVars, closed, inbox, call, start, writing, state>>

RecoveryAsk(m) == m \in [from : {"recover"}, op : {"read"}, after : Nat]
                 \union [from : {"recover"}, op : {"terminate"}]

RecoveryStep ==
  \/ recovery \in Recovering /\ (recovery' = "connect" => recovery # "starts") /\ GivesUp
  \/ /\ Resumed /\ recovery # "install" /\ TrueState(state')
     /\ \E m \in Msg, at \in {"read", "terminate"} : RecoveryAsk(m) /\ Asks(m, at)
  \/ Resumed /\ recovery # "install" /\ TrueState(state') /\ Proceeds
  \/ Installs

LEMMA RecoverCases ==
  ASSUME TypeInv, SeenInv,
         Initialized \/ ReadAnswered \/ TerminateAnswered \/ Install \/ RecoveryTimeout
  PROVE  RecoveryStep
<1>1. TrueState(state)
  BY DEF TrueState, SeenInv, SeenInOrder, TypeInv, ClientTypes
<1>2. LET m == [from |-> "recover", op |-> "terminate"] IN m \in Msg /\ RecoveryAsk(m)
  BY DEF Msg, RecoveryAsk
<1>3. CASE Initialized
  <2>1. LET m == [from |-> "recover", op |-> "read", after |-> Len(state.seen)]
        IN  m \in Msg /\ RecoveryAsk(m)
    <3>1. Len(state.seen) \in Nat
      BY DEF TypeInv, ClientTypes, SessionState
    <3> QED
      BY <3>1 DEF Msg, RecoveryAsk
  <2>2. CASE /\ Answer = "ok"
             /\ Ask([from |-> "recover", op |-> "read", after |-> Len(state.seen)], "read")
             /\ UNCHANGED state
    BY <1>1, <1>3, <2>1, <2>2 DEF Initialized, RecoveryStep, Asks, Resumed, Answer, TrueState, Told, serverVars
  <2>3. CASE /\ Answer = "ok" /\ recovery' = "install" /\ Hang("recover")
             /\ UNCHANGED <<netVars, status, closed, inbox, state>>
    BY <1>1, <1>3, <2>3 DEF Initialized, RecoveryStep, Proceeds, Resumed, Answer, TrueState, Told, serverVars
  <2>4. CASE Retry \/ Fail
    BY <1>3, <2>4 DEF Initialized, RecoveryStep, GivesUp, Retry, Fail, Recovering
  <2> QED
    BY <1>3, <2>2, <2>3, <2>4 DEF Initialized
<1>4. CASE ReadAnswered
  <2>1. CASE Retry
    BY <1>4, <2>1 DEF ReadAnswered, RecoveryStep, GivesUp, Retry, Fail, Recovering
  <2>2. CASE /\ Ask([from |-> "recover", op |-> "terminate"], "terminate")
             /\ UNCHANGED state
    BY <1>1, <1>2, <1>4, <2>2 DEF ReadAnswered, RecoveryStep, Asks, Resumed, TrueState, Told, serverVars
  <2>3. CASE state' = Recovered(state, call["recover"].read).st
    <3>1. call["recover"].read \in Reply /\ TrueReply(call["recover"].read)
      BY Constants DEF SeenInv, TypeInv, ClientTypes, CallState
    <3>2. TrueState(state')
      BY <1>1, <2>3, <3>1, TrueRecovered
    <3>3. Retry \/ Proceeds \/ Asks([from |-> "recover", op |-> "terminate"], "terminate")
      BY <1>4 DEF ReadAnswered, Proceeds, Asks
    <3> QED
      BY <1>2, <1>4, <2>1, <3>2, <3>3 DEF ReadAnswered, RecoveryStep, Resumed
  <2> QED
    BY <1>4, <2>1, <2>2, <2>3 DEF ReadAnswered
<1>5. CASE TerminateAnswered
  <2>1. CASE Retry
    BY <1>5, <2>1 DEF TerminateAnswered, RecoveryStep, GivesUp, Retry, Fail, Recovering
  <2>2. CASE state' = SetFailure(state) /\ Proceeds
    <3>1. TrueState(state')
      BY <1>1, <2>2, TrueSetFailure
    <3> QED
      BY <1>5, <2>2, <3>1 DEF TerminateAnswered, RecoveryStep, Resumed
  <2> QED
    BY <1>5, <2>1, <2>2 DEF TerminateAnswered, Proceeds
<1>6. CASE Install
  BY <1>6 DEF Install, RecoveryStep, GivesUp, Retry, Installs, Recovering
<1>7. CASE RecoveryTimeout
  BY <1>7 DEF RecoveryTimeout, RecoveryStep, GivesUp, Retry, Fail, Recovering
<1> QED
  BY <1>3, <1>4, <1>5, <1>6, <1>7

LEMMA GivesUpEffect ==
  ASSUME TypeInv, GivesUp
  PROVE  /\ alive' = alive \ {opened} /\ closed' = closed \union {opened}
         /\ inbox' \in [Conns -> Seq(Event)] /\ inbox'[opened] = <<>>
         /\ \A d \in Conns \ {opened} : inbox'[d] = inbox[d]
         /\ call' \in [Callers -> CallState] /\ call'["recover"] = NoCall
         /\ \A b \in Callers \ {"recover"} : call'[b] = call[b]
         /\ \/ recovery' = "connect" /\ UNCHANGED status
            \/ recovery' = "failing" /\ status' = [is |-> "failed", conn |-> None]
         /\ UNCHANGED <<load, opened, up, serverVars, start, writing, state>>
<1>1. /\ Drop(opened) /\ Hang("recover")
      /\ \/ recovery' = "connect" /\ UNCHANGED status
         \/ recovery' = "failing" /\ status' = [is |-> "failed", conn |-> None]
      /\ UNCHANGED <<load, opened, up, serverVars, start, writing, state>>
  BY DEF GivesUp, Retry, Fail
<1>2. <<>> \in Seq(Event) /\ opened \in Conns
  BY DEF TypeInv, NetTypes
<1>3. /\ inbox' \in [Conns -> Seq(Event)] /\ inbox'[opened] = <<>>
      /\ \A d \in Conns \ {opened} : inbox'[d] = inbox[d]
  BY <1>1, <1>2 DEF Drop, TypeInv, ClientTypes
<1> QED
  BY <1>1, <1>3, HangEffect, Constants DEF Drop

LEMMA RecoveryTypes ==
  ASSUME TypeInv, RecoveryStep
  PROVE  TypeInv'
<1>1. CASE GivesUp
  <2>1. NetTypes' /\ ServerTypes'
    <3>1. opened \in 1..opened
      BY Constants DEF TypeInv, NetTypes
    <3>2. NetTypes'
      BY <1>1, <3>1, GivesUpEffect DEF TypeInv, NetTypes
    <3>3. ServerTypes'
      BY <1>1, GivesUpEffect DEF TypeInv, ServerTypes, serverVars
    <3> QED
      BY <3>2, <3>3
  <2>2. ClientTypes'
    <3>1. /\ status' \in [is : {"connected", "recovering", "failed"}, conn : Conns \union {None}]
          /\ status'.is = "connected" => status' = status
          /\ recovery' \in Recovering \union {"idle", "failing"}
      BY <1>1, GivesUpEffect DEF TypeInv, ClientTypes, Recovering
    <3> QED
      BY <1>1, <3>1, GivesUpEffect DEF TypeInv, ClientTypes
  <2> QED
    BY <2>1, <2>2 DEF TypeInv
<1>2. ASSUME NEW m \in Msg, NEW at \in {"read", "terminate"}, Asks(m, at), TrueState(state')
      PROVE  TypeInv'
  <2>1. Call("recover", opened, m) /\ opened \in 1..opened
    BY <1>2, Constants DEF Asks, Ask, TypeInv, NetTypes
  <2>2. call' \in [Callers -> CallState] /\ up' \in [Conns -> Seq(Msg)]
    BY <2>1, CallEffect, Constants
  <2>3. NetTypes' /\ ServerTypes'
    BY <1>2, <2>2 DEF Asks, Ask, TypeInv, NetTypes, ServerTypes, serverVars
  <2>4. ClientTypes'
    BY <1>2, <2>2 DEF Asks, Ask, TypeInv, ClientTypes, TrueState, Recovering
  <2> QED
    BY <2>3, <2>4 DEF TypeInv
<1>3. CASE Proceeds /\ TrueState(state')
  <2>1. NetTypes' /\ ServerTypes'
    BY <1>3 DEF Proceeds, TypeInv, NetTypes, ServerTypes, netVars, serverVars
  <2>2. ClientTypes'
    BY <1>3, HangEffect, Constants
       DEF Proceeds, TypeInv, ClientTypes, TrueState, Recovering, netVars
  <2> QED
    BY <2>1, <2>2 DEF TypeInv
<1>4. CASE Installs
  <2>1. NetTypes' /\ ServerTypes'
    BY <1>4 DEF Installs, TypeInv, NetTypes, ServerTypes, netVars, serverVars
  <2>2. ClientTypes'
    BY <1>4, Constants DEF Installs, TypeInv, NetTypes, ClientTypes, netVars
  <2> QED
    BY <2>1, <2>2 DEF TypeInv
<1> QED
  BY <1>1, <1>2, <1>3, <1>4 DEF RecoveryStep

LEMMA ConnectEffect ==
  ASSUME TypeInv, Connect
  PROVE  /\ opened' = opened + 1 /\ opened' \in Conns /\ opened' \notin 1..opened
         /\ alive' = alive \union {opened'}
         /\ handler' \in [Conns -> {"none", "fresh", "session", "spawning", "shut"}]
         /\ handler'[opened'] = "fresh"
         /\ \A d \in Conns \ {opened'} : handler'[d] = handler[d] /\ up'[d] = up[d]
         /\ up' \in [Conns -> Seq(Msg)]
         /\ up'[opened'] = <<[from |-> "recover", op |-> "initialize"]>>
         /\ call' \in [Callers -> CallState] /\ call'["recover"] = Calling(opened', "wait")
         /\ \A b \in Callers \ {"recover"} : call'[b] = call[b]
<1>1. opened' = opened + 1 /\ opened' \in Conns /\ opened' \notin 1..opened
  BY Constants DEF Connect, TypeInv, NetTypes
<1>2. <<[from |-> "recover", op |-> "initialize"]>> \in Seq(Msg)
  BY DEF Msg
<1>3. Calling(opened', "wait") \in CallState
  BY <1>1, CallTypes
<1>4. /\ up' \in [Conns -> Seq(Msg)]
      /\ up'[opened'] = <<[from |-> "recover", op |-> "initialize"]>>
      /\ \A d \in Conns \ {opened'} : up'[d] = up[d]
  BY <1>1, <1>2 DEF Connect, TypeInv, NetTypes
<1>5. /\ handler' \in [Conns -> {"none", "fresh", "session", "spawning", "shut"}]
      /\ handler'[opened'] = "fresh"
      /\ \A d \in Conns \ {opened'} : handler'[d] = handler[d]
  BY <1>1 DEF Connect, TypeInv, ServerTypes
<1>6. /\ call' \in [Callers -> CallState] /\ call'["recover"] = Calling(opened', "wait")
      /\ \A b \in Callers \ {"recover"} : call'[b] = call[b]
  BY <1>3, Constants DEF Connect, TypeInv, ClientTypes
<1> QED
  BY <1>1, <1>4, <1>5, <1>6 DEF Connect

LEMMA ConnectTypes ==
  ASSUME TypeInv, Connect
  PROVE  TypeInv'
<1>1. 1..opened \subseteq 1..opened' /\ opened' \in 1..opened'
  BY ConnectEffect, Constants, SMTT(30) DEF TypeInv, NetTypes
<1>2. NetTypes'
  BY <1>1, ConnectEffect DEF Connect, TypeInv, NetTypes
<1>3. ServerTypes'
  BY ConnectEffect DEF Connect, TypeInv, ServerTypes
<1>4. ClientTypes'
  BY <1>1, ConnectEffect DEF Connect, TypeInv, ClientTypes, Recovering
<1> QED
  BY <1>2, <1>3, <1>4 DEF TypeInv

(* Calls of the process's user.  Only the registration of the session      *)
(* state changes.                                                          *)
UserCall == InsertSession \/ Cleanup \/ SendWrite
UserStep == BeginStart \/ StartAnswered \/ CleanupAnswered \/ Write \/ WriteAnswered

LEMMA UserState ==
  ASSUME TypeInv, SeenInv, UserCall \/ UserStep
  PROVE  TrueState(state')
<1>1. TrueState(state)
  BY DEF TrueState, SeenInv, SeenInOrder, TypeInv, ClientTypes
<1>2. PICK r \in {"none", "present", "gone"}, b \in BOOLEAN :
        state' = [state EXCEPT !.reg = r, !.recoverable = b]
  <2>1. state = [state EXCEPT !.reg = state.reg, !.recoverable = state.recoverable]
    BY DEF TypeInv, ClientTypes, SessionState
  <2>2. state.reg \in {"none", "present", "gone"} /\ state.recoverable \in BOOLEAN
    BY DEF TypeInv, ClientTypes, SessionState
  <2>3. \/ state' = state
        \/ \E r \in {"present", "gone"} : state' = [state EXCEPT !.reg = r]
        \/ state' = [state EXCEPT !.recoverable = TRUE]
    BY DEF UserCall, UserStep, InsertSession, Cleanup, SendWrite, BeginStart, StartAnswered,
           CleanupAnswered, Write, WriteAnswered
  <2>4. \A r : [state EXCEPT !.reg = r] = [state EXCEPT !.reg = r, !.recoverable = state.recoverable]
    BY DEF TypeInv, ClientTypes, SessionState
  <2>5. [state EXCEPT !.recoverable = TRUE] = [state EXCEPT !.reg = state.reg, !.recoverable = TRUE]
    BY DEF TypeInv, ClientTypes, SessionState
  <2> QED
    BY <2>1, <2>2, <2>3, <2>4, <2>5, Zenon
<1>3. /\ state' \in SessionState /\ state'.pending = state.pending
      /\ state'.seen = state.seen
  BY <1>2 DEF TypeInv, ClientTypes, SessionState
<1>4. UNCHANGED log
  BY DEF UserCall, UserStep, InsertSession, Cleanup, SendWrite, BeginStart, StartAnswered,
         CleanupAnswered, Write, WriteAnswered, serverVars
<1> QED
  BY <1>1, <1>3, <1>4 DEF TrueState, Told

(* The request a call of the user sends, and where.                        *)
LEMMA UserCalls ==
  ASSUME TypeInv, UserCall
  PROVE  \/ \E a \in Callers, m \in Msg, c \in 1..opened :
              /\ Call(a, c, m) /\ a # "recover" /\ m.from = a
              /\ \/ a = "start" /\ m.op = "exec" /\ c = start.conn /\ start.at = "begun"
                    /\ start'.at = "calling" /\ UNCHANGED writing /\ InsertSession
                 \/ a = "cleanup" /\ m.op = "terminate" /\ Usable /\ c = status.conn
                    /\ start.at = "cleanup" /\ start'.at = "cleaning" /\ UNCHANGED writing
                 \/ a = "write" /\ m.op = "write" /\ m.id = writing.id /\ Usable
                    /\ c = status.conn /\ UNCHANGED start
                    /\ writing.at = "ready" /\ writing' = [writing EXCEPT !.at = "calling"]
         \/ /\ UNCHANGED <<up, call>>
            /\ start' \in {start, [start EXCEPT !.at = "over"]}
            /\ writing' \in {writing, [writing EXCEPT !.at = "idle"]}
            /\ start' # start => start.at \in {"begun", "cleanup"}
            /\ writing' # writing => writing.at = "ready"
<1>1. CASE InsertSession
  <2>1. [from |-> "start", op |-> "exec"] \in Msg /\ start.conn \in 1..opened
    BY <1>1 DEF Msg, InsertSession, TypeInv, ClientTypes
  <2>2. CASE status.is = "failed"
    BY <1>1, <2>2 DEF InsertSession, TypeInv, ClientTypes
  <2>3. CASE status.is # "failed"
    <3>1. start' = [start EXCEPT !.at = "calling"] /\ UNCHANGED writing
      BY <1>1, <2>3 DEF InsertSession
    <3>2. start'.at = "calling" /\ start.at = "begun"
      BY <1>1, <3>1 DEF InsertSession, TypeInv, ClientTypes
    <3>3. Call("start", start.conn, [from |-> "start", op |-> "exec"])
      BY <1>1, <2>3 DEF InsertSession
    <3> QED
      BY <1>1, <2>1, <3>1, <3>2, <3>3, Constants
  <2> QED
    BY <2>2, <2>3
<1>2. CASE Cleanup
  <2>1. [from |-> "cleanup", op |-> "terminate"] \in Msg
    BY DEF Msg
  <2>2. CASE ~Usable
    BY <1>2, <2>2 DEF Cleanup, TypeInv, ClientTypes
  <2>3. CASE Usable
    <3>1. start' = [start EXCEPT !.at = "cleaning"] /\ UNCHANGED writing
      BY <1>2, <2>3 DEF Cleanup
    <3>2. start'.at = "cleaning" /\ start.at = "cleanup" /\ status.conn \in 1..opened
      BY <1>2, <2>3, <3>1 DEF Cleanup, Usable, TypeInv, ClientTypes
    <3>3. Call("cleanup", status.conn, [from |-> "cleanup", op |-> "terminate"])
      BY <1>2, <2>3 DEF Cleanup
    <3> QED
      BY <2>1, <2>3, <3>1, <3>2, <3>3, Constants
  <2> QED
    BY <2>2, <2>3
<1>3. CASE SendWrite
  <2>1. [from |-> "write", op |-> "write", id |-> writing.id] \in Msg
    BY DEF Msg, TypeInv, ClientTypes
  <2>2. CASE ~Usable
    BY <1>3, <2>2 DEF SendWrite, TypeInv, ClientTypes
  <2>3. CASE Usable
    <3>1. /\ writing' = [writing EXCEPT !.at = "calling"] /\ UNCHANGED start
          /\ writing.at = "ready" /\ status.conn \in 1..opened
      BY <1>3, <2>3 DEF SendWrite, Usable, TypeInv, ClientTypes
    <3>2. Call("write", status.conn, [from |-> "write", op |-> "write", id |-> writing.id])
      BY <1>3, <2>3 DEF SendWrite
    <3> QED
      BY <2>1, <2>3, <3>1, <3>2, Constants
  <2> QED
    BY <2>2, <2>3
<1> QED
  BY <1>1, <1>2, <1>3 DEF UserCall

LEMMA UserFrame ==
  ASSUME UserCall \/ UserStep
  PROVE  /\ UNCHANGED <<load, opened, alive, serverVars, status, closed, inbox, recovery>>
         /\ UserStep => UNCHANGED up
  BY DEF UserCall, UserStep, InsertSession, Cleanup, SendWrite, BeginStart, StartAnswered,
         CleanupAnswered, Write, WriteAnswered, netVars

(* The start moves on, and calls that were answered are forgotten.         *)
LEMMA UserSteps ==
  ASSUME TypeInv, UserStep
  PROVE  /\ call' \in [Callers -> CallState]
         /\ \A a \in Callers : call'[a] = call[a] \/ call'[a] = NoCall
         /\ call'["recover"] = call["recover"]
         /\ start' \in [at : {"none", "begun", "calling", "started", "cleanup", "cleaning", "over"},
                        conn : Conns \union {None}]
         /\ \/ start' = start
            \/ start.at = "none" /\ Usable /\ start'.at = "begun" /\ start'.conn = status.conn
            \/ start.at \notin {"none", "begun"} /\ start'.at \notin {"none", "begun"}
               /\ start'.conn = start.conn
         /\ writing' \in [at : {"idle", "ready", "calling"}, id : Nat, acked : SUBSET Nat]
<1>1. CASE BeginStart
  <2>1. start' = [at |-> "begun", conn |-> status.conn] /\ UNCHANGED <<call, writing>>
    BY <1>1 DEF BeginStart
  <2> QED
    BY <1>1, <2>1, Constants DEF BeginStart, TypeInv, ClientTypes
<1>2. CASE StartAnswered
  <2>1. /\ Hang("start") /\ UNCHANGED writing /\ start.at = "calling"
        /\ \E at \in {"started", "cleanup", "over"} : start' = [start EXCEPT !.at = at]
    BY <1>2 DEF StartAnswered
  <2> QED
    BY <2>1, HangEffect, Constants DEF TypeInv, ClientTypes
<1>3. CASE CleanupAnswered
  <2>1. /\ Hang("cleanup") /\ UNCHANGED writing /\ start.at = "cleaning"
        /\ \E at \in {"cleanup", "over"} : start' = [start EXCEPT !.at = at]
    BY <1>3 DEF CleanupAnswered
  <2> QED
    BY <2>1, HangEffect, Constants DEF TypeInv, ClientTypes
<1>4. CASE Write
  <2>1. UNCHANGED <<call, start>> /\ writing' = [writing EXCEPT !.at = "ready", !.id = writing.id + 1]
    BY <1>4 DEF Write, TypeInv, ClientTypes
  <2>2. writing' \in [at : {"idle", "ready", "calling"}, id : Nat, acked : SUBSET Nat]
    <3>1. writing.id + 1 \in Nat
      BY DEF TypeInv, ClientTypes
    <3> QED
      BY <2>1, <3>1 DEF TypeInv, ClientTypes
  <2> QED
    BY <2>1, <2>2, Constants DEF TypeInv, ClientTypes
<1>5. CASE WriteAnswered
  <2>1. UNCHANGED start /\ Hang("write")
    BY <1>5 DEF WriteAnswered
  <2>2. writing' \in [at : {"idle", "ready", "calling"}, id : Nat, acked : SUBSET Nat]
    BY <1>5 DEF WriteAnswered, TypeInv, ClientTypes
  <2> QED
    BY <2>1, <2>2, HangEffect, Constants DEF TypeInv, ClientTypes
<1> QED
  BY <1>1, <1>2, <1>3, <1>4, <1>5 DEF UserStep

LEMMA UserTypes ==
  ASSUME TypeInv, SeenInv, UserCall \/ UserStep
  PROVE  TypeInv'
<1>1. UNCHANGED <<load, opened, alive, serverVars, status, closed, inbox, recovery>>
  BY UserFrame
<1>2. state' \in SessionState
  BY UserState DEF TrueState
<1>3. ServerTypes'
  BY <1>1 DEF TypeInv, ServerTypes, serverVars
<1>4. CASE UserStep
  <2>1. UNCHANGED up
    BY <1>4, UserFrame
  <2>2. NetTypes'
    BY <1>1, <2>1 DEF TypeInv, NetTypes
  <2>3. start'.at # "none" => start'.conn \in 1..opened
    BY <1>4, UserSteps DEF TypeInv, ClientTypes, Usable
  <2> QED
    BY <1>1, <1>2, <1>3, <1>4, <2>2, <2>3, UserSteps DEF TypeInv, ClientTypes
<1>5. CASE UserCall
  <2>1. call' \in [Callers -> CallState] /\ up' \in [Conns -> Seq(Msg)]
    <3>1. CASE UNCHANGED <<up, call>>
      BY <3>1 DEF TypeInv, NetTypes, ClientTypes
    <3>2. ASSUME NEW a \in Callers, NEW m \in Msg, NEW c \in 1..opened, Call(a, c, m)
          PROVE  call' \in [Callers -> CallState] /\ up' \in [Conns -> Seq(Msg)]
      BY <3>2, CallEffect
    <3> QED
      BY <1>5, <3>1, <3>2, UserCalls
  <2>2. /\ start' \in [at : {"none", "begun", "calling", "started", "cleanup", "cleaning", "over"},
                       conn : Conns \union {None}]
        /\ start'.at # "none" => start'.conn \in 1..opened
        /\ writing' \in [at : {"idle", "ready", "calling"}, id : Nat, acked : SUBSET Nat]
    BY <1>5 DEF UserCall, InsertSession, Cleanup, SendWrite, TypeInv, ClientTypes
  <2>3. NetTypes'
    BY <1>1, <2>1 DEF TypeInv, NetTypes
  <2> QED
    BY <1>1, <1>2, <1>3, <2>1, <2>2, <2>3 DEF TypeInv, ClientTypes
<1> QED
  BY <1>4, <1>5

LEMMA IdleRecoveryTypes ==
  ASSUME TypeInv, SeenInv, StartsDone \/ FailSessions
  PROVE  TypeInv' /\ TrueState(state')
<1>1. TrueState(state)
  BY DEF TrueState, SeenInv, SeenInOrder, TypeInv, ClientTypes
<1>2. TrueState(SetFailure(state))
  BY <1>1, TrueSetFailure
<1>3. state' = state \/ state' = SetFailure(state)
  BY DEF StartsDone, FailSessions
<1>4. UNCHANGED <<netVars, serverVars, status, closed, inbox, call, start, writing>>
  BY DEF StartsDone, FailSessions
<1>5. TrueState(state')
  BY <1>1, <1>2, <1>3, <1>4 DEF TrueState, Told, serverVars
<1>6. NetTypes' /\ ServerTypes'
  BY <1>4 DEF TypeInv, NetTypes, ServerTypes, netVars, serverVars
<1>7. recovery' \in Recovering \union {"idle", "failing"}
  BY DEF StartsDone, FailSessions, Recovering
<1> QED
  BY <1>4, <1>5, <1>6, <1>7 DEF TypeInv, ClientTypes, TrueState, netVars

-----------------------------------------------------------------------------
(* The steps of the system, grouped by what they touch.                    *)
HandlerStep ==
  \E c \in Conns : Attach(c) \/ ServeExec(c) \/ Spawned(c) \/ ServeRead(c) \/ ServeTerminate(c)
                     \/ ServeWrite(c) \/ Disconnect(c)

LEMMA NextCases ==
  ASSUME TypeInv, SeenInv, Next
  PROVE  \/ ServerStep
         \/ \E c \in Conns : Break(c) \/ ReadClosed(c) \/ HandleEvent(c)
         \/ \E t \in Tasks : Notify(t)
         \/ HandlerStep
         \/ StartsDone \/ FailSessions \/ Connect \/ RecoveryStep
         \/ UserCall \/ UserStep
<1>1. CASE \E c \in Conns : Break(c) \/ Handle(c) \/ Expire(c) \/ ReadClosed(c) \/ HandleEvent(c)
  BY <1>1 DEF Handle, HandlerStep, ServerStep
<1>2. CASE \/ \E s \in Streams : Output(s) \/ EndOfStream(s)
           \/ \E t \in Tasks : Notify(t) \/ CheckClosed(t)
           \/ ChildExits \/ Exit \/ Retire
  BY <1>2 DEF ServerStep
<1>3. CASE Recover \/ RecoveryTimeout
  BY <1>3, RecoverCases DEF Recover
<1>4. CASE BeginStart \/ StartProcess \/ Write \/ SendWrite \/ WriteAnswered
  BY <1>4 DEF StartProcess, UserCall, UserStep
<1> QED
  BY <1>1, <1>2, <1>3, <1>4 DEF Next

LEMMA NextTypes ==
  ASSUME TypeInv, LogInv, SeenInv, Next
  PROVE  TypeInv'
<1>1. ASSUME NEW c \in Conns, Break(c) \/ ReadClosed(c) \/ HandleEvent(c) PROVE TypeInv'
  BY <1>1, BreakTypes, ReadClosedTypes, HandleEventTypes
<1>2. ASSUME NEW t \in Tasks, Notify(t) PROVE TypeInv'
  <2>1. unsent[t] \in 1..Len(log)
    BY <1>2 DEF Notify, LogInv, TraceInv
  <2> QED
    BY <1>2, <2>1, NotifyTypes
<1>3. ASSUME HandlerStep PROVE TypeInv'
  BY <1>3, AttachTypes, ServeExecTypes, SpawnedTypes, ServeTypes, DisconnectTypes DEF HandlerStep
<1> QED
  BY <1>1, <1>2, <1>3, NextCases, ServerStepTypes, IdleRecoveryTypes, ConnectTypes,
     RecoveryTypes, UserTypes

(* A handler takes requests from the front of a queue and answers the      *)
(* callers that wait on its connection.                                    *)
Shrinks ==
  \A d \in Conns :
    /\ Len(up'[d]) <= Len(up[d])
    /\ \E k \in {0, 1} : \A i \in DOMAIN up'[d] : i + k \in DOMAIN up[d] /\ up'[d][i] = up[d][i + k]

LEMMA QueueTypes ==
  ASSUME TypeInv, NEW c \in Conns
  PROVE  /\ up[c] \in Seq(Msg) /\ DOMAIN up[c] = 1..Len(up[c]) /\ Len(up[c]) \in Nat
         /\ \A i \in DOMAIN up[c] : up[c][i] \in Msg
  BY DEF TypeInv, NetTypes

LEMMA TakesShrinks ==
  ASSUME TypeInv, NEW c \in Conns, NEW op, Takes(c, op)
  PROVE  Shrinks
<1> SUFFICES ASSUME NEW d \in Conns
             PROVE  /\ Len(up'[d]) <= Len(up[d])
                    /\ \E k \in {0, 1} : \A i \in DOMAIN up'[d] :
                         i + k \in DOMAIN up[d] /\ up'[d][i] = up[d][i + k]
  BY DEF Shrinks
<1>1. CASE d = c
  <2>1. up[c] \in Seq(Msg) /\ up[c] # <<>> /\ up'[c] = Tail(up[c])
    BY TakesEffect
  <2>2. /\ Len(up'[c]) = Len(up[c]) - 1
        /\ \A i \in DOMAIN up'[c] : i + 1 \in DOMAIN up[c] /\ up'[c][i] = up[c][i + 1]
    BY <2>1, TailQueue
  <2> QED
    BY <1>1, <2>1, <2>2
<1>2. CASE d # c
  <2>1. up'[d] = up[d] /\ DOMAIN up[d] = 1..Len(up[d]) /\ Len(up[d]) \in Nat
    BY <1>2, TakesEffect, QueueTypes
  <2> QED
    BY <2>1
<1> QED
  BY <1>1, <1>2

LEMMA SameShrinks ==
  ASSUME TypeInv, UNCHANGED up
  PROVE  Shrinks
<1>1. \A d \in Conns : DOMAIN up[d] = 1..Len(up[d]) /\ Len(up[d]) \in Nat
  BY QueueTypes
<1> QED
  BY <1>1 DEF Shrinks

LEMMA RespondReplies ==
  ASSUME TypeInv, NEW c \in Conns, NEW a \in Callers, NEW read \in Reply,
         NEW res \in {"ok", "error", "unknown", "attached", "accepted"},
         Respond(c, a, res, read), NEW b \in Callers
  PROVE  \/ call'[b] = call[b]
         \/ \E d \in alive : call[b] = Calling(d, "wait") /\ call'[b].conn = d
<1>1. CASE b = a
  <2>1. \/ call'[b] = call[b]
        \/ /\ c \in alive /\ call[b] = Calling(c, "wait")
           /\ call'[b] = [conn |-> c, res |-> res, read |-> read]
    BY <1>1, RespondEffect, ZenonT(60)
  <2>2. [conn |-> c, res |-> res, read |-> read].conn = c
    OBVIOUS
  <2> QED
    BY <2>1, <2>2
<1>2. CASE b # a
  BY <1>2 DEF Respond, TypeInv, ClientTypes
<1> QED
  BY <1>1, <1>2

LEMMA HandlerEffect ==
  ASSUME TypeInv, HandlerStep
  PROVE  /\ UNCHANGED <<load, opened, alive, log, status, closed, inbox, recovery, start, writing, state>>
         /\ Shrinks
         /\ \A a \in Callers :
              \/ call'[a] = call[a]
              \/ \E c \in alive : call[a] = Calling(c, "wait") /\ call'[a].conn = c
<1> SUFFICES ASSUME NEW c \in Conns,
                    Attach(c) \/ ServeExec(c) \/ Spawned(c) \/ ServeRead(c)
                      \/ ServeTerminate(c) \/ ServeWrite(c) \/ Disconnect(c)
             PROVE  /\ UNCHANGED <<load, opened, alive, log, status, closed, inbox, recovery, start, writing, state>>
                    /\ Shrinks
                    /\ \A a \in Callers :
                         \/ call'[a] = call[a]
                         \/ \E d \in alive : call[a] = Calling(d, "wait") /\ call'[a].conn = d
  BY DEF HandlerStep
<1> DEFINE Replies == /\ UNCHANGED <<status, closed, inbox, recovery, start, writing, state>>
                      /\ \A a \in Callers :
                           \/ call'[a] = call[a]
                           \/ \E d \in alive : call[a] = Calling(d, "wait") /\ call'[a].conn = d
<1>1. UNCHANGED <<load, opened, alive, log>>
  BY DEF Attach, ServeExec, Spawned, ServeRead, ServeTerminate, ServeWrite, Disconnect, netVars,
         serverVars
<1>2. ASSUME NEW op, Takes(c, op), NEW res \in {"ok", "error", "unknown", "attached", "accepted"},
             Answers(c, res)
      PROVE  Replies
  <2>1. Head(up[c]).from \in Callers /\ NoRead \in Reply
    BY <1>2, TakesEffect, MsgFacts, CallTypes
  <2>2. Respond(c, Head(up[c]).from, res, NoRead)
    BY <1>2 DEF Answers
  <2>3. UNCHANGED <<status, closed, inbox, recovery, start, writing, state>>
    BY <2>2 DEF Respond
  <2> QED
    BY <2>1, <2>2, <2>3, RespondReplies
<1>3. CASE Attach(c)
  <2>1. Takes(c, "initialize") /\ \E res \in {"ok", "unknown", "attached"} : Answers(c, res)
    BY <1>3 DEF Attach
  <2> QED
    BY <1>1, <1>2, <2>1, TakesShrinks
<1>4. CASE ServeExec(c)
  <2>1. Takes(c, "exec") /\ (Answers(c, "error") \/ UNCHANGED clientVars)
    BY <1>4 DEF ServeExec
  <2>2. UNCHANGED clientVars => Replies
    BY DEF clientVars
  <2> QED
    BY <1>1, <1>2, <2>1, <2>2, TakesShrinks
<1>5. CASE Spawned(c)
  <2>1. UNCHANGED up /\ \E res \in {"ok", "error"} : Respond(c, "start", res, NoRead)
    BY <1>5 DEF Spawned, netVars
  <2>2. Replies
    <3>1. "start" \in Callers /\ NoRead \in Reply
      BY Constants, CallTypes
    <3>2. UNCHANGED <<status, closed, inbox, recovery, start, writing, state>>
      BY <2>1 DEF Respond
    <3> QED
      BY <2>1, <3>1, <3>2, RespondReplies
  <2> QED
    BY <1>1, <2>1, <2>2, SameShrinks
<1>6. CASE ServeRead(c)
  <2>1. /\ Takes(c, "read")
        /\ \/ Respond(c, Head(up[c]).from, "ok", ReadResponse(Head(up[c]).after))
           \/ Answers(c, "error")
    BY <1>6 DEF ServeRead
  <2>2. Head(up[c]).from \in Callers /\ Head(up[c]).after \in Nat
    BY <2>1, TakesEffect, MsgFacts
  <2>3. Replies
    <3>1. CASE Respond(c, Head(up[c]).from, "ok", ReadResponse(Head(up[c]).after))
      <4>1. UNCHANGED <<status, closed, inbox, recovery, start, writing, state>>
        BY <3>1 DEF Respond
      <4>2. ReadResponse(Head(up[c]).after) \in Reply
        BY <2>2, RetainedType
      <4> QED
        BY <2>2, <3>1, <4>1, <4>2, RespondReplies
    <3> QED
      BY <1>2, <2>1, <3>1
  <2> QED
    BY <1>1, <2>1, <2>3, TakesShrinks
<1>7. CASE ServeTerminate(c) \/ ServeWrite(c)
  <2>1. \E op \in {"terminate", "write"}, res \in {"ok", "error", "accepted"} :
          Takes(c, op) /\ Answers(c, res)
    BY <1>7 DEF ServeTerminate, ServeWrite
  <2> QED
    BY <1>1, <1>2, <2>1, TakesShrinks
<1>8. CASE Disconnect(c)
  <2>1. up'[c] = <<>> /\ (\A d \in Conns \ {c} : up'[d] = up[d]) /\ UNCHANGED clientVars
    BY <1>8 DEF Disconnect, TypeInv, NetTypes
  <2>2. \A d \in Conns : Len(up[d]) \in Nat /\ DOMAIN up[d] = 1..Len(up[d])
    BY QueueTypes
  <2>3. Shrinks
    BY <2>1, <2>2 DEF Shrinks
  <2> QED
    BY <1>1, <2>1, <2>3 DEF clientVars
<1> QED
  BY <1>3, <1>4, <1>5, <1>6, <1>7, <1>8

-----------------------------------------------------------------------------
(* A connected client holds its session.                                   *)

LEMMA InitHold == Init => HoldInv
<1> SUFFICES ASSUME Init PROVE HoldInv
  OBVIOUS
<1>1. call["recover"].res = "none"
  BY Constants, CallingFields DEF Init, NoCall
<1> QED
  BY <1>1 DEF Init, HoldInv, Resumed, Recovering, ConnectedHolds, None

(* A handler does not take a session from a connection that is up.         *)
LEMMA HandlerSession ==
  ASSUME TypeInv, HoldInv, HandlerStep
  PROVE  /\ session'.current # None => session'.kept /\ session'.detached = None
         /\ session.current \in alive => session'.current = session.current
                                          /\ session'.kept = session.kept
<1>1. session.current \in alive => session.current # None
  BY Constants DEF TypeInv, NetTypes
<1>2. PICK c \in Conns : Attach(c) \/ ServeExec(c) \/ Spawned(c) \/ ServeRead(c)
                           \/ ServeTerminate(c) \/ ServeWrite(c) \/ Disconnect(c)
  BY DEF HandlerStep
<1>3. CASE Attach(c)
  <2>1. session.current # None => session.kept /\ session.detached = None
    BY DEF HoldInv
  <2>2. DOMAIN session = {"kept", "current", "detached", "timers"}
    BY DEF TypeInv, ServerTypes
  <2>3. \/ session' = session
        \/ session.detached # None /\ session' = [session EXCEPT !.kept = FALSE]
        \/ /\ session.kept /\ session.current = None
           /\ session' = [session EXCEPT !.current = c, !.detached = None]
    BY <1>3 DEF Attach
  <2>4. CASE session' = session
    BY <2>1, <2>4
  <2>5. CASE session.detached # None /\ session' = [session EXCEPT !.kept = FALSE]
    <3>1. session'.current = session.current
      BY <2>2, <2>5
    <3> QED
      BY <1>1, <2>1, <2>5, <3>1
  <2>6. CASE /\ session.kept /\ session.current = None
             /\ session' = [session EXCEPT !.current = c, !.detached = None]
    <3>1. session'.kept = session.kept /\ session'.detached = None
      BY <2>2, <2>6
    <3> QED
      BY <1>1, <2>6, <3>1
  <2> QED
    BY <2>3, <2>4, <2>5, <2>6
<1>4. CASE Disconnect(c)
  BY <1>1, <1>4, Constants DEF Disconnect, HoldInv, TypeInv, ServerTypes
<1>5. CASE ServeExec(c) \/ Spawned(c) \/ ServeRead(c) \/ ServeTerminate(c) \/ ServeWrite(c)
  <2>1. UNCHANGED session
    BY <1>5 DEF ServeExec, Spawned, ServeRead, ServeTerminate, ServeWrite, serverVars
  <2> QED
    BY <2>1 DEF HoldInv
<1> QED
  BY <1>2, <1>3, <1>4, <1>5

(* The candidate's first answer is that of its initialize.                 *)
LEMMA HandlerResumes ==
  ASSUME TypeInv, HoldInv, HandlerStep, recovery = "init",
         call'["recover"] # call["recover"], call'["recover"].res = "ok"
  PROVE  session'.current = opened /\ DOMAIN up'[opened] = {}
<1>1. opened \in Conns /\ "recover" \in Callers /\ opened # None
  BY Constants DEF TypeInv, NetTypes
<1>2. PICK c \in Conns : Attach(c) \/ ServeExec(c) \/ Spawned(c) \/ ServeRead(c)
                           \/ ServeTerminate(c) \/ ServeWrite(c) \/ Disconnect(c)
  BY DEF HandlerStep
<1>3. ASSUME NEW a \in Callers, NEW res \in {"ok", "error", "unknown", "attached", "accepted"},
             NEW read \in Reply, Respond(c, a, res, read)
      PROVE  a = "recover" /\ c = opened /\ res = "ok"
  <2>1. a = "recover"
    BY <1>1, <1>3, Constants DEF Respond, TypeInv, ClientTypes
  <2>2. /\ call["recover"] = Calling(c, "wait")
        /\ call'["recover"] = [conn |-> c, res |-> res, read |-> read]
    BY <1>3, <2>1, Constants DEF Respond, TypeInv, ClientTypes
  <2>3. c = opened
    BY <2>2, CallingFields DEF HoldInv
  <2>4. [conn |-> c, res |-> res, read |-> read].res = res
    OBVIOUS
  <2> QED
    BY <2>1, <2>2, <2>3, <2>4
<1>4. ASSUME NEW op, Takes(c, op), NEW res \in {"ok", "error", "unknown", "attached", "accepted"},
             Answers(c, res)
      PROVE  op = "initialize" /\ c = opened /\ res = "ok"
  <2>1. Head(up[c]).from \in Callers /\ NoRead \in Reply /\ Respond(c, Head(up[c]).from, res, NoRead)
    BY <1>4, TakesEffect, MsgFacts, CallTypes DEF Answers
  <2>2. c = opened /\ res = "ok"
    BY <1>3, <2>1
  <2>3. 1 \in DOMAIN up[c] /\ Head(up[c]) = up[c][1] /\ Head(up[c]).op = op
    BY <1>4, TakesEffect, TailQueue
  <2> QED
    BY <2>2, <2>3 DEF HoldInv, Waits
<1>5. CASE Attach(c)
  <2>1. Takes(c, "initialize")
    BY <1>5 DEF Attach
  <2>2. ~Answers(c, "unknown") /\ ~Answers(c, "attached")
    BY <1>4, <2>1
  <2>3. Answers(c, "ok") /\ session' = [session EXCEPT !.current = c, !.detached = None]
    BY <1>5, <2>2 DEF Attach
  <2>4. c = opened
    BY <1>4, <2>1, <2>3
  <2>5. Len(up'[opened]) = 0 /\ up'[opened] \in Seq(Msg)
    <3>1. up[opened] \in Seq(Msg) /\ up[opened] # <<>> /\ up'[opened] = Tail(up[opened])
      BY <2>1, <2>4, TakesEffect
    <3>2. Len(Tail(up[opened])) = Len(up[opened]) - 1 /\ Tail(up[opened]) \in Seq(Msg)
      BY <3>1, TailQueue
    <3>3. Len(up[opened]) \in Nat \ {0} /\ Len(up[opened]) <= 1
      BY <3>1 DEF HoldInv
    <3>4. Len(Tail(up[opened])) = 0
      <4> DEFINE n == Len(up[opened])
                 k == Len(Tail(up[opened]))
      <4>1. n \in Nat \ {0} /\ n <= 1 /\ k = n - 1
        BY <3>2, <3>3, Zenon
      <4> HIDE DEF n, k
      <4>2. k = 0
        BY <4>1
      <4> QED
        BY <4>2 DEF k
    <3> QED
      BY <3>1, <3>2, <3>4, Zenon
  <2> QED
    BY <2>3, <2>4, <2>5 DEF TypeInv, ServerTypes
<1>6. CASE ServeExec(c)
  <2>1. Takes(c, "exec") /\ (Answers(c, "error") \/ UNCHANGED call)
    BY <1>6 DEF ServeExec, clientVars
  <2> QED
    BY <1>4, <2>1
<1>7. CASE Spawned(c)
  <2>1. \E res \in {"ok", "error"} : Respond(c, "start", res, NoRead)
    BY <1>7 DEF Spawned
  <2> QED
    BY <1>3, <2>1, CallTypes, Constants
<1>8. CASE ServeRead(c)
  <2>1. Takes(c, "read") /\ (Answers(c, "error") \/ Respond(c, Head(up[c]).from, "ok", ReadResponse(Head(up[c]).after)))
    BY <1>8 DEF ServeRead
  <2>2. /\ Head(up[c]).from \in Callers /\ ReadResponse(Head(up[c]).after) \in Reply
        /\ 1 \in DOMAIN up[c] /\ Head(up[c]) = up[c][1] /\ Head(up[c]).op = "read"
    BY <2>1, TakesEffect, MsgFacts, RetainedType, TailQueue
  <2>3. c # opened
    BY <2>2 DEF HoldInv, Waits
  <2> QED
    BY <1>3, <1>4, <2>1, <2>2, <2>3
<1>9. CASE ServeTerminate(c) \/ ServeWrite(c)
  <2>1. \E op \in {"terminate", "write"}, res \in {"ok", "error", "accepted"} :
          Takes(c, op) /\ Answers(c, res)
    BY <1>9 DEF ServeTerminate, ServeWrite
  <2> QED
    BY <1>4, <2>1
<1>10. CASE Disconnect(c)
  BY <1>10 DEF Disconnect, clientVars
<1> QED
  BY <1>2, <1>5, <1>6, <1>7, <1>8, <1>9, <1>10

LEMMA HandlerHold ==
  ASSUME TypeInv, HoldInv, HandlerStep
  PROVE  HoldInv'
<1>1. UNCHANGED <<opened, alive, status, closed, recovery, start>> /\ Shrinks
  BY HandlerEffect
<1>2. \/ call'["recover"] = call["recover"]
      \/ /\ call["recover"].res = "wait" /\ call'["recover"].conn = call["recover"].conn
  BY HandlerEffect, CallingFields, Constants
<1>3. opened \in Conns /\ "recover" \in Callers
  BY Constants DEF TypeInv, NetTypes
<1>4. recovery = "init" =>
        /\ call'["recover"].conn = opened /\ Len(up'[opened]) <= 1
        /\ \A i \in DOMAIN up'[opened] : i \in DOMAIN up'[opened] /\ up'[opened][i].op = "initialize"
  <2>1. /\ Len(up'[opened]) <= Len(up[opened])
        /\ \A i \in DOMAIN up'[opened] : \E j \in DOMAIN up[opened] : up'[opened][i] = up[opened][j]
    BY <1>1, <1>3 DEF Shrinks
  <2>2. Len(up[opened]) \in Nat /\ Len(up'[opened]) \in Nat
    <3>1. TypeInv'
      BY AttachTypes, ServeExecTypes, SpawnedTypes, ServeTypes, DisconnectTypes DEF HandlerStep
    <3> QED
      BY <1>1, <1>3, <3>1 DEF TypeInv, NetTypes
  <2> QED
    BY <1>2, <2>1, <2>2 DEF HoldInv, Waits
<1>5. Resumed' /\ opened \in alive => session'.current = opened
  BY <1>1, <1>2, HandlerSession, HandlerResumes DEF HoldInv, Resumed
<1>6. ConnectedHolds'
  BY <1>1, HandlerSession DEF HoldInv, ConnectedHolds
<1> QED
  BY <1>1, <1>4, <1>5, <1>6, HandlerSession DEF HoldInv, Waits

LEMMA NetworkHold ==
  ASSUME TypeInv, HoldInv, NEW c \in Conns, Break(c) \/ ReadClosed(c) \/ HandleEvent(c)
  PROVE  HoldInv'
<1>1. CASE Break(c)
  BY <1>1 DEF Break, HoldInv, Waits, Resumed, ConnectedHolds, serverVars, clientVars
<1>2. CASE ReadClosed(c)
  <2>1. /\ UNCHANGED <<opened, alive, up, session, status, recovery, start>>
        /\ c \notin alive /\ closed' = closed \union {c}
    BY <1>2 DEF ReadClosed, netVars, serverVars
  <2>2. \/ call'["recover"] = call["recover"]
        \/ call["recover"].conn = c /\ call'["recover"] = Calling(c, "closed")
    BY <1>2, Constants DEF ReadClosed
  <2>3. \/ call'["recover"] = call["recover"]
        \/ call'["recover"].conn = call["recover"].conn /\ call'["recover"].res = "closed"
    BY <2>2, CallingFields
  <2> QED
    BY <2>1, <2>3 DEF HoldInv, Waits, Resumed, ConnectedHolds
<1>3. CASE HandleEvent(c)
  <2>1. /\ UNCHANGED <<opened, alive, up, session, closed, call, start>>
        /\ \/ UNCHANGED <<status, recovery>>
           \/ /\ status = [is |-> "connected", conn |-> c]
              /\ status' = [is |-> "recovering", conn |-> None] /\ recovery' = "starts"
    BY <1>3 DEF HandleEvent, netVars, serverVars
  <2> QED
    BY <2>1 DEF HoldInv, Waits, Resumed, ConnectedHolds, Recovering
<1> QED
  BY <1>1, <1>2, <1>3

LEMMA ServerHold ==
  ASSUME TypeInv, HoldInv, ServerStep \/ \E t \in Tasks : Notify(t)
  PROVE  HoldInv'
<1>1. UNCHANGED <<opened, alive, up, status, closed, recovery, start, call>>
  <2>1. CASE ServerStep
    BY <2>1, ServerStepTypes DEF netVars, clientVars
  <2>2. ASSUME NEW t \in Tasks, Notify(t)
        PROVE  UNCHANGED <<opened, alive, up, status, closed, recovery, start, call>>
    BY <2>2 DEF Notify, netVars
  <2> QED
    BY <2>1, <2>2
<1>2. /\ session'.current = session.current
      /\ session.current # None => session'.kept /\ session'.detached = None
  <2>1. UNCHANGED session \/ \E c \in Conns : Expire(c)
    BY DEF ServerStep, Notify, Output, EndOfStream, CheckClosed, ChildExits, Exit, Retire
  <2>2. ASSUME NEW c \in Conns, Expire(c)
        PROVE  /\ session'.current = session.current
               /\ session.current # None => session'.kept /\ session'.detached = None
    BY <2>2 DEF Expire, HoldInv, TypeInv, ServerTypes
  <2> QED
    BY <2>1, <2>2 DEF HoldInv
<1> QED
  BY <1>1, <1>2, Constants DEF HoldInv, Waits, Resumed, ConnectedHolds, TypeInv, NetTypes

LEMMA RecoveryHold ==
  ASSUME TypeInv, HoldInv, StartsDone \/ FailSessions \/ Connect \/ RecoveryStep
  PROVE  HoldInv'
<1>1. CASE StartsDone \/ FailSessions
  BY <1>1 DEF StartsDone, FailSessions, HoldInv, Waits, Resumed, ConnectedHolds, Recovering,
              netVars, serverVars
<1>2. CASE Connect
  <2>1. UNCHANGED <<session, status, closed, start>> /\ recovery = "connect" /\ recovery' = "init"
    BY <1>2 DEF Connect
  <2>2. call'["recover"].conn = opened' /\ call'["recover"].res = "wait"
    BY <1>2, ConnectEffect, CallingFields
  <2>3. alive' \cap closed' = {}
    BY <1>2, <2>1, ConnectEffect DEF HoldInv, TypeInv, NetTypes
  <2>4. /\ Len(up'[opened']) <= 1
        /\ \A i \in DOMAIN up'[opened'] :
             i \in DOMAIN up'[opened'] /\ up'[opened'][i].op = "initialize"
    <3> DEFINE m == [from |-> "recover", op |-> "initialize"]
    <3>1. m.op = "initialize"
      OBVIOUS
    <3>2. up'[opened'] = <<m>>
      BY <1>2, ConnectEffect
    <3> HIDE DEF m
    <3> QED
      BY <3>1, <3>2
  <2>5. ~Resumed' /\ status.is = "recovering" /\ start.at # "begun"
    BY <2>1, <2>2 DEF HoldInv, Resumed, Recovering
  <2> QED
    BY <2>1, <2>2, <2>3, <2>4, <2>5 DEF HoldInv, Waits, ConnectedHolds, Recovering
<1>3. CASE recovery \in Recovering /\ (recovery' = "connect" => recovery # "starts") /\ GivesUp
  <2>1. /\ alive' = alive \ {opened} /\ closed' = closed \union {opened}
        /\ \/ recovery' = "connect" /\ UNCHANGED status
           \/ recovery' = "failing" /\ status' = [is |-> "failed", conn |-> None]
        /\ UNCHANGED <<opened, up, session, start>>
    BY <1>3, GivesUpEffect DEF serverVars
  <2> QED
    BY <1>3, <2>1 DEF HoldInv, Waits, Resumed, ConnectedHolds, Recovering
<1>4. ASSUME Resumed, recovery # "install", NEW m \in Msg, NEW at \in {"read", "terminate"}, Asks(m, at)
      PROVE  HoldInv'
  <2>1. UNCHANGED <<opened, alive, closed, session, status, start>> /\ recovery' = at
    BY <1>4 DEF Asks, Ask, serverVars
  <2> QED
    BY <1>4, <2>1 DEF HoldInv, Resumed, ConnectedHolds, Recovering
<1>5. CASE Resumed /\ Proceeds
  BY <1>5 DEF Proceeds, HoldInv, Resumed, ConnectedHolds, Recovering, netVars, serverVars
<1>6. CASE Installs
  <2>1. opened \in alive => session.kept /\ session.current = opened
    BY <1>6, Constants DEF Installs, HoldInv, Resumed, TypeInv, NetTypes
  <2> QED
    BY <1>6, <2>1 DEF Installs, HoldInv, Resumed, ConnectedHolds, Recovering, netVars, serverVars
<1> QED
  BY <1>1, <1>2, <1>3, <1>4, <1>5, <1>6 DEF RecoveryStep

LEMMA UserHold ==
  ASSUME TypeInv, HoldInv, UserCall \/ UserStep
  PROVE  HoldInv'
<1>1. UNCHANGED <<opened, alive, session, status, closed, recovery>>
  BY UserFrame DEF serverVars
<1>2. /\ call'["recover"] = call["recover"] /\ (recovery = "init" => UNCHANGED up)
      /\ recovery \in Recovering \ {"starts"} => start'.at # "begun"
  <2>1. CASE UserStep
    <3>1. recovery \in Recovering => ~Usable
      BY DEF HoldInv, Usable
    <3> QED
      BY <2>1, <3>1, UserFrame, UserSteps DEF HoldInv
  <2>2. CASE UserCall
    <3>1. CASE UNCHANGED <<up, call>> /\ start' \in {start, [start EXCEPT !.at = "over"]}
      BY <3>1 DEF HoldInv, TypeInv, ClientTypes
    <3>2. ASSUME NEW a \in Callers, NEW m \in Msg, NEW c \in 1..opened, Call(a, c, m), a # "recover",
                 \/ start.at = "begun" /\ start'.at = "calling"
                 \/ Usable /\ start'.at = "cleaning"
                 \/ Usable /\ UNCHANGED start
          PROVE  /\ call'["recover"] = call["recover"] /\ (recovery = "init" => UNCHANGED up)
                 /\ recovery \in Recovering \ {"starts"} => start'.at # "begun"
      <4>1. call'["recover"] = call["recover"]
        BY <3>2, CallEffect, Constants
      <4>2. recovery \in Recovering \ {"starts"} => ~Usable /\ start.at # "begun"
        BY DEF HoldInv, Usable
      <4> QED
        BY <3>2, <4>1, <4>2 DEF Recovering
    <3> QED
      BY <2>2, <3>1, <3>2, UserCalls
  <2> QED
    BY <2>1, <2>2
<1> QED
  BY <1>1, <1>2 DEF HoldInv, Waits, Resumed, ConnectedHolds

LEMMA NextHold ==
  ASSUME TypeInv, SeenInv, HoldInv, Next
  PROVE  HoldInv'
  BY NextCases, NetworkHold, ServerHold, HandlerHold, RecoveryHold, UserHold

-----------------------------------------------------------------------------
(* Requests in order.                                                      *)

(* What a call adds to the queues.                                         *)
LEMMA CallQueue ==
  ASSUME TypeInv, NEW a \in Callers, NEW c \in 1..opened, NEW m \in Msg, Call(a, c, m),
         NEW d \in Conns, NEW i \in DOMAIN up'[d]
  PROVE  \/ i \in DOMAIN up[d] /\ up'[d][i] = up[d][i]
         \/ /\ d = c /\ c \in alive /\ c \notin closed
            /\ i \notin DOMAIN up[d] /\ i = Len(up[d]) + 1 /\ up'[d][i] = m
<1>1. CASE up'[d] = up[d]
  BY <1>1
<1>2. CASE d = c /\ c \in alive /\ c \notin closed /\ up'[d] = Append(up[d], m)
  <2>1. up[d] \in Seq(Msg)
    BY QueueTypes
  <2>2. /\ DOMAIN up'[d] = DOMAIN up[d] \union {Len(up[d]) + 1}
        /\ Len(up[d]) + 1 \notin DOMAIN up[d]
        /\ \A j \in DOMAIN up[d] : up'[d][j] = up[d][j]
        /\ up'[d][Len(up[d]) + 1] = m
    BY <1>2, <2>1, AppendQueue
  <2> QED
    BY <1>2, <2>2
<1> QED
  BY <1>1, <1>2, CallEffect

LEMMA ShrinksQueue ==
  ASSUME Shrinks, NEW d \in Conns, NEW op
  PROVE  /\ \A i \in DOMAIN up'[d] : \E j \in DOMAIN up[d] : up'[d][i] = up[d][j]
         /\ Initializes(d)' => Initializes(d)
<1>1. \A i \in DOMAIN up'[d] : \E j \in DOMAIN up[d] : up'[d][i] = up[d][j]
  BY DEF Shrinks
<1> QED
  BY <1>1 DEF Initializes, Waits

LEMMA InitOrder == Init => OrderInv
<1> SUFFICES ASSUME Init PROVE OrderInv
  OBVIOUS
<1>1. call["recover"].res = "none"
  BY Constants, CallingFields DEF Init, NoCall
<1>2. \A c \in Conns : DOMAIN up[c] = {}
  BY DEF Init
<1> QED
  BY <1>1, <1>2, Constants DEF Init, OrderInv, Resumed, Initializes, Waits

(* Steps that leave the queues alone.                                      *)
LEMMA OrderFrame ==
  ASSUME OrderInv, UNCHANGED <<opened, up>>, Resumed' => Resumed,
         status'.is = "connected" => status' = status \/ (Resumed /\ status'.conn = opened)
  PROVE  OrderInv'
<1>1. \A c : \A i : \A op : Waits(c, i, op)' <=> Waits(c, i, op)
  BY DEF Waits
<1>2. \A c : Initializes(c)' <=> Initializes(c)
  BY <1>1 DEF Initializes, Waits
<1> QED
  BY <1>1, <1>2 DEF OrderInv, Initializes, Waits

LEMMA HandlerOrder ==
  ASSUME TypeInv, HoldInv, OrderInv, HandlerStep
  PROVE  OrderInv'
<1>1. UNCHANGED <<opened, status, recovery>> /\ Shrinks
  BY HandlerEffect
<1>2. opened \in Conns /\ (status.is = "connected" => status.conn \in Conns)
  BY Constants DEF TypeInv, NetTypes, ClientTypes
<1>3. Resumed' => ~Initializes(opened)'
  <2>1. CASE Resumed
    BY <1>1, <1>2, <2>1, ShrinksQueue DEF OrderInv, Initializes, Waits
  <2>2. CASE ~Resumed /\ Resumed'
    <3>1. DOMAIN up'[opened] = {}
      BY <1>1, <2>2, HandlerResumes DEF Resumed
    <3> QED
      BY <1>1, <3>1 DEF Initializes, Waits
  <2> QED
    BY <2>1, <2>2
<1>4. status.is = "connected" => ~Initializes(status.conn)'
  BY <1>1, <1>2, ShrinksQueue DEF OrderInv, Initializes, Waits
<1>5. ASSUME NEW c \in Conns, NEW i \in DOMAIN up'[c], Waits(c, i, "write")'
      PROVE  ~Initializes(c)'
  BY <1>1, <1>5, ShrinksQueue DEF OrderInv, Waits
<1> QED
  BY <1>1, <1>3, <1>4, <1>5 DEF OrderInv, Initializes, Waits

(* A request that is not initialize joins a queue.                         *)
LEMMA CallOrder ==
  ASSUME TypeInv, OrderInv, NEW a \in Callers, NEW c \in 1..opened, NEW m \in Msg, Call(a, c, m),
         UNCHANGED <<opened, status>>, Resumed' => Resumed, m.op # "initialize",
         m.op = "write" => ~Initializes(c)
  PROVE  OrderInv'
<1>1. ASSUME NEW d \in Conns, Initializes(d)' PROVE Initializes(d)
  <2>1. PICK i \in DOMAIN up'[d] : up'[d][i].op = "initialize"
    BY <1>1 DEF Initializes, Waits
  <2>2. i \in DOMAIN up[d] /\ up[d][i].op = "initialize"
    BY <2>1, CallQueue
  <2> QED
    BY <2>2 DEF Initializes, Waits
<1>2. ASSUME NEW d \in Conns, NEW i \in DOMAIN up'[d], up'[d][i].op = "write"
      PROVE  ~Initializes(d)'
  <2>1. (i \in DOMAIN up[d] /\ up[d][i].op = "write") \/ (d = c /\ m.op = "write")
    BY <1>2, CallQueue
  <2> QED
    BY <1>1, <2>1 DEF OrderInv, Waits
<1>3. opened \in Conns /\ (status.is = "connected" => status.conn \in Conns)
  BY Constants DEF TypeInv, NetTypes, ClientTypes
<1> QED
  BY <1>1, <1>2, <1>3 DEF OrderInv, Initializes, Waits

LEMMA NextOrder ==
  ASSUME TypeInv, SeenInv, HoldInv, OrderInv, Next
  PROVE  OrderInv'
<1>1. CASE ServerStep
  BY <1>1, ServerStepTypes, OrderFrame DEF netVars, clientVars, Resumed
<1>2. ASSUME NEW t \in Tasks, Notify(t) PROVE OrderInv'
  BY <1>2, OrderFrame DEF Notify, netVars, Resumed
<1>3. ASSUME NEW c \in Conns, Break(c) \/ HandleEvent(c) PROVE OrderInv'
  <2>1. CASE Break(c)
    BY <2>1, OrderFrame DEF Break, clientVars, Resumed
  <2>2. CASE HandleEvent(c)
    <3>1. UNCHANGED <<opened, up, call>> /\ (UNCHANGED <<status, recovery>>
            \/ (status' = [is |-> "recovering", conn |-> None] /\ recovery' = "starts"))
      BY <2>2 DEF HandleEvent, netVars
    <3> QED
      BY <3>1, OrderFrame DEF Resumed
  <2> QED
    BY <1>3, <2>1, <2>2
<1>4. ASSUME NEW c \in Conns, ReadClosed(c) PROVE OrderInv'
  <2>1. call'["recover"] = call["recover"] \/ call'["recover"] = Calling(c, "closed")
    BY <1>4, Constants DEF ReadClosed
  <2>2. UNCHANGED <<opened, up, status, recovery>>
    BY <1>4 DEF ReadClosed, netVars
  <2> QED
    BY <2>1, <2>2, OrderFrame, CallingFields DEF Resumed
<1>5. CASE StartsDone \/ FailSessions
  BY <1>5, OrderFrame DEF StartsDone, FailSessions, netVars, Resumed
<1>6. CASE Connect
  <2>1. ~Resumed' /\ status'.is # "connected"
    <3>1. call'["recover"].res = "wait"
      BY <1>6, ConnectEffect, CallingFields
    <3> QED
      BY <1>6, <3>1 DEF Connect, Resumed, HoldInv, Recovering
  <2>2. ASSUME NEW d \in Conns, NEW i \in DOMAIN up'[d], up'[d][i].op = "write"
        PROVE  up'[d] = up[d]
    <3>1. d # opened'
      <4> DEFINE m == [from |-> "recover", op |-> "initialize"]
      <4>1. m.op = "initialize" /\ up'[opened'] = <<m>>
        BY <1>6, ConnectEffect
      <4> HIDE DEF m
      <4> QED
        BY <2>2, <4>1
    <3> QED
      BY <1>6, <3>1, ConnectEffect
  <2> QED
    BY <2>1, <2>2 DEF OrderInv, Initializes, Waits
<1>7. CASE RecoveryStep
  <2>1. CASE GivesUp
    <3>1. UNCHANGED <<opened, up>> /\ ~Resumed'
      BY <2>1, GivesUpEffect DEF Resumed
    <3>2. status'.is = "connected" => status' = status
      BY <2>1, GivesUpEffect
    <3> QED
      BY <3>1, <3>2, OrderFrame
  <2>2. ASSUME Resumed, NEW m \in Msg, NEW at, RecoveryAsk(m), Asks(m, at) PROVE OrderInv'
    <3>1. m.op # "initialize" /\ m.op # "write"
      BY <2>2 DEF RecoveryAsk
    <3>2. Call("recover", opened, m) /\ UNCHANGED <<opened, status>> /\ opened \in 1..opened
      BY <2>2, Constants DEF Asks, Ask, TypeInv, NetTypes
    <3> QED
      BY <2>2, <3>1, <3>2, CallOrder, Constants
  <2>3. CASE Resumed /\ Proceeds
    BY <2>3, OrderFrame DEF Proceeds, netVars
  <2>4. CASE Installs
    <3>1. UNCHANGED <<opened, up>> /\ ~Resumed' /\ Resumed /\ status'.conn = opened
      BY <2>4 DEF Installs, Resumed, netVars
    <3> QED
      BY <3>1, OrderFrame
  <2> QED
    BY <1>7, <2>1, <2>2, <2>3, <2>4 DEF RecoveryStep
<1>8. CASE UserStep
  BY <1>8, UserFrame, UserSteps, OrderFrame DEF Resumed
<1>9. CASE UserCall
  <2>1. UNCHANGED <<opened, status, recovery>>
    BY <1>9, UserFrame
  <2>2. CASE UNCHANGED <<up, call>>
    BY <2>1, <2>2, OrderFrame DEF Resumed
  <2>3. ASSUME NEW a \in Callers, NEW m \in Msg, NEW c \in 1..opened, Call(a, c, m), a # "recover",
               m.op # "initialize", m.op = "write" => Usable /\ c = status.conn
        PROVE  OrderInv'
    <3>1. call'["recover"] = call["recover"]
      BY <2>3, CallEffect, Constants
    <3>2. Resumed' => Resumed
      BY <2>1, <3>1 DEF Resumed
    <3>3. m.op = "write" => ~Initializes(c)
      BY <2>3 DEF Usable, OrderInv
    <3> QED
      BY <2>1, <2>3, <3>2, <3>3, CallOrder
  <2> QED
    <3>1. \/ UNCHANGED <<up, call>>
          \/ \E a \in Callers, m \in Msg, c \in 1..opened :
               /\ Call(a, c, m) /\ a # "recover" /\ m.op # "initialize"
               /\ m.op = "write" => Usable /\ c = status.conn
      BY <1>9, UserCalls
    <3> QED
      BY <2>2, <2>3, <3>1
<1> QED
  BY <1>1, <1>2, <1>3, <1>4, <1>5, <1>6, <1>7, <1>8, <1>9, NextCases, HandlerOrder

-----------------------------------------------------------------------------
(* Writes.                                                                 *)

(* No request of kind op joins a queue.                                    *)
NoNew(op) ==
  \A d \in Conns : \E k \in {0, 1} : \A i \in DOMAIN up'[d] :
    up'[d][i].op = op => i + k \in DOMAIN up[d] /\ up'[d][i] = up[d][i + k]

LEMMA SameNoNew ==
  ASSUME TypeInv, UNCHANGED up, NEW op
  PROVE  NoNew(op)
<1>1. \A d \in Conns : \A i \in DOMAIN up[d] : i + 0 = i
  BY QueueTypes
<1> QED
  BY <1>1 DEF NoNew

LEMMA CallNoNew ==
  ASSUME TypeInv, NEW a \in Callers, NEW c \in 1..opened, NEW m \in Msg, Call(a, c, m),
         NEW op, m.op # op
  PROVE  NoNew(op)
<1> SUFFICES ASSUME NEW d \in Conns, NEW i \in DOMAIN up'[d], up'[d][i].op = op
             PROVE  i + 0 \in DOMAIN up[d] /\ up'[d][i] = up[d][i + 0]
  BY DEF NoNew
<1>1. i \in DOMAIN up[d] /\ up'[d][i] = up[d][i]
  BY CallQueue
<1>2. i + 0 = i
  BY <1>1, QueueTypes
<1> QED
  BY <1>1, <1>2

LEMMA NoNewRequest ==
  ASSUME TypeInv, SeenInv, Next, NEW op \in {"write", "exec"}
  PROVE  NoNew(op) \/ (op = "write" /\ SendWrite) \/ (op = "exec" /\ InsertSession)
<1>1. CASE HandlerStep
  BY <1>1, HandlerEffect DEF Shrinks, NoNew
<1>2. CASE Connect
  <2> SUFFICES ASSUME NEW d \in Conns, NEW i \in DOMAIN up'[d], up'[d][i].op = op
               PROVE  i + 0 \in DOMAIN up[d] /\ up'[d][i] = up[d][i + 0]
    BY DEF NoNew
  <2>1. d # opened'
    <3> DEFINE m == [from |-> "recover", op |-> "initialize"]
    <3>1. m.op = "initialize" /\ up'[opened'] = <<m>>
      BY <1>2, ConnectEffect
    <3> HIDE DEF m
    <3> QED
      BY <3>1
  <2>2. up'[d] = up[d]
    BY <1>2, <2>1, ConnectEffect
  <2> QED
    BY <2>2, QueueTypes
<1>3. CASE RecoveryStep
  <2>1. CASE GivesUp \/ Proceeds \/ Installs
    <3>1. UNCHANGED up
      BY <2>1 DEF GivesUp, Retry, Fail, Proceeds, Installs, netVars
    <3> QED
      BY <3>1, SameNoNew
  <2>2. ASSUME NEW m \in Msg, NEW at, RecoveryAsk(m), Asks(m, at) PROVE NoNew(op)
    <3>1. m.op # op
      BY <2>2 DEF RecoveryAsk
    <3>2. Call("recover", opened, m) /\ opened \in 1..opened
      BY <2>2, Constants DEF Asks, Ask, TypeInv, NetTypes
    <3> QED
      BY <3>1, <3>2, CallNoNew, Constants
  <2> QED
    BY <1>3, <2>1, <2>2 DEF RecoveryStep
<1>4. CASE UserCall
  <2>1. CASE UNCHANGED up
    BY <2>1, SameNoNew
  <2>2. CASE InsertSession /\ ~UNCHANGED up /\ op = "write"
    <3>1. Call("start", start.conn, [from |-> "start", op |-> "exec"]) /\ start.at = "begun"
      BY <2>2 DEF InsertSession
    <3>2. [from |-> "start", op |-> "exec"] \in Msg /\ start.conn \in 1..opened
      BY <3>1 DEF Msg, TypeInv, ClientTypes
    <3>3. [from |-> "start", op |-> "exec"].op # op
      BY <2>2
    <3> QED
      BY <3>1, <3>2, <3>3, CallNoNew, Constants
  <2>3. CASE Cleanup /\ ~UNCHANGED up
    <3>1. Call("cleanup", status.conn, [from |-> "cleanup", op |-> "terminate"]) /\ Usable
      BY <2>3 DEF Cleanup
    <3>2. [from |-> "cleanup", op |-> "terminate"] \in Msg /\ status.conn \in 1..opened
      BY <3>1 DEF Msg, Usable, TypeInv, ClientTypes
    <3>3. [from |-> "cleanup", op |-> "terminate"].op # op
      OBVIOUS
    <3> QED
      BY <3>1, <3>2, <3>3, CallNoNew, Constants
  <2>4. CASE SendWrite /\ ~UNCHANGED up /\ op = "exec"
    <3>1. /\ Call("write", status.conn, [from |-> "write", op |-> "write", id |-> writing.id])
          /\ Usable
      BY <2>4 DEF SendWrite
    <3>2. /\ [from |-> "write", op |-> "write", id |-> writing.id] \in Msg
          /\ status.conn \in 1..opened
      BY <3>1 DEF Msg, Usable, TypeInv, ClientTypes
    <3>3. [from |-> "write", op |-> "write", id |-> writing.id].op # op
      BY <2>4
    <3> QED
      BY <3>1, <3>2, <3>3, CallNoNew, Constants
  <2> QED
    BY <1>4, <2>1, <2>2, <2>3, <2>4 DEF UserCall
<1>5. ASSUME \/ ServerStep \/ StartsDone \/ FailSessions \/ UserStep
             \/ \E c \in Conns : Break(c) \/ ReadClosed(c) \/ HandleEvent(c)
             \/ \E t \in Tasks : Notify(t)
      PROVE  NoNew(op)
  <2>1. UNCHANGED up
    BY <1>5, ServerStepTypes, UserFrame
       DEF StartsDone, FailSessions, Break, ReadClosed, HandleEvent, Notify, netVars
  <2> QED
    BY <2>1, SameNoNew
<1> QED
  BY <1>1, <1>2, <1>3, <1>4, <1>5, NextCases

LEMMA InitWrite == Init => WriteInv
<1> SUFFICES ASSUME Init PROVE WriteInv
  OBVIOUS
<1>1. call["write"] = NoCall /\ call["write"].res = "none"
  BY Constants, CallingFields DEF Init, NoCall
<1>2. \A c \in Conns : DOMAIN up[c] = {}
  BY DEF Init
<1>3. stdin = <<>> /\ DOMAIN stdin = {} /\ writing.acked = {}
  BY DEF Init
<1> QED
  BY <1>1, <1>2, <1>3 DEF WriteInv, WrittenOnce

(* A step that writes nothing: a call may be lost with its connection, and *)
(* a connection that takes the session has no write waiting.               *)
LEMMA WriteFrame ==
  ASSUME TypeInv, TypeInv', WriteInv, NoNew("write"), UNCHANGED <<stdin, writing>>, closed \subseteq closed',
         \A c \in Conns : c = session'.current =>
           \/ c = session.current
           \/ \A i \in DOMAIN up'[c] : up'[c][i].op # "write",
         \/ call'["write"] = call["write"]
         \/ \E c \in Conns \cap closed' :
              call["write"].conn = c /\ call'["write"] = Calling(c, "closed")
  PROVE  WriteInv'
<1>1. /\ call'["write"].res = "accepted" => call["write"].res = "accepted"
      /\ call["write"] = NoCall => call'["write"] = NoCall
      /\ \A c \in Conns \ closed' : call["write"] = Calling(c, "wait") => call'["write"] = call["write"]
  <2>1. NoCall.conn = None
    BY CallingFields DEF NoCall
  <2> QED
    BY <2>1, CallingFields, Constants
<1>2. ASSUME NEW c \in Conns, NEW i \in DOMAIN up'[c], up'[c][i].op = "write"
      PROVE  QueuedWrite(c, i)'
  <2>1. PICK k \in {0, 1} : \A j \in DOMAIN up'[c] :
          up'[c][j].op = "write" => j + k \in DOMAIN up[c] /\ up'[c][j] = up[c][j + k]
    BY DEF NoNew
  <2>2. i + k \in DOMAIN up[c] /\ up'[c][i] = up[c][i + k] /\ up[c][i + k].op = "write"
    BY <1>2, <2>1
  <2>3. QueuedWrite(c, i + k)
    BY <2>2 DEF WriteInv, Waits
  <2>4. up'[c][i].id <= writing'.id
    BY <2>2, <2>3 DEF QueuedWrite
  <2>5. ASSUME NEW j \in DOMAIN up'[c], up'[c][j].op = "write" PROVE i = j
    <3>1. j + k \in DOMAIN up[c] /\ up[c][j + k].op = "write"
      BY <2>1, <2>5
    <3>2. i + k = j + k
      BY <2>3, <3>1 DEF QueuedWrite, Waits
    <3>3. i \in Int /\ j \in Int
      <4>1. up'[c] \in Seq(Msg)
        BY DEF TypeInv, NetTypes
      <4> QED
        BY <4>1
    <3> QED
      BY <2>1, <3>2, <3>3
  <2>6. c = session'.current => Contains(stdin', up'[c][i].id) \/ Fresh(up[c][i].id)'
    BY <1>2, <2>2, <2>3 DEF QueuedWrite, Fresh
  <2>7. c \notin closed' => call'["write"] = Calling(c, "wait") /\ up'[c][i].id = writing'.id
    BY <1>1, <2>2, <2>3 DEF QueuedWrite
  <2> QED
    BY <2>4, <2>5, <2>6, <2>7 DEF QueuedWrite, Waits, Fresh, Calling, NoRead
<1> QED
  BY <1>1, <1>2 DEF WriteInv, WrittenOnce, Waits

(* The steps that are not about a write.                                   *)
LEMMA HandlerNoWrite ==
  ASSUME TypeInv, OrderInv, NEW c \in Conns,
         Attach(c) \/ ServeExec(c) \/ Spawned(c) \/ ServeRead(c) \/ ServeTerminate(c) \/ Disconnect(c)
  PROVE  /\ call'["write"] = call["write"] /\ UNCHANGED <<stdin, writing, closed>>
         /\ \A d \in Conns : d = session'.current =>
              \/ d = session.current
              \/ \A i \in DOMAIN up'[d] : up'[d][i].op # "write"
<1>1. UNCHANGED <<stdin, writing, closed>>
  <2>1. HandlerStep
    BY DEF HandlerStep
  <2>2. UNCHANGED stdin
    BY DEF Attach, ServeExec, Spawned, ServeRead, ServeTerminate, Disconnect, serverVars
  <2> QED
    BY <2>1, <2>2, HandlerEffect
<1>2. ASSUME NEW a \in Callers \ {"write"}, NEW res, NEW read, Respond(c, a, res, read)
      PROVE  call'["write"] = call["write"]
  BY <1>2, Constants DEF Respond, TypeInv, ClientTypes
<1>3. ASSUME NEW op, op # "write", Takes(c, op), NEW res, Answers(c, res)
      PROVE  call'["write"] = call["write"]
  <2>1. Head(up[c]).from \in Callers \ {"write"}
    BY <1>3, TakesEffect, MsgFacts
  <2> QED
    BY <1>2, <1>3, <2>1 DEF Answers
<1>4. call'["write"] = call["write"]
  <2>1. CASE Attach(c)
    BY <1>3, <2>1 DEF Attach
  <2>2. CASE ServeExec(c)
    BY <1>3, <2>2 DEF ServeExec, clientVars
  <2>3. CASE Spawned(c)
    BY <1>2, <2>3, Constants DEF Spawned
  <2>4. CASE ServeRead(c)
    <3>1. /\ Takes(c, "read")
          /\ \/ Respond(c, Head(up[c]).from, "ok", ReadResponse(Head(up[c]).after))
             \/ Answers(c, "error")
      BY <2>4 DEF ServeRead
    <3>2. Head(up[c]).from \in Callers \ {"write"}
      BY <3>1, TakesEffect, MsgFacts
    <3> QED
      BY <1>2, <1>3, <3>1, <3>2
  <2>5. CASE ServeTerminate(c)
    BY <1>3, <2>5 DEF ServeTerminate
  <2>6. CASE Disconnect(c)
    BY <2>6 DEF Disconnect, clientVars
  <2> QED
    BY <2>1, <2>2, <2>3, <2>4, <2>5, <2>6
<1>5. ASSUME NEW d \in Conns, d = session'.current, d # session.current
      PROVE  \A i \in DOMAIN up'[d] : up'[d][i].op # "write"
  <2>1. Attach(c) /\ d = c
    <3>1. session'.current = session.current \/ session'.current = None \/ (Attach(c) /\ session'.current = c)
      BY DEF Attach, ServeExec, Spawned, ServeRead, ServeTerminate, Disconnect, serverVars,
             TypeInv, ServerTypes
    <3> QED
      BY <1>5, <3>1, Constants
  <2>2. Takes(c, "initialize")
    BY <2>1 DEF Attach
  <2>3. 1 \in DOMAIN up[c] /\ up[c][1].op = "initialize"
    BY <2>2, TakesEffect, TailQueue
  <2>4. Initializes(c)
    BY <2>3 DEF Initializes, Waits
  <2>5. Shrinks
    BY <2>2, TakesShrinks
  <2> QED
    BY <2>1, <2>4, <2>5, ShrinksQueue DEF OrderInv, Waits
<1> QED
  BY <1>1, <1>4, <1>5

LEMMA QuietStep ==
  ASSUME TypeInv, TypeInv', SeenInv, OrderInv, WriteInv, Next, ~\E c \in Conns : ServeWrite(c),
         ~SendWrite, ~Write, ~WriteAnswered
  PROVE  WriteInv'
<1>1. NoNew("write")
  BY NoNewRequest
<1>2. /\ UNCHANGED <<stdin, writing>> /\ closed \subseteq closed'
      /\ \A c \in Conns : c = session'.current =>
           \/ c = session.current
           \/ \A i \in DOMAIN up'[c] : up'[c][i].op # "write"
      /\ \/ call'["write"] = call["write"]
         \/ \E c \in Conns \cap closed' :
              call["write"].conn = c /\ call'["write"] = Calling(c, "closed")
  <2>1. CASE HandlerStep
    BY <2>1, HandlerNoWrite DEF HandlerStep
  <2>2. CASE ServerStep
    <3>1. session'.current = session.current
      BY <2>2, ZenonT(60) DEF ServerStep, Output, EndOfStream, CheckClosed, ChildExits, Exit, Retire, Expire,
                  TypeInv, ServerTypes
    <3> QED
      BY <2>2, <3>1, ServerStepTypes DEF clientVars
  <2>3. ASSUME NEW t \in Tasks, Notify(t)
        PROVE  UNCHANGED <<stdin, writing, closed, session, call>>
    BY <2>3 DEF Notify
  <2>4. ASSUME NEW c \in Conns, Break(c) \/ HandleEvent(c)
        PROVE  UNCHANGED <<stdin, writing, closed, session, call>>
    BY <2>4 DEF Break, HandleEvent, serverVars, clientVars
  <2>5. ASSUME NEW c \in Conns, ReadClosed(c)
        PROVE  /\ UNCHANGED <<stdin, writing, session>> /\ closed' = closed \union {c}
               /\ \/ call'["write"] = call["write"]
                  \/ call["write"].conn = c /\ call'["write"] = Calling(c, "closed")
    BY <2>5, Constants DEF ReadClosed, serverVars
  <2>6. CASE StartsDone \/ FailSessions
    BY <2>6 DEF StartsDone, FailSessions, serverVars
  <2>7. CASE Connect
    BY <2>7, ConnectEffect, Constants DEF Connect
  <2>8. CASE RecoveryStep
    <3>1. CASE GivesUp
      BY <3>1, GivesUpEffect, Constants DEF serverVars
    <3>2. ASSUME NEW m \in Msg, NEW at, Asks(m, at)
          PROVE  UNCHANGED <<stdin, writing, session, closed>> /\ call'["write"] = call["write"]
      <4>1. Call("recover", opened, m) /\ opened \in 1..opened
        BY <3>2, Constants DEF Asks, Ask, TypeInv, NetTypes
      <4> QED
        BY <3>2, <4>1, CallEffect, Constants DEF Asks, Ask, serverVars
    <3>3. CASE Proceeds
      BY <3>3, HangEffect, Constants DEF Proceeds, serverVars
    <3>4. CASE Installs
      BY <3>4 DEF Installs, serverVars
    <3> QED
      BY <2>8, <3>1, <3>2, <3>3, <3>4 DEF RecoveryStep
  <2>9. CASE UserCall
    <3>1. InsertSession \/ Cleanup
      BY <2>9 DEF UserCall
    <3>2. UNCHANGED <<stdin, writing, session, closed>>
      BY <3>1 DEF InsertSession, Cleanup, serverVars
    <3>3. call'["write"] = call["write"]
      BY <3>1, Constants DEF InsertSession, Cleanup, Call, TypeInv, ClientTypes
    <3> QED
      BY <3>2, <3>3
  <2>10. CASE UserStep
    <3>1. BeginStart \/ StartAnswered \/ CleanupAnswered
      BY <2>10 DEF UserStep
    <3>2. UNCHANGED <<stdin, writing, session, closed>>
      BY <3>1 DEF BeginStart, StartAnswered, CleanupAnswered, serverVars
    <3>3. call'["write"] = call["write"]
      BY <3>1, Constants DEF BeginStart, StartAnswered, CleanupAnswered, Hang, TypeInv, ClientTypes
    <3> QED
      BY <3>2, <3>3
  <2> QED
    BY <2>1, <2>2, <2>3, <2>4, <2>5, <2>6, <2>7, <2>8, <2>9, <2>10, NextCases
<1> QED
  BY <1>1, <1>2, WriteFrame

LEMMA ServeWriteWrite ==
  ASSUME TypeInv, TypeInv', HoldInv, WriteInv, NEW c \in Conns, ServeWrite(c)
  PROVE  WriteInv'
<1> DEFINE id == up[c][1].id
<1>1. /\ Takes(c, "write") /\ session.current = c
      /\ UNCHANGED <<alive, session>>
  BY DEF ServeWrite, Attached
<1>2. /\ 1 \in DOMAIN up[c] /\ up[c][1].op = "write" /\ Head(up[c]) = up[c][1]
      /\ Head(up[c]).from = "write" /\ id \in Nat
      /\ \A i \in DOMAIN up'[c] : i + 1 \in DOMAIN up[c] /\ up'[c][i] = up[c][i + 1]
      /\ \A d \in Conns \ {c} : up'[d] = up[d]
  <2>1. /\ up[c] \in Seq(Msg) /\ up[c] # <<>> /\ up'[c] = Tail(up[c])
        /\ Head(up[c]) \in Msg /\ Head(up[c]).op = "write"
        /\ \A d \in Conns \ {c} : up'[d] = up[d]
    BY <1>1, TakesEffect
  <2>2. /\ 1 \in DOMAIN up[c] /\ Head(up[c]) = up[c][1]
        /\ \A i \in DOMAIN Tail(up[c]) : i + 1 \in DOMAIN up[c] /\ Tail(up[c])[i] = up[c][i + 1]
    BY <2>1, TailQueue
  <2>3. Head(up[c]).from = "write" /\ Head(up[c]).id \in Nat
    BY <2>1, MsgFacts
  <2> QED
    BY <2>1, <2>2, <2>3, Zenon
<1>3. QueuedWrite(c, 1)
  BY <1>2 DEF WriteInv, Waits
<1>4. UNCHANGED <<closed, writing>>
  <2>1. HandlerStep
    BY DEF HandlerStep
  <2> QED
    BY <2>1, HandlerEffect
<1>5. stdin \in Seq(Nat) /\ writing.id \in Nat
  BY DEF TypeInv, ServerTypes, ClientTypes
<1>6. \/ stdin' = stdin
      \/ ~Contains(stdin, id) /\ stdin' = Append(stdin, id)
  BY <1>2 DEF ServeWrite
<1>7. /\ \A i \in DOMAIN stdin : i \in DOMAIN stdin' /\ stdin'[i] = stdin[i]
      /\ \A i \in DOMAIN stdin' \ DOMAIN stdin : stdin'[i] = id /\ Fresh(id) /\ i > Len(stdin)
      /\ DOMAIN stdin = 1..Len(stdin) /\ DOMAIN stdin' \subseteq Nat
  <2>1. CASE stdin' = stdin
    BY <1>5, <2>1
  <2>2. CASE ~Contains(stdin, id) /\ stdin' = Append(stdin, id)
    <3>1. Fresh(id)
      BY <1>1, <1>3, <2>2 DEF QueuedWrite
    <3>2. /\ DOMAIN stdin' = DOMAIN stdin \union {Len(stdin) + 1} /\ DOMAIN stdin = 1..Len(stdin)
          /\ \A i \in DOMAIN stdin : stdin'[i] = stdin[i]
          /\ stdin'[Len(stdin) + 1] = id
      BY <1>2, <1>5, <2>2, AppendQueue
    <3> QED
      BY <1>5, <3>1, <3>2
  <2> QED
    BY <1>6, <2>1, <2>2
<1>8. \/ call'["write"] = call["write"]
      \/ /\ c \in alive /\ call["write"] = Calling(c, "wait")
         /\ call'["write"].res = "accepted" => Contains(stdin', id)
  <2>1. PICK res \in {"error", "accepted"} :
          Answers(c, res) /\ (res = "accepted" => (Contains(stdin, id) \/ stdin' = Append(stdin, id)))
    BY <1>2 DEF ServeWrite
  <2>2. Respond(c, "write", res, NoRead)
    BY <1>2, <2>1 DEF Answers
  <2>3. \/ call'["write"] = call["write"]
        \/ /\ c \in alive /\ call["write"] = Calling(c, "wait")
           /\ call'["write"] = [conn |-> c, res |-> res, read |-> NoRead]
    BY <2>2, Constants DEF Respond, TypeInv, ClientTypes
  <2>4. [conn |-> c, res |-> res, read |-> NoRead].res = res
    OBVIOUS
  <2>5. Contains(stdin, id) => Contains(stdin', id)
    BY <1>5, <1>7 DEF Contains
  <2>6. stdin' = Append(stdin, id) => Contains(stdin', id)
    BY <1>2, <1>5, AppendQueue DEF Contains
  <2> QED
    BY <2>1, <2>3, <2>4, <2>5, <2>6
<1>9. ASSUME NEW d \in Conns, NEW i \in DOMAIN up'[d], up'[d][i].op = "write"
      PROVE  QueuedWrite(d, i)'
  <2>1. d # c
    <3> SUFFICES ASSUME d = c PROVE FALSE
      OBVIOUS
    <3>1. i + 1 \in DOMAIN up[c] /\ up[c][i + 1].op = "write"
      BY <1>2, <1>9
    <3>2. i + 1 = 1 /\ i \in DOMAIN up'[c]
      BY <1>3, <1>9, <3>1 DEF QueuedWrite, Waits
    <3>3. up'[c] \in Seq(Msg)
      BY DEF TypeInv, NetTypes
    <3>4. i \in Nat /\ i >= 1
      BY <3>2, <3>3
    <3> QED
      BY <3>2, <3>4
  <2>2. up'[d] = up[d]
    BY <1>2, <2>1
  <2>3. QueuedWrite(d, i)
    BY <1>9, <2>2 DEF WriteInv, Waits
  <2>4. d \notin closed => call'["write"] = Calling(d, "wait")
    BY <1>8, <2>1, <2>3, CallingFields DEF QueuedWrite
  <2> QED
    BY <1>1, <1>4, <2>1, <2>2, <2>3, <2>4 DEF QueuedWrite, Waits, Calling, NoRead
<1>10. \A i \in DOMAIN stdin' : stdin'[i] <= writing'.id
  BY <1>3, <1>4, <1>7 DEF QueuedWrite, WriteInv
<1>11. call'["write"].res = "accepted" => Contains(stdin', writing'.id)
  <2>1. CASE call'["write"] = call["write"]
    BY <1>4, <1>5, <1>7, <2>1 DEF WriteInv, Contains
  <2>2. CASE /\ c \in alive /\ call["write"] = Calling(c, "wait")
             /\ call'["write"].res = "accepted" => Contains(stdin', id)
    <3>1. id = writing.id
      BY <1>3, <2>2 DEF QueuedWrite, HoldInv
    <3> QED
      BY <1>4, <2>2, <3>1
  <2> QED
    BY <1>8, <2>1, <2>2
<1>12. writing'.at # "calling" => call'["write"] = NoCall
  <2>1. call["write"] = NoCall => call["write"] # Calling(c, "wait")
    BY CallingFields, Constants DEF NoCall
  <2> QED
    BY <1>4, <1>8, <2>1 DEF WriteInv
<1>13. WrittenOnce'
  <2>1. ASSUME NEW i \in DOMAIN stdin', NEW j \in DOMAIN stdin', i < j
        PROVE  stdin'[i] < stdin'[j]
    <3>1. CASE j \in DOMAIN stdin
      <4>1. i \in DOMAIN stdin
        BY <1>5, <1>7, <2>1, <3>1
      <4> QED
        BY <1>7, <2>1, <3>1, <4>1 DEF WriteInv, WrittenOnce
    <3>2. CASE j \notin DOMAIN stdin /\ i \in DOMAIN stdin
      BY <1>7, <3>2 DEF Fresh
    <3>3. CASE j \notin DOMAIN stdin /\ i \notin DOMAIN stdin
      <4>1. stdin' = Append(stdin, id)
        BY <1>6, <3>3
      <4>2. i = Len(stdin) + 1 /\ j = Len(stdin) + 1
        BY <1>2, <1>5, <3>3, <4>1, AppendQueue
      <4> QED
        BY <1>5, <2>1, <4>2
    <3> QED
      BY <3>1, <3>2, <3>3
  <2>2. Range(stdin) \subseteq Range(stdin')
    BY <1>7 DEF Range
  <2> QED
    BY <1>4, <2>1, <2>2 DEF WrittenOnce, WriteInv
<1> QED
  BY <1>9, <1>10, <1>11, <1>12, <1>13 DEF WriteInv, Waits, NoCall, Calling, NoRead

LEMMA WriteWrite ==
  ASSUME TypeInv, WriteInv, Write
  PROVE  WriteInv'
<1>1. UNCHANGED <<up, session, stdin, closed, call>> /\ writing.at = "idle"
  BY DEF Write, netVars, serverVars
<1>2. writing'.id = writing.id + 1 /\ writing.id \in Nat /\ writing'.acked = writing.acked
  BY DEF Write, TypeInv, ClientTypes
<1>3. call["write"] = NoCall /\ call["write"].res = "none"
  BY <1>1, CallingFields DEF WriteInv, NoCall
<1>4. ASSUME NEW c \in Conns, NEW i \in DOMAIN up[c], up[c][i].op = "write"
      PROVE  QueuedWrite(c, i)'
  <2>1. QueuedWrite(c, i) /\ up[c][i].id \in Nat
    BY <1>4, QueueTypes, MsgFacts DEF WriteInv, Waits
  <2>2. c \in closed
    BY <1>3, <2>1, CallingFields, Constants DEF QueuedWrite, NoCall
  <2> QED
    BY <1>1, <1>2, <2>1, <2>2 DEF QueuedWrite, Waits, Fresh
<1>5. \A i \in DOMAIN stdin : stdin[i] <= writing.id + 1
  <2>1. \A i \in DOMAIN stdin : stdin[i] \in Nat /\ stdin[i] <= writing.id
    BY DEF WriteInv, TypeInv, ServerTypes
  <2> QED
    BY <1>2, <2>1
<1> QED
  BY <1>1, <1>2, <1>3, <1>4, <1>5 DEF WriteInv, WrittenOnce, Waits, NoCall, Calling, NoRead

LEMMA WriteAnsweredWrite ==
  ASSUME TypeInv, WriteInv, WriteAnswered
  PROVE  WriteInv'
<1>1. UNCHANGED <<up, session, stdin, closed>> /\ Hang("write")
  BY DEF WriteAnswered, netVars, serverVars
<1>2. /\ writing'.id = writing.id
      /\ \/ writing'.acked = writing.acked
         \/ /\ call["write"].res = "accepted"
            /\ writing'.acked = writing.acked \union {writing.id}
  BY DEF WriteAnswered, TypeInv, ClientTypes
<1>3. call'["write"] = NoCall /\ NoCall.res = "none"
  BY <1>1, HangEffect, CallingFields, Constants DEF NoCall
<1>4. ASSUME NEW c \in Conns, NEW i \in DOMAIN up[c], up[c][i].op = "write"
      PROVE  QueuedWrite(c, i)'
  <2>1. QueuedWrite(c, i)
    BY <1>4 DEF WriteInv, Waits
  <2>2. c \in closed
    BY <2>1, CallingFields DEF QueuedWrite, WriteAnswered, Answered
  <2> QED
    BY <1>1, <1>2, <2>1, <2>2 DEF QueuedWrite, Waits, Fresh
<1>5. writing'.acked \subseteq Range(stdin)
  BY <1>2 DEF WriteInv, WrittenOnce, Contains, Range
<1> QED
  BY <1>1, <1>2, <1>3, <1>4, <1>5 DEF WriteInv, WrittenOnce, Waits, NoCall, Calling, NoRead

LEMMA SendWriteWrite ==
  ASSUME TypeInv, HoldInv, WriteInv, SendWrite
  PROVE  WriteInv'
<1>1. UNCHANGED <<session, stdin, closed>> /\ writing.at = "ready"
  BY DEF SendWrite, serverVars
<1>2. /\ writing'.id = writing.id /\ writing'.acked = writing.acked /\ writing.id \in Nat
      /\ stdin \in Seq(Nat)
  BY DEF SendWrite, TypeInv, ClientTypes, ServerTypes
<1>3. call["write"] = NoCall /\ NoCall.res = "none"
  BY <1>1, CallingFields DEF WriteInv, NoCall
<1>4. ASSUME NEW c \in Conns, NEW i \in DOMAIN up[c], up[c][i].op = "write"
      PROVE  QueuedWrite(c, i) /\ c \in closed
  <2>1. QueuedWrite(c, i)
    BY <1>4 DEF WriteInv, Waits
  <2> QED
    BY <1>3, <2>1, CallingFields, Constants DEF QueuedWrite, NoCall
<1>5. CASE ~Usable
  <2>1. UNCHANGED <<up, call>>
    BY <1>5 DEF SendWrite
  <2> QED
    BY <1>1, <1>2, <1>3, <1>4, <2>1
       DEF WriteInv, QueuedWrite, WrittenOnce, Waits, Fresh, NoCall, Calling, NoRead
<1>6. CASE Usable
  <2> DEFINE m == [from |-> "write", op |-> "write", id |-> writing.id]
             e == status.conn
  <2>1. m \in Msg /\ e \in 1..opened /\ e \in Conns /\ e \notin closed
    BY <1>2, <1>6, Constants DEF Msg, Usable, TypeInv, NetTypes, ClientTypes
  <2>2. Call("write", e, m) /\ writing' = [writing EXCEPT !.at = "calling"]
    BY <1>6 DEF SendWrite
  <2>3. call'["write"] = Calling(e, "wait") /\ Calling(e, "wait").res = "wait"
    BY <2>1, <2>2, CallEffect, Constants, CallingFields
  <2>4. Contains(stdin, writing.id) \/ Fresh(writing.id)
    <3> SUFFICES ASSUME ~Contains(stdin, writing.id), NEW i \in DOMAIN stdin
                 PROVE  stdin[i] < writing.id
      BY DEF Fresh
    <3>1. stdin[i] # writing.id /\ stdin[i] \in Nat
      BY <1>2 DEF Contains
    <3> QED
      BY <1>2, <3>1 DEF WriteInv
  <2>5. m.op = "write" /\ m.id = writing.id
    OBVIOUS
  <2> HIDE DEF m
  <2>6. ASSUME NEW d \in Conns, NEW i \in DOMAIN up'[d], up'[d][i].op = "write"
        PROVE  QueuedWrite(d, i)'
    <3>1. ASSUME NEW j \in DOMAIN up'[d], up'[d][j].op = "write"
          PROVE  \/ j \in DOMAIN up[d] /\ up'[d][j] = up[d][j] /\ QueuedWrite(d, j) /\ d \in closed
                 \/ d = e /\ e \notin closed /\ j = Len(up[d]) + 1 /\ up'[d][j] = m
      <4>1. \/ j \in DOMAIN up[d] /\ up'[d][j] = up[d][j]
            \/ d = e /\ j = Len(up[d]) + 1 /\ up'[d][j] = m
        BY <2>1, <2>2, CallQueue, Constants
      <4> QED
        BY <1>4, <2>1, <3>1, <4>1
    <3>2. CASE d \in closed
      <4>1. \A j \in DOMAIN up'[d] : up'[d][j].op = "write" =>
              j \in DOMAIN up[d] /\ up'[d][j] = up[d][j] /\ QueuedWrite(d, j)
        BY <2>1, <3>1, <3>2
      <4> QED
        BY <1>1, <1>2, <2>6, <3>2, <4>1 DEF QueuedWrite, Waits, Fresh
    <3>3. CASE d \notin closed
      <4>1. \A j \in DOMAIN up'[d] : up'[d][j].op = "write" =>
              d = e /\ j = Len(up[d]) + 1 /\ up'[d][j] = m
        BY <3>1, <3>3
      <4>2. d = e /\ up'[d][i] = m /\ i = Len(up[d]) + 1
        BY <2>6, <4>1
      <4> QED
        BY <1>1, <1>2, <2>3, <2>4, <2>5, <3>3, <4>1, <4>2
           DEF QueuedWrite, Waits, Fresh, Calling, NoRead
    <3> QED
      BY <3>2, <3>3
  <2>7. writing'.at = "calling"
    BY <2>2 DEF TypeInv, ClientTypes
  <2> QED
    BY <1>1, <1>2, <2>3, <2>6, <2>7 DEF WriteInv, WrittenOnce, Waits
<1> QED
  BY <1>5, <1>6

LEMMA NextWrite ==
  ASSUME TypeInv, TypeInv', HoldInv, OrderInv, WriteInv, SeenInv, Next
  PROVE  WriteInv'
  BY QuietStep, ServeWriteWrite, WriteWrite, WriteAnsweredWrite, SendWriteWrite

-----------------------------------------------------------------------------
(* The process is launched once.                                           *)

LEMMA InitLog == Init => LogInv
<1> SUFFICES ASSUME Init PROVE LogInv
  OBVIOUS
<1>1. \A c \in Conns : DOMAIN up[c] = {} /\ handler[c] # "spawning"
  BY DEF Init
<1>2. \A t \in Tasks : task[t] = "none"
  BY DEF Init
<1>3. log = <<>> /\ DOMAIN log = {}
  BY DEF Init
<1>4. LaunchInv
  BY <1>1, <1>2 DEF LaunchInv, Unstarted
<1>5. TraceInv
  BY <1>2, <1>3, Constants DEF TraceInv, Unstarted, ExitCode
<1> QED
  BY <1>4, <1>5 DEF LogInv

(* The tasks of a process that was not started stay so.                    *)
LEMMA LaunchFrame ==
  ASSUME TypeInv, TypeInv', LaunchInv, NoNew("exec"),
         \A c \in Conns : handler'[c] = "spawning" => handler[c] = "spawning",
         start'.at \in {"none", "begun"} => start.at \in {"none", "begun"},
         Unstarted => Unstarted'
  PROVE  LaunchInv'
<1>1. ASSUME NEW c \in Conns, NEW i \in DOMAIN up'[c], up'[c][i].op = "exec"
      PROVE  /\ start'.at \notin {"none", "begun"} /\ Unstarted'
             /\ \A d \in Conns : handler'[d] # "spawning"
             /\ \A d \in Conns : \A j \in DOMAIN up'[d] : up'[d][j].op = "exec" => d = c /\ j = i
  <2>1. PICK k \in {0, 1} : \A j \in DOMAIN up'[c] :
          up'[c][j].op = "exec" => j + k \in DOMAIN up[c] /\ up'[c][j] = up[c][j + k]
    BY DEF NoNew
  <2>2. i + k \in DOMAIN up[c] /\ up[c][i + k].op = "exec"
    BY <1>1, <2>1
  <2>3. /\ start.at \notin {"none", "begun"} /\ Unstarted
        /\ \A d \in Conns : handler[d] # "spawning"
        /\ \A d \in Conns : \A j \in DOMAIN up[d] : up[d][j].op = "exec" => d = c /\ j = i + k
    BY <2>2 DEF LaunchInv, Waits
  <2>4. ASSUME NEW d \in Conns, NEW j \in DOMAIN up'[d], up'[d][j].op = "exec"
        PROVE  d = c /\ j = i
    <3>1. d = c
      <4>1. PICK n \in {0, 1} : \A l \in DOMAIN up'[d] :
              up'[d][l].op = "exec" => l + n \in DOMAIN up[d] /\ up'[d][l] = up[d][l + n]
        BY DEF NoNew
      <4>2. j + n \in DOMAIN up[d] /\ up[d][j + n].op = "exec"
        BY <2>4, <4>1
      <4> QED
        BY <2>3, <4>2
    <3>2. j + k \in DOMAIN up[c] /\ up[c][j + k].op = "exec"
      BY <2>1, <2>4, <3>1
    <3>3. j + k = i + k
      BY <2>3, <3>2
    <3>4. i \in Int /\ j \in Int
      <4>1. up'[c] \in Seq(Msg)
        BY DEF TypeInv, NetTypes
      <4> QED
        BY <2>4, <3>1, <4>1
    <3> QED
      BY <2>1, <3>1, <3>3, <3>4
  <2> QED
    BY <2>3, <2>4
<1> QED
  BY <1>1 DEF LaunchInv, Waits, Unstarted

LEMMA ServeExecLaunch ==
  ASSUME TypeInv, TypeInv', LaunchInv, NEW c \in Conns, ServeExec(c)
  PROVE  LaunchInv'
<1>1. Takes(c, "exec") /\ UNCHANGED task
  BY DEF ServeExec
<1>2. UNCHANGED start /\ Shrinks
  <2>1. HandlerStep
    BY DEF HandlerStep
  <2> QED
    BY <2>1, HandlerEffect
<1>3. 1 \in DOMAIN up[c] /\ up[c][1].op = "exec"
  BY <1>1, TakesEffect, TailQueue
<1>4. /\ start.at \notin {"none", "begun"} /\ Unstarted
      /\ \A d \in Conns : handler[d] # "spawning"
      /\ \A d \in Conns : \A j \in DOMAIN up[d] : up[d][j].op = "exec" => d = c /\ j = 1
  BY <1>3 DEF LaunchInv, Waits
<1>5. \A d \in Conns \ {c} : handler'[d] = handler[d]
  BY DEF ServeExec, TypeInv, ServerTypes
<1>6. ASSUME NEW d \in Conns, NEW j \in DOMAIN up'[d], up'[d][j].op = "exec" PROVE FALSE
  <2>1. d = c
    BY <1>2, <1>4, <1>6, ShrinksQueue
  <2>2. up[c] \in Seq(Msg) /\ up[c] # <<>> /\ up'[c] = Tail(up[c])
    BY <1>1, TakesEffect
  <2>3. j + 1 \in DOMAIN up[c] /\ up'[c][j] = up[c][j + 1]
    BY <1>6, <2>1, <2>2, TailQueue
  <2>4. j + 1 = 1
    BY <1>4, <1>6, <2>1, <2>3
  <2>5. j \in Nat /\ j >= 1
    <3>1. up'[c] \in Seq(Msg)
      BY DEF TypeInv, NetTypes
    <3> QED
      BY <1>6, <2>1, <3>1
  <2> QED
    BY <2>4, <2>5
<1> QED
  BY <1>1, <1>2, <1>4, <1>5, <1>6 DEF LaunchInv, Waits, Unstarted

LEMMA SpawnedLaunch ==
  ASSUME TypeInv, TypeInv', LaunchInv, NEW c \in Conns, Spawned(c)
  PROVE  LaunchInv'
<1>1. UNCHANGED <<up, start>> /\ handler[c] = "spawning"
  BY DEF Spawned, Respond, netVars
<1>2. /\ start.at \notin {"none", "begun"}
      /\ \A d \in Conns : handler[d] = "spawning" => d = c
  BY <1>1 DEF LaunchInv
<1>3. \A d \in Conns : handler'[d] # "spawning"
  BY <1>2 DEF Spawned, TypeInv, ServerTypes
<1>4. \A d \in Conns : \A i \in DOMAIN up[d] : up[d][i].op # "exec"
  BY <1>1 DEF LaunchInv, Waits
<1> QED
  BY <1>1, <1>2, <1>3, <1>4 DEF LaunchInv, Waits

LEMMA InsertSessionLaunch ==
  ASSUME TypeInv, TypeInv', LaunchInv, InsertSession
  PROVE  LaunchInv'
<1>1. UNCHANGED <<handler, task>> /\ start.at = "begun"
  BY DEF InsertSession, serverVars
<1>2. start'.at \in {"over", "calling"} /\ Unstarted
  BY <1>1 DEF InsertSession, TypeInv, ClientTypes, LaunchInv
<1>3. /\ \A d \in Conns : handler[d] # "spawning"
      /\ \A d \in Conns : \A i \in DOMAIN up[d] : up[d][i].op # "exec"
  BY <1>1 DEF LaunchInv, Waits
<1>4. CASE UNCHANGED up
  BY <1>1, <1>2, <1>3, <1>4 DEF LaunchInv, Waits
<1>5. CASE ~UNCHANGED up
  <2> DEFINE m == [from |-> "start", op |-> "exec"]
  <2>1. m \in Msg /\ start.conn \in 1..opened
    BY <1>1 DEF Msg, TypeInv, ClientTypes
  <2>2. Call("start", start.conn, m)
    BY <1>5 DEF InsertSession
  <2> HIDE DEF m
  <2>3. ASSUME NEW d \in Conns, NEW i \in DOMAIN up'[d], up'[d][i].op = "exec"
        PROVE  d = start.conn /\ i = Len(up[start.conn]) + 1
    <3>1. \/ i \in DOMAIN up[d] /\ up'[d][i] = up[d][i]
          \/ d = start.conn /\ i = Len(up[d]) + 1
      BY <2>1, <2>2, CallQueue, Constants
    <3> QED
      BY <1>3, <2>3, <3>1
  <2> QED
    BY <1>1, <1>2, <1>3, <2>3 DEF LaunchInv, Waits, Unstarted
<1> QED
  BY <1>4, <1>5

LEMMA NextLaunch ==
  ASSUME TypeInv, TypeInv', SeenInv, LaunchInv, Next
  PROVE  LaunchInv'
<1>1. NoNew("exec") \/ InsertSession
  BY NoNewRequest
<1> DEFINE Same == /\ \A c \in Conns : handler'[c] = "spawning" => handler[c] = "spawning"
                   /\ start'.at \in {"none", "begun"} => start.at \in {"none", "begun"}
                   /\ Unstarted => Unstarted'
<1>2. ASSUME NEW c \in Conns, Attach(c) \/ ServeRead(c) \/ ServeTerminate(c) \/ ServeWrite(c)
                                \/ Disconnect(c)
      PROVE  Same
  <2>1. UNCHANGED start
    <3>1. HandlerStep
      BY <1>2 DEF HandlerStep
    <3> QED
      BY <3>1, HandlerEffect
  <2>2. UNCHANGED task /\ \A d \in Conns : handler'[d] = "spawning" => handler[d] = "spawning"
    BY <1>2 DEF Attach, ServeRead, ServeTerminate, ServeWrite, Disconnect, serverVars,
               TypeInv, ServerTypes
  <2> QED
    BY <2>1, <2>2 DEF Unstarted
<1>3. ASSUME ServerStep \/ \E t \in Tasks : Notify(t) PROVE Same
  <2>1. UNCHANGED <<handler, start>>
    BY <1>3, ServerStepTypes DEF Notify, clientVars
  <2>2. ASSUME Unstarted PROVE UNCHANGED task
    BY <1>3, <2>2, Constants
       DEF Unstarted, ServerStep, Notify, Output, EndOfStream, CheckClosed, ChildExits, Exit,
           Retire, Expire
  <2> QED
    BY <2>1, <2>2 DEF Unstarted
<1>4. ASSUME NEW c \in Conns, Break(c) \/ ReadClosed(c) \/ HandleEvent(c) PROVE Same
  BY <1>4 DEF Break, ReadClosed, HandleEvent, serverVars, clientVars, Unstarted
<1>5. ASSUME StartsDone \/ FailSessions \/ RecoveryStep PROVE Same
  <2>1. UNCHANGED <<handler, task, start>>
    BY <1>5 DEF StartsDone, FailSessions, RecoveryStep, GivesUp, Asks, Proceeds, Installs, serverVars
  <2> QED
    BY <2>1 DEF Unstarted
<1>6. ASSUME Connect PROVE Same
  <2>1. \A c \in Conns : handler'[c] = "spawning" => handler[c] = "spawning"
    BY <1>6, ConnectEffect
  <2> QED
    BY <1>6, <2>1 DEF Connect, Unstarted
<1>7. ASSUME UserStep \/ (UserCall /\ ~InsertSession) PROVE Same
  <2>1. UNCHANGED <<handler, task>>
    BY <1>7, UserFrame DEF serverVars
  <2>2. start'.at \in {"none", "begun"} => start.at \in {"none", "begun"}
    BY <1>7, UserSteps DEF UserCall, Cleanup, SendWrite, TypeInv, ClientTypes
  <2> QED
    BY <2>1, <2>2 DEF Unstarted
<1>8. CASE Same /\ ~InsertSession
  BY <1>1, <1>8, LaunchFrame
<1> HIDE DEF Same
<1>9. \/ Same \/ InsertSession \/ \E c \in Conns : ServeExec(c) \/ Spawned(c)
  BY <1>2, <1>3, <1>4, <1>5, <1>6, <1>7, NextCases DEF HandlerStep
<1> QED
  BY <1>8, <1>9, InsertSessionLaunch, ServeExecLaunch, SpawnedLaunch

-----------------------------------------------------------------------------
(* The log of the process.                                                 *)

(* What is in the log stays there.                                         *)
LogGrows ==
  /\ Len(log) <= Len(log')
  /\ \A i \in 1..Len(log) : log'[i] = log[i]

LEMMA AppendLog ==
  ASSUME TypeInv, NEW k \in Kinds, log' = Append(log, k)
  PROVE  /\ log \in Seq(Kinds) /\ Len(log) \in Nat /\ DOMAIN log = 1..Len(log)
         /\ Len(log') = Len(log) + 1 /\ DOMAIN log' = 1..Len(log) \union {Len(log) + 1}
         /\ log'[Len(log) + 1] = k /\ LogGrows
         /\ \A x : Contains(log', x) <=> Contains(log, x) \/ x = k
<1>1. log \in Seq(Kinds) /\ Len(log) \in Nat /\ DOMAIN log = 1..Len(log)
  BY DEF TypeInv, ServerTypes
<1>2. /\ Len(log') = Len(log) + 1 /\ DOMAIN log' = 1..Len(log) \union {Len(log) + 1}
      /\ log'[Len(log) + 1] = k /\ \A i \in 1..Len(log) : log'[i] = log[i]
  BY <1>1, AppendQueue
<1>3. LogGrows
  BY <1>1, <1>2 DEF LogGrows
<1>4. \A x : Contains(log', x) <=> Contains(log, x) \/ x = k
  <2>1. 1..Len(log') = 1..Len(log) \union {Len(log) + 1}
    BY <1>1, <1>2
  <2> QED
    BY <1>2, <2>1 DEF Contains
<1> QED
  BY <1>1, <1>2, <1>3, <1>4

LEMMA TraceFrame ==
  ASSUME TraceInv, UNCHANGED <<task, unsent, log>>
  PROVE  TraceInv'
  BY DEF TraceInv, Unstarted, ExitCode, OpenStreams

(* A task that is at work was started with the others.                     *)
LEMMA Started ==
  ASSUME TraceInv, NEW t \in Tasks, task[t] # "none"
  PROVE  \A u \in Tasks : task[u] # "none"
  BY DEF TraceInv, Unstarted

LEMMA OutputTrace ==
  ASSUME TypeInv, TraceInv, NEW s \in Streams, Output(s)
  PROVE  TraceInv' /\ LogGrows
<1>1. /\ log' = Append(log, "output") /\ "output" \in Kinds /\ s \in Tasks /\ s # "exit"
      /\ task[s] = "read" /\ task' = [task EXCEPT ![s] = "send"]
      /\ unsent' = [unsent EXCEPT ![s] = Len(log')]
  BY Constants DEF Output, Numbered, Kinds
<1>2. /\ Len(log') = Len(log) + 1 /\ DOMAIN log' = 1..Len(log) \union {Len(log) + 1}
      /\ log'[Len(log) + 1] = "output" /\ LogGrows /\ Len(log) \in Nat /\ DOMAIN log = 1..Len(log)
      /\ \A x : Contains(log', x) <=> Contains(log, x) \/ x = "output"
  BY <1>1, AppendLog
<1>3. /\ task'[s] = "send" /\ \A t \in Tasks \ {s} : task'[t] = task[t] /\ unsent'[t] = unsent[t]
      /\ unsent'[s] = Len(log) + 1
  BY <1>1, <1>2 DEF TypeInv, ServerTypes
<1>4. \A t \in Tasks : task'[t] # "none"
  BY <1>1, <1>3, Started
<1>5. ExitCode' => task'["exit"] # "read"
  BY <1>1, <1>2, <1>3, Constants DEF TraceInv, ExitCode
<1>6. \A i \in DOMAIN log' : log'[i] # "closed"
  <2>1. s \in OpenStreams
    BY <1>1 DEF OpenStreams
  <2>2. \A i \in DOMAIN log : log[i] # "closed"
    BY <2>1 DEF TraceInv
  <2> QED
    BY <1>2, <2>2 DEF LogGrows
<1>7. \A t \in Tasks : task'[t] \in {"send", "close"} => unsent'[t] \in 1..Len(log')
  BY <1>2, <1>3 DEF TraceInv
<1> QED
  BY <1>2, <1>4, <1>5, <1>6, <1>7 DEF TraceInv

LEMMA ExitTrace ==
  ASSUME TypeInv, TraceInv, Exit
  PROVE  TraceInv' /\ LogGrows
<1>1. "exit" \in Tasks /\ "exit" \notin Streams /\ task["exit"] = "read"
  BY Constants DEF Exit
<1>2. /\ task'["exit"] \in {"send", "check"}
      /\ \A t \in Tasks \ {"exit"} : task'[t] = task[t]
  BY <1>1 DEF Exit, TypeInv, ServerTypes
<1>3. \A t \in Tasks : task'[t] # "none"
  BY <1>1, <1>2, Started
<1>4. \A i \in DOMAIN log : log[i] # "closed"
  BY <1>1 DEF TraceInv
<1>5. OpenStreams' = OpenStreams
  BY <1>1, <1>2, Constants DEF OpenStreams
<1>6. CASE UNCHANGED <<log, unsent>> /\ task'["exit"] = "check"
  <2>1. LogGrows
    BY <1>6 DEF LogGrows, TypeInv, ServerTypes
  <2> QED
    BY <1>2, <1>3, <1>4, <1>6, <2>1 DEF TraceInv
<1>7. CASE log' = Append(log, "exited") /\ unsent' = [unsent EXCEPT !["exit"] = Len(log')]
  <2>1. "exited" \in Kinds
    BY DEF Kinds
  <2>2. /\ Len(log') = Len(log) + 1 /\ DOMAIN log' = 1..Len(log) \union {Len(log) + 1}
        /\ log'[Len(log) + 1] = "exited" /\ LogGrows /\ Len(log) \in Nat /\ DOMAIN log = 1..Len(log)
    BY <1>7, <2>1, AppendLog
  <2>3. unsent'["exit"] = Len(log') /\ \A t \in Tasks \ {"exit"} : unsent'[t] = unsent[t]
    BY <1>1, <1>7 DEF TypeInv, ServerTypes
  <2>4. \A i \in DOMAIN log' : log'[i] # "closed"
    BY <1>4, <2>2 DEF LogGrows
  <2>5. \A t \in Tasks : task'[t] \in {"send", "close"} => unsent'[t] \in 1..Len(log')
    BY <1>2, <2>2, <2>3 DEF TraceInv
  <2> QED
    BY <1>2, <1>3, <2>2, <2>4, <2>5 DEF TraceInv
<1> QED
  <2>1. \/ UNCHANGED <<log, unsent>> /\ task' = [task EXCEPT !["exit"] = "check"]
        \/ log' = Append(log, "exited") /\ unsent' = [unsent EXCEPT !["exit"] = Len(log')]
    BY DEF Exit, Numbered
  <2> QED
    BY <1>1, <1>6, <1>7, <2>1 DEF TypeInv, ServerTypes

LEMMA CheckClosedTrace ==
  ASSUME TypeInv, TraceInv, NEW t \in Tasks, CheckClosed(t)
  PROVE  TraceInv' /\ LogGrows
<1>1. /\ task[t] = "check" /\ task'[t] \in {"close", "done"}
      /\ \A u \in Tasks \ {t} : task'[u] = task[u]
  BY DEF CheckClosed, TypeInv, ServerTypes
<1>2. \A u \in Tasks : task'[u] # "none"
  BY <1>1, Started
<1>3. OpenStreams' = OpenStreams
  BY <1>1, Constants DEF OpenStreams
<1>4. CASE UNCHANGED <<log, unsent>> /\ task'[t] = "done"
  <2>1. LogGrows
    BY <1>4 DEF LogGrows, TypeInv, ServerTypes
  <2>2. ExitCode' <=> ExitCode
    BY <1>4 DEF ExitCode
  <2>3. ExitCode' => task'["exit"] # "read"
    BY <1>1, <2>2, Constants DEF TraceInv
  <2> QED
    BY <1>1, <1>2, <1>3, <1>4, <2>1, <2>2, <2>3 DEF TraceInv
<1>5. CASE /\ log' = Append(log, "closed") /\ unsent' = [unsent EXCEPT ![t] = Len(log')]
           /\ ~ProcClosed /\ OpenStreams = {} /\ ExitCode
  <2>1. "closed" \in Kinds
    BY DEF Kinds
  <2>2. /\ Len(log') = Len(log) + 1 /\ DOMAIN log' = 1..Len(log) \union {Len(log) + 1}
        /\ log'[Len(log) + 1] = "closed" /\ LogGrows /\ Len(log) \in Nat /\ DOMAIN log = 1..Len(log)
        /\ \A x : Contains(log', x) <=> Contains(log, x) \/ x = "closed"
    BY <1>5, <2>1, AppendLog
  <2>3. unsent'[t] = Len(log') /\ \A u \in Tasks \ {t} : unsent'[u] = unsent[u]
    BY <1>5 DEF TypeInv, ServerTypes
  <2>4. \A i \in DOMAIN log : log[i] # "closed"
    BY <1>5, <2>2 DEF ProcClosed, Contains
  <2>5. ExitCode'
    BY <1>5, <2>2 DEF ExitCode
  <2>6. \A i \in DOMAIN log' : log'[i] = "closed" => i = Len(log')
    BY <2>2, <2>4 DEF LogGrows
  <2>7. \A u \in Tasks : task'[u] \in {"send", "close"} => unsent'[u] \in 1..Len(log')
    BY <1>1, <2>2, <2>3 DEF TraceInv
  <2>8. task'["exit"] # "read"
    BY <1>1, <1>5, Constants DEF TraceInv
  <2> QED
    BY <1>2, <1>3, <1>5, <2>2, <2>5, <2>6, <2>7, <2>8 DEF TraceInv
<1> QED
  <2>1. \/ UNCHANGED <<log, unsent>> /\ task' = [task EXCEPT ![t] = "done"]
        \/ /\ log' = Append(log, "closed") /\ unsent' = [unsent EXCEPT ![t] = Len(log')]
           /\ ~ProcClosed /\ OpenStreams = {} /\ ExitCode
    BY DEF CheckClosed, Numbered
  <2> QED
    BY <1>4, <1>5, <2>1 DEF TypeInv, ServerTypes

LEMMA NotifyTrace ==
  ASSUME TypeInv, TraceInv, NEW t \in Tasks, Notify(t) \/ (t \in Streams /\ EndOfStream(t))
  PROVE  TraceInv'
<1>1. /\ task[t] \in {"send", "close", "read"} /\ UNCHANGED log
      /\ \A u \in Tasks \ {t} : task'[u] = task[u] /\ unsent'[u] = unsent[u]
      /\ task'[t] \in {"done", "check"} \/ (task'[t] = "read" /\ t # "exit" /\ task[t] = "send")
  BY Constants DEF Notify, EndOfStream, TypeInv, ServerTypes
<1>2. \A u \in Tasks : task'[u] # "none"
  BY <1>1, Started
<1>3. OpenStreams' \subseteq OpenStreams
  BY <1>1, Constants DEF OpenStreams
<1>4. ExitCode' <=> ExitCode
  BY <1>1 DEF ExitCode
<1>5. ExitCode' => task'["exit"] # "read"
  BY <1>1, <1>4, Constants DEF TraceInv
<1>6. \A i \in DOMAIN log : log[i] = "closed" => i = Len(log) /\ OpenStreams' = {} /\ ExitCode'
  BY <1>3, <1>4 DEF TraceInv
<1>7. \A u \in Tasks : task'[u] \in {"send", "close"} => unsent'[u] \in 1..Len(log)
  BY <1>1 DEF TraceInv
<1> QED
  BY <1>1, <1>2, <1>5, <1>6, <1>7 DEF TraceInv

LEMMA SpawnedTrace ==
  ASSUME TypeInv, LogInv, NEW c \in Conns, Spawned(c)
  PROVE  TraceInv'
<1>1. UNCHANGED <<unsent, log>> /\ handler[c] = "spawning"
  BY DEF Spawned
<1>2. CASE UNCHANGED task
  BY <1>1, <1>2, TraceFrame DEF LogInv
<1>3. CASE task' = [t \in Tasks |-> "read"]
  <2>1. log = <<>>
    BY <1>1, Constants DEF LogInv, LaunchInv, TraceInv, Unstarted
  <2>2. \A t \in Tasks : task'[t] = "read"
    BY <1>3
  <2>3. DOMAIN log' = {} /\ ~ExitCode'
    BY <1>1, <2>1 DEF ExitCode, Contains
  <2> QED
    BY <2>2, <2>3 DEF TraceInv
<1> QED
  BY <1>2, <1>3 DEF Spawned

LEMMA NextTrace ==
  ASSUME TypeInv, LogInv, SeenInv, Next
  PROVE  TraceInv' /\ LogGrows
<1>1. CASE UNCHANGED <<task, unsent, log>>
  <2>1. LogGrows
    BY <1>1 DEF LogGrows, TypeInv, ServerTypes
  <2> QED
    BY <1>1, <2>1, TraceFrame DEF LogInv
<1>2. ASSUME NEW t \in Tasks, Notify(t) \/ (t \in Streams /\ EndOfStream(t))
      PROVE  TraceInv' /\ LogGrows
  <2>1. UNCHANGED log
    BY <1>2 DEF Notify, EndOfStream
  <2>2. LogGrows
    BY <2>1 DEF LogGrows, TypeInv, ServerTypes
  <2> QED
    BY <1>2, <2>2, NotifyTrace DEF LogInv
<1>3. ASSUME NEW c \in Conns, Spawned(c)
      PROVE  TraceInv' /\ LogGrows
  <2>1. UNCHANGED log
    BY <1>3 DEF Spawned
  <2>2. LogGrows
    BY <2>1 DEF LogGrows, TypeInv, ServerTypes
  <2> QED
    BY <1>3, <2>2, SpawnedTrace
<1>4. CASE ServerStep
  <2>1. CASE \/ \E s \in Streams : Output(s)
             \/ \E t \in Tasks : CheckClosed(t)
             \/ Exit
    BY <2>1, OutputTrace, CheckClosedTrace, ExitTrace DEF LogInv
  <2>2. ASSUME NEW s \in Streams, EndOfStream(s) PROVE TraceInv' /\ LogGrows
    BY <1>2, <2>2, Constants
  <2>3. CASE ChildExits \/ Retire \/ \E c \in Conns : Expire(c)
    BY <1>1, <2>3 DEF ChildExits, Retire, Expire
  <2> QED
    BY <1>4, <2>1, <2>2, <2>3 DEF ServerStep
<1>5. CASE HandlerStep /\ ~\E c \in Conns : Spawned(c)
  BY <1>1, <1>5 DEF HandlerStep, Attach, ServeExec, ServeRead, ServeTerminate, ServeWrite,
                    Disconnect, serverVars
<1>6. CASE \E c \in Conns : Break(c) \/ ReadClosed(c) \/ HandleEvent(c)
  BY <1>1, <1>6 DEF Break, ReadClosed, HandleEvent, serverVars
<1>7. CASE StartsDone \/ FailSessions \/ RecoveryStep \/ Connect
  BY <1>1, <1>7 DEF StartsDone, FailSessions, RecoveryStep, GivesUp, Asks, Proceeds, Installs,
                    Connect, serverVars
<1>8. CASE UserCall \/ UserStep
  BY <1>1, <1>8, UserFrame DEF serverVars
<1> QED
  BY <1>2, <1>3, <1>4, <1>5, <1>6, <1>7, <1>8, NextCases

-----------------------------------------------------------------------------
(* What the client is told is true, and stays true.                        *)

LEMMA InitSeen == Init => SeenInv
<1> SUFFICES ASSUME Init PROVE SeenInv
  OBVIOUS
<1>1. log = <<>> /\ Len(log) = 0 /\ \A c \in Conns : DOMAIN inbox[c] = {}
  BY DEF Init
<1>2. \A a \in Callers : call[a].read = NoRead
  BY CallingFields DEF Init, NoCall
<1>3. TrueReply(NoRead)
  BY <1>1 DEF TrueReply, NoRead
<1>4. state.seen = <<>> /\ DOMAIN state.pending = {}
  BY DEF Init
<1>5. SeenInOrder
  BY <1>1, <1>4 DEF SeenInOrder, IsPrefix
<1> QED
  BY <1>1, <1>2, <1>3, <1>4, <1>5 DEF SeenInv

LEMMA ToldStays ==
  ASSUME LogGrows, TypeInv, TypeInv'
  PROVE  /\ \A seq : \A kind : Told(seq, kind) => Told(seq, kind)'
         /\ \A r \in Reply : TrueReply(r) => TrueReply(r)'
<1>1. Len(log) \in Nat /\ Len(log') \in Nat /\ Len(log) <= Len(log') /\ 1..Len(log) \subseteq 1..Len(log')
  BY DEF LogGrows, TypeInv, ServerTypes
<1>2. ASSUME NEW seq, NEW kind, Told(seq, kind) PROVE Told(seq, kind)'
  BY <1>1, <1>2 DEF Told, LogGrows
<1>3. ASSUME NEW r \in Reply, TrueReply(r) PROVE TrueReply(r)'
  <2>1. r.target \in Nat /\ r.target <= Len(log)
    BY <1>3 DEF Reply, TrueReply
  <2>2. r.target <= Len(log') /\ 1..r.target \subseteq 1..Len(log)
    BY <1>1, <2>1
  <2> QED
    BY <1>2, <1>3, <2>2 DEF TrueReply, LogGrows, Told
<1> QED
  BY <1>2, <1>3

LEMMA TrueNoRead ==
  ASSUME TypeInv
  PROVE  TrueReply(NoRead)
<1>1. Len(log) \in Nat
  BY DEF TypeInv, ServerTypes
<1> QED
  BY <1>1 DEF TrueReply, NoRead

(* exec_read tells what is in the log, and the close is at its end.        *)
LEMMA TrueReadResponse ==
  ASSUME TypeInv, TraceInv, NEW after \in Nat
  PROVE  TrueReply(ReadResponse(after))
<1> DEFINE r == ReadResponse(after)
<1>1. Len(log) \in Nat /\ DOMAIN log = 1..Len(log)
  BY DEF TypeInv, ServerTypes
<1>2. /\ r.chunks = {i \in Retained : i > after} /\ r.target = Len(log)
      /\ r.exited = ExitCode /\ r.closed = ProcClosed
  BY DEF ReadResponse
<1>3. \A j \in r.chunks : Told(j, "output")
  BY <1>1, <1>2 DEF Retained, Told
<1>4. r.exited => \E j \in 1..r.target : log[j] = "exited"
  BY <1>2 DEF ExitCode, Contains
<1>5. r.closed => Told(r.target, "closed")
  BY <1>1, <1>2 DEF ProcClosed, Contains, TraceInv, Told
<1>6. r.target <= Len(log)
  BY <1>1, <1>2
<1> HIDE DEF r
<1>7. TrueReply(r)
  BY <1>3, <1>4, <1>5, <1>6 DEF TrueReply
<1> QED
  BY <1>7 DEF r

(* The replies under way after a step.                                     *)
LEMMA NextReplies ==
  ASSUME TypeInv, LogInv, SeenInv, Next
  PROVE  \A a \in Callers : TrueReply(call'[a].read) /\ call'[a].read \in Reply
<1>1. \A a \in Callers : TrueReply(call[a].read) /\ call[a].read \in Reply
  BY DEF SeenInv, TypeInv, ClientTypes, CallState
<1>2. /\ TrueReply(NoRead) /\ NoRead \in Reply
      /\ NoCall.read = NoRead /\ \A c : \A res : Calling(c, res).read = NoRead
  BY TrueNoRead, CallTypes, CallingFields DEF NoCall
<1> DEFINE Fine == \A a \in Callers : call'[a].read \in {call[a].read, NoRead}
<1>3. ASSUME Fine PROVE \A a \in Callers : TrueReply(call'[a].read) /\ call'[a].read \in Reply
  BY <1>1, <1>2, <1>3
<1>4. ASSUME NEW c, NEW a \in Callers, NEW res, NEW read \in Reply, TrueReply(read),
             Respond(c, a, res, read)
      PROVE  \A b \in Callers : TrueReply(call'[b].read) /\ call'[b].read \in Reply
  <2>1. \A b \in Callers : call'[b] = call[b] \/ call'[b] = [conn |-> c, res |-> res, read |-> read]
    BY <1>4 DEF Respond, TypeInv, ClientTypes
  <2>2. [conn |-> c, res |-> res, read |-> read].read = read
    OBVIOUS
  <2> QED
    BY <1>1, <1>4, <2>1, <2>2
<1>5. ASSUME NEW c \in Conns, NEW op, Takes(c, op), NEW res, Answers(c, res)
      PROVE  \A b \in Callers : TrueReply(call'[b].read) /\ call'[b].read \in Reply
  <2>1. Head(up[c]).from \in Callers
    BY <1>5, TakesEffect, MsgFacts
  <2> QED
    BY <1>2, <1>4, <1>5, <2>1 DEF Answers
<1>6. CASE HandlerStep
  <2>1. PICK c \in Conns : Attach(c) \/ ServeExec(c) \/ Spawned(c) \/ ServeRead(c)
                             \/ ServeTerminate(c) \/ ServeWrite(c) \/ Disconnect(c)
    BY <1>6 DEF HandlerStep
  <2>2. CASE Attach(c) \/ ServeTerminate(c) \/ ServeWrite(c)
    BY <1>5, <2>2 DEF Attach, ServeTerminate, ServeWrite
  <2>3. CASE ServeExec(c)
    <3>1. CASE UNCHANGED call
      BY <1>1, <3>1
    <3> QED
      BY <1>5, <2>3, <3>1 DEF ServeExec, clientVars
  <2>4. CASE Spawned(c)
    BY <1>2, <1>4, <2>4, Constants DEF Spawned
  <2>5. CASE ServeRead(c)
    <3>1. /\ Takes(c, "read")
          /\ \/ Respond(c, Head(up[c]).from, "ok", ReadResponse(Head(up[c]).after))
             \/ Answers(c, "error")
      BY <2>5 DEF ServeRead
    <3>2. Head(up[c]).from \in Callers /\ Head(up[c]).after \in Nat
      BY <3>1, TakesEffect, MsgFacts
    <3>3. /\ ReadResponse(Head(up[c]).after) \in Reply
          /\ TrueReply(ReadResponse(Head(up[c]).after))
      BY <3>2, RetainedType, TrueReadResponse DEF LogInv
    <3> QED
      BY <1>4, <1>5, <3>1, <3>2, <3>3
  <2>6. CASE Disconnect(c)
    BY <1>1, <2>6 DEF Disconnect, clientVars
  <2> QED
    BY <2>1, <2>2, <2>3, <2>4, <2>5, <2>6
<1>7. CASE ServerStep \/ \E t \in Tasks : Notify(t)
  <2>1. UNCHANGED call
    BY <1>7, ServerStepTypes DEF Notify, clientVars
  <2> QED
    BY <1>1, <2>1
<1>8. ASSUME NEW c \in Conns, Break(c) \/ ReadClosed(c) \/ HandleEvent(c) PROVE Fine
  <2>1. UNCHANGED call \/ \E lost : call' = [a \in Callers |-> IF a \in lost THEN Calling(c, "closed") ELSE call[a]]
    BY <1>8 DEF Break, ReadClosed, HandleEvent, clientVars
  <2> QED
    BY <1>2, <2>1
<1>9. CASE StartsDone \/ FailSessions
  <2>1. UNCHANGED call
    BY <1>9 DEF StartsDone, FailSessions
  <2> QED
    BY <1>1, <2>1
<1>10. ASSUME Connect PROVE Fine
  BY <1>2, <1>10, ConnectEffect, Constants
<1>11. ASSUME NEW a \in Callers, NEW c, NEW m, Call(a, c, m) PROVE Fine
  <2>1. \A b \in Callers : call'[b] = call[b] \/ \E res : call'[b] = Calling(c, res)
    BY <1>11 DEF Call, TypeInv, ClientTypes
  <2> QED
    BY <1>2, <2>1
<1>12. ASSUME RecoveryStep PROVE Fine
  <2>1. CASE GivesUp
    BY <1>2, <2>1, GivesUpEffect, Constants
  <2>2. CASE Proceeds
    BY <1>2, <2>2, HangEffect, Constants DEF Proceeds
  <2>3. CASE Installs
    BY <2>3 DEF Installs
  <2> QED
    BY <1>11, <1>12, <2>1, <2>2, <2>3, Constants DEF RecoveryStep, Asks, Ask
<1>13. ASSUME UserCall PROVE Fine
  BY <1>11, <1>13, UserCalls
<1>14. ASSUME UserStep PROVE Fine
  BY <1>2, <1>14, UserSteps
<1> HIDE DEF Fine
<1> QED
  BY <1>3, <1>6, <1>7, <1>8, <1>9, <1>10, <1>12, <1>13, <1>14, NextCases

(* The notifications under way after a step.                               *)
LEMMA NextInbox ==
  ASSUME TypeInv, LogInv, SeenInv, Next
  PROVE  \A c \in Conns : \A i \in DOMAIN inbox'[c] :
           inbox'[c][i].is = "event" => Told(inbox'[c][i].seq, inbox'[c][i].kind)
<1> DEFINE Fine == \A c \in Conns : \A i \in DOMAIN inbox'[c] :
                     \/ inbox'[c][i].is # "event"
                     \/ \E j \in DOMAIN inbox[c] : inbox'[c][i] = inbox[c][j]
<1>1. \A c \in Conns : inbox[c] \in Seq(Event) /\ Len(inbox[c]) \in Nat /\ DOMAIN inbox[c] = 1..Len(inbox[c])
  BY DEF TypeInv, ClientTypes
<1>2. ASSUME NEW c \in Conns, ReadClosed(c) PROVE Fine
  <2>1. PICK n \in 0..Len(inbox[c]) : inbox' = [inbox EXCEPT ![c] = Append(SubSeq(inbox[c], 1, n), Closing)]
    BY <1>2 DEF ReadClosed
  <2> DEFINE q == SubSeq(inbox[c], 1, n)
  <2>2. q \in Seq(Event) /\ Len(q) = n /\ \A i \in 1..n : i \in DOMAIN inbox[c] /\ q[i] = inbox[c][i]
    BY <1>1
  <2>3. Closing \in Event /\ Closing.is # "event"
    BY DEF Closing, Event
  <2> HIDE DEF q
  <2>4. /\ DOMAIN Append(q, Closing) = DOMAIN q \union {Len(q) + 1} /\ DOMAIN q = 1..n
        /\ \A i \in DOMAIN q : Append(q, Closing)[i] = q[i]
        /\ Append(q, Closing)[Len(q) + 1] = Closing
    BY <2>2, <2>3, AppendQueue
  <2>5. inbox'[c] = Append(q, Closing) /\ \A d \in Conns \ {c} : inbox'[d] = inbox[d]
    BY <2>1 DEF q, TypeInv, ClientTypes
  <2> QED
    BY <2>2, <2>3, <2>4, <2>5
<1>3. ASSUME NEW c \in Conns, HandleEvent(c) PROVE Fine
  <2>1. inbox[c] # <<>> /\ inbox'[c] = Tail(inbox[c]) /\ \A d \in Conns \ {c} : inbox'[d] = inbox[d]
    BY <1>3 DEF HandleEvent, TypeInv, ClientTypes
  <2>2. \A i \in DOMAIN inbox'[c] : i + 1 \in DOMAIN inbox[c] /\ inbox'[c][i] = inbox[c][i + 1]
    BY <1>1, <2>1, TailQueue
  <2> QED
    BY <2>1, <2>2
<1>4. ASSUME RecoveryStep PROVE Fine
  <2>1. CASE GivesUp
    <3>1. inbox'[opened] = <<>> /\ \A d \in Conns \ {opened} : inbox'[d] = inbox[d]
      BY <2>1, GivesUpEffect
    <3>2. DOMAIN <<>> = {}
      OBVIOUS
    <3> QED
      BY <3>1, <3>2
  <2>2. CASE UNCHANGED inbox
    BY <2>2
  <2> QED
    BY <1>4, <2>1, <2>2 DEF RecoveryStep, Asks, Ask, Proceeds, Installs
<1>5. CASE UNCHANGED inbox
  BY <1>5 DEF SeenInv
<1>6. ASSUME Fine
      PROVE  \A c \in Conns : \A i \in DOMAIN inbox'[c] :
               inbox'[c][i].is = "event" => Told(inbox'[c][i].seq, inbox'[c][i].kind)
  BY <1>6 DEF SeenInv
<1>7. ASSUME NEW t \in Tasks, Notify(t)
      PROVE  \A c \in Conns : \A i \in DOMAIN inbox'[c] :
               inbox'[c][i].is = "event" => Told(inbox'[c][i].seq, inbox'[c][i].kind)
  <2> DEFINE e == Note(unsent[t])
             c == session.current
  <2>1. unsent[t] \in 1..Len(log) /\ log[unsent[t]] \in Kinds
    BY <1>7 DEF Notify, LogInv, TraceInv, TypeInv, ServerTypes
  <2>2. e \in Event /\ Told(e.seq, e.kind)
    BY <2>1 DEF Note, Event, Told
  <2> HIDE DEF e
  <2>3. CASE inbox' = inbox
    BY <1>5, <2>3
  <2>4. CASE c \in Conns /\ inbox' = [inbox EXCEPT ![c] = Append(inbox[c], e)]
    <3>1. inbox'[c] = Append(inbox[c], e) /\ \A d \in Conns \ {c} : inbox'[d] = inbox[d]
      BY <2>4 DEF TypeInv, ClientTypes
    <3>2. /\ DOMAIN inbox'[c] = DOMAIN inbox[c] \union {Len(inbox[c]) + 1}
          /\ \A i \in DOMAIN inbox[c] : inbox'[c][i] = inbox[c][i]
          /\ inbox'[c][Len(inbox[c]) + 1] = e
      BY <1>1, <2>2, <2>4, <3>1, AppendQueue
    <3> QED
      BY <2>2, <3>1, <3>2 DEF SeenInv
  <2>5. c \in Conns \union {None}
    BY DEF TypeInv, ServerTypes
  <2> QED
    BY <1>7, <2>3, <2>4, <2>5 DEF Notify, Push, e
<1> HIDE DEF Fine
<1>8. CASE \/ ServerStep \/ HandlerStep \/ StartsDone \/ FailSessions \/ Connect \/ UserCall \/ UserStep
           \/ \E c \in Conns : Break(c)
  <2>1. UNCHANGED inbox
    BY <1>8, ServerStepTypes, HandlerEffect, UserFrame
       DEF StartsDone, FailSessions, Connect, Break, clientVars
  <2> QED
    BY <1>5, <2>1
<1> QED
  BY <1>2, <1>3, <1>4, <1>6, <1>7, <1>8, NextCases

LEMMA NextState ==
  ASSUME TypeInv, LogInv, SeenInv, Next
  PROVE  state' = state \/ TrueState(state')
<1>1. ASSUME RecoveryStep PROVE state' = state \/ TrueState(state')
  BY <1>1, GivesUpEffect DEF RecoveryStep, Installs
<1>2. ASSUME \/ ServerStep \/ HandlerStep \/ Connect
             \/ \E c \in Conns : Break(c) \/ ReadClosed(c)
             \/ \E t \in Tasks : Notify(t)
      PROVE  state' = state
  BY <1>2, ServerStepTypes, HandlerEffect DEF Connect, Break, ReadClosed, Notify, clientVars
<1> QED
  BY <1>1, <1>2, NextCases, HandleEventTypes, IdleRecoveryTypes, UserState

LEMMA NextSeen ==
  ASSUME TypeInv, TypeInv', LogInv, SeenInv, Next
  PROVE  SeenInv'
<1>1. LogGrows
  BY NextTrace
<1>2. /\ \A seq : \A kind : Told(seq, kind) => Told(seq, kind)'
      /\ \A r \in Reply : TrueReply(r) => TrueReply(r)'
  BY <1>1, ToldStays
<1>3. ASSUME NEW c \in Conns, NEW i \in DOMAIN inbox'[c], inbox'[c][i].is = "event"
      PROVE  Told(inbox[c][i].seq, inbox[c][i].kind)'
  <2>1. Told(inbox'[c][i].seq, inbox'[c][i].kind)
    BY <1>3, NextInbox
  <2> QED
    BY <1>2, <2>1 DEF Told
<1>4. ASSUME NEW a \in Callers PROVE TrueReply(call[a].read)'
  <2>1. TrueReply(call'[a].read) /\ call'[a].read \in Reply
    BY NextReplies
  <2> QED
    BY <1>2, <2>1 DEF TrueReply, Told
<1>5. TrueState(state')
  <2>1. TrueState(state)
    BY DEF TrueState, SeenInv, SeenInOrder, TypeInv, ClientTypes
  <2>2. state' = state => TrueState(state')
    BY <2>1
  <2> QED
    BY <2>2, NextState
<1>6. ASSUME NEW j \in DOMAIN state'.pending PROVE Told(j, state.pending[j])'
  <2>1. Told(j, state'.pending[j])
    BY <1>5, <1>6 DEF TrueState
  <2> QED
    BY <1>2, <2>1 DEF Told
<1>7. SeenInOrder'
  <2>1. state'.seen \in Seq(Kinds) /\ log \in Seq(Kinds) /\ log' \in Seq(Kinds)
    BY <1>5 DEF TrueState, SessionState, TypeInv, ServerTypes
  <2>2. Len(state'.seen) <= Len(log) /\ \A i \in 1..Len(state'.seen) : state'.seen[i] = log[i]
    BY <1>5, <2>1, PrefixFacts DEF TrueState
  <2>3. /\ Len(state'.seen) \in Nat /\ Len(log) \in Nat /\ Len(log') \in Nat
        /\ Len(log) <= Len(log') /\ \A i \in 1..Len(log) : log'[i] = log[i]
    BY <1>1, <2>1 DEF LogGrows
  <2>4. Len(state'.seen) <= Len(log') /\ \A i \in 1..Len(state'.seen) : state'.seen[i] = log'[i]
    BY <2>2, <2>3
  <2>5. IsPrefix(state'.seen, log')
    BY <2>1, <2>4, PrefixFacts
  <2> QED
    BY <2>5 DEF SeenInOrder
<1> QED
  BY <1>3, <1>4, <1>6, <1>7 DEF SeenInv

-----------------------------------------------------------------------------
(* The invariant. *)

LEMMA InitInv == Init => IInv
  BY InitTypeInv, InitHold, InitOrder, InitWrite, InitLog, InitSeen DEF IInv

LEMMA StutterInv ==
  ASSUME IInv, UNCHANGED vars
  PROVE  IInv'
<1> USE DEF vars, netVars, serverVars, clientVars
<1>1. TypeInv'
  BY SMTT(30) DEF IInv, TypeInv, NetTypes, ServerTypes, ClientTypes
<1>2. HoldInv'
  BY DEF IInv, HoldInv, Waits, Resumed, ConnectedHolds
<1>3. OrderInv'
  BY OrderFrame DEF IInv, Resumed
<1>4. WriteInv'
  BY <1>1, SameNoNew, WriteFrame DEF IInv
<1>5. LaunchInv'
  BY <1>1, SameNoNew, LaunchFrame DEF IInv, LogInv, Unstarted
<1>6. TraceInv'
  BY TraceFrame DEF IInv, LogInv
<1>7. SeenInv'
  BY DEF IInv, SeenInv, SeenInOrder, Told, TrueReply
<1> QED
  BY <1>1, <1>2, <1>3, <1>4, <1>5, <1>6, <1>7 DEF IInv, LogInv

LEMMA NextInv ==
  ASSUME IInv, Next
  PROVE  IInv'
<1>1. TypeInv'
  BY NextTypes DEF IInv
<1> QED
  BY <1>1, NextHold, NextOrder, NextWrite, NextLaunch, NextTrace, NextSeen DEF IInv, LogInv

(* The parts of the invariant need each other: what the client is told is  *)
(* true because the process is launched once and its close comes last, and *)
(* a write is new to the child because a connected client holds the        *)
(* session and a new connection initializes before it writes.              *)
THEOREM Inductive == Spec => []IInv
<1>1. IInv /\ [Next]_vars => IInv'
  BY NextInv, StutterInv
<1> QED
  BY <1>1, InitInv, PTL DEF Spec

(* A client that is connected holds its session: no expiry timer and no    *)
(* other connection takes it while the transport is up (attach, detach,    *)
(* expire_if_detached), for any number of connections.                     *)
THEOREM ClientHoldsSession == Spec => []ConnectedHolds
<1>1. IInv => ConnectedHolds
  BY DEF IInv, HoldInv
<1> QED
  BY <1>1, Inductive, PTL

(* However often a write is retried, the child gets it at most once and in *)
(* order, and has got an acknowledged one (Session::write, exec_write).    *)
THEOREM WritesExactlyOnce == Spec => []WrittenOnce
<1>1. IInv => WrittenOnce
  BY DEF IInv, WriteInv
<1> QED
  BY <1>1, Inductive, PTL

(* The consumer sees a prefix of what the process did, whatever was lost   *)
(* and recovered, for any number of streams, chunks and retained chunks    *)
(* (publish_ordered_event, recover_events).                                *)
THEOREM ConsumerSeesPrefix == Spec => []SeenInOrder
<1>1. IInv => SeenInOrder
  BY DEF IInv, SeenInv
<1> QED
  BY <1>1, Inductive, PTL
=============================================================================
