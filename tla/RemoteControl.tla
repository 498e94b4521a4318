--------------------------- MODULE RemoteControl ---------------------------
(***************************************************************************)
(* Remote clients of the app server behind one websocket to a relay        *)
(* (codex-rs/app-server-transport, transport/remote_control).              *)
(*                                                                         *)
(* The relay keeps what the clients send and delivers it from the position *)
(* after the subscribe cursor on every new websocket; the reader hands     *)
(* messages to the app server through a queue that may stay full, and      *)
(* moves the cursor only after that.  In the other direction the writer    *)
(* numbers what the app server sends to each client, keeps it until the    *)
(* relay acknowledges it and sends it again after a reconnect.  The        *)
(* tracker, the cursor and the buffer outlive the websocket.               *)
(*                                                                         *)
(* A key is a (client, stream) pair.  The relay is external.  Not          *)
(* modelled: pings and pongs, malformed and oversized envelopes, and the   *)
(* enrollment, pairing and authentication that precede a connection.       *)
(***************************************************************************)
EXTENDS Naturals, Sequences, FiniteSets, FiniteSetsExt, SequencesExt

CONSTANTS Keys,         \* (client, stream) pairs
          ClientOf,     \* the client of a key
          Workloads,    \* bounds: messages from and to the clients, and faults;
                        \* whether envelopes come between the chunks of a message
          Capacity,     \* CHANNEL_CAPACITY of the outbound buffer
          MaxConns      \* connections to the app server

ASSUME KeysAssumption == IsFiniteSet(Keys) /\ DOMAIN ClientOf = Keys
ASSUME WorkloadsAssumption ==
  Workloads \subseteq [sends : Nat, outs : Nat, breaks : Nat, timeouts : Nat, drops : Nat,
                       interleaves : BOOLEAN]
ASSUME CapacityAssumption == Capacity \in Nat \ {0}
ASSUME ConnsAssumption == MaxConns \in Nat

Conns == 1..MaxConns
None == 0
Clients == {ClientOf[k] : k \in Keys}

VARIABLES
  load,      \* what is left of the workload: messages, websockets lost (breaks),
             \* forwards that time out, connections dropped or idle (drops)
  sent,      \* the relay's log of client envelopes; a position is a cursor
  link,      \* whether the websocket is up
  next,      \* the position the relay delivers next
  cursor,    \* subscribe_cursor
  reader,    \* the envelope the reader is handling, and how far
  assembly,  \* ClientSegmentReassembler: by client
  chunked,   \* last_completed_client_chunk_seq_id_by_stream
  client,    \* ClientTracker.clients: the connection of a key, and its last seq
  tasks,     \* outbound tasks: running, or ended and not yet joined
  conns,     \* connections opened so far: their keys
  closed,    \* connections the app server was told are closed
  got,       \* what the app server got: <<connection, position>>
  queue,     \* server events for the writer
  writer,    \* envelopes the writer is about to send
  wire,      \* envelopes under way to the relay
  buffer,    \* BoundedOutboundBuffer: what is not acknowledged
  numbered,  \* numbered[k]: every envelope of k, in order (next_seq_id_by_stream)
  received   \* received[k]: what the relay has received, first receipts in order

inVars == <<sent, next, cursor, reader, assembly, chunked>>
trackVars == <<client, tasks, conns, closed, got>>
outVars == <<queue, writer, wire, buffer, numbered, received>>
vars == <<load, link, inVars, trackVars, outVars>>

Idle == [at |-> "idle", pos |-> 0]
NoClient == [conn |-> None, last |-> 0]
NoAssembly == [key |-> None, seq |-> 0]

Init ==
  /\ load \in Workloads
  /\ sent = <<>> /\ link = FALSE /\ next = 1 /\ cursor = 0
  /\ reader = Idle
  /\ assembly = [c \in Clients |-> NoAssembly] /\ chunked = [k \in Keys |-> 0]
  /\ client = [k \in Keys |-> NoClient]
  /\ tasks = [running |-> {}, ended |-> {}]
  /\ conns = <<>> /\ closed = {} /\ got = <<>>
  /\ queue = <<>> /\ writer = <<>> /\ wire = <<>> /\ buffer = {}
  /\ numbered = [k \in Keys |-> <<>>] /\ received = [k \in Keys |-> <<>>]

Spend(bound) == load[bound] > 0 /\ load' = [load EXCEPT ![bound] = @ - 1]

-----------------------------------------------------------------------------
(* The clients and the relay.  A message is whole or comes in two chunks   *)
(* with one sequence number; a stream's numbers only grow.                 *)

Of(k, kinds) == {p \in DOMAIN sent : sent[p].key = k /\ sent[p].is \in kinds}
Sequence(k) == Cardinality(Of(k, {"init", "message", "first"}))
HalfSent(k) == \E p \in Of(k, {"first"}) : \A q \in Of(k, {"last"}) : q < p
Envelope(k, is, seq) == [key |-> k, is |-> is, seq |-> seq]

ClientSends(k) ==
  /\ Spend("sends")
  /\ LET seq == Sequence(k)
     IN  \/ /\ ~HalfSent(k)
            /\ sent' = Append(sent, Envelope(k, "init", seq + 1))
         \/ /\ Of(k, {"init"}) # {} /\ ~HalfSent(k)
            /\ \/ \E is \in {"message", "closed"} :
                    sent' = Append(sent, Envelope(k, is, seq + 1))
               \/ sent' = Append(sent, Envelope(k, "first", seq + 1))
                            \o (IF load.interleaves THEN <<>> ELSE <<Envelope(k, "last", seq + 1)>>)
         \/ HalfSent(k) /\ sent' = Append(sent, Envelope(k, "last", seq))
  /\ UNCHANGED <<link, next, cursor, reader, assembly, chunked, trackVars, outVars>>

(* Mutant: what is not acknowledged is not sent again. *)
ConnectForgets ==
  /\ ~link
  /\ link' = TRUE /\ next' = cursor + 1 /\ writer' = <<>>
  /\ UNCHANGED <<load, sent, cursor, reader, assembly, chunked, trackVars,
                 queue, wire, buffer, numbered, received>>

(* server_envelopes: each stream in its order, the streams in any order    *)
(* (that of a hash map).                                                   *)
Precedes(d, e) == d.seq < e.seq \/ (d.seq = e.seq /\ d.segment < e.segment)

ServerEnvelopes ==
  {w \in [1..Cardinality(buffer) -> buffer] :
     /\ buffer \subseteq {w[i] : i \in DOMAIN w}
     /\ \A i, j \in DOMAIN w : i < j /\ w[i].key = w[j].key => Precedes(w[i], w[j])}

(* The websocket is opened with the cursor, and the writer begins with     *)
(* everything that is not acknowledged.                                    *)
Connect ==
  /\ ~link
  /\ link' = TRUE /\ next' = cursor + 1 /\ writer' \in ServerEnvelopes
  /\ UNCHANGED <<load, sent, cursor, reader, assembly, chunked, trackVars,
                 queue, wire, buffer, numbered, received>>

(* The connection's workers stop, or are aborted where they wait.          *)
Stop ==
  /\ link' = FALSE /\ reader' = Idle /\ writer' = <<>> /\ wire' = <<>>
  /\ UNCHANGED <<queue, buffer, numbered, received>>

Break ==
  /\ link /\ Spend("breaks") /\ Stop
  /\ UNCHANGED <<sent, next, cursor, assembly, chunked, trackVars>>

-----------------------------------------------------------------------------
(* The reader.                                                             *)

Held(k) == assembly[ClientOf[k]]
Assembles(k) == Held(k).seq # 0 /\ Held(k).key = k
Without(k) == IF Assembles(k) THEN [assembly EXCEPT ![ClientOf[k]] = NoAssembly] ELSE assembly
Ignored(e) == e.seq <= chunked[e.key] \/ (Assembles(e.key) /\ e.seq < Held(e.key).seq)

(* observe_client_message: a first chunk starts an assembly, its last      *)
(* chunk ends it, and a chunk that fits neither way is dropped with the    *)
(* assembly of its client.                                                 *)
Observe(e) ==
  CASE e.is \notin {"first", "last"} -> [forward |-> TRUE, assembly |-> assembly]
    [] e.is \in {"first", "last"} /\ Ignored(e) -> [forward |-> FALSE, assembly |-> assembly]
    [] e.is = "first" /\ ~Ignored(e) ->
         [forward |-> FALSE,
          assembly |-> IF Assembles(e.key) /\ Held(e.key).seq = e.seq THEN assembly
                       ELSE [assembly EXCEPT ![ClientOf[e.key]] =
                               IF Assembles(e.key) THEN NoAssembly
                               ELSE [key |-> e.key, seq |-> e.seq]]]
    [] e.is = "last" /\ ~Ignored(e) ->
         [forward |-> Assembles(e.key) /\ Held(e.key).seq = e.seq,
          assembly |-> [assembly EXCEPT ![ClientOf[e.key]] = NoAssembly]]

(* Mutant: the cursor moves before the message is handled. *)
ReadAdvances ==
  /\ link /\ reader = Idle /\ next \in DOMAIN sent
  /\ LET observed == Observe(sent[next])
     IN  /\ assembly' = observed.assembly
         /\ reader' = IF observed.forward THEN [at |-> "handle", pos |-> next] ELSE Idle
  /\ next' = next + 1 /\ cursor' = next
  /\ UNCHANGED <<load, link, sent, chunked, trackVars, outVars>>

Read ==
  /\ link /\ reader = Idle /\ next \in DOMAIN sent
  /\ LET observed == Observe(sent[next])
     IN  /\ assembly' = observed.assembly
         /\ reader' = IF observed.forward THEN [at |-> "handle", pos |-> next] ELSE Idle
  /\ next' = next + 1
  /\ UNCHANGED <<load, link, sent, cursor, chunked, trackVars, outVars>>

Handling(kinds) == reader.at = "handle" /\ sent[reader.pos].is \in kinds
Key == sent[reader.pos].key
Handled == reader' = [reader EXCEPT !.at = "record"]

(* close_client: the task is cancelled and the app server told. *)
CloseClient(k) ==
  /\ client' = [client EXCEPT ![k] = NoClient]
  /\ closed' = IF client[k].conn = None THEN closed ELSE closed \union {client[k].conn}

(* Mutant: a message that was forwarded before is forwarded again. *)
HandleMessageAgain ==
  /\ Handling({"message", "last"})
  /\ IF client[Key].conn = None
       THEN UNCHANGED <<client, got>>
       ELSE /\ got' = Append(got, <<client[Key].conn, reader.pos>>)
            /\ client' = [client EXCEPT ![Key].last = sent[reader.pos].seq]
  /\ Handled
  /\ UNCHANGED <<load, link, sent, next, cursor, assembly, chunked, tasks, conns,
                 closed, outVars>>

(* handle_message, a message: forwarded to the connection of its stream,   *)
(* unless it was before; its number is noted once the app server has it.   *)
HandleMessage ==
  /\ Handling({"message", "last"})
  /\ LET seq == sent[reader.pos].seq
     IN  IF client[Key].conn = None \/ client[Key].last >= seq
           THEN UNCHANGED <<client, got>>
           ELSE /\ got' = Append(got, <<client[Key].conn, reader.pos>>)
                /\ client' = [client EXCEPT ![Key].last = seq]
  /\ Handled
  /\ UNCHANGED <<load, link, sent, next, cursor, assembly, chunked, tasks, conns,
                 closed, outVars>>

(* handle_message, initialize: an open stream is closed first. *)
ReplaceClient ==
  /\ Handling({"init"}) /\ client[Key].conn # None
  /\ CloseClient(Key)
  /\ UNCHANGED <<load, link, inVars, tasks, conns, got, outVars>>

OpenClient ==
  /\ Handling({"init"}) /\ client[Key].conn = None /\ Len(conns) < MaxConns
  /\ conns' = Append(conns, Key)
  /\ client' = [client EXCEPT ![Key] = [conn |-> Len(conns'), last |-> 0]]
  /\ tasks' = [tasks EXCEPT !.running = @ \union {Len(conns')}]
  /\ reader' = [reader EXCEPT !.at = "opened"]
  /\ UNCHANGED <<load, link, sent, next, cursor, assembly, chunked, closed, got, outVars>>

ForwardInit ==
  /\ reader.at = "opened"
  /\ got' = Append(got, <<client[Key].conn, reader.pos>>)
  /\ client' = [client EXCEPT ![Key].last = sent[reader.pos].seq]
  /\ Handled
  /\ UNCHANGED <<load, link, sent, next, cursor, assembly, chunked, tasks, conns,
                 closed, outVars>>

HandleClosed ==
  /\ Handling({"closed"})
  /\ CloseClient(Key)
  /\ Handled
  /\ UNCHANGED <<load, link, sent, next, cursor, assembly, chunked, tasks, conns, got,
                 outVars>>

(* send_transport_event: the app server's queue stays full, and the        *)
(* websocket is given up; a connection just opened is closed again.        *)
ForwardTimeout ==
  /\ Spend("timeouts") /\ Stop
  /\ \/ /\ Handling({"message", "last"}) /\ client[Key].conn # None
        /\ client[Key].last < sent[reader.pos].seq
        /\ UNCHANGED <<client, closed>>
     \/ /\ Handling({"init"}) /\ client[Key].conn = None
        /\ UNCHANGED <<client, closed>>
     \/ reader.at = "opened" /\ CloseClient(Key)
  /\ UNCHANGED <<sent, next, cursor, assembly, chunked, tasks, conns, got>>

(* record_client_message_delivery, and what a closed client leaves. *)
Record ==
  /\ reader.at = "record"
  /\ LET e == sent[reader.pos]
     IN  /\ cursor' = reader.pos
         /\ chunked' = CASE e.is = "last" -> [chunked EXCEPT ![e.key] = e.seq]
                         [] e.is = "closed" -> [chunked EXCEPT ![e.key] = 0]
                         [] OTHER -> chunked
         /\ assembly' = IF e.is = "closed" THEN Without(e.key) ELSE assembly
  /\ reader' = Idle
  /\ UNCHANGED <<load, link, sent, next, trackVars, outVars>>

(* run_client_outbound ends when its connection is closed, or when the app *)
(* server drops its end; the reader joins it and closes its key.           *)
TaskEnds(c) ==
  /\ c \in tasks.running
  /\ \/ client[conns[c]].conn # c /\ UNCHANGED load
     \/ client[conns[c]].conn = c /\ Spend("drops")
  /\ tasks' = [running |-> tasks.running \ {c}, ended |-> tasks.ended \union {c}]
  /\ UNCHANGED <<link, inVars, client, conns, closed, got, outVars>>

CloseStream(k) ==
  /\ CloseClient(k)
  /\ assembly' = Without(k) /\ chunked' = [chunked EXCEPT ![k] = 0]
  /\ UNCHANGED <<link, sent, next, cursor, reader, conns, got, outVars>>

Join(c) ==
  /\ link /\ reader = Idle /\ c \in tasks.ended
  /\ tasks' = [tasks EXCEPT !.ended = @ \ {c}]
  /\ CloseStream(conns[c])
  /\ UNCHANGED load

(* close_expired_clients *)
IdleSweep(k) ==
  /\ link /\ reader = Idle /\ client[k].conn # None
  /\ Spend("drops") /\ CloseStream(k)
  /\ UNCHANGED tasks

-----------------------------------------------------------------------------
(* The writer.  A large message is sent in two segments.                   *)

(* run_client_outbound: a message of the app server, until the task ends. *)
Enqueue(c) ==
  /\ Spend("outs") /\ c \in tasks.running
  /\ \E segments \in {1, 2} : queue' = Append(queue, [key |-> conns[c], segments |-> segments])
  /\ UNCHANGED <<link, inVars, trackVars, writer, wire, buffer, numbered, received>>

NextSeq(k) == IF numbered[k] = <<>> THEN 1 ELSE Last(numbered[k]).seq + 1

(* split_server_envelope_for_transport *)
Segments(k, n) == [i \in 1..n |-> [key |-> k, seq |-> NextSeq(k), segment |-> i - 1]]

(* Mutant: new events go ahead of what is sent again. *)
TakeEventAhead ==
  /\ link /\ queue # <<>> /\ Cardinality(buffer) < Capacity
  /\ LET k == Head(queue).key
         envelopes == Segments(k, Head(queue).segments)
     IN  /\ buffer' = buffer \union Range(envelopes)
         /\ numbered' = [numbered EXCEPT ![k] = @ \o envelopes]
         /\ writer' = envelopes \o writer
  /\ queue' = Tail(queue)
  /\ UNCHANGED <<load, link, inVars, trackVars, wire, received>>

(* Numbered, kept, and only then sent. *)
TakeEvent ==
  /\ link /\ writer = <<>> /\ queue # <<>> /\ Cardinality(buffer) < Capacity
  /\ LET k == Head(queue).key
         envelopes == Segments(k, Head(queue).segments)
     IN  /\ buffer' = buffer \union Range(envelopes)
         /\ numbered' = [numbered EXCEPT ![k] = @ \o envelopes]
         /\ writer' = envelopes
  /\ queue' = Tail(queue)
  /\ UNCHANGED <<load, link, inVars, trackVars, wire, received>>

Send ==
  /\ writer # <<>>
  /\ wire' = Append(wire, Head(writer)) /\ writer' = Tail(writer)
  /\ UNCHANGED <<load, link, inVars, trackVars, queue, buffer, numbered, received>>

Receive ==
  /\ wire # <<>>
  /\ LET e == Head(wire)
     IN  received' = IF Contains(received[e.key], e) THEN received
                     ELSE [received EXCEPT ![e.key] = Append(@, e)]
  /\ wire' = Tail(wire)
  /\ UNCHANGED <<load, link, inVars, trackVars, queue, writer, buffer, numbered>>

(* Mutant: an acknowledged segment takes its whole message with it. *)
AckedByMessage(e, cut) == e.key = cut.key /\ e.seq <= cut.seq

(* BoundedOutboundBuffer::ack: everything up to the acknowledged segment.  *)
AckedBy(e, cut) ==
  e.key = cut.key /\ (e.seq < cut.seq \/ (e.seq = cut.seq /\ e.segment <= cut.segment))

(* The backend acknowledges what it received; an acknowledgement without a *)
(* segment is that of the message's last one.  It is not an envelope of    *)
(* the client's log and has no cursor of its own.                          *)
Ack(k) ==
  /\ link /\ reader = Idle
  /\ \E i \in DOMAIN received[k] :
       LET kept == {e \in buffer : ~AckedBy(e, received[k][i])}
       IN  kept # buffer /\ buffer' = kept
  /\ UNCHANGED <<load, link, inVars, trackVars, queue, writer, wire, numbered, received>>

-----------------------------------------------------------------------------
Handle ==
  \/ Read \/ HandleMessage \/ ReplaceClient \/ OpenClient \/ ForwardInit \/ HandleClosed \/ Record

Next ==
  \/ Connect \/ Break \/ Handle \/ ForwardTimeout
  \/ \E k \in Keys : ClientSends(k) \/ IdleSweep(k) \/ Ack(k)
  \/ \E c \in Conns : TaskEnds(c) \/ Join(c) \/ Enqueue(c)
  \/ TakeEvent \/ Send \/ Receive

Spec == Init /\ [][Next]_vars

(* The workers run, the relay receives and acknowledges, and a websocket   *)
(* that is down is opened again.  Nothing makes clients send.              *)
Fairness ==
  /\ WF_vars(Connect) /\ WF_vars(Handle)
  /\ WF_vars(TakeEvent) /\ WF_vars(Send) /\ WF_vars(Receive)
  /\ \A k \in Keys : WF_vars(Ack(k))

FairSpec == Spec /\ Fairness

-----------------------------------------------------------------------------
(* Properties.                                                             *)

Delivered == {got[i][2] : i \in DOMAIN got}
InitBefore(p) == {q \in Of(sent[p].key, {"init"}) : q < p}

(* A connection gets messages of its own stream only, each at most once    *)
(* and in the order they were sent, although the relay delivers again      *)
(* whatever the cursor had not passed when the websocket was lost, and a   *)
(* stream has one connection at a time: one that gets something after      *)
(* another did has replaced it (last_inbound_seq_id, close_client).        *)
DeliveredOnce ==
  \A i, j \in DOMAIN got :
    /\ conns[got[i][1]] = sent[got[i][2]].key
    /\ i < j /\ got[i][1] = got[j][1] => got[i][2] < got[j][2]
    /\ i < j /\ got[i][1] # got[j][1] /\ conns[got[i][1]] = conns[got[j][1]]
         => got[i][1] \in closed

(* Messages whose chunks, if any, follow on each other in the relay's log. *)
Whole(p) ==
  \/ sent[p].is = "message"
  \/ sent[p].is = "last" /\ p > 1 /\ sent[p - 1].key = sent[p].key

NeverClosed(k) == \A c \in closed : conns[c] # k

(* The cursor passes no message the app server has not been given: one     *)
(* that it has passed, of a stream that was initialized and never closed,  *)
(* was delivered, whatever timed out or broke on the way                   *)
(* (record_client_message_delivery after handle_message).                  *)
CursorCovers ==
  \A p \in 1..cursor :
    Whole(p) /\ InitBefore(p) # {} /\ NeverClosed(sent[p].key) => p \in Delivered

(* The relay sees each stream's envelopes in order and without a hole, on  *)
(* whichever websockets they were sent (run_server_writer_inner).          *)
RelayInOrder == \A k \in Keys : IsPrefix(received[k], numbered[k])

(* What the app server sends reaches the relay, with the buffer full and   *)
(* the websocket lost on the way.                                          *)
OutboundArrives ==
  (queue # <<>> \/ \E k \in Keys : received[k] # numbered[k]) ~>
    (queue = <<>> /\ \A k \in Keys : received[k] = numbered[k])
=============================================================================
