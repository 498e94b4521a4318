---------------------------- MODULE StoreProofs ----------------------------
(***************************************************************************)
(* Proofs about RolloutStore: what a reader finds of a thread's rollout is *)
(* in order, without repetitions, and misses an acknowledged item only     *)
(* where an append failed half-way, for any number of items, barriers,     *)
(* failures, crashes and files.                                            *)
(***************************************************************************)
EXTENDS RolloutStore, FiniteSetTheorems, TLAPS

Entries == Items \cup {Garbage}
Files == [lines : Seq(Entries), tail : Entries \cup {Nothing}]
Commands == [op : Barriers \cup {"add"}, item : Items]
WriterPcs == {"idle", "materialize", "link", "unlink_zst", "open", "write"}
Writers == [pc : WriterPcs, handle : Nat, deferred : BOOLEAN, meta : BOOLEAN,
            pending : Seq(Items), cmd : Commands, attempt : {1, 2}, temp : Files]
Passes == [pc : {"idle", "encode", "confirm", "unlink"}, inode : Nat, state : Files]

TypeInv ==
    /\ inodes \in Seq(Files) /\ plain \in 0..Len(inodes)
    /\ zst \in SUBSET Files /\ \A f, g \in zst : f = g
    /\ cold \subseteq 1..Len(inodes)
    /\ queue \in Seq(Commands) /\ mode \in {"record", "resume", "append", "none"}
    /\ w \in Writers /\ w.handle \in 0..Len(inodes) /\ (w.pc = "write" => w.handle # NoInode)
    /\ c \in Passes
    /\ sent \in 0..MaxItems /\ given \subseteq Items /\ acked \subseteq Items
    /\ torn \in Nat

\* What the writer still has to write of what it was given, and everything
\* that may be written from now on.
Todo(m, p) == (IF m THEN {SessionMeta} ELSE {}) \cup Range(p)
Queued(q) == {q[k].item : k \in {k \in DOMAIN q : q[k].op = "add"}}
Ahead(m, p, q, n) == Todo(m, p) \cup Queued(q) \cup ((n + 1)..MaxItems)

\* Pending and queued items are in the order they were handed over.
OrderInv ==
    /\ w.meta => SessionMeta \notin Range(w.pending) \cup Queued(queue)
    /\ \A i, j \in DOMAIN w.pending : i < j => w.pending[i] < w.pending[j]
    /\ \A i, j \in DOMAIN queue : i < j /\ queue[i].op = "add" /\ queue[j].op = "add"
                                    => queue[i].item < queue[j].item
    /\ \A x \in Range(w.pending), y \in Queued(queue) : x < y
    /\ \A x \in Range(w.pending) \cup Queued(queue) : x <= sent
    /\ mode = "none" => w.pending = <<>> /\ queue = <<>> /\ ~w.meta

\* The items of a file's lines come before n, and its last piece not after n.
Before(f, n) ==
    /\ \A k \in DOMAIN f.lines : f.lines[k] # Garbage => f.lines[k] < n
    /\ f.tail \in Items => f.tail <= n

Increasing(f) ==
    /\ \A i, j \in DOMAIN f.lines :
         i < j /\ f.lines[i] # Garbage /\ f.lines[j] # Garbage => f.lines[i] < f.lines[j]
    /\ f.tail \in Items =>
         \A i \in DOMAIN f.lines : f.lines[i] # Garbage => f.lines[i] < f.tail

Sound(f, A) == Increasing(f) /\ \A n \in A : Before(f, n)

Stored == Range(inodes) \cup zst \cup {w.temp, c.state}

Rest == Ahead(w.meta, w.pending, queue, sent)

FileInv == \A f \in Stored : Sound(f, Rest)

\* What the worker and the writer know of the two files.
PassInv ==
    /\ c.pc # "idle" => plain = c.inode /\ plain # NoInode
    /\ c.pc \in {"confirm", "unlink"} => zst = {c.state}
    /\ w.pc = "link" => plain = NoInode /\ zst = {w.temp}
    /\ w.pc = "unlink_zst" => plain # NoInode /\ zst # {} /\ c.pc = "idle"
    /\ incidents = {} => w.handle \in {NoInode, plain}

\* The items that were written, as far as the writer knows.  Those without a
\* line of their own are lost; an open line will cost another one.
Booked == acked \cup (given \ Todo(w.meta, w.pending))
Missing(b, f) == b \ Range(f.lines)
OpenLine(f) == IF f.tail = Nothing THEN 0 ELSE 1

LossInv ==
    incidents = {} => Cardinality(Missing(Booked, Visible)) + OpenLine(Visible) <= torn

IInv == TypeInv /\ OrderInv /\ FileInv /\ PassInv /\ LossInv

-----------------------------------------------------------------------------
(* Sequences. *)

\* What an append and a tail do to the elements and places of a sequence.
LEMMA AppendPlaces ==
    ASSUME NEW S, NEW q \in Seq(S), NEW e \in S
    PROVE  /\ Append(q, e) \in Seq(S) /\ Len(Append(q, e)) = Len(q) + 1
           /\ DOMAIN q = 1..Len(q) /\ DOMAIN Append(q, e) = 1..(Len(q) + 1)
           /\ \A k \in 1..Len(q) : Append(q, e)[k] = q[k]
           /\ Append(q, e)[Len(q) + 1] = e
           /\ Range(Append(q, e)) = Range(q) \cup {e}
  <1>1. /\ Append(q, e) \in Seq(S) /\ Len(Append(q, e)) = Len(q) + 1
        /\ DOMAIN q = 1..Len(q) /\ DOMAIN Append(q, e) = 1..(Len(q) + 1)
        /\ \A k \in 1..Len(q) : Append(q, e)[k] = q[k]
        /\ Append(q, e)[Len(q) + 1] = e /\ Len(q) \in Nat
    OBVIOUS
  <1>2. \A k \in 1..(Len(q) + 1) : k \in 1..Len(q) \/ k = Len(q) + 1
    BY <1>1
  <1>3. Range(Append(q, e)) \subseteq Range(q) \cup {e}
    BY <1>1, <1>2 DEF Range
  <1>4. Range(q) \cup {e} \subseteq Range(Append(q, e))
    BY <1>1 DEF Range
  <1> QED BY <1>1, <1>3, <1>4

LEMMA TailPlaces ==
    ASSUME NEW S, NEW q \in Seq(S), q # <<>>
    PROVE  /\ Tail(q) \in Seq(S) /\ Head(q) \in S /\ Head(q) = q[1]
           /\ DOMAIN q = 1..Len(q) /\ Len(q) \in Nat \ {0} /\ Len(Tail(q)) = Len(q) - 1
           /\ DOMAIN Tail(q) = 1..(Len(q) - 1)
           /\ \A k \in 1..(Len(q) - 1) : Tail(q)[k] = q[k + 1]
           /\ Range(q) = {Head(q)} \cup Range(Tail(q))
  <1>1. /\ Tail(q) \in Seq(S) /\ Head(q) \in S /\ Head(q) = q[1]
        /\ DOMAIN q = 1..Len(q) /\ Len(q) \in Nat \ {0} /\ Len(Tail(q)) = Len(q) - 1
        /\ DOMAIN Tail(q) = 1..(Len(q) - 1)
        /\ \A k \in 1..(Len(q) - 1) : Tail(q)[k] = q[k + 1]
    OBVIOUS
  <1>2. \A k \in 1..Len(q) : k = 1 \/ (k - 1 \in 1..(Len(q) - 1) /\ k = (k - 1) + 1)
    BY <1>1
  <1>3. ASSUME NEW k \in 1..Len(q) PROVE q[k] \in {Head(q)} \cup Range(Tail(q))
    <2>1. CASE k = 1
      BY <1>1, <2>1
    <2>2. CASE k # 1
      <3>1. k - 1 \in DOMAIN Tail(q) /\ Tail(q)[k - 1] = q[k]
        BY <1>1, <1>2, <2>2
      <3> QED BY <3>1 DEF Range
    <2> QED BY <2>1, <2>2
  <1>31. Range(q) \subseteq {Head(q)} \cup Range(Tail(q))
    BY <1>1, <1>3 DEF Range
  <1>4. 1 \in 1..Len(q) /\ \A k \in 1..(Len(q) - 1) : k + 1 \in 1..Len(q)
    BY <1>1
  <1>5. {Head(q)} \cup Range(Tail(q)) \subseteq Range(q)
    BY <1>1, <1>4 DEF Range
  <1> QED BY <1>1, <1>31, <1>5

\* The items queued, after a command is sent or received.
LEMMA QueuedAppend ==
    ASSUME NEW q \in Seq(Commands), NEW e \in Commands
    PROVE  Queued(Append(q, e)) = Queued(q) \cup (IF e.op = "add" THEN {e.item} ELSE {})
  <1>1. /\ DOMAIN q = 1..Len(q) /\ DOMAIN Append(q, e) = 1..(Len(q) + 1) /\ Len(q) \in Nat
        /\ \A k \in 1..Len(q) : Append(q, e)[k] = q[k]
        /\ Append(q, e)[Len(q) + 1] = e
    BY AppendPlaces
  <1>2. \A k \in 1..(Len(q) + 1) : k \in 1..Len(q) \/ k = Len(q) + 1
    BY <1>1
  <1>3. \A k \in 1..Len(q) : k \in 1..(Len(q) + 1)
    BY <1>1
  <1>4. Len(q) + 1 \in 1..(Len(q) + 1)
    BY <1>1
  <1> QED BY <1>1, <1>2, <1>3, <1>4 DEF Queued

LEMMA QueuedTail ==
    ASSUME NEW q \in Seq(Commands), q # <<>>
    PROVE  Queued(q) = Queued(Tail(q)) \cup (IF Head(q).op = "add" THEN {Head(q).item} ELSE {})
  <1>1. /\ DOMAIN q = 1..Len(q) /\ DOMAIN Tail(q) = 1..(Len(q) - 1) /\ Len(q) \in Nat \ {0}
        /\ \A k \in 1..(Len(q) - 1) : Tail(q)[k] = q[k + 1]
        /\ Head(q) = q[1]
    BY TailPlaces
  <1>2. \A k \in 1..Len(q) : k = 1 \/ (k - 1 \in 1..(Len(q) - 1) /\ k = (k - 1) + 1)
    BY <1>1
  <1>3. 1 \in 1..Len(q) /\ \A k \in 1..(Len(q) - 1) : k + 1 \in 1..Len(q)
    BY <1>1
  <1>31. ASSUME NEW k \in 1..Len(q), q[k].op = "add"
         PROVE  q[k].item \in Queued(Tail(q)) \cup (IF Head(q).op = "add" THEN {Head(q).item} ELSE {})
    <2>1. CASE k = 1
      BY <1>1, <1>31, <2>1
    <2>2. CASE k # 1
      <3>1. k - 1 \in DOMAIN Tail(q) /\ Tail(q)[k - 1] = q[k]
        BY <1>1, <1>2, <2>2
      <3> QED BY <1>31, <3>1 DEF Queued
    <2> QED BY <2>1, <2>2
  <1>4. Queued(q) \subseteq Queued(Tail(q)) \cup (IF Head(q).op = "add" THEN {Head(q).item} ELSE {})
    BY <1>1, <1>31 DEF Queued
  <1>5. Queued(Tail(q)) \cup (IF Head(q).op = "add" THEN {Head(q).item} ELSE {}) \subseteq Queued(q)
    BY <1>1, <1>3 DEF Queued
  <1> QED BY <1>4, <1>5

LEMMA EmptyQueue == Queued(<<>>) = {} /\ Range(<<>>) = {}
  BY DEF Queued, Range

-----------------------------------------------------------------------------
(* Types. *)

LEMMA Constants ==
    /\ MaxItems \in Nat /\ SessionMeta \in Items /\ EmptyFile \in Files /\ NoCommand \in Commands
    /\ Garbage \notin Items /\ Nothing \notin Entries
    /\ \A i \in Items : i \in 0..MaxItems /\ Add(i) \in Commands /\ Add(i).op = "add" /\ Add(i).item = i
    /\ \A op \in Barriers : Barrier(op) \in Commands /\ Barrier(op).op = op /\ op # "add"
    /\ \A f \in Files, i \in Items : Appended(f, i) \in Files
    /\ \A f \in Files, i \in Items : \A t \in TornTails(f, i) : [f EXCEPT !.tail = t] \in Files
  BY StoreAssumption, SMTT(60) DEF Items, SessionMeta, EmptyFile, NoCommand, Commands, Barrier, Barriers, Add,
     Garbage, Nothing, Entries, Files, Appended, TornTails

LEMMA StartTypes ==
    ASSUME NEW pc \in WriterPcs
    PROVE  /\ WriterStart(TRUE, pc) \in Writers /\ WriterStart(FALSE, pc) \in Writers
           /\ WriterStart(TRUE, pc).pc = pc /\ WriterStart(FALSE, pc).pc = pc
           /\ WriterStart(TRUE, pc).meta = TRUE /\ WriterStart(FALSE, pc).meta = FALSE
           /\ WriterStart(TRUE, pc).handle = NoInode /\ WriterStart(FALSE, pc).handle = NoInode
           /\ WriterStart(TRUE, pc).pending = <<>> /\ WriterStart(FALSE, pc).pending = <<>>
           /\ WriterStart(TRUE, pc).temp = EmptyFile /\ WriterStart(FALSE, pc).temp = EmptyFile
  BY Constants DEF WriterStart, Writers, NoInode

LEMMA InitTypes == Init => TypeInv
  <1> SUFFICES ASSUME Init PROVE TypeInv
    OBVIOUS
  <1>0. "idle" \in WriterPcs
    BY DEF WriterPcs
  <1>1. w \in Writers /\ w.handle = NoInode /\ w.pc = "idle"
    BY <1>0, StartTypes DEF Init
  <1>2. c \in Passes
    BY Constants DEF Init, NoPass, Passes, NoInode
  <1>3. inodes \in Seq(Files) /\ Len(inodes) = 0 /\ queue \in Seq(Commands)
    BY DEF Init
  <1>40. plain = 0 /\ w.handle = 0 /\ sent = 0 /\ torn = 0 /\ cold = {}
    BY <1>1 DEF Init, NoInode
  <1>4. /\ plain \in 0..Len(inodes) /\ cold \subseteq 1..Len(inodes) /\ w.handle \in 0..Len(inodes)
        /\ sent \in 0..MaxItems /\ torn \in Nat
    BY <1>40, <1>3, StoreAssumption
  <1>5. zst \in SUBSET Files /\ \A f, g \in zst : f = g
    BY DEF Init
  <1>6. given \subseteq Items /\ acked \subseteq Items /\ mode = "record"
    BY Constants DEF Init
  <1> QED BY <1>1, <1>2, <1>3, <1>4, <1>5, <1>6 DEF TypeInv

\* What is left of a writer that is closed: nothing to do.
LEMMA ClosedTypes ==
    ASSUME TypeInv, NEW a \in SUBSET Items, Closed(a)
    PROVE  /\ mode' = "none" /\ queue' = <<>> /\ given' = {} /\ acked' = a
           /\ w' \in Writers /\ w'.pc = "idle" /\ w'.handle = NoInode
           /\ w'.meta = FALSE /\ w'.pending = <<>> /\ w'.temp = EmptyFile
  <1>0. "idle" \in WriterPcs
    BY DEF WriterPcs
  <1> QED BY <1>0, StartTypes DEF Closed

\* The writer's own work stays what it was.
SameWork ==
    /\ mode' = mode /\ queue' = queue /\ given' = given
    /\ w' \in Writers /\ w'.meta = w.meta /\ w'.pending = w.pending

LEMMA TryingTypes ==
    ASSUME TypeInv, NEW n \in {1, 2}, NEW cmd \in Commands, NEW h \in Nat
    PROVE  /\ Trying(n, cmd, h) \in Writers
           /\ Trying(n, cmd, h).handle = h
           /\ Trying(n, cmd, h).pc = IF h = NoInode THEN "materialize" ELSE "write"
           /\ Trying(n, cmd, h).meta = w.meta /\ Trying(n, cmd, h).pending = w.pending
           /\ Trying(n, cmd, h).temp = w.temp
  BY DEF TypeInv, Trying, Writers, WriterPcs

\* A failure leaves the work to be done again, or closes the writer.
LEMMA FailedTypes ==
    ASSUME TypeInv, Failed
    PROVE  \/ /\ SameWork /\ acked' = acked /\ w'.handle = NoInode
              /\ w'.pc \in {"materialize", "idle"} /\ w'.temp = w.temp
           \/ Closed(acked)
  <1>1. CASE mode = "record" /\ w.attempt = 1
    <2>1. w' = Trying(2, w.cmd, NoInode) /\ w.cmd \in Commands /\ NoInode \in Nat /\ 2 \in {1, 2}
      BY <1>1 DEF Failed, TypeInv, Writers, NoInode
    <2>2. /\ w' \in Writers /\ w'.handle = NoInode /\ w'.pc = "materialize"
          /\ w'.meta = w.meta /\ w'.pending = w.pending /\ w'.temp = w.temp
      BY <2>1, TryingTypes
    <2> QED BY <1>1, <2>2 DEF Failed, SameWork
  <1>2. CASE mode = "record" /\ w.attempt # 1
    <2>1. w' = [w EXCEPT !.pc = "idle", !.handle = NoInode]
      BY <1>2 DEF Failed
    <2>2. /\ w' \in Writers /\ w'.handle = NoInode /\ w'.pc = "idle"
          /\ w'.meta = w.meta /\ w'.pending = w.pending /\ w'.temp = w.temp
      BY <2>1 DEF TypeInv, Writers, WriterPcs, NoInode
    <2> QED BY <1>2, <2>2 DEF Failed, SameWork
  <1>3. CASE mode # "record"
    BY <1>3 DEF Failed
  <1> QED BY <1>1, <1>2, <1>3

\* An inode of the writer is one of the files.
LEMMA HandleFile ==
    ASSUME TypeInv, w.handle # NoInode
    PROVE  /\ w.handle \in DOMAIN inodes /\ inodes[w.handle] \in Files
           /\ \A f \in Files :
                 /\ [inodes EXCEPT ![w.handle] = f] \in Seq(Files)
                 /\ Len([inodes EXCEPT ![w.handle] = f]) = Len(inodes)
  BY DEF TypeInv, NoInode

LEMMA ToWriteItem ==
    ASSUME TypeInv, w.meta \/ w.pending # <<>>
    PROVE  ToWrite \in Items /\ ToWrite \in Todo(w.meta, w.pending)
  <1>1. CASE w.meta
    BY <1>1, Constants DEF ToWrite, Todo
  <1>2. CASE ~w.meta
    <2>1. w.pending \in Seq(Items) /\ w.pending # <<>>
      BY <1>2 DEF TypeInv, Writers
    <2>2. Head(w.pending) \in Items /\ Head(w.pending) \in Range(w.pending)
      BY <2>1, TailPlaces
    <2> QED BY <1>2, <2>2 DEF ToWrite, Todo
  <1> QED BY <1>1, <1>2

LEMMA NoHandle == TypeInv => NoInode \in 0..Len(inodes)
  <1> SUFFICES ASSUME TypeInv PROVE NoInode \in 0..Len(inodes)
    OBVIOUS
  <1>1. Len(inodes) \in Nat
    BY DEF TypeInv
  <1> QED BY <1>1 DEF NoInode

LEMMA RecordTypes == TypeInv /\ RecordCanonicalItems => TypeInv'
  <1> SUFFICES ASSUME TypeInv, RecordCanonicalItems PROVE TypeInv'
    OBVIOUS
  <1>1. sent' \in 0..MaxItems /\ sent + 1 \in Items
    BY StoreAssumption DEF TypeInv, RecordCanonicalItems, Items
  <1>2. Add(sent + 1) \in Commands
    BY <1>1, Constants
  <1>3. queue' \in Seq(Commands)
    BY <1>2 DEF TypeInv, RecordCanonicalItems
  <1> QED BY <1>1, <1>3 DEF TypeInv, RecordCanonicalItems, disk, counters

LEMMA RequestTypes ==
    ASSUME TypeInv, NEW op \in Barriers, RequestBarrier(op)
    PROVE  TypeInv'
  <1>1. queue' \in Seq(Commands)
    BY Constants DEF TypeInv, RequestBarrier
  <1> QED BY <1>1 DEF TypeInv, RequestBarrier, disk

\* Receiving an item: it is pending from then on.
LEMMA RecvAddView ==
    ASSUME TypeInv, RecvAdd
    PROVE  /\ w' \in Writers /\ w'.handle = w.handle /\ w'.meta = w.meta
           /\ w'.pending = Append(w.pending, Head(queue).item) /\ w'.temp = w.temp
           /\ w'.pc \in {"idle", "materialize", "write"} /\ (w'.pc = "write" => w.handle # NoInode)
           /\ queue # <<>> /\ Head(queue) \in Commands /\ Head(queue).op = "add"
           /\ Head(queue).item \in Items /\ queue' = Tail(queue) /\ queue' \in Seq(Commands)
  <1>1. /\ queue # <<>> /\ Head(queue) \in Commands /\ Head(queue).op = "add"
        /\ Head(queue).item \in Items /\ queue' = Tail(queue) /\ queue' \in Seq(Commands)
    <2>1. queue # <<>> /\ queue \in Seq(Commands) /\ Head(queue).op = "add" /\ queue' = Tail(queue)
      BY DEF RecvAdd, TypeInv
    <2>2. Head(queue) \in Commands /\ Tail(queue) \in Seq(Commands)
      BY <2>1, TailPlaces
    <2> QED BY <2>1, <2>2 DEF Commands
  <1>2. Append(w.pending, Head(queue).item) \in Seq(Items) /\ w.handle \in Nat /\ w.pc = "idle"
    BY <1>1 DEF RecvAdd, TypeInv, Writers
  <1>3. CASE IsDeferred
    BY <1>1, <1>2, <1>3 DEF RecvAdd, TypeInv, Writers
  <1>4. CASE ~IsDeferred
    <2> DEFINE t == Trying(1, Head(queue), w.handle)
    <2>1. /\ t \in Writers /\ t.handle = w.handle /\ t.meta = w.meta /\ t.temp = w.temp
          /\ t.pc = IF w.handle = NoInode THEN "materialize" ELSE "write"
      BY <1>1, <1>2, TryingTypes
    <2>2. w' = [t EXCEPT !.pending = Append(w.pending, Head(queue).item)]
      BY <1>4 DEF RecvAdd
    <2> HIDE DEF t
    <2> QED BY <1>1, <1>2, <2>1, <2>2 DEF Writers
  <1> QED BY <1>3, <1>4

LEMMA RecvAddTypes == TypeInv /\ RecvAdd => TypeInv'
  <1> SUFFICES ASSUME TypeInv, RecvAdd PROVE TypeInv'
    OBVIOUS
  <1>1. /\ w' \in Writers /\ w'.handle = w.handle /\ (w'.pc = "write" => w.handle # NoInode)
        /\ queue' \in Seq(Commands) /\ Head(queue).item \in Items
    BY RecvAddView
  <1> QED BY <1>1 DEF TypeInv, RecvAdd, disk, counters

\* Receiving a barrier: the writer sets to work, has nothing to do, or is closed.
LEMMA RecvBarrierView ==
    ASSUME TypeInv, RecvBarrier
    PROVE  \/ Closed(acked)
           \/ /\ queue # <<>> /\ queue' = Tail(queue) /\ Head(queue).op # "add"
              /\ queue' \in Seq(Commands) /\ mode' = mode /\ given' = given /\ acked' = acked
              /\ w' \in Writers /\ w'.handle = w.handle /\ w'.meta = w.meta
              /\ w'.pending = w.pending /\ w'.temp = w.temp
              /\ w'.pc \in {"idle", "materialize", "write"} /\ (w'.pc = "write" => w.handle # NoInode)
  <1>1. queue # <<>> /\ Head(queue) \in Commands /\ Head(queue).op # "add" /\ Tail(queue) \in Seq(Commands)
        /\ w.pc = "idle" /\ w.handle \in Nat
    BY DEF RecvBarrier, TypeInv, Barriers, Writers
  <1> DEFINE t == Trying(1, Head(queue), w.handle)
  <1>2. /\ t \in Writers /\ t.handle = w.handle /\ t.meta = w.meta /\ t.temp = w.temp
        /\ t.pending = w.pending
        /\ t.pc = IF w.handle = NoInode THEN "materialize" ELSE "write"
    BY <1>1, TryingTypes
  <1>3. \/ Closed(acked)
        \/ queue' = Tail(queue) /\ w' \in {w, t} /\ UNCHANGED <<mode, given, acked>>
    BY DEF RecvBarrier
  <1> HIDE DEF t
  <1> QED BY <1>1, <1>2, <1>3 DEF TypeInv

LEMMA RecvBarrierTypes == TypeInv /\ RecvBarrier => TypeInv'
  <1> SUFFICES ASSUME TypeInv, RecvBarrier PROVE TypeInv'
    OBVIOUS
  <1>0. acked \in SUBSET Items
    BY DEF TypeInv
  <1>1. CASE Closed(acked)
    <2>1. mode' = "none" /\ queue' = <<>> /\ given' = {} /\ acked' = acked
          /\ w' \in Writers /\ w'.handle = NoInode /\ w'.pc = "idle"
      BY <1>0, <1>1, ClosedTypes
    <2> QED BY <2>1 DEF TypeInv, RecvBarrier, disk, counters, NoInode
  <1>2. CASE ~Closed(acked)
    <2>1. queue' \in Seq(Commands) /\ mode' = mode /\ given' = given /\ acked' = acked
          /\ w' \in Writers /\ w'.handle = w.handle /\ (w'.pc = "write" => w.handle # NoInode)
      BY <1>2, RecvBarrierView
    <2> QED BY <2>1 DEF TypeInv, RecvBarrier, disk, counters
  <1> QED BY <1>1, <1>2

\* The writer's steps towards an open file.
LEMMA MaterializeView ==
    ASSUME TypeInv, Materialize
    PROVE  /\ SameWork /\ acked' = acked /\ w'.handle = w.handle
           /\ \/ /\ plain = NoInode /\ zst # {} /\ w'.pc = "link" /\ w'.temp \in zst
              \/ /\ w'.pc = "open" /\ w'.temp = w.temp
  <1>1. (CHOOSE f \in zst : TRUE) \in Files \/ zst = {}
    BY DEF TypeInv
  <1>2. CASE plain = NoInode /\ zst # {}
    <2>1. w' = [w EXCEPT !.pc = "link", !.temp = CHOOSE f \in zst : TRUE]
      BY <1>2 DEF Materialize
    <2>2. (CHOOSE f \in zst : TRUE) \in zst
      BY <1>2
    <2> QED BY <1>1, <1>2, <2>1, <2>2 DEF Materialize, TypeInv, Writers, WriterPcs, SameWork
  <1>3. CASE ~(plain = NoInode /\ zst # {})
    <2>1. w' = [w EXCEPT !.pc = "open"]
      BY <1>3 DEF Materialize
    <2> QED BY <2>1 DEF Materialize, TypeInv, Writers, WriterPcs, SameWork
  <1> QED BY <1>2, <1>3

LEMMA MaterializeTypes == TypeInv /\ Materialize => TypeInv'
  <1> SUFFICES ASSUME TypeInv, Materialize PROVE TypeInv'
    OBVIOUS
  <1>1. w' \in Writers /\ w'.handle = w.handle /\ w'.pc # "write"
    BY MaterializeView DEF SameWork
  <1> QED BY <1>1 DEF TypeInv, Materialize, disk, counters

LEMMA LinkView ==
    ASSUME TypeInv, Link
    PROVE  /\ SameWork /\ acked' = acked /\ w'.handle = w.handle
           /\ w'.pc = "unlink_zst" /\ w'.temp = EmptyFile
           /\ w.temp \in Files /\ inodes' = Append(inodes, w.temp) /\ inodes' \in Seq(Files)
           /\ plain' = Len(inodes) + 1 /\ Len(inodes') = Len(inodes) + 1 /\ inodes'[plain'] = w.temp
           /\ Range(inodes') = Range(inodes) \cup {w.temp} /\ plain' # NoInode
  <1>1. w' = [w EXCEPT !.pc = "unlink_zst", !.temp = EmptyFile] /\ EmptyFile \in Files
    BY Constants DEF Link
  <1>2. SameWork /\ acked' = acked /\ w'.handle = w.handle /\ w'.pc = "unlink_zst" /\ w'.temp = EmptyFile
    BY <1>1 DEF Link, TypeInv, Writers, WriterPcs, SameWork
  <1>3. w.temp \in Files /\ inodes \in Seq(Files) /\ Len(inodes) \in Nat
    BY DEF TypeInv, Writers
  <1>4. inodes' = Append(inodes, w.temp) /\ plain' = Len(inodes) + 1
    BY DEF Link
  <1>5. /\ inodes' \in Seq(Files) /\ Len(inodes') = Len(inodes) + 1 /\ inodes'[plain'] = w.temp
        /\ Range(inodes') = Range(inodes) \cup {w.temp}
    BY <1>3, <1>4, AppendPlaces
  <1> QED BY <1>2, <1>3, <1>4, <1>5 DEF NoInode

LEMMA LinkTypes == TypeInv /\ Link => TypeInv'
  <1> SUFFICES ASSUME TypeInv, Link PROVE TypeInv'
    OBVIOUS
  <1>1. /\ w' \in Writers /\ w'.handle = w.handle /\ w'.pc # "write" /\ inodes' \in Seq(Files)
        /\ plain' = Len(inodes) + 1 /\ Len(inodes') = Len(inodes) + 1
    BY LinkView DEF SameWork
  <1>2. Len(inodes) \in Nat
    BY DEF TypeInv
  <1>3. /\ plain' \in 0..Len(inodes') /\ cold' \subseteq 1..Len(inodes') /\ w'.handle \in 0..Len(inodes')
    BY <1>1, <1>2 DEF TypeInv, Link
  <1> QED BY <1>1, <1>2, <1>3 DEF TypeInv, Link, counters

LEMMA UnlinkZstView ==
    ASSUME TypeInv, UnlinkZst
    PROVE  /\ SameWork /\ acked' = acked /\ w'.handle = w.handle
           /\ w'.pc = "open" /\ w'.temp = w.temp
  BY DEF UnlinkZst, TypeInv, Writers, WriterPcs, SameWork

LEMMA UnlinkZstTypes == TypeInv /\ UnlinkZst => TypeInv'
  <1> SUFFICES ASSUME TypeInv, UnlinkZst PROVE TypeInv'
    OBVIOUS
  <1>1. w' \in Writers /\ w'.handle = w.handle /\ w'.pc # "write"
    BY UnlinkZstView DEF SameWork
  <1> QED BY <1>1 DEF TypeInv, UnlinkZst, counters

\* Opening: the plain file, a new one, or nothing.
LEMMA OpenView ==
    ASSUME TypeInv, Open
    PROVE  \/ /\ Closed(acked) /\ UNCHANGED <<inodes, plain, incidents>>
           \/ /\ queue' = queue /\ given' = given /\ acked' = acked /\ mode' \in {"record", mode}
              /\ mode \in {"none", mode'} => mode' = mode
              /\ w' \in Writers /\ w'.meta = w.meta /\ w'.pending = w.pending /\ w'.temp = w.temp
              /\ w'.pc \in {"idle", "write"} /\ w'.handle = plain' /\ plain' # NoInode
              /\ \/ UNCHANGED <<inodes, plain, incidents>>
                 \/ /\ plain = NoInode /\ inodes' = Append(inodes, EmptyFile) /\ plain' = Len(inodes) + 1
                    /\ inodes' \in Seq(Files) /\ Len(inodes') = Len(inodes) + 1
                    /\ inodes'[plain'] = EmptyFile /\ Range(inodes') = Range(inodes) \cup {EmptyFile}
                    /\ incidents' = incidents \cup (IF zst = {} THEN {} ELSE {"hidden"})
  <1>0. plain \in Nat /\ Len(inodes) + 1 \in Nat /\ Len(inodes) + 1 # NoInode
    BY DEF TypeInv, NoInode
  <1>1. CASE plain # NoInode
    <2>1. /\ w' = [w EXCEPT !.handle = plain, !.deferred = FALSE,
                            !.pc = IF mode = "resume" THEN "idle" ELSE "write"]
          /\ mode' = IF mode = "resume" THEN "record" ELSE mode
          /\ UNCHANGED <<inodes, plain, queue, given, acked, incidents>>
      BY <1>1 DEF Open
    <2>2. /\ w' \in Writers /\ w'.meta = w.meta /\ w'.pending = w.pending /\ w'.temp = w.temp
          /\ w'.pc \in {"idle", "write"} /\ w'.handle = plain
      BY <1>0, <2>1 DEF TypeInv, Writers, WriterPcs
    <2> QED BY <1>1, <2>1, <2>2
  <1>2. CASE plain = NoInode /\ mode = "record"
    <2>1. /\ inodes' = Append(inodes, EmptyFile) /\ plain' = Len(inodes) + 1
          /\ w' = [w EXCEPT !.handle = Len(inodes) + 1, !.deferred = FALSE, !.pc = "write"]
          /\ incidents' = incidents \cup (IF zst = {} THEN {} ELSE {"hidden"})
          /\ UNCHANGED <<mode, queue, given, acked>>
      BY <1>2 DEF Open
    <2>2. /\ w' \in Writers /\ w'.meta = w.meta /\ w'.pending = w.pending /\ w'.temp = w.temp
          /\ w'.pc = "write" /\ w'.handle = plain' /\ plain' # NoInode
      BY <1>0, <2>1 DEF TypeInv, Writers, WriterPcs
    <2>3. inodes \in Seq(Files) /\ EmptyFile \in Files
      BY Constants DEF TypeInv
    <2>4. /\ inodes' \in Seq(Files) /\ Len(inodes') = Len(inodes) + 1
          /\ inodes'[plain'] = EmptyFile /\ Range(inodes') = Range(inodes) \cup {EmptyFile}
      BY <2>1, <2>3, AppendPlaces
    <2> QED BY <1>2, <2>1, <2>2, <2>4
  <1>3. CASE plain = NoInode /\ mode # "record"
    BY <1>3 DEF Open
  <1> QED BY <1>1, <1>2, <1>3

LEMMA OpenTypes == TypeInv /\ Open => TypeInv'
  <1> SUFFICES ASSUME TypeInv, Open PROVE TypeInv'
    OBVIOUS
  <1>0. acked \in SUBSET Items /\ Len(inodes) \in Nat
    BY DEF TypeInv
  <1>1. CASE Closed(acked) /\ UNCHANGED <<inodes, plain, incidents>>
    <2>1. mode' = "none" /\ queue' = <<>> /\ given' = {} /\ acked' = acked
          /\ w' \in Writers /\ w'.handle = NoInode /\ w'.pc = "idle"
      BY <1>0, <1>1, ClosedTypes
    <2> QED BY <1>1, <2>1 DEF TypeInv, Open, NoInode
  <1>2. CASE ~(Closed(acked) /\ UNCHANGED <<inodes, plain, incidents>>)
    <2>1. /\ queue' = queue /\ given' = given /\ acked' = acked /\ mode' \in {"record", mode}
          /\ w' \in Writers /\ w'.handle = plain' /\ plain' # NoInode
          /\ \/ UNCHANGED <<inodes, plain, incidents>>
             \/ inodes' \in Seq(Files) /\ Len(inodes') = Len(inodes) + 1 /\ plain' = Len(inodes) + 1
      BY <1>2, OpenView
    <2>2. inodes' \in Seq(Files) /\ plain' \in 0..Len(inodes') /\ cold' \subseteq 1..Len(inodes')
      BY <1>0, <2>1 DEF TypeInv, Open
    <2> QED BY <2>1, <2>2 DEF TypeInv, Open
  <1> QED BY <1>1, <1>2

\* A line written: the writer's file grows, and its work shrinks.
LEMMA WriteLineView ==
    ASSUME TypeInv, WriteLine
    PROVE  /\ w.handle # NoInode /\ w.handle \in DOMAIN inodes /\ inodes[w.handle] \in Files
           /\ ToWrite \in Items /\ ToWrite \in Todo(w.meta, w.pending)
           /\ inodes' = [inodes EXCEPT ![w.handle] = Appended(inodes[w.handle], ToWrite)]
           /\ inodes' \in Seq(Files) /\ Len(inodes') = Len(inodes)
           /\ w' \in Writers /\ w'.handle = w.handle /\ w'.pc = "write" /\ w'.temp = w.temp
           /\ \/ w.meta /\ ~w'.meta /\ w'.pending = w.pending
              \/ ~w.meta /\ ~w'.meta /\ w.pending # <<>> /\ w'.pending = Tail(w.pending)
  <1>1. w.handle # NoInode /\ w.handle \in DOMAIN inodes /\ inodes[w.handle] \in Files
    BY HandleFile DEF WriteLine, TypeInv
  <1>2. ToWrite \in Items /\ ToWrite \in Todo(w.meta, w.pending)
    BY ToWriteItem DEF WriteLine
  <1>3. Appended(inodes[w.handle], ToWrite) \in Files
    BY <1>1, <1>2, Constants
  <1>4. inodes' = [inodes EXCEPT ![w.handle] = Appended(inodes[w.handle], ToWrite)]
    BY DEF WriteLine
  <1>5. inodes' \in Seq(Files) /\ Len(inodes') = Len(inodes)
    BY <1>1, <1>3, <1>4, HandleFile
  <1>6. w \in Writers /\ w.pc = "write" /\ w.pending \in Seq(Items) /\ w.meta \in BOOLEAN
    BY DEF WriteLine, TypeInv, Writers
  <1>7. CASE w.meta
    <2>1. w' = [w EXCEPT !.meta = FALSE]
      BY <1>7 DEF WriteLine
    <2>2. /\ w' \in Writers /\ w'.handle = w.handle /\ w'.pc = "write" /\ w'.temp = w.temp
          /\ ~w'.meta /\ w'.pending = w.pending
      BY <1>6, <2>1 DEF Writers
    <2> QED BY <1>1, <1>2, <1>4, <1>5, <1>7, <2>2
  <1>8. CASE ~w.meta
    <2>1. w' = [w EXCEPT !.pending = Tail(w.pending)] /\ w.pending # <<>>
      BY <1>8 DEF WriteLine
    <2>2. Tail(w.pending) \in Seq(Items)
      BY <1>6, <2>1
    <2>3. /\ w' \in Writers /\ w'.handle = w.handle /\ w'.pc = "write" /\ w'.temp = w.temp
          /\ ~w'.meta /\ w'.pending = Tail(w.pending)
      BY <1>6, <1>8, <2>1, <2>2 DEF Writers
    <2> QED BY <1>1, <1>2, <1>4, <1>5, <1>8, <2>1, <2>3
  <1> QED BY <1>7, <1>8

LEMMA WriteLineTypes == TypeInv /\ WriteLine => TypeInv'
  <1> SUFFICES ASSUME TypeInv, WriteLine PROVE TypeInv'
    OBVIOUS
  <1>1. /\ inodes' \in Seq(Files) /\ Len(inodes') = Len(inodes)
        /\ w' \in Writers /\ w'.handle = w.handle /\ w.handle # NoInode
    BY WriteLineView
  <1> QED BY <1>1 DEF TypeInv, WriteLine, counters

\* A line torn: only what follows the file's last newline changes.
Tears ==
    \E t \in TornTails(inodes[w.handle], ToWrite) :
      inodes' = [inodes EXCEPT ![w.handle].tail = t]

LEMMA TearsView ==
    ASSUME TypeInv, w.pc = "write", w.meta \/ w.pending # <<>>, Tears
    PROVE  /\ w.handle # NoInode /\ w.handle \in DOMAIN inodes /\ inodes[w.handle] \in Files
           /\ ToWrite \in Items /\ ToWrite \in Todo(w.meta, w.pending)
           /\ inodes' \in Seq(Files) /\ Len(inodes') = Len(inodes)
           /\ \E f \in Files :
                /\ inodes' = [inodes EXCEPT ![w.handle] = f]
                /\ f.lines = inodes[w.handle].lines
                /\ f.tail \in TornTails(inodes[w.handle], ToWrite)
  <1>1. w.handle # NoInode /\ w.handle \in DOMAIN inodes /\ inodes[w.handle] \in Files
    BY HandleFile DEF TypeInv
  <1>2. ToWrite \in Items /\ ToWrite \in Todo(w.meta, w.pending)
    BY ToWriteItem
  <1>3. PICK t \in TornTails(inodes[w.handle], ToWrite) : inodes' = [inodes EXCEPT ![w.handle].tail = t]
    BY DEF Tears
  <1> DEFINE f == [inodes[w.handle] EXCEPT !.tail = t]
  <1>4. inodes' = [inodes EXCEPT ![w.handle] = f]
    BY <1>3
  <1>5. f \in Files /\ f.lines = inodes[w.handle].lines /\ f.tail = t
    BY <1>1, <1>2, Constants DEF Files
  <1>6. inodes' \in Seq(Files) /\ Len(inodes') = Len(inodes)
    BY <1>1, <1>4, <1>5, HandleFile
  <1> HIDE DEF f
  <1> QED BY <1>1, <1>2, <1>4, <1>5, <1>6

LEMMA WriteFailsTypes == TypeInv /\ WriteFails => TypeInv'
  <1> SUFFICES ASSUME TypeInv, WriteFails PROVE TypeInv'
    OBVIOUS
  <1>0. acked \in SUBSET Items
    BY DEF TypeInv
  <1>1. /\ inodes' \in Seq(Files) /\ Len(inodes') = Len(inodes)
        /\ cold' \subseteq cold /\ torn' \in Nat
    <2>1. CASE UNCHANGED <<inodes, cold, torn>>
      BY <2>1 DEF TypeInv
    <2>2. CASE ~UNCHANGED <<inodes, cold, torn>>
      <3>1. Tears /\ cold' \subseteq cold /\ torn' = torn + 1
        BY <2>2 DEF WriteFails, Tears
      <3>2. w.pc = "write" /\ (w.meta \/ w.pending # <<>>)
        BY DEF WriteFails
      <3> QED BY <3>1, <3>2, TearsView DEF TypeInv
    <2> QED BY <2>1, <2>2
  <1>2. /\ mode' \in {mode, "none"} /\ queue' \in {queue, <<>>} /\ given' \in {given, {}} /\ acked' = acked
        /\ w' \in Writers /\ w'.handle = NoInode /\ w'.pc # "write"
    <2>1. CASE Closed(acked)
      BY <1>0, <2>1, ClosedTypes
    <2>2. CASE ~Closed(acked)
      BY <2>2, FailedTypes DEF WriteFails, SameWork
    <2> QED BY <2>1, <2>2
  <1>3. w'.handle \in 0..Len(inodes)
    BY <1>2, NoHandle
  <1>4. <<>> \in Seq(Commands)
    OBVIOUS
  <1>5. /\ mode' \in {"record", "resume", "append", "none"} /\ queue' \in Seq(Commands)
        /\ given' \subseteq Items
    BY <1>2, <1>4 DEF TypeInv
  <1> QED BY <1>1, <1>2, <1>3, <1>5 DEF TypeInv, WriteFails

LEMMA OpenFailsTypes == TypeInv /\ OpenFails => TypeInv'
  <1> SUFFICES ASSUME TypeInv, OpenFails PROVE TypeInv'
    OBVIOUS
  <1>0. acked \in SUBSET Items
    BY DEF TypeInv
  <1>2. /\ mode' \in {mode, "none"} /\ queue' \in {queue, <<>>} /\ given' \in {given, {}} /\ acked' = acked
        /\ w' \in Writers /\ w'.handle = NoInode /\ w'.pc # "write"
    <2>1. CASE Closed(acked)
      BY <1>0, <2>1, ClosedTypes
    <2>2. CASE ~Closed(acked)
      BY <2>2, FailedTypes DEF OpenFails, SameWork
    <2> QED BY <2>1, <2>2
  <1>3. w'.handle \in 0..Len(inodes)
    BY <1>2, NoHandle
  <1>4. <<>> \in Seq(Commands)
    OBVIOUS
  <1>5. /\ mode' \in {"record", "resume", "append", "none"} /\ queue' \in Seq(Commands)
        /\ given' \subseteq Items
    BY <1>2, <1>4 DEF TypeInv
  <1> QED BY <1>2, <1>3, <1>5 DEF TypeInv, OpenFails, disk

\* An answer: what was given is acknowledged, or was not asked about.
LEMMA AnswerView ==
    ASSUME TypeInv, Answer
    PROVE  /\ w.meta = FALSE /\ w.pending = <<>>
           /\ \/ Closed(acked \cup given)
              \/ /\ SameWork /\ w'.handle = w.handle /\ w'.temp = w.temp /\ w'.pc = "idle"
                 /\ acked' \in {acked, acked \cup given}
  <1>1. w.meta = FALSE /\ w.pending = <<>>
    BY DEF Answer, TypeInv, Writers
  <1>2. CASE mode = "append" \/ w.cmd.op = "shutdown"
    BY <1>1, <1>2 DEF Answer
  <1>3. CASE ~(mode = "append" \/ w.cmd.op = "shutdown")
    <2>1. /\ w' = [w EXCEPT !.pc = "idle"] /\ UNCHANGED <<queue, mode, given>>
          /\ acked' \in {acked, acked \cup given}
      BY <1>3 DEF Answer
    <2> QED BY <1>1, <2>1 DEF TypeInv, Writers, WriterPcs, SameWork
  <1> QED BY <1>2, <1>3

LEMMA AnswerTypes == TypeInv /\ Answer => TypeInv'
  <1> SUFFICES ASSUME TypeInv, Answer PROVE TypeInv'
    OBVIOUS
  <1>0. acked \cup given \in SUBSET Items
    BY DEF TypeInv
  <1>1. CASE Closed(acked \cup given)
    <2>1. mode' = "none" /\ queue' = <<>> /\ given' = {} /\ acked' = acked \cup given
          /\ w' \in Writers /\ w'.handle = NoInode /\ w'.pc = "idle"
      BY <1>0, <1>1, ClosedTypes
    <2> QED BY <1>0, <2>1 DEF TypeInv, Answer, disk, counters, NoInode
  <1>2. CASE ~Closed(acked \cup given)
    <2>1. SameWork /\ w'.handle = w.handle /\ w'.pc = "idle" /\ acked' \in {acked, acked \cup given}
      BY <1>2, AnswerView
    <2> QED BY <1>0, <2>1 DEF TypeInv, Answer, disk, counters, SameWork
  <1> QED BY <1>1, <1>2

LEMMA CrashTypes == TypeInv /\ (Crash \/ CrashInWrite) => TypeInv'
  <1> SUFFICES ASSUME TypeInv, Crash \/ CrashInWrite PROVE TypeInv'
    OBVIOUS
  <1>0. acked \in SUBSET Items /\ Closed(acked)
    BY DEF TypeInv, Crash, CrashInWrite
  <1>1. mode' = "none" /\ queue' = <<>> /\ given' = {} /\ acked' = acked
          /\ w' \in Writers /\ w'.handle = NoInode /\ w'.pc = "idle"
    BY <1>0, ClosedTypes
  <1>2. CASE Crash
    BY <1>1, <1>2 DEF TypeInv, Crash, disk, NoInode
  <1>3. CASE CrashInWrite
    <2>1. w.pc = "write" /\ (w.meta \/ w.pending # <<>>) /\ Tears /\ cold' \subseteq cold /\ torn' = torn + 1
      BY <1>3 DEF CrashInWrite, Tears
    <2>2. inodes' \in Seq(Files) /\ Len(inodes') = Len(inodes)
      BY <2>1, TearsView
    <2> QED BY <1>1, <1>3, <2>1, <2>2 DEF TypeInv, CrashInWrite, NoInode
  <1> QED BY <1>2, <1>3

LEMMA ResumeTypes == TypeInv /\ Resume => TypeInv'
  <1> SUFFICES ASSUME TypeInv, Resume PROVE TypeInv'
    OBVIOUS
  <1>0. "materialize" \in WriterPcs
    BY DEF WriterPcs
  <1>1. w' \in Writers /\ w'.handle = NoInode /\ w'.pc = "materialize"
    BY <1>0, StartTypes DEF Resume
  <1>2. w'.handle \in 0..Len(inodes)
    BY <1>1, NoHandle
  <1> QED BY <1>1, <1>2 DEF TypeInv, Resume, disk, counters

LEMMA AppendView ==
    ASSUME TypeInv, AppendRolloutItemToPath
    PROVE  /\ sent + 1 \in Items /\ sent' \in 0..MaxItems
           /\ w' \in Writers /\ w'.handle = NoInode /\ w'.pc = "materialize" /\ ~w'.meta
           /\ w'.pending = <<sent + 1>> /\ w'.temp = EmptyFile
  <1>0. "materialize" \in WriterPcs /\ sent + 1 \in Items /\ sent' \in 0..MaxItems
    BY StoreAssumption DEF WriterPcs, AppendRolloutItemToPath, TypeInv, Items
  <1> DEFINE t == WriterStart(FALSE, "materialize")
  <1>1. t \in Writers /\ t.handle = NoInode /\ t.pc = "materialize" /\ t.meta = FALSE /\ t.temp = EmptyFile
    BY <1>0, StartTypes
  <1>2. w' = [t EXCEPT !.pending = <<sent + 1>>] /\ <<sent + 1>> \in Seq(Items)
    BY <1>0 DEF AppendRolloutItemToPath
  <1> HIDE DEF t
  <1> QED BY <1>0, <1>1, <1>2 DEF Writers

LEMMA AppendTypes == TypeInv /\ AppendRolloutItemToPath => TypeInv'
  <1> SUFFICES ASSUME TypeInv, AppendRolloutItemToPath PROVE TypeInv'
    OBVIOUS
  <1>1. sent + 1 \in Items /\ sent' \in 0..MaxItems
        /\ w' \in Writers /\ w'.handle = NoInode /\ w'.pc = "materialize"
    BY AppendView
  <1>2. w'.handle \in 0..Len(inodes)
    BY <1>1, NoHandle
  <1> QED BY <1>1, <1>2 DEF TypeInv, AppendRolloutItemToPath, disk, counters

LEMMA WorkerTypes ==
    TypeInv /\ (Age \/ FindCold \/ Encode \/ Confirm \/ UnlinkPlain \/ WorkerStops) => TypeInv'
  <1> SUFFICES ASSUME TypeInv, Age \/ FindCold \/ Encode \/ Confirm \/ UnlinkPlain \/ WorkerStops
               PROVE  TypeInv'
    OBVIOUS
  <1>0. NoPass \in Passes /\ c.state \in Files /\ Len(inodes) \in Nat
    BY Constants DEF NoPass, Passes, TypeInv, NoInode
  <1>1. CASE Age
    BY <1>0, <1>1 DEF TypeInv, Age, counters, NoInode
  <1>2. CASE FindCold
    <2>1. plain \in 1..Len(inodes) /\ plain \in Nat
      BY <1>2 DEF TypeInv, FindCold
    <2>2. inodes[plain] \in Files
      BY <2>1 DEF TypeInv
    <2>3. c' \in Passes
      BY <1>2, <2>1, <2>2 DEF FindCold, Passes
    <2> QED BY <1>2, <2>3 DEF TypeInv, FindCold, disk, counters
  <1>3. CASE Encode
    <2>1. c' \in Passes /\ zst' \in SUBSET Files /\ \A f, g \in zst' : f = g
      BY <1>0, <1>3 DEF TypeInv, Encode, Passes
    <2> QED BY <1>3, <2>1 DEF TypeInv, Encode, counters
  <1>4. CASE Confirm
    <2>1. c' \in Passes /\ zst' \in SUBSET Files /\ \A f, g \in zst' : f = g
      BY <1>0, <1>4 DEF TypeInv, Confirm, Passes
    <2> QED BY <1>4, <2>1 DEF TypeInv, Confirm, counters
  <1>5. CASE UnlinkPlain
    BY <1>0, <1>5 DEF TypeInv, UnlinkPlain, NoInode
  <1>6. CASE WorkerStops
    BY <1>0, <1>6 DEF TypeInv, WorkerStops, disk, counters
  <1> QED BY <1>1, <1>2, <1>3, <1>4, <1>5, <1>6

LEMMA NextTypes == TypeInv /\ [Next]_vars => TypeInv'
  <1> SUFFICES ASSUME TypeInv, [Next]_vars PROVE TypeInv'
    OBVIOUS
  <1>1. CASE \E op \in Barriers : RequestBarrier(op)
    BY <1>1, RequestTypes
  <1>2. CASE UNCHANGED vars
    BY <1>2 DEF TypeInv, vars
  <1> QED
    BY <1>1, <1>2, RecordTypes, RecvAddTypes, RecvBarrierTypes, MaterializeTypes, LinkTypes,
       UnlinkZstTypes, OpenTypes, WriteLineTypes, WriteFailsTypes, OpenFailsTypes, AnswerTypes,
       CrashTypes, ResumeTypes, AppendTypes, WorkerTypes DEF Next, WriterStep

-----------------------------------------------------------------------------
(* The order of what is still to be written. *)

LEMMA WorkTypes ==
    ASSUME TypeInv
    PROVE  /\ w.pending \in Seq(Items) /\ Range(w.pending) \subseteq Items /\ Queued(queue) \subseteq Items
           /\ Todo(w.meta, w.pending) \subseteq Items
           /\ \A x \in Items : x \in Int /\ x >= 0
  <1>1. w.pending \in Seq(Items) /\ queue \in Seq(Commands)
    BY DEF TypeInv, Writers
  <1>2. \A k \in DOMAIN w.pending : w.pending[k] \in Items
    BY <1>1
  <1>3. \A k \in DOMAIN queue : queue[k] \in Commands
    BY <1>1
  <1>4. \A e \in Commands : e.item \in Items
    BY DEF Commands
  <1>5. \A x \in Items : x \in Int /\ x >= 0
    BY StoreAssumption DEF Items
  <1>6. Range(w.pending) \subseteq Items
    BY <1>2 DEF Range
  <1>7. Queued(queue) \subseteq Items
    BY <1>3, <1>4 DEF Queued
  <1> QED BY <1>1, <1>5, <1>6, <1>7, Constants DEF Todo

LEMMA OrderUnchanged ==
    ASSUME OrderInv, w'.meta = w.meta, w'.pending = w.pending, queue' = queue, sent' = sent,
           mode' = "none" => mode = "none"
    PROVE  OrderInv' /\ Rest' = Rest
  BY DEF OrderInv, Rest

LEMMA OrderClosed ==
    ASSUME TypeInv, OrderInv, NEW a \in SUBSET Items, Closed(a), sent' = sent
    PROVE  OrderInv' /\ Rest' \subseteq Rest
  <1>1. ~w'.meta /\ w'.pending = <<>> /\ queue' = <<>>
    BY ClosedTypes
  <1> QED BY <1>1, EmptyQueue DEF OrderInv, Rest, Ahead, Todo

LEMMA OrderRecord ==
    ASSUME TypeInv, OrderInv, RecordCanonicalItems
    PROVE  OrderInv' /\ Rest' \subseteq Rest
  <1>1. /\ sent \in Nat /\ sent < MaxItems /\ sent' = sent + 1 /\ sent + 1 \in Items /\ MaxItems \in Nat
        /\ w' = w /\ mode = "record" /\ mode' = mode
    BY StoreAssumption DEF TypeInv, RecordCanonicalItems, Items
  <1> DEFINE e == Add(sent + 1)
  <1>2. e \in Commands /\ e.op = "add" /\ e.item = sent + 1 /\ queue \in Seq(Commands) /\ queue' = Append(queue, e)
    BY <1>1, Constants DEF TypeInv, RecordCanonicalItems
  <1> HIDE DEF e
  <1>3. Queued(queue') = Queued(queue) \cup {sent + 1}
    BY <1>2, QueuedAppend
  <1>4. \A x \in Range(w.pending) \cup Queued(queue) : x \in Int
    BY WorkTypes
  <1>5. \A i, j \in DOMAIN queue' : i < j /\ queue'[i].op = "add" /\ queue'[j].op = "add"
                                    => queue'[i].item < queue'[j].item
    <2> SUFFICES ASSUME NEW i \in DOMAIN queue', NEW j \in DOMAIN queue', i < j,
                        queue'[i].op = "add", queue'[j].op = "add"
                 PROVE  queue'[i].item < queue'[j].item
      OBVIOUS
    <2>1. /\ Len(queue) \in Nat /\ DOMAIN queue = 1..Len(queue) /\ DOMAIN queue' = 1..(Len(queue) + 1)
          /\ \A k \in 1..Len(queue) : queue'[k] = queue[k]
          /\ queue'[Len(queue) + 1] = e
      BY <1>2, AppendPlaces
    <2>2. i \in 1..Len(queue) /\ queue[i].op = "add" /\ queue'[i] = queue[i]
      BY <2>1
    <2>3. CASE j \in 1..Len(queue)
      BY <2>1, <2>2, <2>3 DEF OrderInv
    <2>4. CASE j \notin 1..Len(queue)
      <3>1. queue'[j].item = sent + 1
        BY <1>2, <2>1, <2>4
      <3>2. queue[i].item \in Queued(queue)
        BY <2>1, <2>2 DEF Queued
      <3>3. queue[i].item <= sent
        BY <3>2 DEF OrderInv
      <3> QED BY <1>1, <1>4, <2>2, <3>1, <3>2, <3>3
    <2> QED BY <2>3, <2>4
  <1>6. OrderInv'
    BY <1>1, <1>3, <1>4, <1>5 DEF OrderInv, SessionMeta
  <1>7. Rest' \subseteq Rest
    BY <1>1, <1>3 DEF Rest, Ahead
  <1> QED BY <1>6, <1>7

LEMMA OrderRequest ==
    ASSUME TypeInv, OrderInv, NEW op \in Barriers, RequestBarrier(op)
    PROVE  OrderInv' /\ Rest' = Rest
  <1>1. sent' = sent /\ w' = w /\ mode' = mode /\ mode = "record"
    BY DEF RequestBarrier
  <1> DEFINE e == Barrier(op)
  <1>2. e \in Commands /\ e.op # "add" /\ queue \in Seq(Commands) /\ queue' = Append(queue, e)
    BY Constants DEF TypeInv, RequestBarrier
  <1> HIDE DEF e
  <1>3. Queued(queue') = Queued(queue)
    BY <1>2, QueuedAppend
  <1>4. /\ Len(queue) \in Nat /\ DOMAIN queue = 1..Len(queue) /\ DOMAIN queue' = 1..(Len(queue) + 1)
        /\ \A k \in 1..Len(queue) : queue'[k] = queue[k]
        /\ queue'[Len(queue) + 1] = e
    BY <1>2, AppendPlaces
  <1>5. \A i \in DOMAIN queue' : queue'[i].op = "add" => i \in DOMAIN queue /\ queue'[i] = queue[i]
    BY <1>2, <1>4
  <1>6. \A i, j \in DOMAIN queue' : i < j /\ queue'[i].op = "add" /\ queue'[j].op = "add"
                                    => queue'[i].item < queue'[j].item
    BY <1>5 DEF OrderInv
  <1>7. Rest' = Rest
    BY <1>1, <1>3 DEF Rest, Ahead
  <1>8. OrderInv'
    BY <1>1, <1>3, <1>6 DEF OrderInv
  <1> QED BY <1>7, <1>8

\* The rest of the queue is in order, and behind its head.
LEMMA OrderTail ==
    ASSUME TypeInv, OrderInv, queue # <<>>, queue' = Tail(queue)
    PROVE  /\ Queued(queue') \subseteq Queued(queue)
           /\ \A i, j \in DOMAIN queue' : i < j /\ queue'[i].op = "add" /\ queue'[j].op = "add"
                                    => queue'[i].item < queue'[j].item
           /\ Head(queue).op = "add" => /\ Queued(queue) = Queued(queue') \cup {Head(queue).item}
                                        /\ \A y \in Queued(queue') : Head(queue).item < y
  <1>1. queue \in Seq(Commands)
    BY DEF TypeInv
  <1>2. Queued(queue) = Queued(queue') \cup (IF Head(queue).op = "add" THEN {Head(queue).item} ELSE {})
    BY <1>1, QueuedTail
  <1>3. /\ DOMAIN queue = 1..Len(queue) /\ DOMAIN queue' = 1..(Len(queue) - 1) /\ Len(queue) \in Nat \ {0}
        /\ \A k \in 1..(Len(queue) - 1) : queue'[k] = queue[k + 1]
        /\ Head(queue) = queue[1]
    BY <1>1, TailPlaces
  <1>4. \A k \in 1..(Len(queue) - 1) : k + 1 \in 1..Len(queue) /\ 1 < k + 1 /\ 1 \in 1..Len(queue)
    BY <1>3
  <1>5. \A i, j \in DOMAIN queue' : i < j /\ queue'[i].op = "add" /\ queue'[j].op = "add"
                                    => queue'[i].item < queue'[j].item
    <2> SUFFICES ASSUME NEW i \in DOMAIN queue', NEW j \in DOMAIN queue', i < j,
                        queue'[i].op = "add", queue'[j].op = "add"
                 PROVE  queue'[i].item < queue'[j].item
      OBVIOUS
    <2>1. i + 1 \in DOMAIN queue /\ j + 1 \in DOMAIN queue /\ i + 1 < j + 1
      BY <1>3, <1>4
    <2> QED BY <1>3, <2>1 DEF OrderInv
  <1>6. ASSUME Head(queue).op = "add", NEW y \in Queued(queue') PROVE Head(queue).item < y
    <2>1. PICK k \in DOMAIN queue' : queue'[k].op = "add" /\ queue'[k].item = y
      BY DEF Queued
    <2>2. k + 1 \in DOMAIN queue /\ 1 \in DOMAIN queue /\ 1 < k + 1
      BY <1>3, <1>4
    <2> QED BY <1>3, <1>6, <2>1, <2>2 DEF OrderInv
  <1> QED BY <1>2, <1>5, <1>6

LEMMA OrderRecvAdd ==
    ASSUME TypeInv, OrderInv, RecvAdd
    PROVE  OrderInv' /\ Rest' \subseteq Rest
  <1>1. /\ w'.meta = w.meta /\ w'.pending = Append(w.pending, Head(queue).item)
        /\ queue # <<>> /\ Head(queue).op = "add" /\ Head(queue).item \in Items /\ queue' = Tail(queue)
    BY RecvAddView
  <1>2. sent' = sent /\ mode' = mode /\ mode = "record"
    BY DEF RecvAdd
  <1> DEFINE h == Head(queue).item
  <1>3. /\ Queued(queue) = Queued(queue') \cup {h} /\ \A y \in Queued(queue') : h < y
        /\ \A i, j \in DOMAIN queue' : i < j /\ queue'[i].op = "add" /\ queue'[j].op = "add"
                                    => queue'[i].item < queue'[j].item
    BY <1>1, OrderTail
  <1>4. /\ w.pending \in Seq(Items) /\ Len(w.pending) \in Nat
        /\ DOMAIN w.pending = 1..Len(w.pending) /\ DOMAIN w'.pending = 1..(Len(w.pending) + 1)
        /\ \A k \in 1..Len(w.pending) : w'.pending[k] = w.pending[k]
        /\ w'.pending[Len(w.pending) + 1] = h
        /\ Range(w'.pending) = Range(w.pending) \cup {h}
    <2>1. w.pending \in Seq(Items)
      BY WorkTypes
    <2> QED BY <1>1, <2>1, AppendPlaces
  <1>5. \A x \in Range(w.pending) : x < h
    BY <1>3 DEF OrderInv
  <1> HIDE DEF h
  <1>6. \A i, j \in DOMAIN w'.pending : i < j => w'.pending[i] < w'.pending[j]
    <2> SUFFICES ASSUME NEW i \in DOMAIN w'.pending, NEW j \in DOMAIN w'.pending, i < j
                 PROVE  w'.pending[i] < w'.pending[j]
      OBVIOUS
    <2>1. i \in DOMAIN w.pending /\ w'.pending[i] = w.pending[i] /\ w.pending[i] \in Range(w.pending)
      BY <1>4 DEF Range
    <2>2. CASE j \in DOMAIN w.pending
      BY <1>4, <2>1, <2>2 DEF OrderInv
    <2>3. CASE j \notin DOMAIN w.pending
      <3>1. w'.pending[j] = h
        BY <1>4, <2>3
      <3> QED BY <1>5, <2>1, <3>1
    <2> QED BY <2>2, <2>3
  <1>7. \A x \in Range(w'.pending), y \in Queued(queue') : x < y
    BY <1>3, <1>4 DEF OrderInv
  <1>8. \A x \in Range(w'.pending) \cup Queued(queue') : x <= sent'
    BY <1>2, <1>3, <1>4 DEF OrderInv
  <1>9. w'.meta => SessionMeta \notin Range(w'.pending) \cup Queued(queue')
    BY <1>1, <1>3, <1>4 DEF OrderInv
  <1>10. OrderInv'
    BY <1>2, <1>3, <1>6, <1>7, <1>8, <1>9 DEF OrderInv
  <1>11. Rest' \subseteq Rest
    BY <1>1, <1>2, <1>3, <1>4 DEF Rest, Ahead, Todo
  <1> QED BY <1>10, <1>11

LEMMA OrderRecvBarrier ==
    ASSUME TypeInv, OrderInv, RecvBarrier
    PROVE  OrderInv' /\ Rest' \subseteq Rest
  <1>1. sent' = sent /\ mode = "record" /\ acked \in SUBSET Items
    BY DEF RecvBarrier, TypeInv
  <1>2. CASE Closed(acked)
    BY <1>1, <1>2, OrderClosed
  <1>3. CASE ~Closed(acked)
    <2>1. /\ queue # <<>> /\ queue' = Tail(queue) /\ mode' = mode
          /\ w'.meta = w.meta /\ w'.pending = w.pending
      BY <1>3, RecvBarrierView
    <2>2. /\ Queued(queue') \subseteq Queued(queue)
          /\ \A i, j \in DOMAIN queue' : i < j /\ queue'[i].op = "add" /\ queue'[j].op = "add"
                                    => queue'[i].item < queue'[j].item
      BY <2>1, OrderTail
    <2>3. OrderInv'
      BY <1>1, <2>1, <2>2 DEF OrderInv
    <2>4. Rest' \subseteq Rest
      BY <1>1, <2>1, <2>2 DEF Rest, Ahead
    <2> QED BY <2>3, <2>4
  <1> QED BY <1>2, <1>3

\* What is written comes before everything that is still to be written.
LEMMA OrderWriteLine ==
    ASSUME TypeInv, OrderInv, WriteLine
    PROVE  OrderInv' /\ Rest' \subseteq Rest /\ ToWrite \in Rest /\ \A n \in Rest' : ToWrite < n
  <1>1. queue' = queue /\ sent' = sent /\ mode' = mode /\ sent \in 0..MaxItems
    BY DEF WriteLine, TypeInv
  <1>2. ToWrite \in Items /\ ToWrite \in Todo(w.meta, w.pending)
    BY WriteLineView
  <1>3. ToWrite \in Rest
    BY <1>2 DEF Rest, Ahead
  <1>4. /\ w.pending \in Seq(Items) /\ Range(w.pending) \subseteq Items /\ Queued(queue) \subseteq Items
        /\ \A x \in Items : x \in Int /\ x >= 0
    BY WorkTypes
  <1>5. CASE w.meta
    <2>1. ~w'.meta /\ w'.pending = w.pending /\ ToWrite = SessionMeta
      BY <1>5, WriteLineView DEF ToWrite
    <2>2. OrderInv'
      BY <1>1, <2>1 DEF OrderInv
    <2>3. Rest' \subseteq Rest /\ Rest' = Range(w.pending) \cup Queued(queue) \cup ((sent + 1)..MaxItems)
      BY <1>1, <1>5, <2>1 DEF Rest, Ahead, Todo
    <2>4. \A n \in Range(w.pending) \cup Queued(queue) : 0 < n
      BY <1>4, <1>5 DEF OrderInv, SessionMeta
    <2> QED BY <1>1, <1>3, <2>1, <2>2, <2>3, <2>4 DEF SessionMeta
  <1>6. CASE ~w.meta
    <2>1. ~w'.meta /\ w.pending # <<>> /\ w'.pending = Tail(w.pending) /\ ToWrite = Head(w.pending)
      BY <1>6, WriteLineView DEF ToWrite
    <2>2. /\ ToWrite = w.pending[1] /\ DOMAIN w.pending = 1..Len(w.pending) /\ Len(w.pending) \in Nat \ {0}
          /\ DOMAIN w'.pending = 1..(Len(w.pending) - 1)
          /\ \A k \in 1..(Len(w.pending) - 1) : w'.pending[k] = w.pending[k + 1]
          /\ Range(w.pending) = {ToWrite} \cup Range(w'.pending)
      BY <1>4, <2>1, TailPlaces
    <2>3. \A k \in DOMAIN w'.pending : k + 1 \in DOMAIN w.pending /\ 1 \in DOMAIN w.pending /\ 1 < k + 1
      BY <2>2
    <2>4. \A i, j \in DOMAIN w'.pending : i < j => w'.pending[i] < w'.pending[j]
      <3> SUFFICES ASSUME NEW i \in DOMAIN w'.pending, NEW j \in DOMAIN w'.pending, i < j
                   PROVE  w'.pending[i] < w'.pending[j]
        OBVIOUS
      <3>1. i + 1 < j + 1 /\ i + 1 \in DOMAIN w.pending /\ j + 1 \in DOMAIN w.pending
        BY <2>2, <2>3
      <3> QED BY <2>2, <3>1 DEF OrderInv
    <2>5. ASSUME NEW x \in Range(w'.pending) PROVE ToWrite < x
      <3>1. PICK k \in DOMAIN w'.pending : w'.pending[k] = x
        BY DEF Range
      <3>2. x = w.pending[k + 1]
        BY <2>2, <3>1
      <3> QED BY <2>2, <2>3, <3>2 DEF OrderInv
    <2>6. \A y \in Queued(queue) : ToWrite < y
      BY <2>2 DEF OrderInv
    <2>7. ToWrite <= sent
      BY <2>2 DEF OrderInv
    <2>8. OrderInv'
      BY <1>1, <2>1, <2>2, <2>4 DEF OrderInv
    <2>9. Rest' = Range(w'.pending) \cup Queued(queue) \cup ((sent + 1)..MaxItems)
      BY <1>1, <2>1 DEF Rest, Ahead, Todo
    <2>10. Rest' \subseteq Rest
      BY <2>2, <2>9 DEF Rest, Ahead, Todo
    <2>11. \A n \in (sent + 1)..MaxItems : ToWrite < n
      BY <1>1, <1>2, <1>4, <2>7
    <2> QED BY <1>3, <2>5, <2>6, <2>8, <2>9, <2>10, <2>11
  <1> QED BY <1>5, <1>6

LEMMA WriteFirst ==
    ASSUME TypeInv, OrderInv, w.meta \/ w.pending # <<>>
    PROVE  ToWrite \in Rest /\ ToWrite \in Items /\ \A n \in Rest : ToWrite <= n
  <1>1. ToWrite \in Items /\ ToWrite \in Todo(w.meta, w.pending) /\ sent \in 0..MaxItems
    BY ToWriteItem DEF TypeInv
  <1>2. ToWrite \in Rest
    BY <1>1 DEF Rest, Ahead
  <1>3. /\ w.pending \in Seq(Items) /\ Range(w.pending) \subseteq Items /\ Queued(queue) \subseteq Items
        /\ \A x \in Items : x \in Int /\ x >= 0
    BY WorkTypes
  <1>4. CASE w.meta
    <2>1. Rest \subseteq Items \cup ((sent + 1)..MaxItems)
      BY <1>3, Constants DEF Rest, Ahead, Todo
    <2>2. ToWrite = 0
      BY <1>4 DEF ToWrite, SessionMeta
    <2> QED BY <1>1, <1>2, <1>3, <2>1, <2>2
  <1>5. CASE ~w.meta
    <2>1. ToWrite = Head(w.pending) /\ w.pending # <<>>
      BY <1>5 DEF ToWrite
    <2>2. /\ ToWrite = w.pending[1] /\ DOMAIN w.pending = 1..Len(w.pending) /\ Len(w.pending) \in Nat \ {0}
      BY <1>3, <2>1, TailPlaces
    <2>3. ToWrite \in Range(w.pending)
      BY <2>2 DEF Range
    <2>4. ASSUME NEW x \in Range(w.pending) PROVE ToWrite <= x
      <3>1. PICK k \in DOMAIN w.pending : w.pending[k] = x
        BY DEF Range
      <3>2. k = 1 \/ 1 < k
        BY <2>2
      <3>3. CASE k = 1
        BY <1>1, <1>3, <2>2, <3>1, <3>3
      <3>4. CASE 1 < k
        <4>1. ToWrite < x
          BY <2>2, <3>1, <3>4 DEF OrderInv
        <4> QED BY <1>1, <1>3, <4>1
      <3> QED BY <3>2, <3>3, <3>4
    <2>5. \A y \in Queued(queue) : ToWrite < y
      BY <2>3 DEF OrderInv
    <2>6. ToWrite <= sent
      BY <2>3 DEF OrderInv
    <2>7. \A n \in (sent + 1)..MaxItems : ToWrite <= n
      BY <1>1, <1>3, <2>6
    <2>8. Rest = Range(w.pending) \cup Queued(queue) \cup ((sent + 1)..MaxItems)
      BY <1>5 DEF Rest, Ahead, Todo
    <2> QED BY <1>1, <1>2, <1>3, <2>4, <2>5, <2>7, <2>8
  <1> QED BY <1>4, <1>5

LEMMA OrderResume ==
    ASSUME TypeInv, OrderInv, Resume
    PROVE  OrderInv' /\ Rest' \subseteq Rest /\ w'.temp = EmptyFile
  <1>0. "materialize" \in WriterPcs
    BY DEF WriterPcs
  <1>1. w'.meta = FALSE /\ w'.pending = <<>> /\ w'.temp = EmptyFile
    BY <1>0, StartTypes DEF Resume
  <1>2. mode = "none" /\ queue' = queue /\ queue = <<>> /\ sent' = sent /\ w.pending = <<>> /\ ~w.meta
    BY DEF Resume, OrderInv
  <1>3. mode' # "none"
    BY DEF Resume
  <1>4. OrderInv'
    BY <1>1, <1>2, <1>3 DEF OrderInv
  <1> QED BY <1>1, <1>2, <1>4, EmptyQueue DEF Rest, Ahead, Todo

LEMMA OrderAppend ==
    ASSUME TypeInv, OrderInv, AppendRolloutItemToPath
    PROVE  OrderInv' /\ Rest' \subseteq Rest
  <1>1. ~w'.meta /\ w'.pending = <<sent + 1>> /\ sent + 1 \in Items
    BY AppendView
  <1>2. /\ mode = "none" /\ queue' = <<>> /\ sent' = sent + 1 /\ mode' # "none"
        /\ sent \in Nat /\ sent < MaxItems /\ MaxItems \in Nat
    BY StoreAssumption DEF AppendRolloutItemToPath, OrderInv, TypeInv
  <1>3. Range(w'.pending) = {sent + 1} /\ DOMAIN w'.pending = {1}
    BY <1>1 DEF Range
  <1>4. OrderInv'
    BY <1>1, <1>2, <1>3, EmptyQueue DEF OrderInv
  <1>5. Rest' \subseteq Rest
    BY <1>1, <1>2, <1>3, EmptyQueue DEF Rest, Ahead, Todo
  <1> QED BY <1>4, <1>5

-----------------------------------------------------------------------------
(* The order in the files. *)

LEMMA EmptySound == \A A : Sound(EmptyFile, A)
  BY DEF Sound, Increasing, Before, EmptyFile, Items, Nothing

LEMMA FilesKept ==
    ASSUME FileInv, Stored' \subseteq Stored \cup {EmptyFile}, Rest' \subseteq Rest
    PROVE  FileInv'
  BY EmptySound DEF FileInv, Sound

\* A line more, of the first item that is to be written.
LEMMA AppendedSound ==
    ASSUME NEW f \in Files, NEW A, NEW B, NEW x \in Items, Sound(f, A), x \in A, B \subseteq A,
           \A n \in B : x < n
    PROVE  Sound(Appended(f, x), B)
  <1> DEFINE e == IF f.tail = Nothing THEN x ELSE Garbage
             g == Appended(f, x)
  <1>1. f.lines \in Seq(Entries) /\ e \in Entries /\ e \in {x, Garbage} /\ Nothing \notin Items
    BY Constants DEF Files, Entries
  <1>2. g.lines = Append(f.lines, e) /\ g.tail = Nothing
    BY DEF Appended
  <1> HIDE DEF e, g
  <1>3. /\ Len(f.lines) \in Nat
        /\ DOMAIN f.lines = 1..Len(f.lines) /\ DOMAIN g.lines = 1..(Len(f.lines) + 1)
        /\ \A k \in 1..Len(f.lines) : g.lines[k] = f.lines[k]
        /\ g.lines[Len(f.lines) + 1] = e
    BY <1>1, <1>2, AppendPlaces
  <1>4. \A k \in DOMAIN f.lines : f.lines[k] # Garbage => f.lines[k] < x
    BY DEF Sound, Before
  <1>5. Increasing(g)
    <2> SUFFICES ASSUME NEW i \in DOMAIN g.lines, NEW j \in DOMAIN g.lines,
                        i < j, g.lines[i] # Garbage, g.lines[j] # Garbage
                 PROVE  g.lines[i] < g.lines[j]
      BY <1>1, <1>2 DEF Increasing
    <2>1. i \in DOMAIN f.lines /\ g.lines[i] = f.lines[i]
      BY <1>3
    <2>2. CASE j \in DOMAIN f.lines
      BY <1>3, <2>1, <2>2 DEF Sound, Increasing
    <2>3. CASE j \notin DOMAIN f.lines
      <3>1. g.lines[j] = x
        BY <1>1, <1>3, <2>3
      <3> QED BY <1>4, <2>1, <3>1
    <2> QED BY <2>2, <2>3
  <1>6. ASSUME NEW n \in B PROVE Before(g, n)
    <2> SUFFICES ASSUME NEW k \in DOMAIN g.lines, g.lines[k] # Garbage PROVE g.lines[k] < n
      BY <1>1, <1>2 DEF Before
    <2>1. CASE k \in DOMAIN f.lines
      BY <1>3, <2>1 DEF Sound, Before
    <2>2. CASE k \notin DOMAIN f.lines
      <3>1. g.lines[k] = x
        BY <1>1, <1>3, <2>2
      <3> QED BY <3>1
    <2> QED BY <2>1, <2>2
  <1> QED BY <1>5, <1>6 DEF Sound, g

LEMMA TornSound ==
    ASSUME NEW f \in Files, NEW g \in Files, NEW A, NEW x \in Items, Sound(f, A), x \in A,
           \A n \in A : x <= n, g.lines = f.lines, g.tail \in TornTails(f, x)
    PROVE  Sound(g, A)
  <1>1. g.tail = Garbage \/ g.tail = x
    BY DEF TornTails
  <1>2. Garbage \notin Items
    BY Constants
  <1>3. \A k \in DOMAIN f.lines : f.lines[k] # Garbage => f.lines[k] < x
    BY DEF Sound, Before
  <1>4. Increasing(g)
    BY <1>1, <1>2, <1>3 DEF Sound, Increasing
  <1>5. \A n \in A : Before(g, n)
    BY <1>1, <1>2 DEF Sound, Before
  <1> QED BY <1>4, <1>5 DEF Sound

\* Replacing the file of the writer.
LEMMA ReplacedRange ==
    ASSUME TypeInv, w.handle # NoInode, NEW f, inodes' = [inodes EXCEPT ![w.handle] = f]
    PROVE  Range(inodes') \subseteq Range(inodes) \cup {f} /\ inodes[w.handle] \in Range(inodes)
  <1>1. w.handle \in DOMAIN inodes
    BY HandleFile
  <1> QED BY <1>1 DEF Range

LEMMA FilesWriteLine ==
    ASSUME TypeInv, OrderInv, FileInv, WriteLine
    PROVE  OrderInv' /\ FileInv'
  <1>1. OrderInv' /\ Rest' \subseteq Rest /\ ToWrite \in Rest /\ \A n \in Rest' : ToWrite < n
    BY OrderWriteLine
  <1> DEFINE f == inodes[w.handle]
             g == Appended(f, ToWrite)
  <1>2. /\ w.handle # NoInode /\ f \in Files /\ ToWrite \in Items /\ w'.temp = w.temp
        /\ inodes' = [inodes EXCEPT ![w.handle] = g]
    BY WriteLineView
  <1>3. zst' = zst /\ c' = c
    BY DEF WriteLine
  <1>4. Range(inodes') \subseteq Range(inodes) \cup {g} /\ f \in Range(inodes)
    BY <1>2, ReplacedRange
  <1>5. Sound(f, Rest)
    BY <1>4 DEF FileInv, Stored
  <1>6. Sound(g, Rest')
    BY <1>1, <1>2, <1>5, AppendedSound
  <1>7. Stored' \subseteq Stored \cup {g}
    BY <1>2, <1>3, <1>4 DEF Stored
  <1> HIDE DEF g
  <1>8. \A h \in Stored : Sound(h, Rest')
    BY <1>1 DEF FileInv, Sound
  <1> QED BY <1>1, <1>6, <1>7, <1>8 DEF FileInv

\* A torn line, whatever becomes of the writer.
LEMMA FilesTear ==
    ASSUME TypeInv, OrderInv, FileInv, w.pc = "write", w.meta \/ w.pending # <<>>, Tears,
           Rest' \subseteq Rest, w'.temp \in {w.temp, EmptyFile}, zst' = zst, c' = c
    PROVE  FileInv'
  <1>1. ToWrite \in Rest /\ ToWrite \in Items /\ \A n \in Rest : ToWrite <= n
    BY WriteFirst
  <1>2. PICK g \in Files :
          /\ inodes' = [inodes EXCEPT ![w.handle] = g] /\ g.lines = inodes[w.handle].lines
          /\ g.tail \in TornTails(inodes[w.handle], ToWrite)
    BY TearsView
  <1>3. w.handle # NoInode /\ inodes[w.handle] \in Files
    BY TearsView
  <1>4. Range(inodes') \subseteq Range(inodes) \cup {g} /\ inodes[w.handle] \in Range(inodes)
    BY <1>2, <1>3, ReplacedRange
  <1>5. Sound(inodes[w.handle], Rest)
    BY <1>4 DEF FileInv, Stored
  <1>6. Sound(g, Rest)
    BY <1>1, <1>2, <1>3, <1>5, TornSound
  <1>7. Stored' \subseteq Stored \cup {g, EmptyFile}
    BY <1>4 DEF Stored
  <1>8. \A h \in Stored \cup {g, EmptyFile} : Sound(h, Rest')
    BY <1>6, EmptySound DEF FileInv, Sound
  <1> QED BY <1>7, <1>8 DEF FileInv

LEMMA OrderFilesNext ==
    ASSUME TypeInv, OrderInv, FileInv, [Next]_vars
    PROVE  OrderInv' /\ FileInv'
  <1>0. acked \in SUBSET Items /\ acked \cup given \in SUBSET Items
    BY DEF TypeInv
  <1>1. CASE RecordCanonicalItems
    <2>1. Stored' = Stored
      BY <1>1 DEF RecordCanonicalItems, disk, Stored
    <2> QED BY <1>1, <2>1, OrderRecord, FilesKept
  <1>2. CASE \E op \in Barriers : RequestBarrier(op)
    <2>1. PICK op \in Barriers : RequestBarrier(op)
      BY <1>2
    <2>2. Stored' = Stored
      BY <2>1 DEF RequestBarrier, disk, Stored
    <2> QED BY <2>1, <2>2, OrderRequest, FilesKept
  <1>3. CASE RecvAdd
    <2>1. Stored' = Stored
      BY <1>3, RecvAddView DEF RecvAdd, disk, Stored
    <2> QED BY <1>3, <2>1, OrderRecvAdd, FilesKept
  <1>4. CASE RecvBarrier
    <2>1. w'.temp \in {w.temp, EmptyFile}
      BY <1>0, <1>4, RecvBarrierView, ClosedTypes
    <2>2. Stored' \subseteq Stored \cup {EmptyFile}
      BY <1>4, <2>1 DEF RecvBarrier, disk, Stored
    <2> QED BY <1>4, <2>2, OrderRecvBarrier, FilesKept
  <1>5. CASE Materialize
    <2>1. SameWork /\ w'.temp \in zst \cup {w.temp}
      BY <1>5, MaterializeView
    <2>2. sent' = sent /\ Stored' \subseteq Stored
      BY <1>5, <2>1 DEF Materialize, disk, Stored
    <2>3. OrderInv' /\ Rest' = Rest
      BY <2>1, <2>2, OrderUnchanged DEF SameWork
    <2> QED BY <2>2, <2>3, FilesKept
  <1>6. CASE Link
    <2>1. SameWork /\ w'.temp = EmptyFile /\ Range(inodes') = Range(inodes) \cup {w.temp}
      BY <1>6, LinkView
    <2>2. sent' = sent /\ Stored' \subseteq Stored \cup {EmptyFile}
      BY <1>6, <2>1 DEF Link, Stored
    <2>3. OrderInv' /\ Rest' = Rest
      BY <2>1, <2>2, OrderUnchanged DEF SameWork
    <2> QED BY <2>2, <2>3, FilesKept
  <1>7. CASE UnlinkZst
    <2>1. SameWork /\ w'.temp = w.temp
      BY <1>7, UnlinkZstView
    <2>2. sent' = sent /\ Stored' \subseteq Stored
      BY <1>7, <2>1 DEF UnlinkZst, Stored
    <2>3. OrderInv' /\ Rest' = Rest
      BY <2>1, <2>2, OrderUnchanged DEF SameWork
    <2> QED BY <2>2, <2>3, FilesKept
  <1>8. CASE Open
    <2>0. sent' = sent /\ zst' = zst /\ c' = c
      BY <1>8 DEF Open
    <2>1. CASE Closed(acked) /\ UNCHANGED <<inodes, plain, incidents>>
      <3>1. w'.temp = EmptyFile
        BY <1>0, <2>1, ClosedTypes
      <3>2. Stored' \subseteq Stored \cup {EmptyFile}
        BY <2>0, <2>1, <3>1 DEF Stored
      <3>3. OrderInv' /\ Rest' \subseteq Rest
        BY <1>0, <2>0, <2>1, OrderClosed
      <3> QED BY <3>2, <3>3, FilesKept
    <2>2. CASE ~(Closed(acked) /\ UNCHANGED <<inodes, plain, incidents>>)
      <3>1. /\ queue' = queue /\ w'.meta = w.meta /\ w'.pending = w.pending /\ w'.temp = w.temp
            /\ mode' \in {"record", mode} /\ Range(inodes') \subseteq Range(inodes) \cup {EmptyFile}
        BY <1>8, <2>2, OpenView
      <3>2. Stored' \subseteq Stored \cup {EmptyFile}
        BY <2>0, <3>1 DEF Stored
      <3>3. OrderInv' /\ Rest' = Rest
        BY <2>0, <3>1, OrderUnchanged
      <3> QED BY <3>2, <3>3, FilesKept
    <2> QED BY <2>1, <2>2
  <1>9. CASE WriteLine
    BY <1>9, FilesWriteLine
  <1>10. CASE WriteFails \/ OpenFails
    <2>0. sent' = sent /\ zst' = zst /\ c' = c /\ Failed
      BY <1>10 DEF WriteFails, OpenFails, disk
    <2>1. OrderInv' /\ Rest' \subseteq Rest /\ w'.temp \in {w.temp, EmptyFile}
      <3>1. CASE Closed(acked)
        BY <1>0, <2>0, <3>1, OrderClosed, ClosedTypes
      <3>2. CASE ~Closed(acked)
        <4>1. SameWork /\ w'.temp = w.temp
          BY <2>0, <3>2, FailedTypes
        <4> QED BY <2>0, <4>1, OrderUnchanged DEF SameWork
      <3> QED BY <3>1, <3>2
    <2>2. CASE inodes' = inodes
      <3>1. Stored' \subseteq Stored \cup {EmptyFile}
        BY <2>0, <2>1, <2>2 DEF Stored
      <3> QED BY <2>1, <3>1, FilesKept
    <2>3. CASE inodes' # inodes
      <3>1. Tears /\ w.pc = "write" /\ (w.meta \/ w.pending # <<>>)
        BY <1>10, <2>3 DEF WriteFails, OpenFails, disk, Tears
      <3> QED BY <2>0, <2>1, <3>1, FilesTear
    <2> QED BY <2>2, <2>3
  <1>11. CASE Answer
    <2>0. sent' = sent /\ UNCHANGED disk /\ c' = c
      BY <1>11 DEF Answer
    <2>1. OrderInv' /\ Rest' \subseteq Rest /\ w'.temp \in {w.temp, EmptyFile}
      <3>1. CASE Closed(acked \cup given)
        BY <1>0, <2>0, <3>1, OrderClosed, ClosedTypes
      <3>2. CASE ~Closed(acked \cup given)
        <4>1. SameWork /\ w'.temp = w.temp
          BY <1>11, <3>2, AnswerView
        <4> QED BY <2>0, <4>1, OrderUnchanged DEF SameWork
      <3> QED BY <3>1, <3>2
    <2>2. Stored' \subseteq Stored \cup {EmptyFile}
      BY <2>0, <2>1 DEF Stored, disk
    <2> QED BY <2>1, <2>2, FilesKept
  <1>12. CASE Crash \/ CrashInWrite
    <2>0. sent' = sent /\ zst' = zst /\ c' = c /\ Closed(acked)
      BY <1>12 DEF Crash, CrashInWrite, disk
    <2>1. OrderInv' /\ Rest' \subseteq Rest /\ w'.temp = EmptyFile
      BY <1>0, <2>0, OrderClosed, ClosedTypes
    <2>2. CASE Crash
      <3>1. Stored' \subseteq Stored \cup {EmptyFile}
        BY <2>0, <2>1, <2>2 DEF Stored, Crash, disk
      <3> QED BY <2>1, <3>1, FilesKept
    <2>3. CASE CrashInWrite
      <3>1. Tears /\ w.pc = "write" /\ (w.meta \/ w.pending # <<>>)
        BY <2>3 DEF CrashInWrite, Tears
      <3> QED BY <2>0, <2>1, <3>1, FilesTear
    <2> QED BY <1>12, <2>2, <2>3
  <1>13. CASE Resume
    <2>1. OrderInv' /\ Rest' \subseteq Rest /\ w'.temp = EmptyFile
      BY <1>13, OrderResume
    <2>2. Stored' \subseteq Stored \cup {EmptyFile}
      BY <1>13, <2>1 DEF Stored, Resume, disk
    <2> QED BY <2>1, <2>2, FilesKept
  <1>14. CASE AppendRolloutItemToPath
    <2>1. OrderInv' /\ Rest' \subseteq Rest /\ w'.temp = EmptyFile
      BY <1>14, OrderAppend, AppendView
    <2>2. Stored' \subseteq Stored \cup {EmptyFile}
      BY <1>14, <2>1 DEF Stored, AppendRolloutItemToPath, disk
    <2> QED BY <2>1, <2>2, FilesKept
  <1>15. CASE Age \/ FindCold \/ Encode \/ Confirm \/ UnlinkPlain \/ WorkerStops
    <2>1. sent' = sent /\ w' = w /\ queue' = queue /\ mode' = mode /\ inodes' = inodes
      BY <1>15 DEF Age, FindCold, Encode, Confirm, UnlinkPlain, WorkerStops, disk
    <2>2. OrderInv' /\ Rest' = Rest
      BY <2>1, OrderUnchanged
    <2>3. NoPass.state = EmptyFile
      BY DEF NoPass
    <2>4. zst' \subseteq zst \cup {c.state} /\ c'.state \in Range(inodes) \cup {c.state, EmptyFile}
      <3>1. CASE FindCold
        <4>1. plain \in DOMAIN inodes
          BY <3>1 DEF FindCold, TypeInv
        <4> QED BY <3>1, <4>1 DEF FindCold, disk, Range
      <3>2. CASE Age \/ Encode \/ Confirm \/ UnlinkPlain \/ WorkerStops
        BY <2>3, <3>2 DEF Age, Encode, Confirm, UnlinkPlain, WorkerStops, disk, TypeInv, Passes
      <3> QED BY <1>15, <3>1, <3>2
    <2>5. Stored' \subseteq Stored \cup {EmptyFile}
      BY <2>1, <2>4 DEF Stored
    <2> QED BY <2>2, <2>5, FilesKept
  <1>16. CASE UNCHANGED vars
    <2>1. Stored' = Stored /\ w' = w /\ queue' = queue /\ sent' = sent /\ mode' = mode
      BY <1>16 DEF vars, Stored
    <2> QED BY <2>1, OrderUnchanged, FilesKept
  <1> QED
    BY <1>1, <1>2, <1>3, <1>4, <1>5, <1>6, <1>7, <1>8, <1>9, <1>10, <1>11, <1>12, <1>13, <1>14,
       <1>15, <1>16 DEF Next, WriterStep

-----------------------------------------------------------------------------
(* The two files. *)

LEMMA PassNext ==
    ASSUME TypeInv, PassInv, [Next]_vars
    PROVE  PassInv'
  <1>0. acked \in SUBSET Items /\ acked \cup given \in SUBSET Items
    BY DEF TypeInv
  <1>1. CASE UNCHANGED <<disk, c, incidents>> /\ w'.pc \in {"idle", "materialize", "write"}
             /\ w'.handle \in {w.handle, NoInode}
    BY <1>1 DEF PassInv, disk
  <1>2. CASE UNCHANGED <<disk, w, c, incidents>>
    BY <1>2 DEF PassInv, disk
  <1>3. CASE RecordCanonicalItems \/ (\E op \in Barriers : RequestBarrier(op)) \/ UNCHANGED vars
    BY <1>2, <1>3 DEF RecordCanonicalItems, RequestBarrier, vars, disk, counters
  <1>4. CASE RecvAdd
    BY <1>1, <1>4, RecvAddView DEF RecvAdd, counters
  <1>5. CASE RecvBarrier
    <2>1. w'.pc \in {"idle", "materialize", "write"} /\ w'.handle \in {w.handle, NoInode}
      BY <1>0, <1>5, RecvBarrierView, ClosedTypes
    <2> QED BY <1>1, <1>5, <2>1 DEF RecvBarrier, counters
  <1>6. CASE Materialize
    <2>1. /\ w'.handle = w.handle
          /\ \/ plain = NoInode /\ zst # {} /\ w'.pc = "link" /\ w'.temp \in zst
             \/ w'.pc = "open"
      BY <1>6, MaterializeView
    <2>2. zst' = zst /\ plain' = plain /\ c' = c /\ incidents' = incidents
      BY <1>6 DEF Materialize, disk, counters
    <2>3. w'.pc = "link" => zst = {w'.temp}
      BY <2>1 DEF TypeInv
    <2> QED BY <2>1, <2>2, <2>3 DEF PassInv
  <1>7. CASE Link
    <2>1. w'.handle = w.handle /\ w'.pc = "unlink_zst" /\ plain' # NoInode
      BY <1>7, LinkView
    <2>2. zst' = zst /\ c' = c /\ incidents' = incidents /\ w.pc = "link"
      BY <1>7 DEF Link, counters
    <2> QED BY <2>1, <2>2 DEF PassInv
  <1>8. CASE UnlinkZst
    <2>1. w'.handle = w.handle /\ w'.pc = "open"
      BY <1>8, UnlinkZstView
    <2>2. plain' = plain /\ c' = c /\ incidents' = incidents /\ w.pc = "unlink_zst"
      BY <1>8 DEF UnlinkZst, counters
    <2> QED BY <2>1, <2>2 DEF PassInv
  <1>9. CASE Open
    <2>0. zst' = zst /\ c' = c
      BY <1>9 DEF Open
    <2>1. CASE Closed(acked) /\ UNCHANGED <<inodes, plain, incidents>>
      <3>1. w'.pc = "idle" /\ w'.handle = NoInode
        BY <1>0, <2>1, ClosedTypes
      <3> QED BY <2>0, <2>1, <3>1 DEF PassInv
    <2>2. CASE ~(Closed(acked) /\ UNCHANGED <<inodes, plain, incidents>>)
      <3>1. /\ w'.pc \in {"idle", "write"} /\ w'.handle = plain'
            /\ plain' = plain \/ plain = NoInode
        BY <1>9, <2>2, OpenView
      <3> QED BY <2>0, <3>1 DEF PassInv
    <2> QED BY <2>1, <2>2
  <1>10. CASE WriteLine
    <2>1. w'.handle = w.handle /\ w'.pc = "write"
      BY <1>10, WriteLineView
    <2> QED BY <1>10, <2>1 DEF PassInv, WriteLine, counters
  <1>11. CASE WriteFails \/ OpenFails
    <2>0. zst' = zst /\ c' = c /\ plain' = plain /\ incidents' = incidents /\ Failed
      BY <1>11 DEF WriteFails, OpenFails, disk
    <2>1. w'.pc \in {"materialize", "idle"} /\ w'.handle = NoInode
      BY <1>0, <2>0, FailedTypes, ClosedTypes
    <2> QED BY <2>0, <2>1 DEF PassInv
  <1>12. CASE Answer
    <2>1. w'.pc = "idle" /\ w'.handle \in {w.handle, NoInode}
      BY <1>0, <1>12, AnswerView, ClosedTypes
    <2> QED BY <1>1, <1>12, <2>1 DEF Answer, counters
  <1>13. CASE Crash \/ CrashInWrite
    <2>0. zst' = zst /\ c' = c /\ plain' = plain /\ incidents' = incidents /\ Closed(acked)
      BY <1>13 DEF Crash, CrashInWrite, disk
    <2>1. w'.pc = "idle" /\ w'.handle = NoInode
      BY <1>0, <2>0, ClosedTypes
    <2> QED BY <2>0, <2>1 DEF PassInv
  <1>14. CASE Resume
    <2>1. "materialize" \in WriterPcs
      BY DEF WriterPcs
    <2>2. w'.handle = NoInode /\ w'.pc = "materialize"
      BY <1>14, <2>1, StartTypes DEF Resume
    <2> QED BY <1>1, <1>14, <2>2 DEF Resume, counters
  <1>15. CASE AppendRolloutItemToPath
    BY <1>1, <1>15, AppendView DEF AppendRolloutItemToPath, counters
  <1>16. CASE Age
    BY <1>16 DEF PassInv, Age, counters
  <1>17. CASE FindCold
    <2>1. plain # NoInode
      BY <1>17 DEF FindCold, TypeInv, NoInode
    <2> QED BY <1>17, <2>1 DEF PassInv, FindCold, disk, counters
  <1>18. CASE Encode
    <2>1. w' = w /\ plain' = plain /\ incidents' = incidents /\ c.pc = "encode" /\ c \in Passes
      BY <1>18 DEF Encode, counters, TypeInv
    <2>2. \/ zst' = {c.state} /\ c' = [c EXCEPT !.pc = "confirm"]
          \/ c' = NoPass /\ zst' = zst
      BY <1>18 DEF Encode
    <2> QED BY <2>1, <2>2 DEF PassInv, Passes, NoPass
  <1>19. CASE Confirm
    <2>1. w' = w /\ plain' = plain /\ incidents' = incidents /\ c.pc = "confirm" /\ c \in Passes
      BY <1>19 DEF Confirm, counters, TypeInv
    <2>2. \/ zst' = zst /\ c' = [c EXCEPT !.pc = "unlink"]
          \/ c' = NoPass /\ zst' = {}
      BY <1>19 DEF Confirm
    <2> QED BY <2>1, <2>2 DEF PassInv, Passes, NoPass
  <1>20. CASE UnlinkPlain
    <2>1. /\ w' = w /\ plain' = NoInode /\ zst' = zst /\ c.pc = "unlink" /\ c'.pc = "idle"
          /\ incidents' = {} => incidents = {} /\ ~(w.handle # NoInode /\ w.handle = plain)
      BY <1>20 DEF UnlinkPlain, NoPass
    <2> QED BY <2>1 DEF PassInv
  <1>21. CASE WorkerStops
    BY <1>21 DEF PassInv, WorkerStops, NoPass, disk, counters
  <1> QED
    BY <1>3, <1>4, <1>5, <1>6, <1>7, <1>8, <1>9, <1>10, <1>11, <1>12, <1>13, <1>14,
       <1>15, <1>16, <1>17, <1>18, <1>19, <1>20, <1>21 DEF Next, WriterStep

-----------------------------------------------------------------------------
(* What is missing. *)

LEMMA ItemsFinite ==
    /\ IsFiniteSet(Items)
    /\ \A S, T : T \subseteq Items /\ S \subseteq T =>
         /\ IsFiniteSet(S) /\ IsFiniteSet(T) /\ Cardinality(S) \in Nat /\ Cardinality(T) \in Nat
         /\ Cardinality(S) <= Cardinality(T)
  <1>1. IsFiniteSet(Items)
    BY FS_Interval, StoreAssumption DEF Items
  <1>2. ASSUME NEW S, NEW T, T \subseteq Items, S \subseteq T
        PROVE  /\ IsFiniteSet(S) /\ IsFiniteSet(T) /\ Cardinality(S) \in Nat /\ Cardinality(T) \in Nat
               /\ Cardinality(S) <= Cardinality(T)
    <2>1. IsFiniteSet(T)
      BY <1>1, <1>2, FS_Subset
    <2>2. IsFiniteSet(S) /\ Cardinality(S) <= Cardinality(T)
      BY <1>2, <2>1, FS_Subset
    <2> QED BY <2>1, <2>2, FS_CardinalityType
  <1> QED BY <1>1, <1>2

LEMMA OneMore ==
    ASSUME NEW M, IsFiniteSet(M), NEW x
    PROVE  Cardinality(M \cup {x}) <= Cardinality(M) + 1
  <1>1. Cardinality(M) \in Nat
    BY FS_CardinalityType
  <1>2. CASE x \in M
    <2>1. M \cup {x} = M
      BY <1>2
    <2> QED BY <1>1, <2>1
  <1>3. CASE x \notin M
    <2>1. Cardinality(M \cup {x}) = Cardinality(M) + 1
      BY <1>3, FS_AddElement
    <2> QED BY <1>1, <2>1
  <1> QED BY <1>2, <1>3

LEMMA BookedItems == TypeInv => Booked \subseteq Items
  BY DEF TypeInv, Booked

LEMMA LossKept ==
    ASSUME TypeInv, LossInv, incidents' = {} => incidents = {} /\ Visible' = Visible,
           torn' = torn, Booked' \subseteq Booked
    PROVE  LossInv'
  <1> SUFFICES ASSUME incidents' = {}
               PROVE  Cardinality(Missing(Booked', Visible)) + OpenLine(Visible) <= torn
    BY DEF LossInv
  <1>1. Cardinality(Missing(Booked, Visible)) + OpenLine(Visible) <= torn
    BY DEF LossInv
  <1>2. Missing(Booked', Visible) \subseteq Missing(Booked, Visible) /\ Missing(Booked, Visible) \subseteq Items
    BY BookedItems DEF Missing
  <1>3. /\ Cardinality(Missing(Booked', Visible)) <= Cardinality(Missing(Booked, Visible))
        /\ Cardinality(Missing(Booked', Visible)) \in Nat /\ Cardinality(Missing(Booked, Visible)) \in Nat
    BY <1>2, ItemsFinite
  <1>4. OpenLine(Visible) \in Nat /\ torn \in Nat
    BY DEF OpenLine, TypeInv
  <1> QED BY <1>1, <1>3, <1>4

\* Work that is closed or stays what it was books nothing.
LEMMA BookedSame ==
    ASSUME w'.meta = w.meta, w'.pending = w.pending, given' = given, acked' = acked
    PROVE  Booked' = Booked
  BY DEF Booked

LEMMA BookedClosed ==
    ASSUME TypeInv, NEW a \in SUBSET Items, Closed(a), a \subseteq Booked
    PROVE  Booked' \subseteq Booked
  BY ClosedTypes DEF Booked

LEMMA SameVisible ==
    /\ UNCHANGED <<inodes, plain, zst>> => Visible' = Visible
    /\ plain # NoInode /\ plain' = plain /\ inodes' = inodes => Visible' = Visible
    /\ \A f : plain = NoInode /\ zst = {f} => Visible = f
  <1>1. UNCHANGED <<inodes, plain, zst>> => Visible' = Visible
    BY DEF Visible
  <1>2. plain # NoInode /\ plain' = plain /\ inodes' = inodes => Visible' = Visible
    BY DEF Visible
  <1>3. ASSUME NEW f, plain = NoInode, zst = {f} PROVE Visible = f
    <2>1. zst # {} /\ \A g \in zst : g = f
      BY <1>3
    <2>2. (CHOOSE g \in zst : TRUE) \in zst
      BY <2>1
    <2> QED BY <1>3, <2>1, <2>2 DEF Visible
  <1> QED BY <1>1, <1>2, <1>3

LEMMA AnswerBooks ==
    ASSUME TypeInv, Answer
    PROVE  Booked' \subseteq Booked
  <1>1. w.meta = FALSE /\ w.pending = <<>>
    BY AnswerView
  <1>2. Booked = acked \cup given /\ acked \cup given \in SUBSET Items
    BY <1>1, EmptyQueue DEF Booked, Todo, TypeInv
  <1>3. CASE Closed(acked \cup given)
    BY <1>2, <1>3, BookedClosed
  <1>4. CASE ~Closed(acked \cup given)
    <2>1. SameWork /\ acked' \in {acked, acked \cup given}
      BY <1>4, AnswerView
    <2> QED BY <1>2, <2>1 DEF Booked, SameWork
  <1> QED BY <1>3, <1>4

\* A line written books one item; it has a line of its own, or closes an open one.
LEMMA LossWriteLine ==
    ASSUME TypeInv, PassInv, LossInv, WriteLine
    PROVE  LossInv'
  <1> DEFINE x == ToWrite
             f == inodes[w.handle]
             g == Appended(f, x)
  <1>1. incidents' = incidents /\ torn' = torn /\ plain' = plain /\ given' = given /\ acked' = acked
    BY DEF WriteLine, counters
  <1> SUFFICES ASSUME incidents = {}
               PROVE  Cardinality(Missing(Booked', Visible')) + OpenLine(Visible') <= torn
    BY <1>1 DEF LossInv
  <1>2. /\ w.handle # NoInode /\ w.handle \in DOMAIN inodes /\ f \in Files /\ x \in Items
        /\ inodes' = [inodes EXCEPT ![w.handle] = g]
    BY WriteLineView
  <1>3. w.handle = plain
    BY <1>2 DEF PassInv
  <1>4. Visible = f /\ Visible' = g
    BY <1>1, <1>2, <1>3 DEF Visible
  <1>5. Booked' \subseteq Booked \cup {x}
    <2>1. CASE w.meta
      <3>1. ~w'.meta /\ w'.pending = w.pending /\ x = SessionMeta
        BY <2>1, WriteLineView DEF ToWrite
      <3> QED BY <1>1, <3>1 DEF Booked, Todo
    <2>2. CASE ~w.meta
      <3>1. ~w'.meta /\ w.pending # <<>> /\ w'.pending = Tail(w.pending) /\ x = Head(w.pending)
        BY <2>2, WriteLineView DEF ToWrite
      <3>2. w.pending \in Seq(Items)
        BY WorkTypes
      <3>3. Range(w.pending) = {x} \cup Range(w'.pending)
        BY <3>1, <3>2, TailPlaces
      <3> QED BY <1>1, <3>1, <3>3, <2>2 DEF Booked, Todo
    <2> QED BY <2>1, <2>2
  <1> DEFINE e == IF f.tail = Nothing THEN x ELSE Garbage
  <1>6. f.lines \in Seq(Entries) /\ e \in Entries
    BY <1>2 DEF Files, Entries
  <1>7. g.lines = Append(f.lines, e) /\ g.tail = Nothing
    BY DEF Appended
  <1>8. Range(g.lines) = Range(f.lines) \cup {e}
    BY <1>6, <1>7, AppendPlaces
  <1>9. Cardinality(Missing(Booked, f)) + OpenLine(f) <= torn /\ OpenLine(g) = 0 /\ torn \in Nat
    BY <1>4, <1>7 DEF LossInv, OpenLine, TypeInv
  <1>10. Missing(Booked, f) \subseteq Items
    BY BookedItems DEF Missing
  <1>11. CASE f.tail = Nothing
    <2>1. Missing(Booked', g) \subseteq Missing(Booked, f)
      BY <1>5, <1>8, <1>11 DEF Missing
    <2>2. /\ Cardinality(Missing(Booked', g)) <= Cardinality(Missing(Booked, f))
          /\ Cardinality(Missing(Booked', g)) \in Nat /\ Cardinality(Missing(Booked, f)) \in Nat
      BY <1>10, <2>1, ItemsFinite
    <2>3. OpenLine(f) = 0
      BY <1>11 DEF OpenLine
    <2> QED BY <1>4, <1>9, <2>2, <2>3
  <1>12. CASE f.tail # Nothing
    <2>1. Missing(Booked', g) \subseteq Missing(Booked, f) \cup {x}
      BY <1>5, <1>8 DEF Missing
    <2>2. Missing(Booked, f) \cup {x} \subseteq Items /\ IsFiniteSet(Missing(Booked, f))
      BY <1>2, <1>10, ItemsFinite
    <2>3. /\ Cardinality(Missing(Booked', g)) <= Cardinality(Missing(Booked, f) \cup {x})
          /\ Cardinality(Missing(Booked', g)) \in Nat /\ Cardinality(Missing(Booked, f)) \in Nat
          /\ Cardinality(Missing(Booked, f) \cup {x}) \in Nat
      BY <1>10, <2>1, <2>2, ItemsFinite
    <2>4. Cardinality(Missing(Booked, f) \cup {x}) <= Cardinality(Missing(Booked, f)) + 1
      BY <2>2, OneMore
    <2>5. OpenLine(f) = 1
      BY <1>12 DEF OpenLine
    <2> QED BY <1>4, <1>9, <2>3, <2>4, <2>5
  <1> QED BY <1>11, <1>12

\* A line torn is paid for at once.
LEMMA LossTear ==
    ASSUME TypeInv, PassInv, LossInv, w.pc = "write", w.meta \/ w.pending # <<>>, Tears,
           torn' = torn + 1, incidents' = incidents, plain' = plain, Booked' \subseteq Booked
    PROVE  LossInv'
  <1> SUFFICES ASSUME incidents = {}
               PROVE  Cardinality(Missing(Booked', Visible')) + OpenLine(Visible') <= torn + 1
    BY DEF LossInv
  <1> DEFINE f == inodes[w.handle]
  <1>1. PICK g \in Files : /\ inodes' = [inodes EXCEPT ![w.handle] = g]
                            /\ g.lines = inodes[w.handle].lines
    BY TearsView
  <1>2. w.handle # NoInode /\ w.handle \in DOMAIN inodes
    BY TearsView
  <1>3. w.handle = plain
    BY <1>2 DEF PassInv
  <1>4. Visible = f /\ Visible' = g
    BY <1>1, <1>2, <1>3 DEF Visible
  <1>5. Missing(Booked', g) \subseteq Missing(Booked, f) /\ Missing(Booked, f) \subseteq Items
    BY <1>1, BookedItems DEF Missing
  <1>6. /\ Cardinality(Missing(Booked', g)) <= Cardinality(Missing(Booked, f))
        /\ Cardinality(Missing(Booked', g)) \in Nat /\ Cardinality(Missing(Booked, f)) \in Nat
    BY <1>5, ItemsFinite
  <1>7. /\ Cardinality(Missing(Booked, f)) + OpenLine(f) <= torn /\ torn \in Nat
        /\ OpenLine(f) \in {0, 1} /\ OpenLine(g) \in {0, 1}
    BY <1>4 DEF LossInv, OpenLine, TypeInv
  <1> QED BY <1>4, <1>6, <1>7

LEMMA LossNext ==
    ASSUME TypeInv, OrderInv, PassInv, LossInv, [Next]_vars
    PROVE  LossInv'
  <1>0. acked \in SUBSET Items /\ acked \subseteq Booked
    BY DEF TypeInv, Booked
  <1>1. CASE UNCHANGED <<disk, counters>> /\ Booked' \subseteq Booked
    <2>1. Visible' = Visible /\ torn' = torn /\ incidents' = incidents
      BY <1>1, SameVisible DEF disk, counters
    <2> QED BY <1>1, <2>1, LossKept
  <1>2. CASE RecordCanonicalItems \/ (\E op \in Barriers : RequestBarrier(op)) \/ UNCHANGED vars
    <2>1. /\ UNCHANGED <<inodes, plain, zst, torn, incidents>> /\ UNCHANGED <<w, given, acked>>
      BY <1>2 DEF RecordCanonicalItems, RequestBarrier, vars, disk, counters
    <2>2. Visible' = Visible /\ Booked' = Booked
      BY <2>1, SameVisible, BookedSame
    <2> QED BY <2>1, <2>2, LossKept
  <1>3. CASE RecvAdd
    <2>1. /\ w'.meta = w.meta /\ w'.pending = Append(w.pending, Head(queue).item)
          /\ given' = given \cup {Head(queue).item} /\ acked' = acked
          /\ Head(queue).item \in Items /\ w.pending \in Seq(Items)
      BY <1>3, RecvAddView, WorkTypes DEF RecvAdd
    <2>2. Range(w'.pending) = Range(w.pending) \cup {Head(queue).item}
      BY <2>1, AppendPlaces
    <2>3. Booked' \subseteq Booked
      BY <2>1, <2>2 DEF Booked, Todo
    <2> QED BY <1>1, <1>3, <2>3 DEF RecvAdd
  <1>4. CASE RecvBarrier
    <2>1. Booked' \subseteq Booked
      <3>1. CASE Closed(acked)
        BY <1>0, <3>1, BookedClosed
      <3>2. CASE ~Closed(acked)
        BY <1>4, <3>2, RecvBarrierView, BookedSame
      <3> QED BY <3>1, <3>2
    <2> QED BY <1>1, <1>4, <2>1 DEF RecvBarrier
  <1>5. CASE Materialize
    <2>1. Booked' = Booked
      BY <1>5, MaterializeView, BookedSame DEF SameWork
    <2> QED BY <1>1, <1>5, <2>1 DEF Materialize
  <1>6. CASE Link
    <2>1. Booked' = Booked /\ plain' # NoInode /\ inodes'[plain'] = w.temp
      BY <1>6, LinkView, BookedSame DEF SameWork
    <2>2. w.pc = "link" /\ torn' = torn /\ incidents' = incidents
      BY <1>6 DEF Link, counters
    <2>3. Visible = w.temp
      BY <2>2, SameVisible DEF PassInv
    <2>4. Visible' = w.temp
      BY <2>1 DEF Visible
    <2> QED BY <2>1, <2>2, <2>3, <2>4, LossKept
  <1>7. CASE UnlinkZst
    <2>1. Booked' = Booked
      BY <1>7, UnlinkZstView, BookedSame DEF SameWork
    <2>2. w.pc = "unlink_zst" /\ torn' = torn /\ incidents' = incidents /\ plain' = plain /\ inodes' = inodes
      BY <1>7 DEF UnlinkZst, counters
    <2>3. Visible' = Visible
      BY <2>2, SameVisible DEF PassInv
    <2> QED BY <2>1, <2>2, <2>3, LossKept
  <1>8. CASE Open
    <2>0. zst' = zst /\ torn' = torn
      BY <1>8 DEF Open
    <2>1. CASE Closed(acked) /\ UNCHANGED <<inodes, plain, incidents>>
      <3>1. Booked' \subseteq Booked /\ Visible' = Visible
        BY <1>0, <2>0, <2>1, BookedClosed, SameVisible
      <3> QED BY <2>0, <2>1, <3>1, LossKept
    <2>2. CASE ~(Closed(acked) /\ UNCHANGED <<inodes, plain, incidents>>)
      <3>1. Booked' = Booked
        BY <1>8, <2>2, OpenView, BookedSame
      <3>2. \/ UNCHANGED <<inodes, plain, incidents>>
            \/ /\ plain = NoInode /\ plain' # NoInode /\ inodes'[plain'] = EmptyFile
               /\ incidents' = incidents \cup (IF zst = {} THEN {} ELSE {"hidden"})
        BY <1>8, <2>2, OpenView
      <3>3. CASE UNCHANGED <<inodes, plain, incidents>>
        <4>1. Visible' = Visible
          BY <2>0, <3>3, SameVisible
        <4> QED BY <2>0, <3>1, <3>3, <4>1, LossKept
      <3>4. CASE plain = NoInode /\ plain' # NoInode /\ inodes'[plain'] = EmptyFile
                 /\ incidents' = incidents \cup (IF zst = {} THEN {} ELSE {"hidden"})
        <4>1. incidents' = {} => incidents = {} /\ zst = {}
          BY <3>4
        <4>2. Visible' = EmptyFile
          BY <3>4 DEF Visible
        <4>3. zst = {} => Visible = EmptyFile
          BY <3>4 DEF Visible
        <4> QED BY <2>0, <3>1, <4>1, <4>2, <4>3, LossKept
      <3> QED BY <3>2, <3>3, <3>4
    <2> QED BY <2>1, <2>2
  <1>9. CASE WriteLine
    BY <1>9, LossWriteLine
  <1>10. CASE WriteFails \/ OpenFails
    <2>0. plain' = plain /\ zst' = zst /\ incidents' = incidents /\ Failed
      BY <1>10 DEF WriteFails, OpenFails, disk
    <2>1. Booked' \subseteq Booked
      <3>1. CASE Closed(acked)
        BY <1>0, <3>1, BookedClosed
      <3>2. CASE ~Closed(acked)
        BY <2>0, <3>2, FailedTypes, BookedSame DEF SameWork
      <3> QED BY <3>1, <3>2
    <2>2. CASE inodes' = inodes /\ torn' = torn
      <3>1. Visible' = Visible
        BY <2>0, <2>2, SameVisible
      <3> QED BY <2>0, <2>1, <2>2, <3>1, LossKept
    <2>3. CASE ~(inodes' = inodes /\ torn' = torn)
      <3>1. Tears /\ w.pc = "write" /\ (w.meta \/ w.pending # <<>>) /\ torn' = torn + 1
        BY <1>10, <2>3 DEF WriteFails, OpenFails, disk, Tears
      <3> QED BY <2>0, <2>1, <3>1, LossTear
    <2> QED BY <2>2, <2>3
  <1>11. CASE Answer
    BY <1>1, <1>11, AnswerBooks DEF Answer
  <1>12. CASE Crash \/ CrashInWrite
    <2>0. plain' = plain /\ zst' = zst /\ incidents' = incidents /\ Closed(acked)
      BY <1>12 DEF Crash, CrashInWrite, disk
    <2>1. Booked' \subseteq Booked
      BY <1>0, <2>0, BookedClosed
    <2>2. CASE Crash
      <3>1. Visible' = Visible /\ torn' = torn
        BY <2>0, <2>2, SameVisible DEF Crash, disk
      <3> QED BY <2>0, <2>1, <3>1, LossKept
    <2>3. CASE CrashInWrite
      <3>1. Tears /\ w.pc = "write" /\ (w.meta \/ w.pending # <<>>) /\ torn' = torn + 1
        BY <2>3 DEF CrashInWrite, Tears
      <3> QED BY <2>0, <2>1, <3>1, LossTear
    <2> QED BY <1>12, <2>2, <2>3
  <1>13. CASE Resume
    <2>1. "materialize" \in WriterPcs
      BY DEF WriterPcs
    <2>2. w'.meta = FALSE /\ w'.pending = <<>> /\ given' = given /\ acked' = acked
      BY <1>13, <2>1, StartTypes DEF Resume
    <2>3. mode = "none"
      BY <1>13 DEF Resume
    <2>4. given \subseteq Booked
      BY <2>3, EmptyQueue DEF OrderInv, Booked, Todo
    <2>5. Booked' \subseteq Booked
      BY <2>2, <2>4 DEF Booked
    <2> QED BY <1>1, <1>13, <2>5 DEF Resume
  <1>14. CASE AppendRolloutItemToPath
    <2>1. ~w'.meta /\ w'.pending = <<sent + 1>> /\ given' = {sent + 1} /\ acked' = acked
      BY <1>14, AppendView DEF AppendRolloutItemToPath
    <2>2. sent + 1 \in Range(w'.pending)
      BY <2>1 DEF Range
    <2>3. Booked' \subseteq Booked
      BY <2>1, <2>2 DEF Booked, Todo
    <2> QED BY <1>1, <1>14, <2>3 DEF AppendRolloutItemToPath
  <1>15. CASE Age \/ FindCold \/ WorkerStops
    <2>1. UNCHANGED <<inodes, plain, zst, torn, incidents, w, given, acked>>
      BY <1>15 DEF Age, FindCold, WorkerStops, disk, counters
    <2>2. Visible' = Visible /\ Booked' = Booked
      BY <2>1, SameVisible, BookedSame
    <2> QED BY <2>1, <2>2, LossKept
  <1>16. CASE Encode \/ Confirm
    <2>1. UNCHANGED <<inodes, plain, torn, incidents, w, given, acked>> /\ c.pc # "idle"
      BY <1>16 DEF Encode, Confirm, counters
    <2>2. Visible' = Visible /\ Booked' = Booked
      BY <2>1, SameVisible, BookedSame DEF PassInv
    <2> QED BY <2>1, <2>2, LossKept
  <1>17. CASE UnlinkPlain
    <2>1. /\ UNCHANGED <<inodes, zst, torn, w, given, acked>> /\ plain' = NoInode /\ c.pc = "unlink"
          /\ incidents' = {} => incidents = {} /\ SameFileState
      BY <1>17 DEF UnlinkPlain
    <2>2. Booked' = Booked
      BY <2>1, BookedSame
    <2>3. zst = {c.state}
      BY <2>1 DEF PassInv
    <2>4. Visible' = c.state
      <3>1. (CHOOSE f \in {c.state} : TRUE) = c.state
        OBVIOUS
      <3> QED BY <2>1, <2>3, <3>1 DEF Visible
    <2>5. SameFileState => Visible = c.state
      BY DEF SameFileState, Visible
    <2> QED BY <2>1, <2>2, <2>4, <2>5, LossKept
  <1> QED
    BY <1>2, <1>3, <1>4, <1>5, <1>6, <1>7, <1>8, <1>9, <1>10, <1>11, <1>12, <1>13, <1>14,
       <1>15, <1>16, <1>17 DEF Next, WriterStep

-----------------------------------------------------------------------------
(* The theorem. *)

LEMMA InitInv == Init => IInv
  <1> SUFFICES ASSUME Init PROVE IInv
    OBVIOUS
  <1>0. "idle" \in WriterPcs
    BY DEF WriterPcs
  <1>1. TypeInv
    BY InitTypes
  <1>2. /\ w.meta = TRUE /\ w.pending = <<>> /\ w.pc = "idle" /\ w.handle = NoInode /\ w.temp = EmptyFile
    BY <1>0, StartTypes DEF Init
  <1>3. OrderInv
    <2>1. queue = <<>> /\ mode = "record" /\ sent = 0
      BY DEF Init
    <2>2. DOMAIN queue = {} /\ DOMAIN w.pending = {}
      BY <1>2, <2>1
    <2>3. Range(w.pending) = {} /\ Queued(queue) = {}
      BY <1>2, <2>1, EmptyQueue
    <2> QED BY <2>1, <2>2, <2>3 DEF OrderInv
  <1>4. c.state = EmptyFile /\ c.pc = "idle"
    BY DEF Init, NoPass
  <1>5. Stored \subseteq {EmptyFile}
    BY <1>2, <1>4, EmptyQueue DEF Init, Stored
  <1>6. FileInv
    BY <1>5, EmptySound DEF FileInv
  <1>7. PassInv
    BY <1>2, <1>4 DEF Init, PassInv
  <1>8. Booked = {}
    BY <1>2 DEF Init, Booked, Todo
  <1>9. Visible = EmptyFile /\ Missing({}, EmptyFile) = {} /\ OpenLine(EmptyFile) = 0
    BY DEF Init, Visible, Missing, OpenLine, EmptyFile
  <1>10. LossInv
    BY <1>8, <1>9, FS_EmptySet DEF LossInv, Init
  <1> QED BY <1>1, <1>3, <1>6, <1>7, <1>10 DEF IInv

LEMMA NextInv == IInv /\ [Next]_vars => IInv'
  BY NextTypes, OrderFilesNext, PassNext, LossNext DEF IInv

\* The file a reader finds is a stored one.
LEMMA VisibleStored == TypeInv => Visible \in Stored \cup {EmptyFile} /\ Visible \in Files
  <1> SUFFICES ASSUME TypeInv PROVE Visible \in Stored \cup {EmptyFile} /\ Visible \in Files
    OBVIOUS
  <1>1. CASE plain # NoInode
    <2>1. plain \in DOMAIN inodes
      BY <1>1 DEF TypeInv, NoInode
    <2> QED BY <1>1, <2>1 DEF TypeInv, Visible, Stored, Range
  <1>2. CASE plain = NoInode /\ zst # {}
    <2>1. (CHOOSE f \in zst : TRUE) \in zst
      BY <1>2
    <2> QED BY <1>2, <2>1 DEF TypeInv, Visible, Stored
  <1>3. CASE plain = NoInode /\ zst = {}
    BY <1>3, Constants DEF Visible
  <1> QED BY <1>1, <1>2, <1>3

LEMMA ParseOrder ==
    ASSUME NEW f \in Files, Increasing(f)
    PROVE  /\ \A i, j \in DOMAIN Parse(f) : i < j => Parse(f)[i] < Parse(f)[j]
           /\ Range(f.lines) \ {Garbage} \subseteq Range(Parse(f))
  <1> DEFINE read == IF f.tail \in Items THEN Append(f.lines, f.tail) ELSE f.lines
  <1>1. f.lines \in Seq(Entries) /\ Garbage \notin Items /\ (f.tail \in Items => f.tail \in Entries)
    BY Constants DEF Files, Entries
  <1>2. /\ DOMAIN Parse(f) = {k \in DOMAIN read : read[k] # Garbage}
        /\ \A k \in DOMAIN Parse(f) : Parse(f)[k] = read[k]
    BY DEF Parse
  <1>3. /\ Len(f.lines) \in Nat /\ DOMAIN f.lines = 1..Len(f.lines)
        /\ \A k \in DOMAIN f.lines : k \in DOMAIN read /\ read[k] = f.lines[k]
        /\ \A k \in DOMAIN read : \/ k \in DOMAIN f.lines
                                  \/ f.tail \in Items /\ k = Len(f.lines) + 1 /\ read[k] = f.tail
    <2>1. CASE f.tail \in Items
      <3>1. /\ Len(f.lines) \in Nat /\ DOMAIN f.lines = 1..Len(f.lines)
            /\ DOMAIN read = 1..(Len(f.lines) + 1)
            /\ \A k \in 1..Len(f.lines) : read[k] = f.lines[k]
            /\ read[Len(f.lines) + 1] = f.tail
        BY <1>1, <2>1, AppendPlaces
      <3> HIDE DEF read
      <3> QED BY <2>1, <3>1
    <2>2. CASE f.tail \notin Items
      BY <1>1, <2>2
    <2> QED BY <2>1, <2>2
  <1> HIDE DEF read
  <1>4. ASSUME NEW i \in DOMAIN Parse(f), NEW j \in DOMAIN Parse(f), i < j
        PROVE  Parse(f)[i] < Parse(f)[j]
    <2>1. i \in DOMAIN read /\ j \in DOMAIN read /\ read[i] # Garbage /\ read[j] # Garbage
      BY <1>2
    <2>2. i \in DOMAIN f.lines
      BY <1>3, <1>4, <2>1
    <2>3. CASE j \in DOMAIN f.lines
      BY <1>2, <1>3, <1>4, <2>1, <2>2, <2>3 DEF Increasing
    <2>4. CASE j \notin DOMAIN f.lines
      BY <1>2, <1>3, <2>1, <2>2, <2>4 DEF Increasing
    <2> QED BY <2>3, <2>4
  <1>5. ASSUME NEW k \in DOMAIN f.lines, f.lines[k] # Garbage PROVE f.lines[k] \in Range(Parse(f))
    <2>1. k \in DOMAIN Parse(f) /\ Parse(f)[k] = f.lines[k]
      BY <1>2, <1>3, <1>5
    <2> QED BY <2>1 DEF Range
  <1>6. Range(f.lines) \ {Garbage} \subseteq Range(Parse(f))
    BY <1>5 DEF Range
  <1> QED BY <1>4, <1>6

LEMMA InvReadable == IInv => AckedReadable
  <1> SUFFICES ASSUME IInv PROVE AckedReadable
    OBVIOUS
  <1>1. Visible \in Stored \cup {EmptyFile} /\ Visible \in Files
    BY VisibleStored DEF IInv
  <1>2. Increasing(Visible)
    BY <1>1, EmptySound DEF IInv, FileInv, Sound
  <1>3. /\ \A i, j \in DOMAIN Readable : i < j => Readable[i] < Readable[j]
        /\ Range(Visible.lines) \ {Garbage} \subseteq Range(Readable)
    BY <1>1, <1>2, ParseOrder DEF Readable
  <1>4. ASSUME incidents = {} PROVE Cardinality(acked \ Range(Readable)) <= torn
    <2>1. /\ Cardinality(Missing(Booked, Visible)) + OpenLine(Visible) <= torn
          /\ OpenLine(Visible) \in Nat /\ torn \in Nat
      BY <1>4 DEF IInv, LossInv, OpenLine, TypeInv
    <2>2. acked \subseteq Items /\ Garbage \notin Items /\ Booked \subseteq Items /\ acked \subseteq Booked
      BY Constants, BookedItems DEF IInv, TypeInv, Booked
    <2>3. acked \ Range(Readable) \subseteq Missing(Booked, Visible) /\ Missing(Booked, Visible) \subseteq Items
      BY <1>3, <2>2 DEF Missing
    <2>4. /\ Cardinality(acked \ Range(Readable)) <= Cardinality(Missing(Booked, Visible))
          /\ Cardinality(acked \ Range(Readable)) \in Nat /\ Cardinality(Missing(Booked, Visible)) \in Nat
      BY <2>3, ItemsFinite
    <2> QED BY <2>1, <2>4
  <1> QED BY <1>3, <1>4 DEF AckedReadable

\* Whatever is written, fails, crashes, is resumed and is compressed: a reader of
\* the rollout finds the recorded items in order and none twice, and of the
\* acknowledged ones it misses at most one for every append that failed half-way,
\* unless the compression worker and a writer got in each other's way
\* (rollout/src/recorder.rs, rollout/src/compression.rs).
THEOREM AckedIsReadable == Spec => []AckedReadable
  <1>1. Spec => []IInv
    BY InitInv, NextInv, PTL DEF Spec
  <1> QED BY <1>1, InvReadable, PTL
============================================================================
