------------------------------ MODULE RemoteProofs ------------------------------
(***************************************************************************)
(* Proofs about RemoteControl, for every number of streams and clients,    *)
(* any workload and any capacity.  From the clients to the app server: a   *)
(* connection gets each message of its stream at most once and in order,   *)
(* and the cursor passes no message that the app server was not given.     *)
(* From the app server to the clients: what reaches the relay is in order  *)
(* and without a hole.                                                     *)
(*                                                                         *)
(* The two directions share only the websocket.  The inductive invariant   *)
(* InIInv of the first relates the relay's log, the position of the        *)
(* reader, what is half assembled, the open connections and what the app   *)
(* server got; the second uses of it only that a connection has the key of *)
(* a stream.                                                               *)
(***************************************************************************)
EXTENDS RemoteControl, FiniteSetTheorems, SequenceTheorems, TLAPS

-----------------------------------------------------------------------------
(* What the clients send.                                                  *)

InEnvelope ==
  [key : Keys, is : {"init", "message", "first", "last", "closed"}, seq : Nat]

InTypes ==
  /\ link \in BOOLEAN
  /\ sent \in Seq(InEnvelope)
  /\ next \in Nat /\ cursor \in Nat
  /\ reader \in [at : {"idle", "handle", "opened", "record"}, pos : Nat]
  /\ assembly \in [Clients -> [key : Keys \union {None}, seq : Nat]]
  /\ chunked \in [Keys -> Nat]
  /\ conns \in Seq(Keys)
  /\ client \in [Keys -> [conn : Nat, last : Nat]]
  /\ tasks \in [running : SUBSET (DOMAIN conns), ended : SUBSET (DOMAIN conns)]
  /\ closed \subseteq DOMAIN conns
  /\ got \in Seq((DOMAIN conns) \X (DOMAIN sent))

(* A stream's numbers grow, a last chunk has the number of the first chunk *)
(* before it, and a stream begins with an initialize.                      *)
Numbered(s, k) ==
  {p \in DOMAIN s : s[p].key = k /\ s[p].is \in {"init", "message", "first"}}

LogOK(s) ==
  /\ \A p \in DOMAIN s : s[p].is # "closed" =>
       s[p].seq \in 1..Cardinality(Numbered(s, s[p].key))
  /\ \A k \in Keys : Numbered(s, k) # {} =>
       \E p \in DOMAIN s : s[p].key = k /\ s[p].is # "closed"
                           /\ s[p].seq = Cardinality(Numbered(s, k))
  /\ \A p, q \in DOMAIN s :
       p < q /\ s[p].key = s[q].key /\ s[p].is # "closed" /\ s[q].is # "closed" =>
         /\ s[p].seq <= s[q].seq
         /\ s[q].is # "last" \/ s[p].is # "first" => s[p].seq < s[q].seq
  /\ \A q \in DOMAIN s : s[q].is = "last" =>
       \E p \in DOMAIN s :
         /\ p < q /\ s[p].is = "first" /\ s[p].key = s[q].key /\ s[p].seq = s[q].seq
         /\ \A r \in DOMAIN s : s[r].key = s[q].key => r <= p \/ q <= r
  /\ \A p, r \in DOMAIN s : p < r /\ s[p].is = "first" /\ s[r].key = s[p].key =>
       \E q \in DOMAIN s :
         /\ p < q /\ q <= r
         /\ s[q].is = "last" /\ s[q].key = s[p].key /\ s[q].seq = s[p].seq
  /\ \A p \in DOMAIN s : s[p].is # "init" =>
       \E q \in DOMAIN s : q < p /\ s[q].is = "init" /\ s[q].key = s[p].key

LogInv == LogOK(sent)

(* The reader handles the newest envelope it has read, which lies behind   *)
(* the cursor; a first chunk is neither handled nor recorded.              *)
ReadInv ==
  /\ cursor < next /\ next <= Len(sent) + 1
  /\ cursor # 0 => sent[cursor].is # "first"
  /\ reader.at = "idle" => reader.pos = 0
  /\ reader.at # "idle" =>
       /\ link /\ reader.pos = next - 1 /\ cursor < reader.pos
       /\ sent[reader.pos].is # "first"
       /\ sent[reader.pos].is = "last" => Held(Key).seq = 0
  /\ reader.at = "opened" =>
       sent[reader.pos].is = "init" /\ client[Key].conn # None /\ client[Key].last = 0
  /\ \A k \in Keys : chunked[k] # 0 =>
       \E p \in DOMAIN sent :
         p <= cursor /\ sent[p].key = k /\ sent[p].is = "last" /\ sent[p].seq = chunked[k]
  /\ \A k \in Keys : Assembles(k) =>
       \E p \in DOMAIN sent :
         sent[p].key = k /\ sent[p].is = "first" /\ sent[p].seq = Held(k).seq

(* A stream has one connection that is not closed, and what it was given   *)
(* has at most the number that is noted for it.                            *)
TrackInv ==
  /\ \A k \in Keys : client[k].conn # None =>
       client[k].conn \in DOMAIN conns /\ conns[client[k].conn] = k /\ client[k].conn \notin closed
  /\ \A c \in DOMAIN conns : c \in closed \/ client[conns[c]].conn = c
  /\ \A k \in Keys : client[k].last # 0 =>
       \E p \in DOMAIN sent :
         /\ sent[p].key = k /\ sent[p].is \in {"init", "message", "last"}
         /\ sent[p].seq = client[k].last
  /\ \A i \in DOMAIN got :
       /\ conns[got[i][1]] = sent[got[i][2]].key
       /\ sent[got[i][2]].is \in {"init", "message", "last"}
       /\ client[sent[got[i][2]].key].conn = got[i][1] =>
            sent[got[i][2]].seq <= client[sent[got[i][2]].key].last
  /\ DeliveredOnce

(* Where the relay goes on: the next envelope, or the first one behind the *)
(* cursor on the websocket to come.                                        *)
From == IF link THEN next ELSE cursor + 1

(* Of a stream that was never closed,                                      *)
(* - the reader has passed only chunks without recording them, and no      *)
(*   whole message;                                                        *)
(* - the chunk just read is held, unless another envelope follows it;      *)
(* - what is held is the next message to complete;                         *)
(* - a stream whose initialize was recorded has a connection;              *)
(* - what was handled, and what is noted as delivered, was delivered.      *)
PassedInv ==
  link => \A p \in DOMAIN sent :
            cursor < p /\ p < next /\ p # reader.pos /\ NeverClosed(sent[p].key) =>
              sent[p].is \in {"first", "last"} /\ ~Whole(p)

HeldInv ==
  /\ link => \A p \in DOMAIN sent :
       /\ p = next - 1 /\ cursor < p /\ sent[p].is = "first" /\ NeverClosed(sent[p].key)
       /\ next \in DOMAIN sent => sent[next].key = sent[p].key
       => Assembles(sent[p].key) /\ Held(sent[p].key).seq = sent[p].seq
  /\ \A k \in Keys : Assembles(k) /\ NeverClosed(k) =>
       \A p \in DOMAIN sent : sent[p].key = k /\ sent[p].is = "last" =>
         /\ Whole(p) /\ From <= p => Held(k).seq <= sent[p].seq
         /\ sent[p].seq = Held(k).seq => From <= p

OpenPast ==
  \A p \in DOMAIN sent :
    sent[p].is = "init" /\ p <= cursor /\ NeverClosed(sent[p].key) =>
      client[sent[p].key].conn # None

Recorded ==
  reader.at = "record" /\ NeverClosed(Key) =>
    /\ sent[reader.pos].is = "init" => client[Key].conn # None
    /\ sent[reader.pos].is # "closed"
    /\ Whole(reader.pos) => reader.pos \in Delivered

Noted ==
  \A p \in DOMAIN sent :
    Whole(p) /\ NeverClosed(sent[p].key) /\ sent[p].seq <= client[sent[p].key].last =>
      p \in Delivered

OpenInv == OpenPast /\ Recorded /\ Noted

InIInv ==
  InTypes /\ LogInv /\ ReadInv /\ TrackInv /\ PassedInv /\ HeldInv /\ OpenInv /\ CursorCovers

-----------------------------------------------------------------------------
(* The relay's log.                                                        *)

LEMMA NumberedFinite ==
  ASSUME NEW s \in Seq(InEnvelope), NEW k
  PROVE  IsFiniteSet(Numbered(s, k)) /\ Cardinality(Numbered(s, k)) \in Nat
<1>1. DOMAIN s = 1..Len(s) /\ Len(s) \in Int /\ 1 \in Int
  OBVIOUS
<1>2. IsFiniteSet(1..Len(s))
  BY <1>1, FS_Interval
<1>3. Numbered(s, k) \subseteq 1..Len(s)
  BY <1>1 DEF Numbered
<1> QED  BY <1>2, <1>3, FS_Subset, FS_CardinalityType

LEMMA NumberedAppend ==
  ASSUME NEW s \in Seq(InEnvelope), NEW e \in InEnvelope, NEW k
  PROVE  Cardinality(Numbered(Append(s, e), k)) =
           IF e.key = k /\ e.is \in {"init", "message", "first"}
             THEN Cardinality(Numbered(s, k)) + 1 ELSE Cardinality(Numbered(s, k))
<1> DEFINE t == Append(s, e)
           n == Len(s) + 1
<1>1. /\ DOMAIN s = 1..Len(s) /\ DOMAIN t = 1..n /\ n \notin DOMAIN s /\ DOMAIN t = DOMAIN s \union {n}
      /\ t[n] = e /\ \A p \in DOMAIN s : t[p] = s[p]
  OBVIOUS
<1> HIDE DEF t
<1>2. CASE e.key = k /\ e.is \in {"init", "message", "first"}
  <2>1. Numbered(t, k) = Numbered(s, k) \union {n} /\ n \notin Numbered(s, k)
    BY <1>1, <1>2 DEF Numbered
  <2> QED  BY <1>2, <2>1, NumberedFinite, FS_AddElement, ZenonT(60) DEF t
<1>3. CASE ~(e.key = k /\ e.is \in {"init", "message", "first"})
  <2>1. Numbered(t, k) = Numbered(s, k)
    BY <1>1, <1>3 DEF Numbered
  <2> QED  BY <1>3, <2>1 DEF t
<1> QED  BY <1>2, <1>3

(* When its newest chunk is a first one, it is the stream's newest         *)
(* envelope and has its highest number.                                    *)
HalfIn(s, k, f) ==
  /\ f \in DOMAIN s /\ s[f].key = k /\ s[f].is = "first"
  /\ \A q \in DOMAIN s : s[q].key = k /\ s[q].is = "last" => q < f

LEMMA HalfNewest ==
  ASSUME NEW s \in Seq(InEnvelope), LogOK(s), NEW k \in Keys, NEW f, HalfIn(s, k, f)
  PROVE  /\ \A r \in DOMAIN s : s[r].key = k => r <= f
         /\ s[f].seq = Cardinality(Numbered(s, k))
<1> USE DEF HalfIn
<1>1. ASSUME NEW r \in DOMAIN s, s[r].key = k, f < r PROVE FALSE
  <2>0. \A i, j \in DOMAIN s : i < j /\ s[i].is = "first" /\ s[j].key = s[i].key =>
          \E q \in DOMAIN s : i < q /\ s[q].is = "last" /\ s[q].key = s[i].key
    BY DEF LogOK
  <2>1. PICK q \in DOMAIN s : f < q /\ s[q].is = "last" /\ s[q].key = k
    BY <1>1, <2>0
  <2>2. q < f
    BY <2>1
  <2> QED  BY <2>1, <2>2
<1>2. \A r \in DOMAIN s : s[r].key = k => r <= f
  BY <1>1
<1>3. f \in Numbered(s, k)
  BY DEF Numbered
<1>4. PICK p \in DOMAIN s : s[p].key = k /\ s[p].is # "closed"
                            /\ s[p].seq = Cardinality(Numbered(s, k))
  BY <1>3 DEF LogOK
<1>5. s[f].seq \in 1..Cardinality(Numbered(s, k)) /\ Cardinality(Numbered(s, k)) \in Nat
  BY NumberedFinite DEF LogOK
<1>6. p < f => s[p].seq < s[f].seq
  BY <1>4 DEF LogOK
<1>7. p = f
  BY <1>2, <1>4, <1>5, <1>6
<1> QED  BY <1>2, <1>4, <1>7

(* What a client may append to the log.                                    *)
MayFollow(s, e) ==
  LET k == e.key
      high == Cardinality(Numbered(s, k))
  IN  \/ /\ e.is # "last" /\ e.seq = high + 1
         /\ ~\E f \in DOMAIN s : HalfIn(s, k, f)
         /\ e.is # "init" => \E q \in DOMAIN s : s[q].key = k /\ s[q].is = "init"
      \/ /\ e.is = "last" /\ e.seq = high
         /\ \E f \in DOMAIN s : HalfIn(s, k, f)

LEMMA LogGrows ==
  ASSUME NEW s \in Seq(InEnvelope), LogOK(s), NEW e \in InEnvelope, MayFollow(s, e)
  PROVE  LogOK(Append(s, e))
<1> DEFINE t == Append(s, e)
           n == Len(s) + 1
           k == e.key
           high == Cardinality(Numbered(s, k))
<1>1. /\ t \in Seq(InEnvelope) /\ n \in Nat
      /\ DOMAIN s = 1..Len(s) /\ DOMAIN t = 1..n /\ n \notin DOMAIN s
      /\ t[n] = e
  OBVIOUS
<1>2. \A p \in DOMAIN s : p \in DOMAIN t /\ p < n /\ p \in Nat /\ t[p] = s[p]
  OBVIOUS
<1>3. \A p \in DOMAIN t : p \in DOMAIN s \/ p = n
  OBVIOUS
<1>4. k \in Keys /\ e.seq \in Nat /\ e.is \in {"init", "message", "first", "last", "closed"}
  BY DEF InEnvelope
<1>5. \A p \in DOMAIN s : s[p].key \in Keys /\ s[p].seq \in Nat
  <2>1. \A p \in DOMAIN s : s[p] \in InEnvelope
    OBVIOUS
  <2> QED  BY <2>1 DEF InEnvelope
<1>6. \A h \in Keys : Cardinality(Numbered(s, h)) \in Nat
  BY NumberedFinite
<1>7. \A h \in Keys : Cardinality(Numbered(t, h)) =
        IF k = h /\ e.is \in {"init", "message", "first"}
          THEN Cardinality(Numbered(s, h)) + 1 ELSE Cardinality(Numbered(s, h))
  BY NumberedAppend
<1> HIDE DEF t
<1>8. \A h \in Keys : Cardinality(Numbered(s, h)) <= Cardinality(Numbered(t, h))
                      /\ Cardinality(Numbered(t, h)) \in Nat
  BY <1>6, <1>7
<1>9. \A p \in DOMAIN s : s[p].is # "closed" => s[p].seq \in 1..Cardinality(Numbered(s, s[p].key))
  BY DEF LogOK
<1>10. e.is = "last" => \E f \in DOMAIN s : HalfIn(s, k, f)
  BY DEF MayFollow
<1>11. e.seq = IF e.is = "last" THEN high ELSE high + 1
  BY DEF MayFollow
<1>12. ASSUME NEW f \in DOMAIN s, HalfIn(s, k, f)
       PROVE  (\A r \in DOMAIN s : s[r].key = k => r <= f) /\ s[f].seq = high
              /\ s[f].key = k /\ s[f].is = "first"
  BY <1>4, <1>12, HalfNewest DEF HalfIn
<1>13. e.is # "closed" => e.seq \in 1..Cardinality(Numbered(t, k)) /\ e.seq = Cardinality(Numbered(t, k))
  <2>1. CASE e.is = "last"
    <3>1. PICK f \in DOMAIN s : HalfIn(s, k, f)
      BY <1>10, <2>1
    <3>2. s[f].seq = high /\ s[f].seq \in 1..high
      BY <1>9, <1>12, <3>1
    <3> QED  BY <1>4, <1>7, <1>11, <2>1, <3>2
  <2>2. CASE e.is \in {"init", "message", "first"}
    BY <1>4, <1>6, <1>7, <1>11, <2>2
  <2> QED  BY <1>4, <2>1, <2>2
<1>14. \A p \in DOMAIN t : t[p].is # "closed" => t[p].seq \in 1..Cardinality(Numbered(t, t[p].key))
  <2> SUFFICES ASSUME NEW p \in DOMAIN t, t[p].is # "closed"
               PROVE  t[p].seq \in 1..Cardinality(Numbered(t, t[p].key))
    OBVIOUS
  <2>1. CASE p = n
    BY <1>1, <1>13, <2>1
  <2>2. CASE p \in DOMAIN s
    BY <1>2, <1>5, <1>6, <1>8, <1>9, <2>2
  <2> QED  BY <1>3, <2>1, <2>2
<1>15. \A h \in Keys : Numbered(t, h) # {} =>
         \E p \in DOMAIN t : t[p].key = h /\ t[p].is # "closed"
                             /\ t[p].seq = Cardinality(Numbered(t, h))
  <2> SUFFICES ASSUME NEW h \in Keys, Numbered(t, h) # {}
               PROVE  \E p \in DOMAIN t : t[p].key = h /\ t[p].is # "closed"
                                          /\ t[p].seq = Cardinality(Numbered(t, h))
    OBVIOUS
  <2>1. CASE h = k /\ e.is # "closed"
    BY <1>1, <1>13, <2>1
  <2>2. CASE ~(h = k /\ e.is # "closed")
    <3>1. Numbered(t, h) = Numbered(s, h)
      BY <1>1, <1>2, <1>3, <2>2 DEF Numbered
    <3>2. PICK p \in DOMAIN s : s[p].key = h /\ s[p].is # "closed"
                                /\ s[p].seq = Cardinality(Numbered(s, h))
      BY <3>1 DEF LogOK
    <3> QED  BY <1>2, <3>1, <3>2
  <2> QED  BY <2>1, <2>2
<1>16. \A p, q \in DOMAIN t :
         p < q /\ t[p].key = t[q].key /\ t[p].is # "closed" /\ t[q].is # "closed" =>
           /\ t[p].seq <= t[q].seq
           /\ t[q].is # "last" \/ t[p].is # "first" => t[p].seq < t[q].seq
  <2> SUFFICES ASSUME NEW p \in DOMAIN t, NEW q \in DOMAIN t, p < q, t[p].key = t[q].key,
                      t[p].is # "closed", t[q].is # "closed"
               PROVE  /\ t[p].seq <= t[q].seq
                      /\ t[q].is # "last" \/ t[p].is # "first" => t[p].seq < t[q].seq
    OBVIOUS
  <2>1. p \in DOMAIN s
    BY <1>1, <1>3
  <2>2. t[p] = s[p]
    BY <1>2, <2>1
  <2>3. CASE q \in DOMAIN s
    <3>1. t[q] = s[q]
      BY <1>2, <2>3
    <3> QED  BY <2>1, <2>2, <2>3, <3>1 DEF LogOK
  <2>4. CASE q = n
    <3>1. t[q] = e /\ s[p].key = k /\ s[p].seq \in 1..high /\ high \in Nat
      BY <1>1, <1>4, <1>6, <1>9, <2>1, <2>2, <2>4
    <3>2. CASE e.is # "last"
      BY <1>11, <2>2, <3>1, <3>2
    <3>3. CASE e.is = "last" /\ t[p].is = "first"
      BY <1>11, <2>2, <3>1, <3>3
    <3>4. CASE e.is = "last" /\ t[p].is # "first"
      <4>1. PICK f \in DOMAIN s : HalfIn(s, k, f)
        BY <1>10, <3>4
      <4>2. p <= f /\ s[f].seq = high /\ s[f].key = k /\ s[f].is = "first"
        BY <1>12, <2>1, <3>1, <4>1
      <4>3. p < f
        BY <1>2, <2>1, <2>2, <3>4, <4>1, <4>2
      <4>4. s[p].seq < s[f].seq
        BY <2>1, <2>2, <3>1, <4>1, <4>2, <4>3 DEF LogOK
      <4> QED  BY <1>11, <2>2, <3>1, <3>4, <4>2, <4>4
    <3> QED  BY <3>2, <3>3, <3>4
  <2> QED  BY <1>3, <2>3, <2>4
<1>17. \A q \in DOMAIN t : t[q].is = "last" =>
         \E p \in DOMAIN t :
           /\ p < q /\ t[p].is = "first" /\ t[p].key = t[q].key /\ t[p].seq = t[q].seq
           /\ \A r \in DOMAIN t : t[r].key = t[q].key => r <= p \/ q <= r
  <2> SUFFICES ASSUME NEW q \in DOMAIN t, t[q].is = "last"
               PROVE  \E p \in DOMAIN t :
                        /\ p < q /\ t[p].is = "first" /\ t[p].key = t[q].key /\ t[p].seq = t[q].seq
                        /\ \A r \in DOMAIN t : t[r].key = t[q].key => r <= p \/ q <= r
    OBVIOUS
  <2>1. CASE q \in DOMAIN s
    <3>1. PICK p \in DOMAIN s :
            /\ p < q /\ s[p].is = "first" /\ s[p].key = s[q].key /\ s[p].seq = s[q].seq
            /\ \A r \in DOMAIN s : s[r].key = s[q].key => r <= p \/ q <= r
      BY <1>2, <2>1 DEF LogOK
    <3>2. ASSUME NEW r \in DOMAIN t, t[r].key = t[q].key PROVE r <= p \/ q <= r
      <4>1. CASE r = n
        BY <1>2, <2>1, <4>1
      <4>2. CASE r \in DOMAIN s
        BY <1>2, <2>1, <3>1, <3>2, <4>2
      <4> QED  BY <1>3, <4>1, <4>2
    <3> QED  BY <1>2, <2>1, <3>1, <3>2
  <2>2. CASE q = n
    <3>1. t[q] = e
      BY <1>1, <2>2
    <3>2. PICK f \in DOMAIN s : HalfIn(s, k, f)
      BY <1>10, <3>1
    <3>3. (\A r \in DOMAIN s : s[r].key = k => r <= f) /\ s[f].seq = high
          /\ s[f].key = k /\ s[f].is = "first"
      BY <1>12, <3>2
    <3>4. ASSUME NEW r \in DOMAIN t, t[r].key = k PROVE r <= f \/ q <= r
      <4>1. CASE r = n
        BY <1>1, <2>2, <4>1
      <4>2. CASE r \in DOMAIN s
        BY <1>2, <3>3, <3>4, <4>2
      <4> QED  BY <1>3, <4>1, <4>2
    <3>5. f \in DOMAIN t /\ f < q /\ t[f].is = "first" /\ t[f].key = k /\ t[f].seq = high
      BY <1>2, <2>2, <3>3
    <3>6. t[q].seq = high /\ t[q].key = k
      BY <1>11, <3>1
    <3> QED  BY <3>4, <3>5, <3>6
  <2> QED  BY <1>3, <2>1, <2>2
<1>18. \A p, r \in DOMAIN t : p < r /\ t[p].is = "first" /\ t[r].key = t[p].key =>
         \E q \in DOMAIN t :
           /\ p < q /\ q <= r
           /\ t[q].is = "last" /\ t[q].key = t[p].key /\ t[q].seq = t[p].seq
  <2> SUFFICES ASSUME NEW p \in DOMAIN t, NEW r \in DOMAIN t, p < r, t[p].is = "first",
                      t[r].key = t[p].key
               PROVE  \E q \in DOMAIN t :
                        /\ p < q /\ q <= r
                        /\ t[q].is = "last" /\ t[q].key = t[p].key /\ t[q].seq = t[p].seq
    OBVIOUS
  <2>1. p \in DOMAIN s /\ t[p] = s[p]
    BY <1>1, <1>2, <1>3
  <2>2. ASSUME NEW m \in DOMAIN s, p < m, s[m].key = s[p].key, m <= r
        PROVE  \E q \in DOMAIN t :
                 /\ p < q /\ q <= r
                 /\ t[q].is = "last" /\ t[q].key = t[p].key /\ t[q].seq = t[p].seq
    <3>1. PICK q \in DOMAIN s :
            /\ p < q /\ q <= m
            /\ s[q].is = "last" /\ s[q].key = s[p].key /\ s[q].seq = s[p].seq
      BY <2>1, <2>2 DEF LogOK
    <3> QED  BY <1>1, <1>2, <2>1, <2>2, <3>1
  <2>3. CASE r \in DOMAIN s
    BY <1>1, <1>2, <2>1, <2>2, <2>3
  <2>4. CASE r = n
    <3>1. s[p].key = k
      BY <1>1, <2>1, <2>4
    <3>2. CASE e.is = "last"
      <4>1. PICK f \in DOMAIN s : HalfIn(s, k, f)
        BY <1>10, <3>2
      <4>2. p <= f /\ s[f].seq = high /\ s[f].key = k
        BY <1>12, <2>1, <3>1, <4>1
      <4>3. CASE p = f
        BY <1>1, <1>11, <2>1, <2>4, <3>1, <3>2, <4>2, <4>3
      <4>4. CASE p < f
        BY <1>1, <1>2, <2>2, <2>4, <3>1, <4>1, <4>2, <4>4
      <4> QED  BY <1>1, <2>1, <4>1, <4>2, <4>3, <4>4
    <3>3. CASE e.is # "last"
      <4>1. ~HalfIn(s, k, p)
        BY <2>1, <3>3 DEF MayFollow
      <4>2. PICK q \in DOMAIN s : s[q].key = k /\ s[q].is = "last" /\ ~(q < p)
        BY <2>1, <3>1, <4>1 DEF HalfIn
      <4>3. p < q /\ q <= r
        BY <1>1, <1>2, <2>1, <2>4, <4>2
      <4> QED  BY <2>2, <3>1, <4>2, <4>3
    <3> QED  BY <3>2, <3>3
  <2> QED  BY <1>3, <2>3, <2>4
<1>19. \A p \in DOMAIN t : t[p].is # "init" =>
         \E q \in DOMAIN t : q < p /\ t[q].is = "init" /\ t[q].key = t[p].key
  <2> SUFFICES ASSUME NEW p \in DOMAIN t, t[p].is # "init"
               PROVE  \E q \in DOMAIN t : q < p /\ t[q].is = "init" /\ t[q].key = t[p].key
    OBVIOUS
  <2>1. CASE p \in DOMAIN s
    <3>1. PICK q \in DOMAIN s : q < p /\ s[q].is = "init" /\ s[q].key = s[p].key
      BY <1>2, <2>1 DEF LogOK
    <3> QED  BY <1>2, <2>1, <3>1
  <2>2. CASE p = n
    <3>1. \E q \in DOMAIN s : s[q].key = k /\ s[q].is = "init"
      <4>1. CASE e.is = "last"
        <5>1. PICK f \in DOMAIN s : HalfIn(s, k, f)
          BY <1>10, <4>1
        <5> QED  BY <1>12, <5>1 DEF LogOK
      <4>2. CASE e.is # "last"
        BY <1>1, <2>2, <4>2 DEF MayFollow
      <4> QED  BY <4>1, <4>2
    <3> QED  BY <1>1, <1>2, <2>2, <3>1
  <2> QED  BY <1>3, <2>1, <2>2
<1>20. LogOK(t)
  BY <1>14, <1>15, <1>16, <1>17, <1>18, <1>19 DEF LogOK
<1> QED  BY <1>20 DEF t

-----------------------------------------------------------------------------
(* The types of what the steps read.                                       *)

LEMMA SentTypes ==
  ASSUME InTypes
  PROVE  /\ Len(sent) \in Nat /\ DOMAIN sent = 1..Len(sent)
         /\ \A p \in DOMAIN sent :
              /\ p \in Nat /\ sent[p].key \in Keys /\ sent[p].seq \in Nat
              /\ sent[p].is \in {"init", "message", "first", "last", "closed"}
<1>1. sent \in Seq(InEnvelope)
  BY DEF InTypes
<1>2. \A p \in DOMAIN sent : sent[p] \in InEnvelope
  BY <1>1
<1> QED  BY <1>1, <1>2 DEF InEnvelope

(* What the log's invariant says of two positions of a stream.             *)
LEMMA LogFacts ==
  ASSUME InTypes, LogInv
  PROVE  /\ \A p \in DOMAIN sent : sent[p].is # "closed" => sent[p].seq # 0
         /\ \A p, q \in DOMAIN sent :
              p < q /\ sent[p].key = sent[q].key /\ sent[p].is # "closed" /\ sent[q].is # "closed" =>
                /\ sent[p].seq <= sent[q].seq
                /\ sent[q].is # "last" \/ sent[p].is # "first" => sent[p].seq < sent[q].seq
         /\ \A q \in DOMAIN sent : sent[q].is = "last" =>
              \E p \in DOMAIN sent :
                /\ p < q /\ sent[p].is = "first" /\ sent[p].key = sent[q].key
                /\ sent[p].seq = sent[q].seq
                /\ \A r \in DOMAIN sent : sent[r].key = sent[q].key => r <= p \/ q <= r
         /\ \A p, r \in DOMAIN sent : p < r /\ sent[p].is = "first" /\ sent[r].key = sent[p].key =>
              \E q \in DOMAIN sent :
                /\ p < q /\ q <= r
                /\ sent[q].is = "last" /\ sent[q].key = sent[p].key /\ sent[q].seq = sent[p].seq
         /\ \A p \in DOMAIN sent : sent[p].is # "init" =>
              \E q \in DOMAIN sent : q < p /\ sent[q].is = "init" /\ sent[q].key = sent[p].key
<1>1. sent \in Seq(InEnvelope)
  BY DEF InTypes
<1>2. \A p \in DOMAIN sent : sent[p].is # "closed" =>
        sent[p].seq \in 1..Cardinality(Numbered(sent, sent[p].key))
  BY DEF LogInv, LogOK
<1>3. \A k : Cardinality(Numbered(sent, k)) \in Nat
  BY <1>1, NumberedFinite
<1>4. \A p \in DOMAIN sent : sent[p].is # "closed" => sent[p].seq # 0
  BY <1>2, <1>3
<1> QED  BY <1>4 DEF LogInv, LogOK

LEMMA TrackTypes ==
  ASSUME InTypes
  PROVE  /\ Len(conns) \in Nat /\ DOMAIN conns = 1..Len(conns)
         /\ \A c \in DOMAIN conns : c \in Nat /\ c # 0 /\ conns[c] \in Keys
         /\ \A k \in Keys : client[k].conn \in Nat /\ client[k].last \in Nat
         /\ Len(got) \in Nat /\ DOMAIN got = 1..Len(got)
         /\ \A i \in DOMAIN got : got[i][1] \in DOMAIN conns /\ got[i][2] \in DOMAIN sent
<1>1. conns \in Seq(Keys) /\ client \in [Keys -> [conn : Nat, last : Nat]]
      /\ got \in Seq((DOMAIN conns) \X (DOMAIN sent))
  BY DEF InTypes
<1>2. \A i \in DOMAIN got : got[i] \in (DOMAIN conns) \X (DOMAIN sent)
  BY <1>1
<1>3. \A k \in Keys : client[k] \in [conn : Nat, last : Nat]
  BY <1>1
<1> QED  BY <1>1, <1>2, <1>3, SMTT(30)

LEMMA HeldTypes ==
  ASSUME InTypes, NEW k \in Keys
  PROVE  /\ ClientOf[k] \in Clients /\ DOMAIN assembly = Clients
         /\ Held(k).seq \in Nat /\ Held(k).key \in Keys \union {None} /\ chunked[k] \in Nat
<1>1. ClientOf[k] \in Clients
  BY DEF Clients
<1>2. assembly[ClientOf[k]] \in [key : Keys \union {None}, seq : Nat]
  BY <1>1 DEF InTypes
<1> QED  BY <1>1, <1>2 DEF InTypes, Held

LEMMA ReaderTypes ==
  ASSUME InTypes, ReadInv
  PROVE  /\ reader.pos \in Nat /\ reader.at \in {"idle", "handle", "opened", "record"}
         /\ reader = [at |-> reader.at, pos |-> reader.pos]
         /\ reader.at # "idle" => reader.pos \in DOMAIN sent /\ Key \in Keys
<1>1. reader \in [at : {"idle", "handle", "opened", "record"}, pos : Nat]
  BY DEF InTypes
<1>2. reader.at # "idle" => reader.pos \in DOMAIN sent
  BY <1>1, SentTypes DEF ReadInv, InTypes
<1> QED  BY <1>1, <1>2, SentTypes DEF Key

-----------------------------------------------------------------------------
(* The connections and what they were given.                               *)

LEMMA TrackStutters ==
  ASSUME TrackInv, UNCHANGED <<sent, client, conns, closed, got>>
  PROVE  TrackInv'
BY DEF TrackInv, DeliveredOnce

(* Closing a stream puts its connection among the closed ones.             *)
LEMMA CloseFacts ==
  ASSUME InTypes, TrackInv, NEW k \in Keys, CloseClient(k), conns' = conns
  PROVE  /\ closed' \subseteq DOMAIN conns /\ closed \subseteq closed'
         /\ client' \in [Keys -> [conn : Nat, last : Nat]]
         /\ client'[k] = NoClient
         /\ \A j \in Keys \ {k} : client'[j] = client[j]
         /\ client[k].conn # None => client[k].conn \in closed' /\ ~NeverClosed(k)'
         /\ \A j \in Keys : NeverClosed(j)' => NeverClosed(j)
         /\ \A c \in closed' : c \in closed \/ (c = client[k].conn /\ conns[c] = k)
<1>1. client \in [Keys -> [conn : Nat, last : Nat]] /\ closed \subseteq DOMAIN conns
  BY DEF InTypes
<1>2. NoClient \in [conn : Nat, last : Nat]
  BY DEF NoClient, None
<1>3. /\ client' \in [Keys -> [conn : Nat, last : Nat]] /\ client'[k] = NoClient
      /\ \A j \in Keys \ {k} : client'[j] = client[j]
  BY <1>1, <1>2 DEF CloseClient
<1>4. client[k].conn # None => client[k].conn \in DOMAIN conns /\ conns[client[k].conn] = k
  BY DEF TrackInv
<1>5. closed' = IF client[k].conn = None THEN closed ELSE closed \union {client[k].conn}
  BY DEF CloseClient
<1>6. /\ closed' \subseteq DOMAIN conns /\ closed \subseteq closed'
      /\ client[k].conn # None => client[k].conn \in closed'
      /\ \A c \in closed' : c \in closed \/ (c = client[k].conn /\ conns[c] = k)
  BY <1>1, <1>4, <1>5
<1> QED  BY <1>3, <1>4, <1>6 DEF NeverClosed

LEMMA TrackCloses ==
  ASSUME InTypes, TrackInv, NEW k \in Keys, CloseClient(k), UNCHANGED <<sent, conns, got>>
  PROVE  TrackInv'
<1>1. /\ closed \subseteq closed' /\ client'[k] = NoClient
      /\ \A j \in Keys \ {k} : client'[j] = client[j]
      /\ client[k].conn # None => client[k].conn \in closed'
      /\ \A c \in closed' : c \in closed \/ (c = client[k].conn /\ conns[c] = k)
  BY CloseFacts
<1>2. client'[k].conn = None /\ client'[k].last = 0
  BY <1>1 DEF NoClient
<1>3. ASSUME NEW j \in Keys, client'[j].conn # None
      PROVE  /\ client'[j].conn \in DOMAIN conns /\ conns[client'[j].conn] = j
             /\ client'[j].conn \notin closed'
  BY <1>1, <1>2, <1>3 DEF TrackInv
<1>4. ASSUME NEW c \in DOMAIN conns PROVE c \in closed' \/ client'[conns[c]].conn = c
  <2>1. conns[c] \in Keys /\ (c \in closed \/ client[conns[c]].conn = c) /\ c # None
    BY TrackTypes DEF TrackInv, None
  <2>2. CASE conns[c] = k
    BY <1>1, <2>1, <2>2
  <2>3. CASE conns[c] # k
    BY <1>1, <2>1, <2>3
  <2> QED  BY <2>2, <2>3
<1>5. ASSUME NEW j \in Keys, client'[j].last # 0
      PROVE  \E p \in DOMAIN sent :
               /\ sent[p].key = j /\ sent[p].is \in {"init", "message", "last"}
               /\ sent[p].seq = client'[j].last
  <2>1. j # k
    BY <1>2, <1>5
  <2>2. client'[j] = client[j]
    BY <1>1, <2>1
  <2> QED  BY <1>5, <2>2 DEF TrackInv
<1>6. ASSUME NEW i \in DOMAIN got
      PROVE  /\ conns[got[i][1]] = sent[got[i][2]].key
             /\ sent[got[i][2]].is \in {"init", "message", "last"}
             /\ client'[sent[got[i][2]].key].conn = got[i][1] =>
                  sent[got[i][2]].seq <= client'[sent[got[i][2]].key].last
  <2> DEFINE j == sent[got[i][2]].key
  <2>1. j \in Keys /\ got[i][1] # None
    BY TrackTypes, SentTypes DEF None
  <2>2. /\ conns[got[i][1]] = j /\ sent[got[i][2]].is \in {"init", "message", "last"}
        /\ client[j].conn = got[i][1] => sent[got[i][2]].seq <= client[j].last
    BY DEF TrackInv
  <2>3. client'[j].conn = got[i][1] => client'[j] = client[j]
    BY <1>1, <1>2, <2>1
  <2> QED  BY <2>2, <2>3
<1>7. DeliveredOnce'
  BY <1>1 DEF TrackInv, DeliveredOnce
<1> QED  BY <1>3, <1>4, <1>5, <1>6, <1>7 DEF TrackInv

(* The app server is given what the reader handles: it has a higher number *)
(* than anything its connection was given before.                          *)
Deliver ==
  /\ got' = Append(got, <<client[Key].conn, reader.pos>>)
  /\ client' = [client EXCEPT ![Key].last = sent[reader.pos].seq]
  /\ client[Key].conn # None /\ client[Key].last < sent[reader.pos].seq
  /\ sent[reader.pos].is \in {"init", "message", "last"}
  /\ UNCHANGED <<sent, conns, closed>>

LEMMA DeliverFacts ==
  ASSUME InTypes, TrackInv, Deliver, Key \in Keys, reader.pos \in DOMAIN sent
  PROVE  /\ client' \in [Keys -> [conn : Nat, last : Nat]]
         /\ \A j \in Keys : client'[j].conn = client[j].conn
         /\ \A j \in Keys \ {Key} : client'[j].last = client[j].last
         /\ client'[Key].last = sent[reader.pos].seq
         /\ got' \in Seq((DOMAIN conns) \X (DOMAIN sent))
         /\ DOMAIN got' = 1..(Len(got) + 1)
         /\ \A i \in DOMAIN got : i \in DOMAIN got' /\ got'[i] = got[i]
         /\ got'[Len(got) + 1] = <<client[Key].conn, reader.pos>>
         /\ Delivered' = Delivered \union {reader.pos}
<1>1. sent[reader.pos].seq \in Nat
  BY SentTypes
<1>2. client[Key].conn \in DOMAIN conns
  BY DEF TrackInv, Deliver
<1>3. /\ client \in [Keys -> [conn : Nat, last : Nat]]
      /\ got \in Seq((DOMAIN conns) \X (DOMAIN sent))
  BY DEF InTypes
<1>4. client' = [client EXCEPT ![Key].last = sent[reader.pos].seq]
  BY DEF Deliver
<1>5. /\ client' \in [Keys -> [conn : Nat, last : Nat]]
      /\ \A j \in Keys : client'[j].conn = client[j].conn
      /\ \A j \in Keys \ {Key} : client'[j].last = client[j].last
      /\ client'[Key].last = sent[reader.pos].seq
  BY <1>1, <1>3, <1>4
<1>6. got' = Append(got, <<client[Key].conn, reader.pos>>)
  BY DEF Deliver
<1>7. <<client[Key].conn, reader.pos>> \in (DOMAIN conns) \X (DOMAIN sent)
  BY <1>2
<1>8. /\ got' \in Seq((DOMAIN conns) \X (DOMAIN sent))
      /\ DOMAIN got' = 1..(Len(got) + 1) /\ DOMAIN got = 1..Len(got) /\ Len(got) \in Nat
      /\ \A i \in DOMAIN got : i \in DOMAIN got' /\ got'[i] = got[i]
      /\ got'[Len(got) + 1] = <<client[Key].conn, reader.pos>>
  BY <1>3, <1>6, <1>7
<1>9. got'[Len(got) + 1][2] = reader.pos
  BY <1>8
<1>10. Delivered' = Delivered \union {reader.pos}
  <2>1. \A i \in DOMAIN got' : i \in DOMAIN got \/ i = Len(got) + 1
    BY <1>8
  <2>2. Len(got) + 1 \in DOMAIN got'
    BY <1>8
  <2> QED  BY <1>8, <1>9, <2>1, <2>2 DEF Delivered
<1> QED  BY <1>5, <1>8, <1>10

LEMMA TrackDelivers ==
  ASSUME InTypes, LogInv, TrackInv, Deliver, Key \in Keys, reader.pos \in DOMAIN sent
  PROVE  TrackInv'
<1> DEFINE k == Key
           pos == reader.pos
           n == Len(got) + 1
           c == client[k].conn
<1>1. /\ \A j \in Keys : client'[j].conn = client[j].conn
      /\ \A j \in Keys \ {k} : client'[j].last = client[j].last
      /\ client'[k].last = sent[pos].seq
      /\ DOMAIN got' = 1..n /\ \A i \in DOMAIN got : got'[i] = got[i]
      /\ got'[n] = <<c, pos>>
  BY DeliverFacts
<1>2. /\ client[k].last < sent[pos].seq /\ c # None
      /\ sent[pos].is \in {"init", "message", "last"}
      /\ UNCHANGED <<sent, conns, closed>> /\ sent[pos].key = k
  BY DEF Deliver, Key
<1>3. \A i \in DOMAIN got' : i \in DOMAIN got \/ i = n
  BY <1>1, TrackTypes
<1>4. \A i \in DOMAIN got : i < n /\ i \in Nat
  BY TrackTypes
<1>5. /\ c \in DOMAIN conns /\ conns[c] = k /\ client[k].last \in Nat /\ sent[pos].seq \in Nat
      /\ k \in Keys /\ n \in Nat
  BY <1>2, TrackTypes, SentTypes DEF TrackInv
<1>6. got'[n][1] = c /\ got'[n][2] = pos
  BY <1>1
<1> HIDE DEF k, pos, n, c
<1>7. \A j \in Keys : client'[j].conn # None =>
        client'[j].conn \in DOMAIN conns /\ conns[client'[j].conn] = j /\ client'[j].conn \notin closed
  BY <1>1 DEF TrackInv
<1>8. \A d \in DOMAIN conns : d \in closed \/ client'[conns[d]].conn = d
  BY <1>1, TrackTypes DEF TrackInv
<1>9. ASSUME NEW j \in Keys, client'[j].last # 0
      PROVE  \E p \in DOMAIN sent :
               /\ sent[p].key = j /\ sent[p].is \in {"init", "message", "last"}
               /\ sent[p].seq = client'[j].last
  <2>1. CASE j = k
    BY <1>1, <1>2, <2>1 DEF pos
  <2>2. CASE j # k
    BY <1>1, <1>9, <2>2 DEF TrackInv
  <2> QED  BY <2>1, <2>2
<1>10. ASSUME NEW i \in DOMAIN got'
       PROVE  /\ conns[got'[i][1]] = sent[got'[i][2]].key
              /\ sent[got'[i][2]].is \in {"init", "message", "last"}
              /\ client'[sent[got'[i][2]].key].conn = got'[i][1] =>
                   sent[got'[i][2]].seq <= client'[sent[got'[i][2]].key].last
  <2>1. CASE i = n
    BY <1>1, <1>2, <1>5, <1>6, <2>1
  <2>2. CASE i \in DOMAIN got
    <3> DEFINE j == sent[got[i][2]].key
    <3>1. j \in Keys /\ sent[got[i][2]].seq \in Nat /\ client[j].last \in Nat
      BY <2>2, TrackTypes, SentTypes
    <3>2. /\ conns[got[i][1]] = j /\ sent[got[i][2]].is \in {"init", "message", "last"}
          /\ client[j].conn = got[i][1] => sent[got[i][2]].seq <= client[j].last
      BY <2>2 DEF TrackInv
    <3>3. client[j].last <= client'[j].last /\ client'[j].last \in Nat
      BY <1>1, <1>2, <1>5, <3>1, SMTT(30)
    <3>4. client[j].conn = got[i][1] => sent[got[i][2]].seq <= client'[j].last
      BY <3>1, <3>2, <3>3
    <3> QED  BY <1>1, <2>2, <3>1, <3>2, <3>4
  <2> QED  BY <1>3, <2>1, <2>2
<1>11. ASSUME NEW i \in DOMAIN got, got[i][1] = c PROVE got[i][2] < pos
  <2> DEFINE p == got[i][2]
  <2>1. p \in DOMAIN sent /\ p \in Nat /\ pos \in DOMAIN sent /\ pos \in Nat /\ sent[p].seq \in Nat
    BY TrackTypes, SentTypes DEF pos
  <2>2. sent[p].key = k /\ sent[p].is \in {"init", "message", "last"}
        /\ sent[p].seq <= client[k].last
    BY <1>5, <1>11 DEF TrackInv, c
  <2>3. pos < p => sent[pos].seq <= sent[p].seq
    <3>1. \A x, y \in DOMAIN sent :
            x < y /\ sent[x].key = sent[y].key /\ sent[x].is # "closed" /\ sent[y].is # "closed" =>
              sent[x].seq <= sent[y].seq
      BY DEF LogInv, LogOK
    <3> QED  BY <1>2, <2>1, <2>2, <3>1
  <2>4. sent[p].seq < sent[pos].seq
    BY <1>2, <1>5, <2>1, <2>2
  <2>5. ~(pos < p) /\ p # pos
    BY <1>5, <2>1, <2>3, <2>4
  <2> QED  BY <2>1, <2>5
<1>12. ASSUME NEW i \in DOMAIN got', NEW j \in DOMAIN got', i < j
       PROVE  /\ got'[i][1] = got'[j][1] => got'[i][2] < got'[j][2]
              /\ got'[i][1] # got'[j][1] /\ conns[got'[i][1]] = conns[got'[j][1]]
                   => got'[i][1] \in closed
  <2>1. i \in DOMAIN got /\ got'[i] = got[i]
    BY <1>1, <1>3, <1>4, <1>5, <1>12
  <2>2. CASE j \in DOMAIN got
    BY <1>1, <1>12, <2>1, <2>2 DEF TrackInv, DeliveredOnce
  <2>3. CASE j = n
    <3>1. got[i][1] # c /\ conns[got[i][1]] = k => got[i][1] \in closed
      BY <2>1, TrackTypes DEF TrackInv, c
    <3> QED  BY <1>5, <1>6, <1>11, <2>1, <2>3, <3>1
  <2> QED  BY <1>3, <2>2, <2>3
<1>13. DeliveredOnce'
  BY <1>2, <1>10, <1>12 DEF DeliveredOnce
<1> QED  BY <1>2, <1>7, <1>8, <1>9, <1>10, <1>13 DEF TrackInv

-----------------------------------------------------------------------------
(* The clients send: the log grows.                                        *)

LEMMA LogExtends ==
  ASSUME InIInv, UNCHANGED <<link, next, cursor, reader, assembly, chunked, trackVars>>,
         sent' \in Seq(InEnvelope), Len(sent) <= Len(sent'), LogOK(sent'),
         \A p \in DOMAIN sent : sent'[p] = sent[p]
  PROVE  InIInv'
<1> USE DEF InIInv, trackVars
<1>1. /\ Len(sent) \in Nat /\ DOMAIN sent = 1..Len(sent)
      /\ \A p \in DOMAIN sent :
           /\ p \in Nat /\ sent[p].key \in Keys /\ sent[p].seq \in Nat
           /\ sent[p].is \in {"init", "message", "first", "last", "closed"}
  BY SentTypes
<1>2. Len(sent') \in Nat /\ DOMAIN sent' = 1..Len(sent')
  OBVIOUS
<1>3. \A p \in DOMAIN sent : p \in DOMAIN sent' /\ sent'[p] = sent[p]
  BY <1>1, <1>2
<1>4. \A p \in DOMAIN sent' : p \in DOMAIN sent \/ (p > Len(sent) /\ p \in Nat)
  BY <1>1, <1>2
<1>5. \A p \in DOMAIN sent' : sent'[p].key \in Keys /\ sent'[p].seq \in Nat
  <2>1. \A p \in DOMAIN sent' : sent'[p] \in InEnvelope
    OBVIOUS
  <2> QED  BY <2>1 DEF InEnvelope
<1>6. cursor \in Nat /\ next \in Nat /\ cursor < next /\ next <= Len(sent) + 1
  BY DEF InTypes, ReadInv
<1>7. \A p \in DOMAIN sent : Whole(p)' <=> Whole(p)
  <2> SUFFICES ASSUME NEW p \in DOMAIN sent
               PROVE  Whole(p)' <=> Whole(p)
    OBVIOUS
  <2>1. p > 1 => p - 1 \in DOMAIN sent
    BY <1>1
  <2> QED  BY <1>3, <2>1 DEF Whole
<1>8. \A k : NeverClosed(k)' <=> NeverClosed(k)
  BY DEF NeverClosed
<1>9. reader.at # "idle" => reader.pos \in DOMAIN sent
  BY ReaderTypes
<1>10. \A p \in 1..cursor : p \in DOMAIN sent
  BY <1>1, <1>6
<1>11. InTypes'
  <2>1. DOMAIN sent \subseteq DOMAIN sent'
    BY <1>3
  <2>2. got' \in Seq((DOMAIN conns') \X (DOMAIN sent'))
    <3>1. \A i \in DOMAIN got : got[i] \in (DOMAIN conns) \X (DOMAIN sent')
      BY <2>1 DEF InTypes
    <3> QED  BY <3>1 DEF InTypes
  <2> QED  BY <2>2 DEF InTypes
<1>12. LogInv'
  BY DEF LogInv
<1>13. ReadInv'
  <2>1. ASSUME NEW k \in Keys, chunked[k] # 0
        PROVE  \E p \in DOMAIN sent' :
                 p <= cursor /\ sent'[p].key = k /\ sent'[p].is = "last" /\ sent'[p].seq = chunked[k]
    BY <1>3, <2>1 DEF ReadInv
  <2>2. ASSUME NEW k \in Keys, Assembles(k)
        PROVE  \E p \in DOMAIN sent' :
                 sent'[p].key = k /\ sent'[p].is = "first" /\ sent'[p].seq = Held(k).seq
    BY <1>3, <2>2 DEF ReadInv
  <2>3. cursor < next /\ next <= Len(sent') + 1
    BY <1>2, <1>1, <1>6
  <2>4. cursor # 0 => sent'[cursor].is # "first"
    BY <1>3, <1>6, <1>10 DEF ReadInv
  <2>5. reader.at # "idle" => sent'[reader.pos] = sent[reader.pos] /\ Key' = Key
    BY <1>3, <1>9 DEF Key
  <2>6. reader.at = "idle" => reader.pos = 0
    BY DEF ReadInv
  <2>7. reader.at # "idle" =>
          /\ link /\ reader.pos = next - 1 /\ cursor < reader.pos
          /\ sent'[reader.pos].is # "first"
          /\ sent'[reader.pos].is = "last" => Held(Key').seq = 0
    BY <2>5 DEF ReadInv
  <2>8. reader.at = "opened" =>
          sent'[reader.pos].is = "init" /\ client[Key'].conn # None /\ client[Key'].last = 0
    BY <2>5 DEF ReadInv
  <2> QED  BY <2>1, <2>2, <2>3, <2>4, <2>6, <2>7, <2>8 DEF ReadInv, Held, Assembles
<1>14. TrackInv'
  <2>1. \A i \in DOMAIN got : sent'[got[i][2]] = sent[got[i][2]]
    BY <1>3, TrackTypes
  <2>2. DeliveredOnce'
    BY <2>1 DEF TrackInv, DeliveredOnce
  <2>3. \A k \in Keys : client[k].last # 0 =>
          \E p \in DOMAIN sent' :
            /\ sent'[p].key = k /\ sent'[p].is \in {"init", "message", "last"}
            /\ sent'[p].seq = client[k].last
    BY <1>3 DEF TrackInv
  <2>4. \A i \in DOMAIN got :
          /\ conns[got[i][1]] = sent'[got[i][2]].key
          /\ sent'[got[i][2]].is \in {"init", "message", "last"}
          /\ client[sent'[got[i][2]].key].conn = got[i][1] =>
               sent'[got[i][2]].seq <= client[sent'[got[i][2]].key].last
    BY <2>1 DEF TrackInv
  <2> QED  BY <2>2, <2>3, <2>4 DEF TrackInv
<1>15. PassedInv'
  <2> SUFFICES ASSUME link, NEW p \in DOMAIN sent', cursor < p, p < next, p # reader.pos,
                      NeverClosed(sent'[p].key)
               PROVE  sent'[p].is \in {"first", "last"} /\ ~Whole(p)'
    BY <1>8 DEF PassedInv
  <2>1. p \in DOMAIN sent
    BY <1>1, <1>4, <1>6
  <2> QED  BY <1>3, <1>7, <2>1 DEF PassedInv
(* The newest positions have the highest numbers.                          *)
<1>16. \A x, y \in DOMAIN sent' :
         x < y /\ sent'[x].key = sent'[y].key /\ sent'[x].is # "closed" /\ sent'[y].is # "closed" =>
           /\ sent'[x].seq <= sent'[y].seq
           /\ sent'[y].is # "last" \/ sent'[x].is # "first" => sent'[x].seq < sent'[y].seq
  BY DEF LogOK
<1>17. HeldInv'
  <2>1. ASSUME link, NEW p \in DOMAIN sent', p = next - 1, cursor < p, sent'[p].is = "first",
               NeverClosed(sent'[p].key),
               next \in DOMAIN sent' => sent'[next].key = sent'[p].key
        PROVE  Assembles(sent'[p].key) /\ Held(sent'[p].key).seq = sent'[p].seq
    <3>1. p \in DOMAIN sent /\ sent'[p] = sent[p]
      BY <1>1, <1>3, <1>4, <1>6, <2>1
    <3>2. next \in DOMAIN sent => sent[next].key = sent[p].key
      BY <1>3, <2>1, <3>1
    <3> QED  BY <2>1, <3>1, <3>2 DEF HeldInv
  <2>2. ASSUME NEW k \in Keys, Assembles(k), NeverClosed(k), NEW p \in DOMAIN sent',
               sent'[p].key = k, sent'[p].is = "last"
        PROVE  /\ Whole(p)' /\ From <= p => Held(k).seq <= sent'[p].seq
               /\ sent'[p].seq = Held(k).seq => From <= p
    <3>1. CASE p \in DOMAIN sent
      BY <1>3, <1>7, <2>2, <3>1 DEF HeldInv
    <3>2. CASE p > Len(sent)
      <4>1. PICK f \in DOMAIN sent :
              sent[f].key = k /\ sent[f].is = "first" /\ sent[f].seq = Held(k).seq
        BY <2>2 DEF ReadInv
      <4>2. f \in DOMAIN sent' /\ f < p /\ sent'[f] = sent[f]
        BY <1>1, <1>2, <1>3, <3>2
      <4>3. Held(k).seq <= sent'[p].seq
        BY <1>16, <2>2, <4>1, <4>2
      <4>4. From <= p
        BY <1>1, <1>2, <1>6, <3>2 DEF From
      <4> QED  BY <4>3, <4>4
    <3> QED  BY <1>4, <3>1, <3>2
  <2> QED  BY <1>8, <2>1, <2>2 DEF HeldInv, Held, Assembles, From
<1>18. OpenInv'
  <2>1. ASSUME NEW p \in DOMAIN sent', sent'[p].is = "init", p <= cursor, NeverClosed(sent'[p].key)
        PROVE  client[sent'[p].key].conn # None
    <3>1. p \in DOMAIN sent
      BY <1>2, <1>6, <1>10, <2>1
    <3> QED  BY <1>3, <2>1, <3>1 DEF OpenInv, OpenPast, Recorded, Noted
  <2>2. reader.at = "record" /\ NeverClosed(Key') =>
          /\ sent'[reader.pos].is = "init" => client[Key'].conn # None
          /\ sent'[reader.pos].is # "closed"
          /\ Whole(reader.pos)' => reader.pos \in Delivered
    <3>1. reader.at = "record" => /\ sent'[reader.pos] = sent[reader.pos] /\ Key' = Key
                                  /\ Whole(reader.pos)' <=> Whole(reader.pos)
      BY <1>3, <1>7, <1>9 DEF Key
    <3> QED  BY <3>1 DEF OpenInv, OpenPast, Recorded, Noted
  <2>3. ASSUME NEW p \in DOMAIN sent', Whole(p)', NeverClosed(sent'[p].key),
               sent'[p].seq <= client[sent'[p].key].last
        PROVE  p \in Delivered
    <3>1. CASE p \in DOMAIN sent
      BY <1>3, <1>7, <2>3, <3>1 DEF OpenInv, OpenPast, Recorded, Noted
    <3>2. CASE p > Len(sent)
      <4> DEFINE k == sent'[p].key
      <4>1. sent'[p].is \in {"message", "last"} /\ k \in Keys
        BY <1>5, <2>3 DEF Whole
      <4>2. sent'[p].seq >= 1 /\ sent'[p].seq \in Nat
        BY <4>1, <1>5, NumberedFinite DEF LogOK
      <4>3. client[k].last \in Nat
        BY <4>1, TrackTypes
      <4>4. client[k].last # 0
        BY <2>3, <4>2, <4>3
      <4>5. PICK q \in DOMAIN sent :
              sent[q].key = k /\ sent[q].is \in {"init", "message", "last"}
              /\ sent[q].seq = client[k].last
        BY <4>1, <4>4 DEF TrackInv
      <4>6. q \in DOMAIN sent' /\ q < p /\ sent'[q] = sent[q]
        BY <1>1, <1>2, <1>3, <3>2
      <4>7. sent'[q].seq < sent'[p].seq
        BY <1>16, <4>1, <4>5, <4>6
      <4> QED  BY <2>3, <4>2, <4>3, <4>5, <4>6, <4>7
    <3> QED  BY <1>4, <3>1, <3>2
  <2>4. Delivered' = Delivered
    BY DEF Delivered
  <2> QED  BY <1>8, <2>1, <2>2, <2>3, <2>4 DEF OpenInv, OpenPast, Recorded, Noted
<1>19. CursorCovers'
  <2> SUFFICES ASSUME NEW p \in 1..cursor, Whole(p)', InitBefore(p)' # {}, NeverClosed(sent'[p].key)
               PROVE  p \in Delivered
    BY <1>8 DEF CursorCovers, Delivered
  <2>1. p \in DOMAIN sent /\ sent'[p] = sent[p] /\ Whole(p)
    BY <1>3, <1>7, <1>10
  <2>2. PICK q \in DOMAIN sent' : q < p /\ sent'[q].key = sent'[p].key /\ sent'[q].is = "init"
    BY DEF InitBefore, Of
  <2>3. q \in DOMAIN sent
    BY <1>1, <1>2, <2>1, <2>2
  <2>4. q \in InitBefore(p)
    BY <1>3, <2>1, <2>2, <2>3 DEF InitBefore, Of
  <2> QED  BY <2>1, <2>4 DEF CursorCovers
<1> QED  BY <1>11, <1>12, <1>13, <1>14, <1>15, <1>17, <1>18, <1>19

LEMMA InClientSends ==
  ASSUME InIInv, NEW k \in Keys, ClientSends(k)
  PROVE  InIInv'
<1> DEFINE seq == Cardinality(Numbered(sent, k))
           half == \E f \in DOMAIN sent : HalfIn(sent, k, f)
<1>1. sent \in Seq(InEnvelope) /\ LogOK(sent) /\ seq \in Nat
  BY NumberedFinite DEF InIInv, InTypes, LogInv
<1>2. Sequence(k) = seq
  BY DEF Sequence, Of, Numbered
<1>3. HalfSent(k) <=> half
  BY DEF HalfSent, Of, HalfIn
<1>4. Of(k, {"init"}) # {} => \E q \in DOMAIN sent : sent[q].key = k /\ sent[q].is = "init"
  BY DEF Of
<1>5. UNCHANGED <<link, next, cursor, reader, assembly, chunked, trackVars>>
  BY DEF ClientSends
<1>6. ASSUME NEW is \in {"init", "message", "first", "last", "closed"}, NEW n \in Nat
      PROVE  /\ Envelope(k, is, n) \in InEnvelope /\ Envelope(k, is, n).key = k
             /\ Envelope(k, is, n).is = is /\ Envelope(k, is, n).seq = n
  BY DEF Envelope, InEnvelope
<1>7. ASSUME NEW s \in Seq(InEnvelope), NEW e \in InEnvelope, LogOK(s), MayFollow(s, e)
      PROVE  /\ Append(s, e) \in Seq(InEnvelope) /\ LogOK(Append(s, e))
             /\ Len(Append(s, e)) = Len(s) + 1 /\ Append(s, e)[Len(s) + 1] = e
             /\ \A p \in DOMAIN s : Append(s, e)[p] = s[p]
  BY <1>7, LogGrows
<1>8. ASSUME NEW e \in InEnvelope, MayFollow(sent, e), sent' = Append(sent, e)
      PROVE  InIInv'
  <2>1. /\ sent' \in Seq(InEnvelope) /\ LogOK(sent') /\ Len(sent') = Len(sent) + 1
        /\ \A p \in DOMAIN sent : sent'[p] = sent[p]
    BY <1>1, <1>7, <1>8
  <2>2. Len(sent) <= Len(sent')
    BY <1>1, <2>1
  <2> QED  BY <1>5, <2>1, <2>2, LogExtends
<1>9. CASE ~half /\ sent' = Append(sent, Envelope(k, "init", seq + 1))
  <2>1. MayFollow(sent, Envelope(k, "init", seq + 1))
    BY <1>1, <1>6, <1>9 DEF MayFollow
  <2> QED  BY <1>1, <1>6, <1>8, <1>9, <2>1
<1>10. CASE /\ ~half /\ \E q \in DOMAIN sent : sent[q].key = k /\ sent[q].is = "init"
            /\ \E is \in {"message", "closed", "first"} :
                 sent' = Append(sent, Envelope(k, is, seq + 1))
  <2>1. PICK is \in {"message", "closed", "first"} : sent' = Append(sent, Envelope(k, is, seq + 1))
    BY <1>10
  <2>2. MayFollow(sent, Envelope(k, is, seq + 1))
    BY <1>1, <1>6, <1>10 DEF MayFollow
  <2> QED  BY <1>1, <1>6, <1>8, <2>1, <2>2
<1>11. CASE half /\ sent' = Append(sent, Envelope(k, "last", seq))
  <2>1. MayFollow(sent, Envelope(k, "last", seq))
    BY <1>1, <1>6, <1>11 DEF MayFollow
  <2> QED  BY <1>1, <1>6, <1>8, <1>11, <2>1
<1>12. CASE /\ ~half /\ \E q \in DOMAIN sent : sent[q].key = k /\ sent[q].is = "init"
            /\ sent' = Append(sent, Envelope(k, "first", seq + 1)) \o <<Envelope(k, "last", seq + 1)>>
  <2> DEFINE e == Envelope(k, "first", seq + 1)
             t == Append(sent, e)
             d == Envelope(k, "last", seq + 1)
  <2>1. e \in InEnvelope /\ d \in InEnvelope /\ e.key = k /\ e.is = "first" /\ e.seq = seq + 1
        /\ d.key = k /\ d.is = "last" /\ d.seq = seq + 1
    BY <1>1, <1>6
  <2>2. MayFollow(sent, e)
    BY <1>12, <2>1 DEF MayFollow
  <2>3. /\ t \in Seq(InEnvelope) /\ LogOK(t) /\ Len(t) = Len(sent) + 1 /\ t[Len(sent) + 1] = e
        /\ \A p \in DOMAIN sent : t[p] = sent[p]
    BY <1>1, <1>7, <2>1, <2>2
  <2>4. Cardinality(Numbered(t, k)) = seq + 1
    BY <1>1, <2>1, NumberedAppend
  <2>5. sent' = Append(t, d)
    BY <1>12, <2>1, <2>3, SMTT(30)
  <2> HIDE DEF e, d, t
  <2>6. HalfIn(t, k, Len(sent) + 1)
    <3>1. Len(sent) + 1 \in DOMAIN t /\ \A q \in DOMAIN t : q < Len(sent) + 1 \/ q = Len(sent) + 1
      BY <1>1, <2>3
    <3> QED  BY <2>1, <2>3, <3>1 DEF HalfIn
  <2>7. MayFollow(t, d)
    BY <1>1, <2>1, <2>3, <2>4, <2>6 DEF MayFollow, HalfIn
  <2>8. /\ sent' \in Seq(InEnvelope) /\ LogOK(sent') /\ Len(sent') = Len(t) + 1
        /\ \A p \in DOMAIN t : sent'[p] = t[p]
    BY <1>7, <2>1, <2>3, <2>5, <2>7
  <2>9. Len(sent) <= Len(sent') /\ \A p \in DOMAIN sent : p \in DOMAIN t
    BY <1>1, <2>3, <2>8
  <2> QED  BY <1>5, <2>3, <2>8, <2>9, LogExtends
<1> HIDE DEF seq, half
<1>13. Append(sent, Envelope(k, "first", seq + 1)) \o <<>> = Append(sent, Envelope(k, "first", seq + 1))
  BY <1>1, <1>6
<1> QED
  BY <1>2, <1>3, <1>4, <1>9, <1>10, <1>11, <1>12, <1>13 DEF ClientSends

-----------------------------------------------------------------------------
(* Steps of the tracker and of the websocket.                              *)

(* Nothing inbound changes, but for the outbound tasks.                    *)
LEMMA InStutters ==
  ASSUME InIInv, UNCHANGED <<link, inVars, client, conns, closed, got>>,
         tasks' \in [running : SUBSET (DOMAIN conns), ended : SUBSET (DOMAIN conns)]
  PROVE  InIInv'
<1> USE DEF InIInv, inVars
<1>1. InTypes' /\ LogInv'
  BY DEF InTypes, LogInv
<1>2. ReadInv'
  BY DEF ReadInv, Key, Held, Assembles
<1>3. TrackInv'
  BY TrackStutters
<1>4. PassedInv' /\ HeldInv'
  BY DEF PassedInv, HeldInv, NeverClosed, Whole, Held, Assembles, From
<1>5. OpenInv'
  BY DEF OpenInv, OpenPast, Recorded, Noted, NeverClosed, Whole, Key, Delivered
<1>6. CursorCovers'
  BY DEF CursorCovers, NeverClosed, Whole, InitBefore, Of, Delivered
<1> QED  BY <1>1, <1>2, <1>3, <1>4, <1>5, <1>6

LEMMA InTaskEnds ==
  ASSUME InIInv, NEW c, TaskEnds(c)
  PROVE  InIInv'
<1>1. tasks \in [running : SUBSET (DOMAIN conns), ended : SUBSET (DOMAIN conns)]
  BY DEF InIInv, InTypes
<1>2. tasks' \in [running : SUBSET (DOMAIN conns), ended : SUBSET (DOMAIN conns)]
  BY <1>1 DEF TaskEnds
<1> QED  BY <1>2, InStutters DEF TaskEnds

(* A stream may be closed, or none is: what is known of the streams that   *)
(* were never closed remains.                                              *)
MayClose == UNCHANGED <<client, closed>> \/ \E k \in Keys : CloseClient(k)

LEMMA CloseKeeps ==
  ASSUME InIInv, MayClose, UNCHANGED <<sent, cursor, conns, got>>
  PROVE  /\ closed' \subseteq DOMAIN conns /\ client' \in [Keys -> [conn : Nat, last : Nat]]
         /\ \A k \in Keys : NeverClosed(k)' => NeverClosed(k) /\ client'[k].conn = client[k].conn
         /\ TrackInv' /\ OpenPast' /\ Noted' /\ CursorCovers'
<1> USE DEF InIInv
<1>1. CASE UNCHANGED <<client, closed>>
  <2>1. TrackInv'
    BY <1>1, TrackStutters
  <2>2. OpenPast' /\ Noted' /\ CursorCovers'
    BY <1>1 DEF OpenInv, OpenPast, Noted, CursorCovers, NeverClosed, Whole, InitBefore, Of, Delivered
  <2> QED  BY <1>1, <2>1, <2>2 DEF InTypes, NeverClosed
<1>2. ASSUME NEW k \in Keys, CloseClient(k)
      PROVE  /\ closed' \subseteq DOMAIN conns /\ client' \in [Keys -> [conn : Nat, last : Nat]]
             /\ \A j \in Keys : NeverClosed(j)' => NeverClosed(j) /\ client'[j].conn = client[j].conn
             /\ TrackInv' /\ OpenPast' /\ Noted' /\ CursorCovers'
  <2>1. /\ closed' \subseteq DOMAIN conns /\ client' \in [Keys -> [conn : Nat, last : Nat]]
        /\ client'[k] = NoClient /\ \A j \in Keys \ {k} : client'[j] = client[j]
        /\ client[k].conn # None => ~NeverClosed(k)'
        /\ \A j \in Keys : NeverClosed(j)' => NeverClosed(j)
    BY <1>2, CloseFacts
  <2>2. TrackInv'
    BY <1>2, TrackCloses
  <2>3. ASSUME NEW j \in Keys, NeverClosed(j)', j = k
        PROVE  client[j].conn = None /\ client'[j].conn = None /\ client'[j].last = 0
    BY <2>1, <2>3 DEF NoClient
  <2>4. \A p \in DOMAIN sent : sent[p].key \in Keys /\ sent[p].seq \in Nat
                               /\ (sent[p].is # "closed" => sent[p].seq # 0)
    BY LogFacts, SentTypes
  <2>5. \A p : Whole(p)' <=> Whole(p)
    BY DEF Whole
  <2>6. Delivered' = Delivered
    BY DEF Delivered
  <2>7. OpenPast'
    BY <2>1, <2>3, <2>4 DEF OpenInv, OpenPast
  <2>8. Noted'
    <3> SUFFICES ASSUME NEW p \in DOMAIN sent, Whole(p), NeverClosed(sent[p].key)',
                        sent[p].seq <= client'[sent[p].key].last
                 PROVE  p \in Delivered
      BY <2>5, <2>6 DEF Noted
    <3>1. sent[p].is # "closed"
      BY DEF Whole
    <3>2. sent[p].key # k
      BY <2>3, <2>4, <3>1
    <3> QED  BY <2>1, <2>4, <3>2 DEF OpenInv, Noted
  <2>9. CursorCovers'
    <3> SUFFICES ASSUME NEW p \in 1..cursor, Whole(p), InitBefore(p) # {}, NeverClosed(sent[p].key)'
                 PROVE  p \in Delivered
      BY <2>5, <2>6 DEF CursorCovers, InitBefore, Of
    <3>1. p \in DOMAIN sent
      BY SentTypes DEF InTypes, ReadInv
    <3> QED  BY <2>1, <2>4, <3>1 DEF CursorCovers
  <2>10. \A j \in Keys : NeverClosed(j)' => client'[j].conn = client[j].conn
    BY <2>1, <2>3
  <2> QED  BY <2>1, <2>2, <2>7, <2>8, <2>9, <2>10
<1> QED  BY <1>1, <1>2 DEF MayClose

(* A new websocket: the relay goes on where the cursor was.                *)
LEMMA InConnect ==
  ASSUME InIInv, Connect
  PROVE  InIInv'
<1> USE DEF InIInv, Connect, trackVars
<1>1. /\ ~link /\ link' = TRUE /\ next' = cursor + 1
      /\ UNCHANGED <<sent, cursor, reader, assembly, chunked, client, tasks, conns, closed, got>>
  OBVIOUS
<1> HIDE DEF Connect
<1>2. cursor \in Nat /\ next \in Nat /\ cursor < next /\ next <= Len(sent) + 1 /\ Len(sent) \in Nat
  BY SentTypes DEF InTypes, ReadInv
<1>3. reader.at = "idle"
  BY <1>1, ReaderTypes DEF ReadInv
<1>4. InTypes' /\ LogInv'
  BY <1>1, <1>2 DEF InTypes, LogInv
<1>5. ReadInv'
  BY <1>1, <1>2, <1>3 DEF ReadInv, Key, Held, Assembles
<1>6. TrackInv'
  BY <1>1, TrackStutters
<1>7. PassedInv'
  BY <1>1, <1>2, SentTypes DEF PassedInv
<1>8. HeldInv'
  <2>1. From' = From
    BY <1>1 DEF From
  <2>2. ~\E p \in DOMAIN sent : p = next' - 1 /\ cursor < p
    BY <1>1, <1>2
  <2> QED  BY <1>1, <2>1, <2>2 DEF HeldInv, NeverClosed, Whole, Held, Assembles
<1>9. OpenInv'
  BY <1>1 DEF OpenInv, OpenPast, Recorded, Noted, NeverClosed, Whole, Key, Delivered
<1>10. CursorCovers'
  BY <1>1 DEF CursorCovers, NeverClosed, Whole, InitBefore, Of, Delivered
<1> QED  BY <1>4, <1>5, <1>6, <1>7, <1>8, <1>9, <1>10

(* The websocket is lost.  What the reader had passed without recording it *)
(* comes again: only chunks, or the message it was handling, and of that   *)
(* nothing is held any more.                                               *)
LEMMA InStops ==
  ASSUME InIInv, Stop, MayClose, UNCHANGED <<sent, next, cursor, assembly, chunked, tasks, conns, got>>
  PROVE  InIInv'
<1> USE DEF InIInv
<1>1. link' = FALSE /\ reader' = Idle
  BY DEF Stop
<1>2. reader'.at = "idle" /\ reader'.pos = 0
  BY <1>1 DEF Idle
<1>3. /\ closed' \subseteq DOMAIN conns /\ client' \in [Keys -> [conn : Nat, last : Nat]]
      /\ \A k \in Keys : NeverClosed(k)' => NeverClosed(k)
      /\ TrackInv' /\ OpenPast' /\ Noted' /\ CursorCovers'
  BY CloseKeeps
<1>4. reader' \in [at : {"idle", "handle", "opened", "record"}, pos : Nat]
  BY <1>1 DEF Idle
<1>5. InTypes' /\ LogInv'
  BY <1>1, <1>3, <1>4 DEF InTypes, LogInv
<1>6. ReadInv'
  BY <1>1, <1>2 DEF ReadInv, Held, Assembles
<1>7. PassedInv'
  BY <1>1 DEF PassedInv
<1>8. cursor \in Nat /\ next \in Nat /\ cursor < next
  BY DEF InTypes, ReadInv
<1>9. ASSUME NEW k \in Keys, Assembles(k), NeverClosed(k), NEW p \in DOMAIN sent,
             sent[p].key = k, sent[p].is = "last"
      PROVE  /\ Whole(p) /\ cursor + 1 <= p => Held(k).seq <= sent[p].seq
             /\ sent[p].seq = Held(k).seq => cursor + 1 <= p
  <2>1. p \in Nat
    BY SentTypes
  <2>2. /\ Whole(p) /\ From <= p => Held(k).seq <= sent[p].seq
        /\ sent[p].seq = Held(k).seq => From <= p
    BY <1>9 DEF HeldInv
  <2>3. cursor + 1 <= From /\ From \in Nat
    BY <1>8 DEF From
  <2>4. CASE From <= p
    BY <1>8, <2>1, <2>2, <2>3, <2>4
  <2>5. CASE p < From
    <3>1. ~(Whole(p) /\ cursor + 1 <= p)
      <4> SUFFICES ASSUME Whole(p), cursor + 1 <= p
                   PROVE  FALSE
        OBVIOUS
      <4>1. link /\ p < next /\ cursor < p
        BY <1>8, <2>1, <2>5 DEF From
      <4>2. p = reader.pos
        BY <1>9, <4>1 DEF PassedInv
      <4>3. reader.at # "idle"
        BY <1>8, <4>1, <4>2 DEF ReadInv
      <4>4. Held(k).seq = 0
        BY <1>9, <4>2, <4>3 DEF ReadInv, Key
      <4> QED  BY <1>9, <4>4 DEF Assembles
    <3>2. sent[p].seq # Held(k).seq
      BY <2>1, <2>2, <2>3, <2>5
    <3> QED  BY <3>1, <3>2
  <2> QED  BY <2>1, <2>3, <2>4, <2>5
<1>10. HeldInv'
  <2>1. From' = cursor + 1
    BY <1>1 DEF From
  <2>2. \A k : (Assembles(k)' <=> Assembles(k)) /\ Held(k)' = Held(k)
    BY DEF Assembles, Held
  <2>3. \A p : Whole(p)' <=> Whole(p)
    BY DEF Whole
  <2> QED  BY <1>1, <1>3, <1>9, <2>1, <2>2, <2>3 DEF HeldInv
<1>11. OpenInv'
  BY <1>2, <1>3 DEF OpenInv, Recorded
<1> QED  BY <1>3, <1>5, <1>6, <1>7, <1>10, <1>11

LEMMA InBreak ==
  ASSUME InIInv, Break
  PROVE  InIInv'
BY InStops DEF Break, trackVars, MayClose

LEMMA InForwardTimeout ==
  ASSUME InIInv, ForwardTimeout
  PROVE  InIInv'
<1>1. reader.at # "idle" => Key \in Keys
  BY ReaderTypes DEF InIInv
<1>2. MayClose
  BY <1>1 DEF ForwardTimeout, MayClose
<1> QED  BY <1>2, InStops DEF ForwardTimeout

(* What a closed stream takes with it from the reassembler.                *)
LEMMA WithoutFacts ==
  ASSUME InTypes, NEW k \in Keys, assembly' = Without(k)
  PROVE  /\ assembly' \in [Clients -> [key : Keys \union {None}, seq : Nat]]
         /\ \A j \in Keys : Assembles(j)' => Assembles(j) /\ Held(j)' = Held(j)
         /\ \A j \in Keys : Held(j).seq = 0 => Held(j)'.seq = 0
         /\ \A j \in Keys \ {k} : Assembles(j) => Assembles(j)' /\ Held(j)' = Held(j)
<1>1. ClientOf[k] \in Clients /\ assembly \in [Clients -> [key : Keys \union {None}, seq : Nat]]
  BY HeldTypes DEF InTypes
<1>2. NoAssembly \in [key : Keys \union {None}, seq : Nat] /\ NoAssembly.seq = 0
  BY DEF NoAssembly
<1>3. CASE ~Assembles(k)
  <2>1. assembly' = assembly
    BY <1>3 DEF Without
  <2> QED  BY <1>1, <2>1 DEF Assembles, Held
<1>4. CASE Assembles(k)
  <2>1. assembly' = [assembly EXCEPT ![ClientOf[k]] = NoAssembly]
    BY <1>4 DEF Without
  <2>2. assembly' \in [Clients -> [key : Keys \union {None}, seq : Nat]]
    BY <1>1, <1>2, <2>1
  <2>3. assembly[ClientOf[k]].key = k
    BY <1>4 DEF Assembles, Held
  <2>4. ASSUME NEW j \in Keys
        PROVE  /\ ClientOf[j] = ClientOf[k] => Held(j)'.seq = 0 /\ ~Assembles(j)'
               /\ ClientOf[j] # ClientOf[k] => Held(j)' = Held(j) /\ (Assembles(j)' <=> Assembles(j))
               /\ ClientOf[j] = ClientOf[k] /\ j # k => ~Assembles(j)
    <3>1. ClientOf[j] \in Clients
      BY HeldTypes
    <3>2. ClientOf[j] = ClientOf[k] => assembly'[ClientOf[j]] = NoAssembly
      BY <1>1, <2>1, <3>1
    <3>3. ClientOf[j] # ClientOf[k] => assembly'[ClientOf[j]] = assembly[ClientOf[j]]
      BY <1>1, <2>1, <3>1
    <3> QED  BY <1>2, <2>3, <3>2, <3>3 DEF Assembles, Held
  <2> QED  BY <2>2, <2>4
<1> QED  BY <1>3, <1>4

(* A stream is closed between two messages.                                *)
LEMMA InCloseStream ==
  ASSUME InIInv, NEW k \in Keys, CloseStream(k), reader = Idle, link, ~NeverClosed(k)',
         tasks' \in [running : SUBSET (DOMAIN conns), ended : SUBSET (DOMAIN conns)]
  PROVE  InIInv'
<1> USE DEF InIInv
<1>1. /\ assembly' = Without(k) /\ chunked' = [chunked EXCEPT ![k] = 0]
      /\ UNCHANGED <<link, sent, next, cursor, reader, conns, got>> /\ CloseClient(k)
  BY DEF CloseStream
<1>2. reader.at = "idle"
  BY DEF Idle
<1>3. MayClose
  BY <1>1 DEF MayClose
<1>4. /\ closed' \subseteq DOMAIN conns /\ client' \in [Keys -> [conn : Nat, last : Nat]]
      /\ \A j \in Keys : NeverClosed(j)' => NeverClosed(j)
      /\ TrackInv' /\ OpenPast' /\ Noted' /\ CursorCovers'
  BY <1>1, <1>3, CloseKeeps
<1>5. /\ assembly' \in [Clients -> [key : Keys \union {None}, seq : Nat]]
      /\ \A j \in Keys : Assembles(j)' => Assembles(j) /\ Held(j)' = Held(j)
      /\ \A j \in Keys \ {k} : Assembles(j) => Assembles(j)' /\ Held(j)' = Held(j)
  BY <1>1, WithoutFacts
<1>6. chunked' \in [Keys -> Nat] /\ \A j \in Keys : chunked'[j] # 0 => chunked'[j] = chunked[j]
  BY <1>1 DEF InTypes
<1>7. InTypes' /\ LogInv'
  BY <1>1, <1>4, <1>5, <1>6 DEF InTypes, LogInv
<1>8. ReadInv'
  <2>1. ASSUME NEW j \in Keys, chunked'[j] # 0
        PROVE  \E p \in DOMAIN sent :
                 p <= cursor /\ sent[p].key = j /\ sent[p].is = "last" /\ sent[p].seq = chunked'[j]
    BY <1>6, <2>1 DEF ReadInv
  <2>2. ASSUME NEW j \in Keys, Assembles(j)'
        PROVE  \E p \in DOMAIN sent :
                 sent[p].key = j /\ sent[p].is = "first" /\ sent[p].seq = (Held(j)').seq
    BY <1>5, <2>2 DEF ReadInv
  <2>3. /\ cursor < next /\ next <= Len(sent) + 1
        /\ cursor # 0 => sent[cursor].is # "first"
        /\ reader.at = "idle" => reader.pos = 0
    BY DEF ReadInv
  <2> QED  BY <1>1, <1>2, <2>1, <2>2, <2>3 DEF ReadInv
<1>9. \A p : Whole(p)' <=> Whole(p)
  BY <1>1 DEF Whole
<1>10. \A p \in DOMAIN sent : sent[p].key \in Keys
  BY SentTypes
<1>11. PassedInv'
  BY <1>1, <1>4, <1>9, <1>10 DEF PassedInv
<1>12. HeldInv'
  <2>1. From' = From
    BY <1>1 DEF From
  <2>2. ASSUME NEW p \in DOMAIN sent, p = next - 1, cursor < p, sent[p].is = "first",
               NeverClosed(sent[p].key)', next \in DOMAIN sent => sent[next].key = sent[p].key
        PROVE  Assembles(sent[p].key)' /\ Held(sent[p].key)'.seq = sent[p].seq
    <3>1. sent[p].key \in Keys \ {k} /\ NeverClosed(sent[p].key)
      BY <1>1, <1>4, <1>10, <2>2
    <3>2. Assembles(sent[p].key) /\ Held(sent[p].key).seq = sent[p].seq
      BY <2>2, <3>1 DEF HeldInv
    <3> QED  BY <1>1, <1>5, <3>1, <3>2
  <2>3. ASSUME NEW j \in Keys, Assembles(j)', NeverClosed(j)', NEW p \in DOMAIN sent,
               sent[p].key = j, sent[p].is = "last"
        PROVE  /\ Whole(p) /\ From <= p => (Held(j)').seq <= sent[p].seq
               /\ sent[p].seq = (Held(j)').seq => From <= p
    BY <1>4, <1>5, <2>3 DEF HeldInv
  <2> QED  BY <1>1, <1>9, <2>1, <2>2, <2>3 DEF HeldInv
<1>13. OpenInv'
  BY <1>1, <1>2, <1>4 DEF OpenInv, Recorded
<1> QED  BY <1>4, <1>7, <1>8, <1>11, <1>12, <1>13

LEMMA InIdleSweep ==
  ASSUME InIInv, NEW k \in Keys, IdleSweep(k)
  PROVE  InIInv'
<1>1. CloseStream(k) /\ reader = Idle /\ link /\ client[k].conn # None /\ tasks' = tasks
  BY DEF IdleSweep
<1>2. ~NeverClosed(k)'
  BY <1>1, CloseFacts DEF CloseStream, InIInv
<1> QED  BY <1>1, <1>2, InCloseStream DEF InIInv, InTypes

LEMMA InJoin ==
  ASSUME InIInv, NEW c, Join(c)
  PROVE  InIInv'
<1>1. tasks \in [running : SUBSET (DOMAIN conns), ended : SUBSET (DOMAIN conns)]
  BY DEF InIInv, InTypes
<1>2. c \in tasks.ended /\ tasks' = [tasks EXCEPT !.ended = @ \ {c}]
  BY DEF Join
<1>3. c \in DOMAIN conns /\ c # None /\ conns[c] \in Keys
  BY <1>1, <1>2, TrackTypes DEF InIInv, None
<1>4. PICK k \in Keys : k = conns[c]
  BY <1>3
<1>5. CloseStream(k) /\ reader = Idle /\ link
  BY <1>4 DEF Join
<1>6. tasks' \in [running : SUBSET (DOMAIN conns), ended : SUBSET (DOMAIN conns)]
  BY <1>1, <1>2
<1>7. /\ closed \subseteq closed' /\ conns' = conns
      /\ client[k].conn # None => ~NeverClosed(k)'
  BY <1>5, CloseFacts DEF CloseStream, InIInv
(* The task's connection is closed already, or the stream's own.           *)
<1>8. ~NeverClosed(k)'
  <2>1. CASE c \in closed
    BY <1>4, <1>7, <2>1 DEF NeverClosed
  <2>2. CASE client[k].conn = c
    BY <1>3, <1>7, <2>2
  <2> QED  BY <1>3, <1>4, <2>1, <2>2 DEF InIInv, TrackInv
<1> QED  BY <1>5, <1>6, <1>8, InCloseStream

-----------------------------------------------------------------------------
(* Steps of the reader.                                                    *)

(* The reader goes on with the envelope it handles, and a stream may be    *)
(* closed.                                                                 *)
LEMMA InHandles ==
  ASSUME InIInv, MayClose, reader.at # "idle",
         UNCHANGED <<link, sent, next, cursor, assembly, chunked, tasks, conns, got>>,
         reader' \in [at : {"handle", "record"}, pos : {reader.pos}],
         Recorded'
  PROVE  InIInv'
<1> USE DEF InIInv
<1>1. reader'.at \in {"handle", "record"} /\ reader'.pos = reader.pos
  OBVIOUS
<1>2. /\ closed' \subseteq DOMAIN conns /\ client' \in [Keys -> [conn : Nat, last : Nat]]
      /\ \A k \in Keys : NeverClosed(k)' => NeverClosed(k)
      /\ TrackInv' /\ OpenPast' /\ Noted' /\ CursorCovers'
  BY CloseKeeps
<1>3. reader.pos \in Nat /\ \A p \in DOMAIN sent : sent[p].key \in Keys
  BY ReaderTypes, SentTypes
<1>4. reader' \in [at : {"idle", "handle", "opened", "record"}, pos : Nat]
  BY <1>3
<1>5. InTypes' /\ LogInv'
  BY <1>2, <1>4 DEF InTypes, LogInv
<1>6. ReadInv'
  BY <1>1 DEF ReadInv, Key, Held, Assembles
<1>7. \A p : Whole(p)' <=> Whole(p)
  BY DEF Whole
<1>8. \A k : (Assembles(k)' <=> Assembles(k)) /\ Held(k)' = Held(k)
  BY DEF Assembles, Held
<1>9. PassedInv'
  BY <1>1, <1>2, <1>3, <1>7 DEF PassedInv
<1>10. From' = From
  BY DEF From
<1>11. HeldInv'
  <2>1. ASSUME link, NEW p \in DOMAIN sent, p = next - 1, cursor < p, sent[p].is = "first",
               NeverClosed(sent[p].key)', next \in DOMAIN sent => sent[next].key = sent[p].key
        PROVE  Assembles(sent[p].key)' /\ Held(sent[p].key)'.seq = sent[p].seq
    <3>1. NeverClosed(sent[p].key)
      BY <1>2, <1>3, <2>1
    <3>2. Assembles(sent[p].key) /\ Held(sent[p].key).seq = sent[p].seq
      BY <2>1, <3>1 DEF HeldInv
    <3> QED  BY <1>8, <3>2
  <2>2. ASSUME NEW j \in Keys, Assembles(j), NeverClosed(j)', NEW p \in DOMAIN sent,
               sent[p].key = j, sent[p].is = "last"
        PROVE  /\ Whole(p) /\ From <= p => Held(j).seq <= sent[p].seq
               /\ sent[p].seq = Held(j).seq => From <= p
    BY <1>2, <2>2 DEF HeldInv
  <2> QED  BY <1>7, <1>8, <1>10, <2>1, <2>2 DEF HeldInv
<1>12. OpenInv'
  BY <1>2 DEF OpenInv
<1> QED  BY <1>2, <1>5, <1>6, <1>9, <1>11, <1>12

(* A stream whose message is handled, and that was never closed, has a     *)
(* connection: its initialize was recorded before.                         *)
LEMMA HandledIsOpen ==
  ASSUME InIInv, reader.at # "idle", sent[reader.pos].is # "init", NeverClosed(Key)
  PROVE  client[Key].conn # None
<1> USE DEF InIInv
<1>1. reader.pos \in DOMAIN sent /\ Key \in Keys /\ reader.pos \in Nat
  BY ReaderTypes
<1>2. PICK q \in DOMAIN sent : q < reader.pos /\ sent[q].is = "init" /\ sent[q].key = Key
  BY <1>1, LogFacts DEF Key
<1>3. link /\ reader.pos = next - 1 /\ next \in Nat /\ q \in Nat /\ cursor \in Nat
  BY SentTypes DEF ReadInv, InTypes
<1>4. q <= cursor
  <2> SUFFICES ASSUME cursor < q
               PROVE  FALSE
    BY <1>3
  <2>1. q < next /\ q # reader.pos
    BY <1>1, <1>2, <1>3
  <2> QED  BY <1>2, <1>3, <2>1 DEF PassedInv
<1> QED  BY <1>2, <1>4 DEF OpenInv, OpenPast

LEMMA InReplaceClient ==
  ASSUME InIInv, ReplaceClient
  PROVE  InIInv'
<1>1. reader.at = "handle" /\ CloseClient(Key)
      /\ UNCHANGED <<link, sent, next, cursor, reader, assembly, chunked, tasks, conns, got>>
  BY DEF ReplaceClient, Handling, inVars
<1>2. Key \in Keys /\ reader = [at |-> reader.at, pos |-> reader.pos]
  BY <1>1, ReaderTypes DEF InIInv
<1>3. MayClose
  BY <1>1, <1>2 DEF MayClose
<1>4. Recorded'
  BY <1>1 DEF Recorded
<1>5. reader' \in [at : {"handle", "record"}, pos : {reader.pos}]
  BY <1>1, <1>2
<1> QED  BY <1>1, <1>3, <1>4, <1>5, InHandles

LEMMA InHandleClosed ==
  ASSUME InIInv, HandleClosed
  PROVE  InIInv'
<1>1. /\ reader.at = "handle" /\ sent[reader.pos].is = "closed" /\ CloseClient(Key)
      /\ reader' = [reader EXCEPT !.at = "record"]
      /\ UNCHANGED <<link, sent, next, cursor, assembly, chunked, tasks, conns, got>>
  BY DEF HandleClosed, Handling, Handled
<1>2. Key \in Keys /\ reader = [at |-> reader.at, pos |-> reader.pos]
  BY <1>1, ReaderTypes DEF InIInv
<1>3. reader' = [at |-> "record", pos |-> reader.pos] /\ reader'.pos = reader.pos
  BY <1>1, <1>2
<1>4. MayClose
  BY <1>1, <1>2 DEF MayClose
<1>5. PICK k \in Keys : k = Key
  BY <1>2
<1>6. Key' = k
  BY <1>1, <1>3, <1>5 DEF Key
<1>7. ~NeverClosed(k)'
  <2>1. CASE ~NeverClosed(k)
    BY <1>1, <1>4, <2>1, CloseKeeps
  <2>2. CASE NeverClosed(k)
    <3>1. client[k].conn # None
      BY <1>1, <1>5, <2>2, HandledIsOpen
    <3> QED  BY <1>1, <1>5, <3>1, CloseFacts DEF InIInv
  <2> QED  BY <2>1, <2>2
<1>8. Recorded'
  BY <1>6, <1>7 DEF Recorded
<1> QED  BY <1>1, <1>3, <1>4, <1>8, InHandles

LEMMA InDelivers ==
  ASSUME InIInv, Deliver, reader.at # "idle", reader' = [reader EXCEPT !.at = "record"],
         UNCHANGED <<link, next, cursor, assembly, chunked, tasks>>
  PROVE  InIInv'
<1> USE DEF InIInv
<1>1. /\ reader.pos \in DOMAIN sent /\ Key \in Keys /\ reader.pos \in Nat
      /\ reader = [at |-> reader.at, pos |-> reader.pos]
  BY ReaderTypes
<1>2. reader' = [at |-> "record", pos |-> reader.pos]
  BY <1>1
<1>3. reader'.at = "record" /\ reader'.pos = reader.pos
      /\ reader' \in [at : {"idle", "handle", "opened", "record"}, pos : Nat]
  BY <1>1, <1>2
<1>4. /\ client' \in [Keys -> [conn : Nat, last : Nat]]
      /\ \A j \in Keys : client'[j].conn = client[j].conn
      /\ \A j \in Keys \ {Key} : client'[j].last = client[j].last
      /\ client'[Key].last = sent[reader.pos].seq
      /\ got' \in Seq((DOMAIN conns) \X (DOMAIN sent))
      /\ Delivered' = Delivered \union {reader.pos}
  BY <1>1, DeliverFacts
<1>5. UNCHANGED <<sent, conns, closed>> /\ client[Key].conn # None
      /\ sent[reader.pos].is \in {"init", "message", "last"}
  BY DEF Deliver
<1>6. Key' = Key
  BY <1>3, <1>5 DEF Key
<1>7. InTypes' /\ LogInv'
  BY <1>3, <1>4, <1>5 DEF InTypes, LogInv
<1>8. ReadInv'
  BY <1>3, <1>5, <1>6 DEF ReadInv, Held, Assembles
<1>9. TrackInv'
  BY <1>1, TrackDelivers
<1>10. \A p : Whole(p)' <=> Whole(p)
  BY <1>5 DEF Whole
<1>11. \A k : NeverClosed(k)' <=> NeverClosed(k)
  BY <1>5 DEF NeverClosed
<1>12. PassedInv'
  BY <1>3, <1>5, <1>10, <1>11 DEF PassedInv
<1>13. HeldInv'
  BY <1>5, <1>10, <1>11 DEF HeldInv, Held, Assembles, From
<1>14. \A p \in DOMAIN sent : sent[p].key \in Keys /\ sent[p].seq \in Nat /\ p \in Nat
  BY SentTypes
<1>15. OpenPast'
  BY <1>4, <1>5, <1>11, <1>14 DEF OpenInv, OpenPast
<1>16. Recorded'
  BY <1>1, <1>3, <1>4, <1>5, <1>6 DEF Recorded
(* The stream's messages before this one were delivered too.               *)
<1>17. ASSUME NEW p \in DOMAIN sent, Whole(p), NeverClosed(Key), sent[p].key = Key,
              sent[p].seq <= sent[reader.pos].seq
       PROVE  p \in Delivered'
  <2>1. CASE p = reader.pos
    BY <1>4, <2>1
  <2>2. CASE reader.pos < p
    <3>1. sent[p].is \in {"message", "last"} /\ sent[reader.pos].key = sent[p].key
      BY <1>17 DEF Whole, Key
    <3>2. sent[reader.pos].seq < sent[p].seq
      BY <1>1, <1>5, <2>2, <3>1, LogFacts
    <3> QED  BY <1>1, <1>14, <1>17, <3>2
  <2>3. CASE p < reader.pos
    <3>1. link /\ reader.pos = next - 1 /\ next \in Nat /\ cursor \in Nat
      BY DEF ReadInv, InTypes
    <3>2. p <= cursor
      <4> SUFFICES ASSUME cursor < p
                   PROVE  FALSE
        BY <1>14, <3>1
      <4>1. p < next /\ p # reader.pos
        BY <1>1, <1>14, <2>3, <3>1
      <4> QED  BY <1>17, <3>1, <4>1 DEF PassedInv
    <3>3. p \in 1..cursor
      BY <1>14, <3>1, <3>2, SentTypes
    <3>4. sent[p].is # "init"
      BY <1>17 DEF Whole
    <3>5. InitBefore(p) # {}
      BY <3>4, LogFacts DEF InitBefore, Of
    <3> QED  BY <1>4, <1>17, <3>3, <3>5 DEF CursorCovers
  <2> QED  BY <1>1, <1>14, <2>1, <2>2, <2>3
<1>18. Noted'
  <2> SUFFICES ASSUME NEW p \in DOMAIN sent, Whole(p), NeverClosed(sent[p].key),
                      sent[p].seq <= client'[sent[p].key].last
               PROVE  p \in Delivered'
    BY <1>5, <1>10, <1>11 DEF Noted
  <2>1. CASE sent[p].key = Key
    BY <1>4, <1>17, <2>1
  <2>2. CASE sent[p].key # Key
    BY <1>4, <1>14, <2>2 DEF OpenInv, Noted
  <2> QED  BY <2>1, <2>2
<1>19. CursorCovers'
  BY <1>4, <1>5, <1>10, <1>11 DEF CursorCovers, InitBefore, Of
<1> QED  BY <1>7, <1>8, <1>9, <1>12, <1>13, <1>15, <1>16, <1>18, <1>19 DEF OpenInv

LEMMA InForwardInit ==
  ASSUME InIInv, ForwardInit
  PROVE  InIInv'
<1>1. reader.at = "opened" /\ reader' = [reader EXCEPT !.at = "record"]
      /\ UNCHANGED <<link, next, cursor, assembly, chunked, tasks>>
  BY DEF ForwardInit, Handled
<1>2. reader.pos \in DOMAIN sent
  BY <1>1, ReaderTypes DEF InIInv
<1>3. sent[reader.pos].is = "init" /\ client[Key].conn # None /\ client[Key].last = 0
  BY <1>1 DEF InIInv, ReadInv
<1>4. 0 < sent[reader.pos].seq
  BY <1>2, <1>3, LogFacts, SentTypes DEF InIInv
<1>5. Deliver
  BY <1>3, <1>4 DEF ForwardInit, Deliver
<1> QED  BY <1>1, <1>5, InDelivers

LEMMA InHandleMessage ==
  ASSUME InIInv, HandleMessage
  PROVE  InIInv'
<1> DEFINE seq == sent[reader.pos].seq
<1>1. /\ reader.at = "handle" /\ sent[reader.pos].is \in {"message", "last"}
      /\ reader' = [reader EXCEPT !.at = "record"]
      /\ UNCHANGED <<link, sent, next, cursor, assembly, chunked, tasks, conns, closed>>
  BY DEF HandleMessage, Handling, Handled
<1>2. /\ reader.pos \in DOMAIN sent /\ Key \in Keys
      /\ reader = [at |-> reader.at, pos |-> reader.pos]
  BY <1>1, ReaderTypes DEF InIInv
<1>3. client[Key].last \in Nat /\ seq \in Nat
  BY <1>2, TrackTypes, SentTypes DEF InIInv
<1>4. CASE client[Key].conn = None \/ client[Key].last >= seq
  <2>1. UNCHANGED <<client, got>>
    BY <1>4 DEF HandleMessage
  <2>2. MayClose
    BY <1>1, <2>1 DEF MayClose
  <2>3. reader' = [at |-> "record", pos |-> reader.pos] /\ reader'.pos = reader.pos
    BY <1>1, <1>2
  <2>4. Key' = Key /\ sent[reader.pos].key = Key
    BY <1>1, <2>3 DEF Key
  <2>5. NeverClosed(Key) /\ Whole(reader.pos) => reader.pos \in Delivered
    <3> SUFFICES ASSUME NeverClosed(Key), Whole(reader.pos)
                 PROVE  reader.pos \in Delivered
      OBVIOUS
    <3>1. client[Key].conn # None
      BY <1>1, HandledIsOpen
    <3>2. seq <= client[Key].last
      BY <1>3, <1>4, <3>1
    <3> QED  BY <1>2, <2>4, <3>2 DEF InIInv, OpenInv, Noted
  <2>6. (NeverClosed(Key)' <=> NeverClosed(Key)) /\ Delivered' = Delivered
        /\ (Whole(reader.pos)' <=> Whole(reader.pos))
    BY <1>1, <2>1, <2>3, <2>4 DEF NeverClosed, Delivered, Whole
  <2>7. Recorded'
    BY <1>1, <2>3, <2>5, <2>6 DEF Recorded
  <2> QED  BY <1>1, <2>1, <2>2, <2>3, <2>7, InHandles
<1>5. CASE ~(client[Key].conn = None \/ client[Key].last >= seq)
  <2>1. Deliver
    BY <1>1, <1>3, <1>5 DEF HandleMessage, Deliver
  <2> QED  BY <1>1, <2>1, InDelivers
<1> QED  BY <1>4, <1>5

(* A stream without a connection gets a new one.                           *)
LEMMA InOpenClient ==
  ASSUME InIInv, OpenClient
  PROVE  InIInv'
<1> USE DEF InIInv
<1> DEFINE n == Len(conns) + 1
<1>1. /\ reader.at = "handle" /\ sent[reader.pos].is = "init" /\ client[Key].conn = None
      /\ reader' = [reader EXCEPT !.at = "opened"] /\ conns' = Append(conns, Key)
      /\ UNCHANGED <<link, sent, next, cursor, assembly, chunked, closed, got>>
  BY DEF OpenClient, Handling
<1>2. /\ reader.pos \in DOMAIN sent /\ Key \in Keys /\ reader.pos \in Nat
      /\ reader = [at |-> reader.at, pos |-> reader.pos]
  BY <1>1, ReaderTypes
<1>3. reader' = [at |-> "opened", pos |-> reader.pos] /\ reader'.at = "opened"
      /\ reader'.pos = reader.pos
      /\ reader' \in [at : {"idle", "handle", "opened", "record"}, pos : Nat]
  BY <1>1, <1>2
<1>4. PICK k \in Keys : k = Key
  BY <1>2
<1>5. /\ Len(conns) \in Nat /\ DOMAIN conns = 1..Len(conns)
      /\ \A c \in DOMAIN conns : c \in Nat /\ c # 0 /\ conns[c] \in Keys
  BY TrackTypes
<1>6. /\ conns' \in Seq(Keys) /\ Len(conns') = n /\ DOMAIN conns' = 1..n /\ conns'[n] = k
      /\ n \in DOMAIN conns'
      /\ \A c \in DOMAIN conns : c \in DOMAIN conns' /\ c # n /\ conns'[c] = conns[c]
  <2>1. conns' = Append(conns, k) /\ conns \in Seq(Keys)
    BY <1>1, <1>4 DEF InTypes
  <2> HIDE DEF InIInv
  <2> QED  BY <2>1
<1>7. n \in Nat /\ n # None /\ n \notin DOMAIN conns /\ \A c \in DOMAIN conns' : c \in DOMAIN conns \/ c = n
  BY <1>5, <1>6 DEF None
<1>8. /\ client' = [client EXCEPT ![k] = [conn |-> n, last |-> 0]]
      /\ tasks' = [tasks EXCEPT !.running = @ \union {n}]
  BY <1>4, <1>6 DEF OpenClient
<1> HIDE DEF n
<1>9. /\ client' \in [Keys -> [conn : Nat, last : Nat]] /\ client'[k] = [conn |-> n, last |-> 0]
      /\ \A j \in Keys \ {k} : client'[j] = client[j]
  BY <1>7, <1>8 DEF InTypes
<1>10. client'[k].conn = n /\ client'[k].last = 0
  BY <1>9
<1>11. closed \subseteq DOMAIN conns
  BY DEF InTypes
<1>12. \A j : NeverClosed(j)' <=> NeverClosed(j)
  BY <1>1, <1>6, <1>11 DEF NeverClosed
<1>13. \A p : Whole(p)' <=> Whole(p)
  BY <1>1 DEF Whole
<1>14. Delivered' = Delivered /\ Key' = Key
  BY <1>1, <1>3 DEF Delivered, Key
<1>15. \A p \in DOMAIN sent : sent[p].key \in Keys /\ sent[p].seq \in Nat /\ (sent[p].is # "closed" => sent[p].seq # 0)
  BY SentTypes, LogFacts
<1>16. InTypes'
  <2>1. tasks \in [running : SUBSET (DOMAIN conns), ended : SUBSET (DOMAIN conns)]
    BY DEF InTypes
  <2>2. DOMAIN conns \subseteq DOMAIN conns' /\ n \in DOMAIN conns'
    BY <1>5, <1>6, <1>7
  <2>3. tasks' \in [running : SUBSET (DOMAIN conns'), ended : SUBSET (DOMAIN conns')]
    BY <1>8, <2>1, <2>2
  <2>4. got \in Seq((DOMAIN conns') \X (DOMAIN sent))
    <3>1. got \in Seq((DOMAIN conns) \X (DOMAIN sent))
      BY DEF InTypes
    <3>2. \A i \in DOMAIN got : got[i] \in (DOMAIN conns') \X (DOMAIN sent)
      BY <2>2, <3>1
    <3> QED  BY <3>1, <3>2
  <2> QED  BY <1>1, <1>3, <1>6, <1>9, <1>11, <2>2, <2>3, <2>4 DEF InTypes
<1>17. ReadInv'
  BY <1>1, <1>3, <1>4, <1>7, <1>10, <1>14 DEF ReadInv, Held, Assembles
<1>18. TrackInv'
  <2>1. \A j \in Keys : client'[j].conn # None =>
          client'[j].conn \in DOMAIN conns' /\ conns'[client'[j].conn] = j /\ client'[j].conn \notin closed
    <3> SUFFICES ASSUME NEW j \in Keys, client'[j].conn # None
                 PROVE  /\ client'[j].conn \in DOMAIN conns' /\ conns'[client'[j].conn] = j
                        /\ client'[j].conn \notin closed
      OBVIOUS
    <3>1. CASE j = k
      <4>1. n \in DOMAIN conns' /\ n \notin closed
        BY <1>5, <1>6, <1>7, <1>11
      <4> QED  BY <1>6, <1>10, <3>1, <4>1
    <3>2. CASE j # k
      BY <1>6, <1>9, <3>2 DEF TrackInv
    <3> QED  BY <3>1, <3>2
  <2>2. ASSUME NEW c \in DOMAIN conns' PROVE c \in closed \/ client'[conns'[c]].conn = c
    <3>1. CASE c = n
      BY <1>6, <1>10, <3>1
    <3>2. CASE c \in DOMAIN conns
      <4>1. c \in closed \/ client[conns[c]].conn = c
        BY <3>2 DEF TrackInv
      <4>2. conns[c] = k => client[conns[c]].conn # c
        BY <1>1, <1>4, <1>5, <3>2 DEF None
      <4> QED  BY <1>5, <1>6, <1>9, <3>2, <4>1, <4>2
    <3> QED  BY <1>7, <3>1, <3>2
  <2>3. \A j \in Keys : client'[j].last # 0 =>
          \E p \in DOMAIN sent :
            /\ sent[p].key = j /\ sent[p].is \in {"init", "message", "last"}
            /\ sent[p].seq = client'[j].last
    BY <1>9, <1>10 DEF TrackInv
  <2>4. \A i \in DOMAIN got : got[i][1] \in DOMAIN conns /\ got[i][2] \in DOMAIN sent
    BY TrackTypes
  <2>5. ASSUME NEW i \in DOMAIN got
        PROVE  /\ conns'[got[i][1]] = sent[got[i][2]].key
               /\ sent[got[i][2]].is \in {"init", "message", "last"}
               /\ client'[sent[got[i][2]].key].conn = got[i][1] =>
                    sent[got[i][2]].seq <= client'[sent[got[i][2]].key].last
    <3>1. /\ conns'[got[i][1]] = sent[got[i][2]].key
          /\ sent[got[i][2]].is \in {"init", "message", "last"}
          /\ client[sent[got[i][2]].key].conn = got[i][1] =>
               sent[got[i][2]].seq <= client[sent[got[i][2]].key].last
      BY <1>6, <2>4 DEF TrackInv
    <3>2. sent[got[i][2]].key = k => client'[sent[got[i][2]].key].conn # got[i][1]
      BY <1>7, <1>10, <2>4
    <3>3. sent[got[i][2]].key # k => client'[sent[got[i][2]].key] = client[sent[got[i][2]].key]
      BY <1>9, <1>15, <2>4
    <3> QED  BY <3>1, <3>2, <3>3
  <2>6. DeliveredOnce'
    BY <1>1, <1>6, <2>4 DEF TrackInv, DeliveredOnce
  <2>7. UNCHANGED <<sent, closed, got>>
    BY <1>1
  <2> HIDE DEF InIInv
  <2> QED  BY <2>1, <2>2, <2>3, <2>5, <2>6, <2>7 DEF TrackInv
<1>19. PassedInv'
  BY <1>1, <1>3, <1>12, <1>13 DEF PassedInv
<1>20. HeldInv'
  BY <1>1, <1>12, <1>13 DEF HeldInv, Held, Assembles, From
<1>21. OpenPast'
  <2>1. \A j \in Keys : client[j].conn # None => client'[j].conn # None
    BY <1>7, <1>9, <1>10
  <2> QED  BY <1>1, <1>12, <1>15, <2>1 DEF OpenInv, OpenPast
<1>22. Noted'
  <2> SUFFICES ASSUME NEW p \in DOMAIN sent, Whole(p), NeverClosed(sent[p].key),
                      sent[p].seq <= client'[sent[p].key].last
               PROVE  p \in Delivered
    BY <1>1, <1>12, <1>13, <1>14 DEF Noted
  <2>1. sent[p].is # "closed"
    BY DEF Whole
  <2>2. sent[p].key # k
    BY <1>10, <1>15, <2>1
  <2> QED  BY <1>9, <1>15, <2>2 DEF OpenInv, Noted
<1>23. Recorded'
  BY <1>3 DEF Recorded
<1>24. CursorCovers'
  BY <1>1, <1>12, <1>13, <1>14 DEF CursorCovers, InitBefore, Of
<1> QED  BY <1>1, <1>16, <1>17, <1>18, <1>19, <1>20, <1>21, <1>22, <1>23, <1>24 DEF OpenInv, LogInv

(* The cursor moves to the envelope that was handled: nothing between was  *)
(* a whole message or an initialize.                                       *)
LEMMA InRecord ==
  ASSUME InIInv, Record
  PROVE  InIInv'
<1> USE DEF InIInv
<1> DEFINE e == sent[reader.pos]
<1>1. /\ reader.at = "record" /\ cursor' = reader.pos /\ reader' = Idle
      /\ UNCHANGED <<link, sent, next, client, tasks, conns, closed, got>>
  BY DEF Record, trackVars
<1>2. /\ reader.pos \in DOMAIN sent /\ Key \in Keys /\ reader.pos \in Nat
  BY <1>1, ReaderTypes
<1>3. PICK k \in Keys : k = Key
  BY <1>2
<1>4. e.key = k /\ e.seq \in Nat /\ e.is # "first" /\ link /\ reader.pos = next - 1 /\ cursor < reader.pos
      /\ cursor \in Nat /\ next \in Nat /\ next <= Len(sent) + 1
  BY <1>1, <1>2, <1>3, SentTypes DEF ReadInv, InTypes, Key
<1>5. chunked' = CASE e.is = "last" -> [chunked EXCEPT ![k] = e.seq]
                   [] e.is = "closed" -> [chunked EXCEPT ![k] = 0]
                   [] OTHER -> chunked
  BY <1>4 DEF Record
<1>6. assembly' = IF e.is = "closed" THEN Without(k) ELSE assembly
  BY <1>4 DEF Record
<1> HIDE DEF e
<1>7. chunked' \in [Keys -> Nat]
      /\ \A j \in Keys : chunked'[j] # 0 => chunked'[j] = chunked[j] \/ (j = k /\ e.is = "last" /\ chunked'[j] = e.seq)
  BY <1>4, <1>5 DEF InTypes
<1>8. /\ assembly' \in [Clients -> [key : Keys \union {None}, seq : Nat]]
      /\ \A j \in Keys : Assembles(j)' => Assembles(j) /\ Held(j)' = Held(j)
  <2>1. CASE e.is = "closed"
    BY <1>6, <2>1, WithoutFacts
  <2>2. CASE e.is # "closed"
    <3>1. assembly' = assembly
      BY <1>6, <2>2
    <3> QED  BY <3>1 DEF InTypes, Assembles, Held
  <2> QED  BY <2>1, <2>2
<1>9. reader'.at = "idle" /\ reader'.pos = 0
      /\ reader' \in [at : {"idle", "handle", "opened", "record"}, pos : Nat]
  BY <1>1 DEF Idle
<1>10. InTypes' /\ LogInv'
  BY <1>1, <1>2, <1>7, <1>8, <1>9 DEF InTypes, LogInv
<1>11. \A p : Whole(p)' <=> Whole(p)
  BY <1>1 DEF Whole
<1>12. \A j : NeverClosed(j)' <=> NeverClosed(j)
  BY <1>1 DEF NeverClosed
<1>13. ReadInv'
  <2>1. ASSUME NEW j \in Keys, chunked'[j] # 0
        PROVE  \E p \in DOMAIN sent :
                 p <= reader.pos /\ sent[p].key = j /\ sent[p].is = "last" /\ sent[p].seq = chunked'[j]
    <3>1. CASE j = k /\ e.is = "last" /\ chunked'[j] = e.seq
      BY <1>2, <1>4, <3>1 DEF e
    <3>2. CASE chunked'[j] = chunked[j]
      <4>1. PICK p \in DOMAIN sent :
              p <= cursor /\ sent[p].key = j /\ sent[p].is = "last" /\ sent[p].seq = chunked[j]
        BY <2>1, <3>2 DEF ReadInv
      <4>2. p <= reader.pos
        BY <1>2, <1>4, <4>1, SentTypes
      <4> QED  BY <3>2, <4>1, <4>2
    <3> QED  BY <1>7, <2>1, <3>1, <3>2
  <2>2. ASSUME NEW j \in Keys, Assembles(j)'
        PROVE  \E p \in DOMAIN sent :
                 sent[p].key = j /\ sent[p].is = "first" /\ sent[p].seq = (Held(j)').seq
    BY <1>8, <2>2 DEF ReadInv
  <2>3. reader.pos < next /\ sent[reader.pos].is # "first"
    BY <1>4 DEF e
  <2> QED  BY <1>1, <1>4, <1>9, <2>1, <2>2, <2>3 DEF ReadInv
<1>14. TrackInv'
  BY <1>1, TrackStutters
<1>15. PassedInv'
  BY <1>1, <1>4, SentTypes DEF PassedInv
<1>16. HeldInv'
  <2>1. From' = From
    BY <1>1, <1>4 DEF From
  <2>2. ~\E p \in DOMAIN sent : p = next - 1 /\ reader.pos < p
    BY <1>4
  <2>3. ASSUME NEW j \in Keys, Assembles(j)', NeverClosed(j), NEW p \in DOMAIN sent,
               sent[p].key = j, sent[p].is = "last"
        PROVE  /\ Whole(p) /\ From <= p => (Held(j)').seq <= sent[p].seq
               /\ sent[p].seq = (Held(j)').seq => From <= p
    BY <1>8, <2>3 DEF HeldInv
  <2> QED  BY <1>1, <1>11, <1>12, <2>1, <2>2, <2>3 DEF HeldInv
(* What the reader had passed on the way are chunks.                       *)
<1>17. ASSUME NEW p \in DOMAIN sent, p <= reader.pos, NeverClosed(sent[p].key)
       PROVE  \/ p <= cursor \/ p = reader.pos
              \/ sent[p].is \in {"first", "last"} /\ ~Whole(p)
  <2> SUFFICES ASSUME ~(p <= cursor), p # reader.pos
               PROVE  sent[p].is \in {"first", "last"} /\ ~Whole(p)
    OBVIOUS
  <2>1. cursor < p /\ p < next
    BY <1>2, <1>4, <1>17, SentTypes
  <2> QED  BY <1>4, <1>17, <2>1 DEF PassedInv
<1>18. OpenPast'
  <2> SUFFICES ASSUME NEW p \in DOMAIN sent, sent[p].is = "init", p <= reader.pos,
                      NeverClosed(sent[p].key)
               PROVE  client[sent[p].key].conn # None
    BY <1>1, <1>12 DEF OpenPast
  <2>1. CASE p <= cursor
    BY <2>1 DEF OpenInv, OpenPast
  <2>2. CASE p = reader.pos
    BY <1>1, <2>2 DEF OpenInv, Recorded, Key
  <2> QED  BY <1>17, <2>1, <2>2
<1>19. Noted' /\ Recorded'
  BY <1>1, <1>9, <1>11, <1>12 DEF OpenInv, Noted, Recorded, Delivered
<1>20. CursorCovers'
  <2> SUFFICES ASSUME NEW p \in 1..reader.pos, Whole(p), InitBefore(p) # {}, NeverClosed(sent[p].key)
               PROVE  p \in Delivered
    BY <1>1, <1>11, <1>12 DEF CursorCovers, InitBefore, Of, Delivered
  <2>1. p \in DOMAIN sent /\ p <= reader.pos /\ p \in Nat /\ 1 <= p
    BY <1>2, SentTypes
  <2>2. CASE p <= cursor
    <3>1. p \in 1..cursor
      BY <1>4, <2>1, <2>2
    <3> QED  BY <3>1 DEF CursorCovers
  <2>3. CASE p = reader.pos
    BY <1>1, <2>3 DEF OpenInv, Recorded, Key
  <2> QED  BY <1>17, <2>1, <2>2, <2>3
<1> QED  BY <1>10, <1>13, <1>14, <1>15, <1>16, <1>18, <1>19, <1>20 DEF OpenInv

(* A chunk of a number that was completed before never comes again on a    *)
(* stream that goes on: a chunk behind the cursor has a higher number.     *)
LEMMA NotCompleted ==
  ASSUME InIInv, NEW p \in DOMAIN sent, sent[p].is \in {"first", "last"}, cursor < p
  PROVE  chunked[sent[p].key] < sent[p].seq
<1> USE DEF InIInv
<1> DEFINE k == sent[p].key
<1>1. k \in Keys /\ sent[p].seq \in Nat /\ p \in Nat
  BY SentTypes
<1>2. chunked[k] \in Nat /\ cursor \in Nat
  BY <1>1 DEF InTypes
<1>3. sent[p].seq # 0
  BY LogFacts
<1>4. CASE chunked[k] = 0
  BY <1>1, <1>3, <1>4
<1>5. CASE chunked[k] # 0
  <2>1. PICK q \in DOMAIN sent :
          q <= cursor /\ sent[q].key = k /\ sent[q].is = "last" /\ sent[q].seq = chunked[k]
    BY <1>1, <1>5 DEF ReadInv
  <2>2. q < p
    BY <1>1, <1>2, <2>1, SentTypes
  <2>3. sent[q].seq < sent[p].seq
    BY <2>1, <2>2, LogFacts
  <2> QED  BY <2>1, <2>3
<1> QED  BY <1>4, <1>5

(* The last chunk of a message whose chunks are adjacent completes it.     *)
LEMMA AdjacentCompletes ==
  ASSUME InIInv, link, reader = Idle, next \in DOMAIN sent, Whole(next), sent[next].is = "last",
         NeverClosed(sent[next].key)
  PROVE  /\ Assembles(sent[next].key) /\ Held(sent[next].key).seq = sent[next].seq
         /\ ~Ignored(sent[next])
<1> USE DEF InIInv
<1> DEFINE k == sent[next].key
<1>1. next \in Nat /\ cursor \in Nat /\ cursor < next /\ k \in Keys /\ sent[next].seq \in Nat
  BY SentTypes DEF InTypes, ReadInv
<1>2. next > 1 /\ sent[next - 1].key = k /\ next - 1 \in DOMAIN sent
  BY <1>1, SentTypes DEF Whole
<1>3. PICK f \in DOMAIN sent :
        /\ f < next /\ sent[f].is = "first" /\ sent[f].key = k /\ sent[f].seq = sent[next].seq
        /\ \A r \in DOMAIN sent : sent[r].key = k => r <= f \/ next <= r
  BY LogFacts
<1>4. f = next - 1
  <2>1. next - 1 <= f
    BY <1>1, <1>2, <1>3
  <2> QED  BY <1>1, <1>3, <2>1, SentTypes
<1>5. cursor < f
  <2>1. cursor # f
    BY <1>1, <1>2, <1>3, <1>4 DEF ReadInv
  <2> QED  BY <1>1, <1>4, <2>1
<1>6. Assembles(k) /\ Held(k).seq = sent[next].seq
  BY <1>3, <1>4, <1>5 DEF HeldInv
<1>7. chunked[k] < sent[next].seq
  BY <1>1, NotCompleted
<1>8. chunked[k] \in Nat
  BY <1>1 DEF InTypes
<1> QED  BY <1>1, <1>6, <1>7, <1>8 DEF Ignored

(* A first chunk whose last one is adjacent, or still to come, is held.    *)
LEMMA FirstIsHeld ==
  ASSUME InIInv, link, reader = Idle, next \in DOMAIN sent, sent[next].is = "first",
         NeverClosed(sent[next].key),
         next + 1 \in DOMAIN sent => sent[next + 1].key = sent[next].key,
         Assembles(sent[next].key)
  PROVE  Held(sent[next].key).seq = sent[next].seq
<1> USE DEF InIInv
<1> DEFINE k == sent[next].key
           h == Held(k).seq
<1>1. next \in Nat /\ k \in Keys /\ sent[next].seq \in Nat /\ h \in Nat
  BY SentTypes, HeldTypes
<1>2. PICK f \in DOMAIN sent : sent[f].key = k /\ sent[f].is = "first" /\ sent[f].seq = h
  BY <1>1 DEF ReadInv
<1>3. f \in Nat /\ f <= Len(sent) /\ Len(sent) \in Nat /\ From = next
  BY SentTypes DEF From
<1>4. CASE f = next
  BY <1>2, <1>4
<1>5. CASE f < next
  <2>1. PICK q \in DOMAIN sent :
          /\ f < q /\ q <= next
          /\ sent[q].is = "last" /\ sent[q].key = k /\ sent[q].seq = h
    BY <1>2, <1>5, LogFacts
  <2>2. q < next
    BY <1>1, <2>1, SentTypes
  <2>3. From <= q
    BY <1>1, <2>1 DEF HeldInv
  <2> QED  BY <1>1, <1>3, <2>1, <2>2, <2>3, SentTypes
<1>6. CASE next < f
  <2>1. next + 1 \in DOMAIN sent /\ next < next + 1
    BY <1>1, <1>3, <1>6, SentTypes
  <2>2. PICK q \in DOMAIN sent :
          /\ next < q /\ q <= next + 1
          /\ sent[q].is = "last" /\ sent[q].key = k /\ sent[q].seq = sent[next].seq
    BY <2>1, LogFacts
  <2>3. q = next + 1 /\ q > 1 /\ q - 1 = next /\ From <= q
    BY <1>1, <1>3, <2>2, SentTypes
  <2>4. Whole(q)
    BY <2>2, <2>3 DEF Whole
  <2>5. h <= sent[next].seq
    BY <1>1, <2>2, <2>3, <2>4 DEF HeldInv
  <2>6. sent[next].seq < h
    BY <1>2, <1>6, LogFacts
  <2> QED  BY <1>1, <2>5, <2>6
<1> QED  BY <1>1, <1>3, <1>4, <1>5, <1>6

(* What the reassembler holds after an envelope is observed.               *)
LEMMA ObserveFacts ==
  ASSUME InIInv, NEW e \in InEnvelope, e.is # "closed" => e.seq # 0,
         assembly' = Observe(e).assembly, NEW k \in Keys, k = e.key
  PROVE  /\ assembly' \in [Clients -> [key : Keys \union {None}, seq : Nat]]
         /\ \A j \in Keys : Assembles(j)' =>
              \/ /\ Assembles(j) /\ Held(j)' = Held(j)
                 /\ ~(j = k /\ e.is = "last" /\ ~Ignored(e))
              \/ j = k /\ (Held(j)').seq = e.seq /\ e.is = "first"
         /\ Observe(e).forward => e.is # "first" /\ (e.is = "last" => (Held(k)').seq = 0)
         /\ ~Observe(e).forward =>
              /\ e.is \in {"first", "last"}
              /\ e.is = "last" /\ ~Ignored(e) => ~(Assembles(k) /\ Held(k).seq = e.seq)
         /\ e.is = "first" /\ ~Ignored(e) /\ (Assembles(k) => Held(k).seq = e.seq) =>
              Assembles(k)' /\ (Held(k)').seq = e.seq
<1> USE DEF InIInv
<1>1. e.seq \in Nat /\ e.is \in {"init", "message", "first", "last", "closed"}
  BY DEF InEnvelope
<1>2. PICK slot \in Clients : slot = ClientOf[k]
  BY HeldTypes
<1>3. assembly \in [Clients -> [key : Keys \union {None}, seq : Nat]]
  BY DEF InTypes
<1>4. NoAssembly \in [key : Keys \union {None}, seq : Nat] /\ NoAssembly.seq = 0
  BY DEF NoAssembly
<1>5. \A j \in Keys : ClientOf[j] \in Clients
  BY HeldTypes
(* One slot is changed, or none.                                           *)
<1>6. ASSUME NEW v \in [key : Keys \union {None}, seq : Nat],
             assembly' = [assembly EXCEPT ![slot] = v]
      PROVE  /\ assembly' \in [Clients -> [key : Keys \union {None}, seq : Nat]]
             /\ \A j \in Keys : ClientOf[j] = slot => Held(j)' = v
             /\ \A j \in Keys : ClientOf[j] # slot => Held(j)' = Held(j) /\ j # k
  BY <1>2, <1>3, <1>5, <1>6 DEF Held
<1>7. CASE e.is \notin {"first", "last"} \/ (e.is \in {"first", "last"} /\ Ignored(e))
  <2>1. assembly' = assembly
    BY <1>7 DEF Observe
  <2>2. Observe(e).forward <=> e.is \notin {"first", "last"}
    BY <1>7 DEF Observe
  <2>3. \A j \in Keys : (Assembles(j)' <=> Assembles(j)) /\ Held(j)' = Held(j)
    BY <2>1 DEF Assembles, Held
  <2> QED  BY <1>3, <1>7, <2>1, <2>2, <2>3
<1>8. CASE e.is = "first" /\ ~Ignored(e)
  <2>1. ~Observe(e).forward
    BY <1>8 DEF Observe
  <2>2. assembly' = IF Assembles(k) /\ Held(k).seq = e.seq THEN assembly
                    ELSE [assembly EXCEPT ![slot] =
                            IF Assembles(k) THEN NoAssembly ELSE [key |-> k, seq |-> e.seq]]
    BY <1>2, <1>8 DEF Observe
  <2>3. CASE Assembles(k) /\ Held(k).seq = e.seq
    <3>1. assembly' = assembly
      BY <2>2, <2>3
    <3>2. \A j \in Keys : (Assembles(j)' <=> Assembles(j)) /\ Held(j)' = Held(j)
      BY <3>1 DEF Assembles, Held
    <3> QED  BY <1>3, <1>8, <2>1, <2>3, <3>1, <3>2
  <2>4. CASE Assembles(k) /\ Held(k).seq # e.seq
    <3>1. assembly' = [assembly EXCEPT ![slot] = NoAssembly]
      BY <2>2, <2>4
    <3>2. /\ \A j \in Keys : ClientOf[j] = slot => ~Assembles(j)'
          /\ \A j \in Keys : ClientOf[j] # slot =>
               (Assembles(j)' <=> Assembles(j)) /\ Held(j)' = Held(j) /\ j # k
      BY <1>4, <1>6, <3>1 DEF Assembles
    <3> QED  BY <1>4, <1>6, <1>8, <2>1, <2>4, <3>1, <3>2
  <2>5. CASE ~Assembles(k)
    <3> DEFINE v == [key |-> k, seq |-> e.seq]
    <3>1. assembly' = [assembly EXCEPT ![slot] = v]
      BY <2>2, <2>5
    <3>2. v \in [key : Keys \union {None}, seq : Nat] /\ v.key = k /\ v.seq = e.seq /\ v.seq # 0
      BY <1>1, <1>8
    <3> HIDE DEF v
    <3>3. /\ Held(k)' = v /\ Assembles(k)'
          /\ \A j \in Keys : ClientOf[j] = slot /\ j # k => ~Assembles(j)'
          /\ \A j \in Keys : ClientOf[j] # slot =>
               (Assembles(j)' <=> Assembles(j)) /\ Held(j)' = Held(j) /\ j # k
      BY <1>2, <1>6, <3>1, <3>2 DEF Assembles
    <3> QED  BY <1>6, <1>8, <2>1, <2>5, <3>1, <3>2, <3>3
  <2> QED  BY <2>3, <2>4, <2>5
<1>9. CASE e.is = "last" /\ ~Ignored(e)
  <2>1. Observe(e).forward <=> Assembles(k) /\ Held(k).seq = e.seq
    BY <1>9 DEF Observe
  <2>2. assembly' = [assembly EXCEPT ![slot] = NoAssembly]
    BY <1>2, <1>9 DEF Observe
  <2>3. /\ \A j \in Keys : ClientOf[j] = slot => ~Assembles(j)' /\ (Held(j)').seq = 0
        /\ \A j \in Keys : ClientOf[j] # slot =>
             (Assembles(j)' <=> Assembles(j)) /\ Held(j)' = Held(j) /\ j # k
    BY <1>4, <1>6, <2>2 DEF Assembles
  <2> QED  BY <1>2, <1>4, <1>6, <1>9, <2>1, <2>2, <2>3
<1> QED  BY <1>1, <1>7, <1>8, <1>9

LEMMA InRead ==
  ASSUME InIInv, Read
  PROVE  InIInv'
<1> USE DEF InIInv
<1>1. /\ link /\ reader = Idle /\ next \in DOMAIN sent /\ next' = next + 1
      /\ UNCHANGED <<link, sent, cursor, chunked, client, tasks, conns, closed, got>>
  BY DEF Read, trackVars
<1>2. PICK e \in InEnvelope : e = sent[next]
  BY <1>1 DEF InTypes
<1>3. PICK k \in Keys : k = e.key
  BY DEF InEnvelope
<1>4. /\ assembly' = Observe(e).assembly
      /\ reader' = IF Observe(e).forward THEN [at |-> "handle", pos |-> next] ELSE Idle
  BY <1>2 DEF Read
<1>5. e.is # "closed" => e.seq # 0
  BY <1>1, <1>2, LogFacts
<1>6. /\ assembly' \in [Clients -> [key : Keys \union {None}, seq : Nat]]
      /\ \A j \in Keys : Assembles(j)' =>
           \/ /\ Assembles(j) /\ Held(j)' = Held(j)
              /\ ~(j = k /\ e.is = "last" /\ ~Ignored(e))
           \/ j = k /\ (Held(j)').seq = e.seq /\ e.is = "first"
  BY <1>3, <1>4, <1>5, ObserveFacts
<1>7. /\ Observe(e).forward => e.is # "first" /\ (e.is = "last" => (Held(k)').seq = 0)
      /\ ~Observe(e).forward =>
           /\ e.is \in {"first", "last"}
           /\ e.is = "last" /\ ~Ignored(e) => ~(Assembles(k) /\ Held(k).seq = e.seq)
      /\ e.is = "first" /\ ~Ignored(e) /\ (Assembles(k) => Held(k).seq = e.seq) =>
           Assembles(k)' /\ (Held(k)').seq = e.seq
  BY <1>3, <1>4, <1>5, ObserveFacts
<1>8. /\ next \in Nat /\ cursor \in Nat /\ cursor < next /\ Len(sent) \in Nat
      /\ next <= Len(sent) /\ DOMAIN sent = 1..Len(sent) /\ e.seq \in Nat
      /\ \A p \in DOMAIN sent : p \in Nat /\ sent[p].seq \in Nat /\ sent[p].key \in Keys
  <2>1. next \in Nat /\ cursor \in Nat /\ cursor < next /\ next <= Len(sent) + 1
    BY DEF InTypes, ReadInv
  <2>2. e.seq \in Nat
    BY DEF InEnvelope
  <2> QED  BY <1>1, <2>1, <2>2, SentTypes
<1>9. reader.at = "idle" /\ reader.pos = 0
  BY <1>1 DEF Idle
<1>10. /\ reader' \in [at : {"idle", "handle", "opened", "record"}, pos : Nat]
       /\ Observe(e).forward => reader'.at = "handle" /\ reader'.pos = next
       /\ ~Observe(e).forward => reader'.at = "idle" /\ reader'.pos = 0
  BY <1>4, <1>8 DEF Idle
<1> HIDE DEF Observe
<1>11. \A p : Whole(p)' <=> Whole(p)
  BY <1>1 DEF Whole
<1>12. \A j : NeverClosed(j)' <=> NeverClosed(j)
  BY <1>1 DEF NeverClosed
<1>13. InTypes' /\ LogInv'
  BY <1>1, <1>6, <1>8, <1>10 DEF InTypes, LogInv
<1>14. ReadInv'
  <2>1. ASSUME NEW j \in Keys, Assembles(j)'
        PROVE  \E p \in DOMAIN sent :
                 sent[p].key = j /\ sent[p].is = "first" /\ sent[p].seq = (Held(j)').seq
    <3>1. CASE Assembles(j) /\ Held(j)' = Held(j)
      BY <3>1 DEF ReadInv
    <3>2. CASE j = k /\ (Held(j)').seq = e.seq /\ e.is = "first"
      BY <1>1, <1>2, <1>3, <3>2
    <3> QED  BY <1>6, <2>1, <3>1, <3>2
  <2>2. Observe(e).forward => Key' = k
    BY <1>1, <1>2, <1>3, <1>10 DEF Key
  <2>3. Observe(e).forward =>
          /\ reader'.pos = next /\ reader'.at = "handle" /\ sent[next].is # "first"
          /\ sent[next].is = "last" => Held(Key)'.seq = 0
    BY <1>2, <1>7, <1>10, <2>2 DEF Held
  <2>4. cursor < next + 1 /\ next + 1 <= Len(sent) + 1 /\ (next + 1) - 1 = next
    BY <1>8
  <2>5. /\ cursor # 0 => sent[cursor].is # "first"
        /\ \A j \in Keys : chunked[j] # 0 =>
             \E p \in DOMAIN sent :
               p <= cursor /\ sent[p].key = j /\ sent[p].is = "last" /\ sent[p].seq = chunked[j]
    BY DEF ReadInv
  <2>6. /\ reader'.at = "idle" => reader'.pos = 0
        /\ reader'.at # "opened"
        /\ reader'.at # "idle" => Observe(e).forward
    BY <1>10
  <2> QED  BY <1>1, <1>8, <2>1, <2>3, <2>4, <2>5, <2>6 DEF ReadInv
<1>15. TrackInv'
  BY <1>1, TrackStutters
<1>16. PassedInv'
  <2> SUFFICES ASSUME NEW p \in DOMAIN sent, cursor < p, p < next + 1, p # reader'.pos,
                      NeverClosed(sent[p].key)
               PROVE  sent[p].is \in {"first", "last"} /\ ~Whole(p)
    BY <1>1, <1>11, <1>12 DEF PassedInv
  <2>1. CASE p < next
    <3>1. p # reader.pos
      BY <1>8, <1>9
    <3> QED  BY <1>1, <2>1, <3>1 DEF PassedInv
  <2>2. CASE p = next
    <3>1. ~Observe(e).forward
      BY <1>10, <2>2
    <3>2. e.is \in {"first", "last"}
      BY <1>7, <3>1
    <3>3. ~Whole(p)
      <4> SUFFICES ASSUME Whole(p)
                   PROVE  FALSE
        OBVIOUS
      <4>1. e.is = "last"
        BY <1>2, <2>2, <3>2 DEF Whole
      <4>2. Assembles(k) /\ Held(k).seq = e.seq /\ ~Ignored(e)
        BY <1>1, <1>2, <1>3, <2>2, <4>1, AdjacentCompletes
      <4> QED  BY <1>7, <3>1, <4>1, <4>2
    <3> QED  BY <1>2, <2>2, <3>2, <3>3
  <2> QED  BY <1>8, <2>1, <2>2
<1>17. From = next /\ From' = next + 1
  BY <1>1 DEF From
<1>18. ASSUME e.is = "first", NeverClosed(k), next + 1 \in DOMAIN sent => sent[next + 1].key = k
       PROVE  Assembles(k)' /\ (Held(k)').seq = e.seq
  <2>1. Assembles(k) => Held(k).seq = e.seq
    BY <1>1, <1>2, <1>3, <1>18, FirstIsHeld
  <2>2. chunked[k] < e.seq /\ chunked[k] \in Nat
    BY <1>1, <1>2, <1>3, <1>8, <1>18, NotCompleted, HeldTypes
  <2>3. ~Ignored(e)
    BY <1>3, <1>8, <2>1, <2>2 DEF Ignored
  <2> QED  BY <1>7, <1>18, <2>1, <2>3
<1>19. ASSUME NEW j \in Keys, Assembles(j)', NeverClosed(j), NEW p \in DOMAIN sent,
              sent[p].key = j, sent[p].is = "last"
       PROVE  /\ Whole(p) /\ next + 1 <= p => (Held(j)').seq <= sent[p].seq
              /\ sent[p].seq = (Held(j)').seq => next + 1 <= p
  <2>1. CASE /\ Assembles(j) /\ Held(j)' = Held(j)
             /\ ~(j = k /\ e.is = "last" /\ ~Ignored(e))
    <3>1. /\ Whole(p) /\ next <= p => Held(j).seq <= sent[p].seq
          /\ sent[p].seq = Held(j).seq => next <= p
      BY <1>17, <1>19, <2>1 DEF HeldInv
    <3>2. Whole(p) /\ next + 1 <= p => (Held(j)').seq <= sent[p].seq
      BY <1>8, <2>1, <3>1
    <3>3. ASSUME sent[p].seq = Held(j).seq, p = next PROVE FALSE
      <4>1. j = k /\ e.is = "last" /\ e.seq = Held(k).seq
        BY <1>2, <1>3, <1>19, <3>3
      <4>2. Ignored(e)
        BY <2>1, <4>1
      <4>3. chunked[k] < e.seq /\ chunked[k] \in Nat
        BY <1>1, <1>2, <1>3, <1>8, <4>1, NotCompleted, HeldTypes
      <4> QED  BY <1>3, <1>8, <4>1, <4>2, <4>3 DEF Ignored
    <3> QED  BY <1>8, <2>1, <3>1, <3>2, <3>3
  <2>2. CASE j = k /\ (Held(j)').seq = e.seq /\ e.is = "first"
    <3>1. sent[next].key = j /\ sent[next].is = "first" /\ sent[next].seq = e.seq
      BY <1>2, <1>3, <2>2
    <3>2. next < p => e.seq <= sent[p].seq
      BY <1>1, <1>19, <3>1, LogFacts, SMTT(30)
    <3>3. p < next => sent[p].seq < e.seq
      BY <1>1, <1>19, <3>1, LogFacts
    <3>4. p # next
      BY <1>19, <3>1
    <3> QED  BY <1>8, <2>2, <3>2, <3>3, <3>4
  <2> QED  BY <1>6, <1>19, <2>1, <2>2
<1>20. HeldInv'
  <2>1. ASSUME NEW p \in DOMAIN sent, p = (next + 1) - 1, cursor < p, sent[p].is = "first",
               NeverClosed(sent[p].key), next + 1 \in DOMAIN sent => sent[next + 1].key = sent[p].key
        PROVE  Assembles(k)' /\ (Held(k)').seq = e.seq /\ sent[p].key = k /\ sent[p].seq = e.seq
    <3>1. p = next
      BY <1>8, <2>1
    <3> QED  BY <1>2, <1>3, <1>18, <2>1, <3>1
  <2>2. ASSUME NEW p \in DOMAIN sent, p = next' - 1, cursor < p, sent[p].is = "first",
               NeverClosed(sent[p].key), next' \in DOMAIN sent => sent[next'].key = sent[p].key
        PROVE  Assembles(sent[p].key)' /\ Held(sent[p].key)'.seq = sent[p].seq
    <3>1. Assembles(k)' /\ (Held(k)').seq = e.seq /\ sent[p].key = k /\ sent[p].seq = e.seq
      BY <1>1, <2>1, <2>2
    <3>2. sent'[p].key = k
      BY <1>1, <3>1
    <3> QED  BY <3>1, <3>2 DEF Assembles, Held
  <2> QED  BY <1>1, <1>11, <1>12, <1>17, <1>19, <2>2 DEF HeldInv
<1>21. OpenInv'
  <2>1. reader'.at # "record"
    BY <1>10
  <2>2. OpenPast' /\ Noted'
    BY <1>1, <1>11, <1>12 DEF OpenInv, OpenPast, Noted, Delivered
  <2> QED  BY <2>1, <2>2 DEF OpenInv, Recorded
<1>22. CursorCovers'
  BY <1>1, <1>11, <1>12 DEF CursorCovers, InitBefore, Of, Delivered
<1> QED  BY <1>13, <1>14, <1>15, <1>16, <1>20, <1>21, <1>22

-----------------------------------------------------------------------------
(* The invariant, and what it means for the app server.                    *)

LEMMA InInit ==
  ASSUME Init
  PROVE  InIInv
<1> USE DEF Init
<1>1. /\ sent = <<>> /\ DOMAIN sent = {} /\ Len(sent) = 0 /\ conns = <<>> /\ DOMAIN conns = {}
      /\ got = <<>> /\ DOMAIN got = {} /\ closed = {}
  OBVIOUS
<1>2. /\ link = FALSE /\ next = 1 /\ cursor = 0 /\ reader.at = "idle" /\ reader.pos = 0
      /\ tasks = [running |-> {}, ended |-> {}]
      /\ reader \in [at : {"idle", "handle", "opened", "record"}, pos : Nat]
  BY DEF Idle
<1>3. /\ assembly = [c \in Clients |-> NoAssembly] /\ chunked = [k \in Keys |-> 0]
      /\ client = [k \in Keys |-> NoClient]
  OBVIOUS
<1>4. /\ NoAssembly \in [key : Keys \union {None}, seq : Nat]
      /\ NoClient \in [conn : Nat, last : Nat]
  BY DEF NoAssembly, NoClient, None
<1> HIDE DEF Init
<1>5. InTypes
  <2>1. sent \in Seq(InEnvelope) /\ conns \in Seq(Keys)
        /\ got \in Seq((DOMAIN conns) \X (DOMAIN sent))
    BY <1>1
  <2> QED  BY <1>1, <1>2, <1>3, <1>4, <2>1 DEF InTypes
<1>6. LogInv
  <2>1. \A k : Numbered(sent, k) = {}
    BY <1>1 DEF Numbered
  <2> QED  BY <1>1, <2>1 DEF LogInv, LogOK
<1>7. \A k \in Keys : chunked[k] = 0 /\ client[k].conn = None /\ client[k].last = 0 /\ ~Assembles(k)
  <2> TAKE k \in Keys
  <2>1. ClientOf[k] \in Clients
    BY DEF Clients
  <2>2. assembly[ClientOf[k]].seq = 0
    BY <1>3, <2>1 DEF NoAssembly
  <2> QED  BY <1>3, <2>2 DEF NoClient, Assembles, Held
<1>8. ReadInv
  BY <1>1, <1>2, <1>7 DEF ReadInv
<1>9. TrackInv
  BY <1>1, <1>7 DEF TrackInv, DeliveredOnce
<1>10. PassedInv /\ HeldInv /\ OpenInv
  BY <1>1, <1>2, <1>7 DEF PassedInv, HeldInv, OpenInv, OpenPast, Recorded, Noted
<1>11. CursorCovers
  BY <1>2 DEF CursorCovers
<1> QED  BY <1>5, <1>6, <1>8, <1>9, <1>10, <1>11 DEF InIInv

LEMMA InNext ==
  ASSUME InIInv, [Next]_vars
  PROVE  InIInv'
<1>1. tasks \in [running : SUBSET (DOMAIN conns), ended : SUBSET (DOMAIN conns)]
  BY DEF InIInv, InTypes
<1>2. ASSUME UNCHANGED <<link, inVars, trackVars>>
      PROVE  InIInv'
  BY <1>1, <1>2, InStutters DEF trackVars
<1>3. CASE UNCHANGED vars
  BY <1>2, <1>3 DEF vars
<1>4. CASE Connect \/ Break \/ ForwardTimeout
  BY <1>4, InConnect, InBreak, InForwardTimeout
<1>5. CASE Handle
  BY <1>5, InRead, InHandleMessage, InReplaceClient, InOpenClient, InForwardInit, InHandleClosed,
     InRecord DEF Handle
<1>6. ASSUME NEW k \in Keys, ClientSends(k) \/ IdleSweep(k) \/ Ack(k)
      PROVE  InIInv'
  <2>1. CASE Ack(k)
    BY <1>2, <2>1 DEF Ack
  <2> QED  BY <1>6, <2>1, InClientSends, InIdleSweep
<1>7. ASSUME NEW c \in Conns, TaskEnds(c) \/ Join(c) \/ Enqueue(c)
      PROVE  InIInv'
  <2>1. CASE Enqueue(c)
    BY <1>2, <2>1 DEF Enqueue
  <2> QED  BY <1>7, <2>1, InTaskEnds, InJoin
<1>8. CASE TakeEvent \/ Send \/ Receive
  BY <1>2, <1>8 DEF TakeEvent, Send, Receive
<1> QED  BY <1>3, <1>4, <1>5, <1>6, <1>7, <1>8 DEF Next

(* The invariant of the inbound direction is inductive.                    *)
THEOREM InboundInductive == Spec => []InIInv
BY InInit, InNext, PTL DEF Spec

(* A connection gets the messages of its own stream, each at most once and *)
(* in the order they were sent, and one that gets something after another  *)
(* of its stream has replaced it, whatever the relay delivers again        *)
(* (ClientTracker::handle_message, last_inbound_seq_id).                   *)
THEOREM ConnectionsGetOnce == Spec => []DeliveredOnce
<1>1. InIInv => DeliveredOnce
  BY DEF InIInv, TrackInv
<1> QED  BY <1>1, InboundInductive, PTL

(* A message that the cursor has passed was delivered, if its stream was   *)
(* initialized and never closed and its chunks are adjacent, whatever      *)
(* timed out or broke on the way (record_client_message_delivery).         *)
THEOREM CursorIsCovered == Spec => []CursorCovers
<1>1. InIInv => CursorCovers
  BY DEF InIInv
<1> QED  BY <1>1, InboundInductive, PTL

-----------------------------------------------------------------------------
(* What the app server sends.                                              *)

OutEnvelope == [key : Keys, seq : Nat, segment : Nat]

OutEvent == [key : Keys, segments : {1, 2}]

OutTypes ==
  /\ link \in BOOLEAN
  /\ queue \in Seq(OutEvent)
  /\ numbered \in [Keys -> Seq(OutEnvelope)] /\ received \in [Keys -> Seq(OutEnvelope)]
  /\ buffer \subseteq OutEnvelope /\ IsFiniteSet(buffer)
  /\ writer \in Seq(OutEnvelope) /\ wire \in Seq(OutEnvelope)
  /\ ~link => writer = <<>> /\ wire = <<>>

(* A stream's envelopes are numbered in order, and the relay has a prefix. *)
NumberInv ==
  /\ \A k \in Keys : \A i \in DOMAIN numbered[k] : numbered[k][i].key = k
  /\ \A k \in Keys : \A i, j \in DOMAIN numbered[k] :
       i < j => Precedes(numbered[k][i], numbered[k][j])
  /\ \A k \in Keys : Len(received[k]) <= Len(numbered[k])
  /\ \A k \in Keys : \A i \in DOMAIN received[k] : received[k][i] = numbered[k][i]

(* The buffer holds everything the relay lacks.                            *)
BufferInv ==
  /\ \A e \in buffer : \E i \in DOMAIN numbered[e.key] : e = numbered[e.key][i]
  /\ \A k \in Keys : \A i \in DOMAIN numbered[k] :
       i > Len(received[k]) => numbered[k][i] \in buffer

(* Whatever comes before the x-th envelope of a stream has reached the     *)
(* relay, or is on its way ahead of it.                                    *)
OnWire(k, y) == \E j \in DOMAIN wire : wire[j] = numbered[k][y]
InWriter(k, y) == \E j \in DOMAIN writer : writer[j] = numbered[k][y]

WireInv ==
  \A j \in DOMAIN wire :
    \E x \in DOMAIN numbered[wire[j].key] :
      /\ wire[j] = numbered[wire[j].key][x]
      /\ \A y \in 1..(x - 1) :
           \/ y <= Len(received[wire[j].key])
           \/ \E i \in 1..(j - 1) : wire[i] = numbered[wire[j].key][y]

WriterInv ==
  \A j \in DOMAIN writer :
    \E x \in DOMAIN numbered[writer[j].key] :
      /\ writer[j] = numbered[writer[j].key][x]
      /\ \A y \in 1..(x - 1) :
           \/ y <= Len(received[writer[j].key])
           \/ OnWire(writer[j].key, y)
           \/ \E i \in 1..(j - 1) : writer[i] = numbered[writer[j].key][y]

(* On an open websocket, everything the relay lacks is on its way.         *)
ComingInv ==
  link => \A k \in Keys : \A y \in DOMAIN numbered[k] :
            y <= Len(received[k]) \/ OnWire(k, y) \/ InWriter(k, y)

OutIInv == OutTypes /\ NumberInv /\ BufferInv /\ WireInv /\ WriterInv /\ ComingInv

-----------------------------------------------------------------------------
(* The outbound direction, step by step.                                   *)

OutSame == UNCHANGED <<link, queue, writer, wire, buffer, numbered, received>>

(* Nothing outbound changes: nothing is broken.                            *)
LEMMA OutStutters ==
  ASSUME OutIInv, OutSame
  PROVE  OutIInv'
<1>1. OutTypes'
  BY DEF OutIInv, OutTypes, OutSame
<1>2. NumberInv' /\ BufferInv'
  BY DEF OutIInv, NumberInv, BufferInv, OutSame
<1>3. WireInv' /\ WriterInv' /\ ComingInv'
  BY DEF OutIInv, WireInv, WriterInv, ComingInv, OnWire, InWriter, OutSame
<1> QED  BY <1>1, <1>2, <1>3 DEF OutIInv

(* The websocket is lost: what was under way is, and the buffer has it.    *)
LEMMA OutStop ==
  ASSUME OutIInv, Stop
  PROVE  OutIInv'
<1> USE DEF Stop
<1>0. <<>> \in Seq(OutEnvelope)
  OBVIOUS
<1>1. OutTypes'
  BY <1>0 DEF OutIInv, OutTypes
<1>2. NumberInv' /\ BufferInv'
  BY DEF OutIInv, NumberInv, BufferInv
<1>3. DOMAIN wire' = {} /\ DOMAIN writer' = {}
  OBVIOUS
<1>4. WireInv' /\ WriterInv' /\ ComingInv'
  BY <1>3 DEF WireInv, WriterInv, ComingInv
<1> QED  BY <1>1, <1>2, <1>4 DEF OutIInv

(* A new websocket begins with the buffer, each stream in its order.       *)
LEMMA OutConnect ==
  ASSUME OutIInv, Connect
  PROVE  OutIInv'
<1> USE DEF Connect
<1>1. UNCHANGED <<queue, wire, buffer, numbered, received>> /\ link' = TRUE /\ wire = <<>>
  BY DEF OutIInv, OutTypes
<1>2. Cardinality(buffer) \in Nat
  BY FS_CardinalityType DEF OutIInv, OutTypes
<1>3. writer' \in [1..Cardinality(buffer) -> buffer]
  BY DEF ServerEnvelopes
<1>4. writer' \in Seq(OutEnvelope) /\ DOMAIN writer' = 1..Cardinality(buffer)
  <2>1. DOMAIN writer' = 1..Cardinality(buffer) /\ \A i \in DOMAIN writer' : writer'[i] \in buffer
    BY <1>3
  <2>2. writer' \in [1..Cardinality(buffer) -> OutEnvelope]
    BY <1>3 DEF OutIInv, OutTypes
  <2> HIDE DEF Connect
  <2> QED  BY <1>2, <2>1, <2>2
<1>5. OutTypes'
  BY <1>1, <1>4 DEF OutIInv, OutTypes
<1>6. NumberInv' /\ BufferInv'
  BY <1>1 DEF OutIInv, NumberInv, BufferInv
<1>7. DOMAIN wire' = {}
  BY <1>1
<1>8. WireInv'
  BY <1>7 DEF WireInv
<1>9. ASSUME NEW k \in Keys, NEW y \in DOMAIN numbered[k], y > Len(received[k])
      PROVE  \E j \in DOMAIN writer' : writer'[j] = numbered[k][y]
  <2>1. numbered[k][y] \in buffer
    BY <1>9 DEF OutIInv, BufferInv
  <2> QED  BY <2>1 DEF ServerEnvelopes
<1>10. ComingInv'
  <2> SUFFICES ASSUME NEW k \in Keys, NEW y \in DOMAIN numbered[k], ~(y <= Len(received[k]))
               PROVE  InWriter(k, y)'
    BY <1>1 DEF ComingInv
  <2>1. y > Len(received[k])
    BY DEF OutIInv, OutTypes
  <2> QED  BY <1>1, <1>9, <2>1 DEF InWriter
<1>11. WriterInv'
  <2> SUFFICES ASSUME NEW j \in DOMAIN writer'
               PROVE  \E x \in DOMAIN numbered[writer'[j].key] :
                        /\ writer'[j] = numbered[writer'[j].key][x]
                        /\ \A y \in 1..(x - 1) :
                             \/ y <= Len(received[writer'[j].key])
                             \/ \E i \in 1..(j - 1) : writer'[i] = numbered[writer'[j].key][y]
    <3> HIDE DEF Connect
    <3>1. numbered' = numbered /\ received' = received
      BY <1>1
    <3> QED  BY <3>1 DEF WriterInv
  <2> DEFINE k == writer'[j].key
  <2>1. writer'[j] \in buffer /\ k \in Keys
    <3>1. writer'[j] \in buffer
      BY <1>3
    <3> QED  BY <3>1 DEF OutIInv, OutTypes, OutEnvelope
  <2>2. PICK x \in DOMAIN numbered[k] : writer'[j] = numbered[k][x]
    BY <2>1 DEF OutIInv, BufferInv
  <2>3. numbered[k] \in Seq(OutEnvelope) /\ received[k] \in Seq(OutEnvelope)
    BY <2>1 DEF OutIInv, OutTypes
  <2>4. ASSUME NEW y \in 1..(x - 1), ~(y <= Len(received[k]))
        PROVE  \E i \in 1..(j - 1) : writer'[i] = numbered[k][y]
    <3>1. y \in DOMAIN numbered[k] /\ y > Len(received[k]) /\ y < x
      BY <2>3, <2>4
    <3>2. PICK i \in DOMAIN writer' : writer'[i] = numbered[k][y]
      BY <1>9, <2>1, <3>1
    <3>3. Precedes(numbered[k][y], numbered[k][x]) /\ numbered[k][y].key = k
      BY <2>1, <3>1 DEF OutIInv, NumberInv
    <3>4. ~Precedes(numbered[k][x], numbered[k][y]) /\ numbered[k][y] # numbered[k][x]
      <4>1. numbered[k][x] \in OutEnvelope /\ numbered[k][y] \in OutEnvelope
        BY <2>3, <3>1
      <4> QED  BY <3>3, <4>1 DEF Precedes, OutEnvelope
    <3>5. i # j /\ ~(j < i)
      <4>1. ASSUME j < i PROVE FALSE
        <5>1. Precedes(writer'[j], writer'[i])
          BY <3>2, <3>3, <4>1 DEF ServerEnvelopes
        <5> QED  BY <2>2, <3>2, <3>4, <5>1
      <4> QED  BY <2>2, <3>2, <3>4, <4>1
    <3> QED  BY <1>2, <1>4, <3>2, <3>5
  <2> QED  BY <2>2, <2>4
<1> QED  BY <1>5, <1>6, <1>8, <1>10, <1>11 DEF OutIInv

LEMMA OutEnqueue ==
  ASSUME OutIInv, NEW c \in Conns, Enqueue(c), conns[c] \in Keys
  PROVE  OutIInv'
<1> USE DEF Enqueue
<1>1. UNCHANGED <<link, writer, wire, buffer, numbered, received>>
  OBVIOUS
<1>2. queue' \in Seq(OutEvent)
  BY DEF OutIInv, OutTypes, OutEvent
<1>3. OutTypes'
  BY <1>1, <1>2 DEF OutIInv, OutTypes
<1>4. NumberInv' /\ BufferInv'
  BY <1>1 DEF OutIInv, NumberInv, BufferInv
<1>5. WireInv' /\ WriterInv' /\ ComingInv'
  BY <1>1 DEF OutIInv, WireInv, WriterInv, ComingInv, OnWire, InWriter
<1> QED  BY <1>3, <1>4, <1>5 DEF OutIInv

(* Everything up to a received envelope is received.                       *)
LEMMA OutAck ==
  ASSUME OutIInv, NEW k \in Keys, Ack(k)
  PROVE  OutIInv'
<1> USE DEF Ack
<1>1. UNCHANGED <<link, queue, writer, wire, numbered, received>>
  OBVIOUS
<1>2. PICK i \in DOMAIN received[k] : buffer' = {e \in buffer : ~AckedBy(e, received[k][i])}
  OBVIOUS
<1>3. OutTypes'
  <2>1. IsFiniteSet(buffer')
    BY <1>2, FS_Subset DEF OutIInv, OutTypes
  <2> QED  BY <1>1, <1>2, <2>1 DEF OutIInv, OutTypes
<1>4. NumberInv'
  BY <1>1 DEF OutIInv, NumberInv
<1>5. BufferInv'
  <2>1. \A e \in buffer' : \E x \in DOMAIN numbered[e.key] : e = numbered[e.key][x]
    BY <1>2 DEF OutIInv, BufferInv
  <2>2. ASSUME NEW h \in Keys, NEW x \in DOMAIN numbered[h], x > Len(received[h])
        PROVE  numbered[h][x] \in buffer'
    <3>1. numbered[h][x] \in buffer
      BY <2>2 DEF OutIInv, BufferInv
    <3>2. ASSUME AckedBy(numbered[h][x], received[k][i]) PROVE FALSE
      <4>1. received[k][i] = numbered[k][i] /\ numbered[k][i].key = k
        BY DEF OutIInv, OutTypes, NumberInv
      <4>2. h = k
        BY <3>2, <4>1 DEF AckedBy, OutIInv, NumberInv
      <4>3. numbered[k] \in Seq(OutEnvelope) /\ received[k] \in Seq(OutEnvelope)
        BY DEF OutIInv, OutTypes
      <4>4. i \in DOMAIN numbered[k] /\ i < x
        BY <2>2, <4>2, <4>3 DEF OutIInv, NumberInv
      <4>5. Precedes(numbered[k][i], numbered[k][x])
        BY <4>2, <4>4 DEF OutIInv, NumberInv
      <4>6. numbered[k][i] \in OutEnvelope /\ numbered[k][x] \in OutEnvelope
        BY <4>2, <4>3, <4>4
      <4> QED  BY <3>2, <4>1, <4>2, <4>5, <4>6 DEF AckedBy, Precedes, OutEnvelope
    <3> QED  BY <1>2, <3>1, <3>2
  <2> QED  BY <1>1, <2>1, <2>2 DEF BufferInv
<1>6. WireInv' /\ WriterInv' /\ ComingInv'
  BY <1>1 DEF OutIInv, WireInv, WriterInv, ComingInv, OnWire, InWriter
<1> QED  BY <1>3, <1>4, <1>5, <1>6 DEF OutIInv

(* From the writer to the wire: what is ahead stays ahead.                 *)
LEMMA OutSend ==
  ASSUME OutIInv, Send
  PROVE  OutIInv'
<1> USE DEF Send
<1>1. UNCHANGED <<link, queue, buffer, numbered, received>> /\ writer # <<>>
  OBVIOUS
<1>2. writer \in Seq(OutEnvelope) /\ wire \in Seq(OutEnvelope)
  BY DEF OutIInv, OutTypes
<1>3. Len(writer) \in Nat \ {0} /\ Len(wire) \in Nat
  BY <1>1, <1>2
<1>4. writer' \in Seq(OutEnvelope) /\ Len(writer') = Len(writer) - 1
      /\ \A i \in DOMAIN writer' : writer'[i] = writer[i + 1]
  BY <1>2, <1>3
<1>5. wire' \in Seq(OutEnvelope) /\ Len(wire') = Len(wire) + 1
      /\ wire'[Len(wire) + 1] = writer[1] /\ \A i \in DOMAIN wire : wire'[i] = wire[i]
  BY <1>2, <1>3
<1>6. DOMAIN writer = 1..Len(writer) /\ DOMAIN wire = 1..Len(wire)
      /\ DOMAIN writer' = 1..Len(writer') /\ DOMAIN wire' = 1..Len(wire')
  BY <1>2, <1>4, <1>5
<1>7. link
  BY <1>1 DEF OutIInv, OutTypes
<1> HIDE DEF Send
<1>8. OutTypes'
  BY <1>1, <1>4, <1>5, <1>7 DEF OutIInv, OutTypes
<1>9. NumberInv' /\ BufferInv'
  BY <1>1 DEF OutIInv, NumberInv, BufferInv
<1> DEFINE Wired(k, y) == \E i \in DOMAIN wire' : wire'[i] = numbered[k][y]
<1>10. ASSUME NEW k, NEW y, OnWire(k, y)
       PROVE  Wired(k, y)
  <2>1. PICK j \in DOMAIN wire : wire[j] = numbered[k][y]
    BY <1>10 DEF OnWire
  <2>2. j \in DOMAIN wire' /\ wire'[j] = numbered[k][y]
    BY <1>3, <1>5, <1>6, <2>1
  <2> QED  BY <2>2
<1>11. ASSUME NEW k, NEW y, numbered[k][y] = writer[1]
       PROVE  Wired(k, y)
  <2>1. Len(wire) + 1 \in DOMAIN wire'
    BY <1>3, <1>5, <1>6
  <2> QED  BY <1>5, <1>11, <2>1
<1> HIDE DEF Wired
<1>12. WireInv'
  <2> SUFFICES ASSUME NEW j \in DOMAIN wire'
               PROVE  \E x \in DOMAIN numbered[wire'[j].key] :
                        /\ wire'[j] = numbered[wire'[j].key][x]
                        /\ \A y \in 1..(x - 1) :
                             \/ y <= Len(received[wire'[j].key])
                             \/ \E i \in 1..(j - 1) : wire'[i] = numbered[wire'[j].key][y]
    BY <1>1 DEF WireInv
  <2>1. CASE j \in DOMAIN wire
    <3>1. wire'[j] = wire[j] /\ \A i \in 1..(j - 1) : wire'[i] = wire[i]
      BY <1>3, <1>5, <1>6, <2>1
    <3>2. PICK x \in DOMAIN numbered[wire[j].key] :
            /\ wire[j] = numbered[wire[j].key][x]
            /\ \A y \in 1..(x - 1) :
                 \/ y <= Len(received[wire[j].key])
                 \/ \E i \in 1..(j - 1) : wire[i] = numbered[wire[j].key][y]
      BY <2>1 DEF OutIInv, WireInv
    <3> QED  BY <3>1, <3>2
  <2>2. CASE j = Len(wire) + 1
    <3>1. wire'[j] = writer[1] /\ 1 \in DOMAIN writer
      BY <1>3, <1>5, <1>6, <2>2
    <3>2. PICK x \in DOMAIN numbered[writer[1].key] :
            /\ writer[1] = numbered[writer[1].key][x]
            /\ \A y \in 1..(x - 1) :
                 \/ y <= Len(received[writer[1].key])
                 \/ OnWire(writer[1].key, y)
                 \/ \E i \in 1..(1 - 1) : writer[i] = numbered[writer[1].key][y]
      BY <3>1 DEF OutIInv, WriterInv
    <3>3. ASSUME NEW y \in 1..(x - 1), ~(y <= Len(received[writer[1].key]))
          PROVE  \E i \in 1..(j - 1) : wire'[i] = numbered[writer[1].key][y]
      <4>1. OnWire(writer[1].key, y)
        BY <3>2, <3>3
      <4>2. PICK i \in DOMAIN wire : wire[i] = numbered[writer[1].key][y]
        BY <4>1 DEF OnWire
      <4> QED  BY <1>3, <1>5, <1>6, <2>2, <4>2
    <3> QED  BY <3>1, <3>2, <3>3
  <2> QED  BY <1>3, <1>5, <1>6, <2>1, <2>2
<1>13. WriterInv'
  <2> SUFFICES ASSUME NEW j \in DOMAIN writer'
               PROVE  \E x \in DOMAIN numbered[writer'[j].key] :
                        /\ writer'[j] = numbered[writer'[j].key][x]
                        /\ \A y \in 1..(x - 1) :
                             \/ y <= Len(received[writer'[j].key])
                             \/ Wired(writer'[j].key, y)
                             \/ \E i \in 1..(j - 1) : writer'[i] = numbered[writer'[j].key][y]
    BY <1>1 DEF WriterInv, OnWire, Wired
  <2>1. j + 1 \in DOMAIN writer /\ writer'[j] = writer[j + 1] /\ j \in Nat
    BY <1>3, <1>4, <1>6
  <2> DEFINE k == writer[j + 1].key
  <2>2. PICK x \in DOMAIN numbered[k] :
          /\ writer[j + 1] = numbered[k][x]
          /\ \A y \in 1..(x - 1) :
               \/ y <= Len(received[k])
               \/ OnWire(k, y)
               \/ \E i \in 1..((j + 1) - 1) : writer[i] = numbered[k][y]
    BY <2>1 DEF OutIInv, WriterInv
  <2>3. ASSUME NEW y \in 1..(x - 1), ~(y <= Len(received[k])), ~Wired(k, y)
        PROVE  \E i \in 1..(j - 1) : writer'[i] = numbered[k][y]
    <3>1. ~OnWire(k, y)
      BY <1>10, <2>3
    <3>2. PICK i \in 1..((j + 1) - 1) : writer[i] = numbered[k][y]
      BY <2>2, <2>3, <3>1
    <3>3. i # 1
      BY <1>11, <2>3, <3>2
    <3>4. i \in Nat /\ i > 1 /\ i <= j /\ j <= Len(writer) - 1
      BY <1>3, <1>6, <2>1, <3>2, <3>3
    <3>5. i - 1 \in 1..(j - 1) /\ i - 1 \in DOMAIN writer'
      BY <1>3, <1>4, <1>6, <2>1, <3>4
    <3>6. writer'[i - 1] = writer[(i - 1) + 1]
      BY <1>4, <3>5, Zenon
    <3>7. (i - 1) + 1 = i
      BY <3>4
    <3> QED  BY <3>2, <3>5, <3>6, <3>7
  <2> QED  BY <2>1, <2>2, <2>3
<1>14. ComingInv'
  <2> SUFFICES ASSUME NEW k \in Keys, NEW y \in DOMAIN numbered[k], ~(y <= Len(received[k])),
                      ~Wired(k, y)
               PROVE  InWriter(k, y)'
    BY <1>1 DEF ComingInv, OnWire, Wired
  <2>1. ~OnWire(k, y)
    BY <1>10
  <2>2. PICK j \in DOMAIN writer : writer[j] = numbered[k][y]
    BY <1>7, <2>1 DEF OutIInv, ComingInv, InWriter
  <2>3. j # 1
    BY <1>11, <2>2
  <2>4. j - 1 \in DOMAIN writer' /\ writer'[j - 1] = writer[j]
    BY <1>3, <1>4, <1>6, <2>2, <2>3
  <2> QED  BY <1>1, <2>2, <2>4 DEF InWriter
<1> QED  BY <1>8, <1>9, <1>12, <1>13, <1>14 DEF OutIInv

(* The relay receives: the next envelope of its stream, or one it has.     *)
LEMMA OutReceive ==
  ASSUME OutIInv, Receive
  PROVE  OutIInv'
<1> USE DEF Receive
<1>1. UNCHANGED <<link, queue, buffer, numbered, writer>> /\ wire # <<>>
  OBVIOUS
<1>2. wire \in Seq(OutEnvelope)
  BY DEF OutIInv, OutTypes
<1>3. Len(wire) \in Nat \ {0} /\ Head(wire) = wire[1]
  BY <1>1, <1>2
<1>4. wire' \in Seq(OutEnvelope) /\ Len(wire') = Len(wire) - 1
      /\ \A i \in DOMAIN wire' : wire'[i] = wire[i + 1]
  BY <1>2, <1>3
<1>5. DOMAIN wire = 1..Len(wire) /\ DOMAIN wire' = 1..Len(wire')
  BY <1>2, <1>4
<1>6. link
  BY <1>1 DEF OutIInv, OutTypes
<1> DEFINE e == wire[1]
           h == e.key
<1>7. e \in OutEnvelope /\ h \in Keys
  <2>1. e \in OutEnvelope
    BY <1>2, <1>3, <1>5
  <2> QED  BY <2>1 DEF OutEnvelope
<1>8. received[h] \in Seq(OutEnvelope) /\ numbered[h] \in Seq(OutEnvelope)
  BY <1>7 DEF OutIInv, OutTypes
<1>9. received' = IF Contains(received[h], e) THEN received
                  ELSE [received EXCEPT ![h] = Append(@, e)]
  BY <1>3
<1> HIDE DEF Receive
<1>10. PICK x \in DOMAIN numbered[h] :
         e = numbered[h][x] /\ \A y \in 1..(x - 1) : y <= Len(received[h])
  <2>1. 1 \in DOMAIN wire
    BY <1>3, <1>5
  <2>2. PICK x \in DOMAIN numbered[h] :
          /\ e = numbered[h][x]
          /\ \A y \in 1..(x - 1) :
               y <= Len(received[h]) \/ \E i \in 1..(1 - 1) : wire[i] = numbered[h][y]
    BY <2>1 DEF OutIInv, WireInv
  <2> QED  BY <2>2
<1>11. \A i \in DOMAIN received[h] : received[h][i] = numbered[h][i]
  BY <1>7 DEF OutIInv, NumberInv
<1>12. Len(received[h]) <= Len(numbered[h]) /\ Len(received[h]) \in Nat /\ Len(numbered[h]) \in Nat
  BY <1>7, <1>8 DEF OutIInv, NumberInv
<1>13. x \in 1..Len(numbered[h]) /\ x - 1 <= Len(received[h])
  BY <1>8, <1>10, <1>12
<1>14. received' \in [Keys -> Seq(OutEnvelope)]
  BY <1>7, <1>8, <1>9 DEF OutIInv, OutTypes
<1>15. /\ \A k \in Keys : Len(received[k]) <= Len(received'[k])
       /\ \A k \in Keys : Len(received'[k]) <= Len(numbered[k])
       /\ \A k \in Keys : \A i \in DOMAIN received'[k] : received'[k][i] = numbered[k][i]
       /\ x <= Len(received'[h])
  <2>1. CASE Contains(received[h], e)
    <3>1. received' = received
      BY <1>9, <2>1
    <3>2. x <= Len(received[h])
      <4>1. PICK i \in 1..Len(received[h]) : received[h][i] = e
        BY <2>1 DEF Contains
      <4>2. i \in DOMAIN received[h]
        BY <1>8, <4>1
      <4>3. numbered[h][i] = numbered[h][x] /\ i \in DOMAIN numbered[h]
        BY <1>8, <1>10, <1>11, <1>12, <4>1, <4>2
      <4>4. ASSUME i # x PROVE FALSE
        <5>1. i < x \/ x < i
          BY <1>13, <4>1, <4>4
        <5>2. Precedes(numbered[h][i], numbered[h][x]) \/ Precedes(numbered[h][x], numbered[h][i])
          BY <1>7, <4>3, <5>1 DEF OutIInv, NumberInv
        <5>3. numbered[h][x] \in OutEnvelope
          BY <1>7, <1>10
        <5> QED  BY <4>3, <5>2, <5>3 DEF Precedes, OutEnvelope
      <4> QED  BY <4>1, <4>4
    <3> QED  BY <3>1, <3>2 DEF OutIInv, OutTypes, NumberInv
  <2>2. CASE ~Contains(received[h], e)
    <3>1. received' = [received EXCEPT ![h] = Append(@, e)]
      BY <1>9, <2>2
    <3>2. x = Len(received[h]) + 1
      <4>1. ASSUME x <= Len(received[h]) PROVE FALSE
        <5>1. x \in 1..Len(received[h]) /\ received[h][x] = e
          BY <1>8, <1>10, <1>11, <1>13, <4>1
        <5> QED  BY <2>2, <5>1 DEF Contains
      <4> QED  BY <1>12, <1>13, <4>1, SMTT(30)
    <3>3. received'[h] = Append(received[h], e) /\ \A k \in Keys : k # h => received'[k] = received[k]
      BY <1>7, <3>1 DEF OutIInv, OutTypes
    <3>4. /\ Len(received'[h]) = Len(received[h]) + 1
          /\ \A i \in DOMAIN received'[h] : received'[h][i] = numbered[h][i]
      BY <1>7, <1>8, <1>10, <1>11, <3>2, <3>3
    <3>5. ASSUME NEW k \in Keys
          PROVE  /\ Len(received[k]) <= Len(received'[k]) /\ Len(received'[k]) <= Len(numbered[k])
                 /\ \A i \in DOMAIN received'[k] : received'[k][i] = numbered[k][i]
      <4>1. CASE k = h
        BY <1>12, <1>13, <3>2, <3>4, <4>1
      <4>2. CASE k # h
        BY <3>3, <4>2 DEF OutIInv, OutTypes, NumberInv
      <4> QED  BY <4>1, <4>2
    <3> QED  BY <1>12, <3>2, <3>4, <3>5
  <2> QED  BY <2>1, <2>2
<1>16. OutTypes'
  BY <1>1, <1>4, <1>6, <1>14 DEF OutIInv, OutTypes
<1>17. NumberInv'
  BY <1>1, <1>15 DEF OutIInv, NumberInv
<1>18. \A k \in Keys : Len(received[k]) \in Nat /\ Len(received'[k]) \in Nat
  BY <1>14 DEF OutIInv, OutTypes
<1>19. BufferInv'
  <2>1. \A k \in Keys : \A i \in DOMAIN numbered[k] :
          i > Len(received'[k]) => i > Len(received[k])
    BY <1>15, <1>18 DEF OutIInv, OutTypes
  <2> QED  BY <1>1, <2>1 DEF OutIInv, BufferInv
(* What the head stood for is received.                                    *)
<1>20. ASSUME NEW k \in Keys, NEW y \in DOMAIN numbered[k], numbered[k][y] = e
       PROVE  y <= Len(received'[k])
  <2>1. k = h
    BY <1>20 DEF OutIInv, NumberInv
  <2>2. ASSUME y # x PROVE FALSE
    <3>1. x \in Nat /\ y \in Nat
      BY <1>8, <1>13, <2>1
    <3>2. y < x \/ x < y
      BY <2>2, <3>1
    <3>3. Precedes(numbered[h][y], numbered[h][x]) \/ Precedes(numbered[h][x], numbered[h][y])
      BY <1>7, <2>1, <3>2 DEF OutIInv, NumberInv
    <3> QED  BY <1>7, <1>10, <1>20, <2>1, <3>3 DEF Precedes, OutEnvelope
  <2> QED  BY <1>15, <2>1, <2>2
<1>21. ASSUME NEW k \in Keys, NEW y \in DOMAIN numbered[k], NEW j \in DOMAIN wire,
              wire[j] = numbered[k][y], ~(y <= Len(received'[k]))
       PROVE  j - 1 \in DOMAIN wire' /\ wire'[j - 1] = numbered[k][y]
  <2>1. j # 1
    BY <1>20, <1>21
  <2> QED  BY <1>3, <1>4, <1>5, <1>21, <2>1
<1>22. WireInv'
  <2> SUFFICES ASSUME NEW j \in DOMAIN wire'
               PROVE  \E z \in DOMAIN numbered[wire'[j].key] :
                        /\ wire'[j] = numbered[wire'[j].key][z]
                        /\ \A y \in 1..(z - 1) :
                             \/ y <= Len(received'[wire'[j].key])
                             \/ \E i \in 1..(j - 1) : wire'[i] = numbered[wire'[j].key][y]
    BY <1>1 DEF WireInv
  <2>1. j + 1 \in DOMAIN wire /\ wire'[j] = wire[j + 1] /\ j \in Nat
    BY <1>3, <1>4, <1>5
  <2> DEFINE k == wire[j + 1].key
  <2>2. k \in Keys
    <3>1. wire[j + 1] \in OutEnvelope
      BY <1>2, <2>1
    <3> QED  BY <3>1 DEF OutEnvelope
  <2>3. PICK z \in DOMAIN numbered[k] :
          /\ wire[j + 1] = numbered[k][z]
          /\ \A y \in 1..(z - 1) :
               \/ y <= Len(received[k])
               \/ \E i \in 1..((j + 1) - 1) : wire[i] = numbered[k][y]
    BY <2>1 DEF OutIInv, WireInv
  <2>4. numbered[k] \in Seq(OutEnvelope)
    BY <2>2 DEF OutIInv, OutTypes
  <2>5. ASSUME NEW y \in 1..(z - 1), ~(y <= Len(received'[k]))
        PROVE  \E i \in 1..(j - 1) : wire'[i] = numbered[k][y]
    <3>1. y \in DOMAIN numbered[k] /\ ~(y <= Len(received[k]))
      BY <1>15, <1>18, <2>2, <2>3, <2>4, <2>5
    <3>2. PICK i \in 1..((j + 1) - 1) : wire[i] = numbered[k][y]
      BY <2>3, <3>1
    <3>3. i \in DOMAIN wire
      BY <1>3, <1>5, <2>1, <3>2
    <3>4. i - 1 \in DOMAIN wire' /\ wire'[i - 1] = numbered[k][y]
      BY <1>21, <2>2, <2>5, <3>1, <3>2, <3>3
    <3>5. i - 1 \in 1..(j - 1)
      BY <1>3, <1>4, <1>5, <2>1, <3>2, <3>4
    <3> QED  BY <3>4, <3>5
  <2> QED  BY <2>1, <2>3, <2>5
<1>23. WriterInv'
  <2> SUFFICES ASSUME NEW j \in DOMAIN writer
               PROVE  \E z \in DOMAIN numbered[writer[j].key] :
                        /\ writer[j] = numbered[writer[j].key][z]
                        /\ \A y \in 1..(z - 1) :
                             \/ y <= Len(received'[writer[j].key])
                             \/ \E i \in DOMAIN wire' : wire'[i] = numbered[writer[j].key][y]
                             \/ \E i \in 1..(j - 1) : writer[i] = numbered[writer[j].key][y]
    BY <1>1 DEF WriterInv, OnWire
  <2> DEFINE k == writer[j].key
  <2>1. k \in Keys
    <3>1. writer[j] \in OutEnvelope
      BY DEF OutIInv, OutTypes
    <3> QED  BY <3>1 DEF OutEnvelope
  <2>2. PICK z \in DOMAIN numbered[k] :
          /\ writer[j] = numbered[k][z]
          /\ \A y \in 1..(z - 1) :
               \/ y <= Len(received[k])
               \/ OnWire(k, y)
               \/ \E i \in 1..(j - 1) : writer[i] = numbered[k][y]
    BY DEF OutIInv, WriterInv
  <2>3. numbered[k] \in Seq(OutEnvelope)
    BY <2>1 DEF OutIInv, OutTypes
  <2>4. ASSUME NEW y \in 1..(z - 1), ~(y <= Len(received'[k])),
               ~(\E i \in 1..(j - 1) : writer[i] = numbered[k][y])
        PROVE  \E i \in DOMAIN wire' : wire'[i] = numbered[k][y]
    <3>1. y \in DOMAIN numbered[k] /\ ~(y <= Len(received[k]))
      BY <1>15, <1>18, <2>1, <2>2, <2>3, <2>4
    <3>2. PICK i \in DOMAIN wire : wire[i] = numbered[k][y]
      BY <2>2, <2>4, <3>1 DEF OnWire
    <3> QED  BY <1>21, <2>1, <2>4, <3>1, <3>2
  <2> QED  BY <2>2, <2>4
<1>24. ComingInv'
  <2> SUFFICES ASSUME NEW k \in Keys, NEW y \in DOMAIN numbered[k], ~(y <= Len(received'[k])),
                      ~InWriter(k, y)
               PROVE  \E i \in DOMAIN wire' : wire'[i] = numbered[k][y]
    BY <1>1 DEF ComingInv, OnWire, InWriter
  <2>1. ~(y <= Len(received[k]))
    BY <1>15, <1>18 DEF OutIInv, OutTypes
  <2>2. PICK i \in DOMAIN wire : wire[i] = numbered[k][y]
    BY <1>6, <2>1 DEF OutIInv, ComingInv, OnWire
  <2> QED  BY <1>21, <2>2
<1> QED  BY <1>16, <1>17, <1>19, <1>22, <1>23, <1>24 DEF OutIInv

(* A new event is numbered after all of its stream, and goes to the buffer *)
(* and to the writer, when everything before it is on the wire.            *)
LEMMA OutTakeEvent ==
  ASSUME OutIInv, TakeEvent
  PROVE  OutIInv'
<1> DEFINE h == Head(queue).key
           n == Head(queue).segments
           s == NextSeq(h)
           envelopes == Segments(h, n)
           m == Len(numbered[h])
<1>1. /\ link /\ writer = <<>> /\ queue # <<>>
      /\ UNCHANGED <<link, wire, received>>
      /\ buffer' = buffer \union Range(envelopes)
      /\ numbered' = [numbered EXCEPT ![h] = @ \o envelopes]
      /\ writer' = envelopes /\ queue' = Tail(queue)
  BY DEF TakeEvent
<1>0. wire' = wire /\ received' = received
  BY <1>1
<1>2. queue' \in Seq(OutEvent)
  BY <1>1 DEF OutIInv, OutTypes
<1>3. h \in Keys /\ n \in {1, 2}
  <2>1. queue \in Seq(OutEvent) /\ queue # <<>>
    BY <1>1 DEF OutIInv, OutTypes
  <2>2. 1 \in DOMAIN queue /\ Head(queue) = queue[1]
    BY <2>1
  <2>3. queue[1] \in OutEvent
    BY <2>1, <2>2
  <2> QED  BY <2>2, <2>3 DEF OutEvent
<1>4. numbered[h] \in Seq(OutEnvelope) /\ received[h] \in Seq(OutEnvelope)
  BY <1>3 DEF OutIInv, OutTypes
<1>5. m \in Nat /\ DOMAIN numbered[h] = 1..m /\ Len(received[h]) \in Nat /\ Len(received[h]) <= m
  BY <1>3, <1>4 DEF OutIInv, NumberInv
<1>6. s \in Nat /\ \A i \in 1..m : numbered[h][i].seq < s
  <2>1. CASE numbered[h] = <<>>
    BY <1>5, <2>1 DEF NextSeq
  <2>2. CASE numbered[h] # <<>>
    <3>1. m > 0 /\ numbered[h][m] \in OutEnvelope
      BY <1>4, <1>5, <2>2
    <3>2. s = numbered[h][m].seq + 1
      BY <2>2 DEF NextSeq, Last
    <3>3. numbered[h][m].seq \in Nat
      BY <3>1 DEF OutEnvelope
    <3>4. ASSUME NEW i \in 1..m PROVE numbered[h][i].seq < s
      <4>1. numbered[h][i].seq \in Nat
        <5>1. numbered[h][i] \in OutEnvelope
          BY <1>4, <1>5
        <5> QED  BY <5>1 DEF OutEnvelope
      <4>2. CASE i = m
        BY <3>2, <3>3, <4>2
      <4>3. CASE i < m
        <5>1. Precedes(numbered[h][i], numbered[h][m])
          BY <1>3, <1>5, <3>1, <4>3 DEF OutIInv, NumberInv
        <5> QED  BY <3>2, <3>3, <4>1, <5>1 DEF Precedes
      <4> QED  BY <1>5, <4>2, <4>3
    <3> QED  BY <3>2, <3>3, <3>4
  <2> QED  BY <2>1, <2>2
<1> HIDE DEF s, m
<1>7. /\ envelopes = [i \in 1..n |-> [key |-> h, seq |-> s, segment |-> i - 1]]
      /\ DOMAIN envelopes = 1..n
  BY DEF Segments, s
<1>8. \A i \in 1..n : envelopes[i] = [key |-> h, seq |-> s, segment |-> i - 1]
                      /\ envelopes[i] \in OutEnvelope
  BY <1>3, <1>6, <1>7 DEF OutEnvelope
<1> HIDE DEF envelopes
<1>10. n \in Nat /\ n > 0
  BY <1>3
<1>23. envelopes \in [1..n -> OutEnvelope]
  BY <1>7, <1>8
<1> HIDE DEF n, h
<1>9. envelopes \in Seq(OutEnvelope) /\ Len(envelopes) = n
  BY <1>10, <1>23
<1>24. \A i \in 1..n : envelopes[i].key = h /\ envelopes[i].seq = s /\ envelopes[i].segment = i - 1
  <2> TAKE i \in 1..n
  <2>1. envelopes[i] = [key |-> h, seq |-> s, segment |-> i - 1]
    BY <1>8
  <2> QED  BY <2>1
<1>11. /\ numbered'[h] = numbered[h] \o envelopes
       /\ \A k \in Keys : k # h => numbered'[k] = numbered[k]
  BY <1>1, <1>3 DEF OutIInv, OutTypes
<1>12. /\ numbered'[h] \in Seq(OutEnvelope) /\ Len(numbered'[h]) = m + n
       /\ DOMAIN numbered'[h] = 1..(m + n)
       /\ \A i \in 1..m : numbered'[h][i] = numbered[h][i]
       /\ \A i \in 1..n : numbered'[h][m + i] = envelopes[i]
  <2>1. Len(numbered[h]) = m
    BY DEF m
  <2>0. numbered'[h] = numbered[h] \o envelopes
    BY <1>11
  <2>2. numbered'[h] \in Seq(OutEnvelope) /\ Len(numbered'[h]) = m + n
    <3>1. numbered[h] \o envelopes \in Seq(OutEnvelope)
          /\ Len(numbered[h] \o envelopes) = Len(numbered[h]) + Len(envelopes)
      BY <1>4, <1>9, ConcatProperties
    <3> QED  BY <1>9, <2>0, <2>1, <3>1
  <2>3. \A i \in 1..m : numbered'[h][i] = numbered[h][i]
    BY <1>4, <1>5, <1>9, <1>10, <1>11, <2>1
  <2>4. ASSUME NEW i \in 1..n PROVE numbered'[h][m + i] = envelopes[i]
    <3>1. m + i \in (m + 1)..(m + n) /\ (m + i) - m = i
      BY <1>5, <1>10
    <3> QED  BY <1>4, <1>5, <1>9, <1>10, <1>11, <2>1, <3>1, SMTT(30)
  <2> QED  BY <1>5, <1>10, <2>2, <2>3, <2>4
<1>13. \A k \in Keys : \A i \in DOMAIN numbered[k] :
         i \in DOMAIN numbered'[k] /\ numbered'[k][i] = numbered[k][i]
  <2> TAKE k \in Keys
  <2> TAKE i \in DOMAIN numbered[k]
  <2>1. CASE k = h
    <3>1. i \in 1..m
      BY <1>4, <1>5, <2>1
    <3>2. i \in 1..(m + n)
      BY <1>5, <1>10, <3>1
    <3> QED  BY <1>12, <2>1, <3>1, <3>2
  <2>2. CASE k # h
    BY <1>11, <2>2
  <2> QED  BY <2>1, <2>2
<1>14. \A i \in (m + 1)..(m + n) : i - m \in 1..n /\ numbered'[h][i] = envelopes[i - m]
  <2> TAKE i \in (m + 1)..(m + n)
  <2>1. i - m \in 1..n /\ m + (i - m) = i
    BY <1>5, <1>10
  <2> QED  BY <1>12, <2>1
<1>15. OutTypes'
  <2>1. Range(envelopes) \subseteq OutEnvelope /\ IsFiniteSet(Range(envelopes))
    <3>1. Range(envelopes) = {envelopes[i] : i \in 1..n}
      BY <1>7 DEF Range
    <3>2. Range(envelopes) \subseteq {envelopes[1], envelopes[2]}
      BY <1>3, <3>1
    <3>3. IsFiniteSet({envelopes[1], envelopes[2]})
      <4>1. IsFiniteSet({envelopes[1]}) /\ IsFiniteSet({envelopes[2]})
        BY FS_Singleton
      <4>2. {envelopes[1], envelopes[2]} = {envelopes[1]} \union {envelopes[2]}
        OBVIOUS
      <4> QED  BY <4>1, <4>2, FS_Union
    <3> QED  BY <1>8, <3>1, <3>2, <3>3, FS_Subset
  <2>2. buffer' \subseteq OutEnvelope /\ IsFiniteSet(buffer')
    BY <1>1, <2>1, FS_Union DEF OutIInv, OutTypes
  <2>3. numbered' \in [Keys -> Seq(OutEnvelope)]
    BY <1>1, <1>3, <1>11, <1>12 DEF OutIInv, OutTypes
  <2> QED  BY <1>1, <1>2, <1>9, <2>2, <2>3 DEF OutIInv, OutTypes
<1>16. NumberInv'
  <2>1. ASSUME NEW i \in 1..(m + n) PROVE numbered'[h][i].key = h
    <3>1. CASE i \in 1..m
      <4>1. numbered[h][i].key = h
        BY <1>3, <1>5, <3>1 DEF OutIInv, NumberInv
      <4> QED  BY <1>12, <3>1, <4>1
    <3>2. CASE i \in (m + 1)..(m + n)
      BY <1>24, <1>14, <3>2
    <3> QED  BY <1>5, <1>10, <3>1, <3>2
  <2>2. ASSUME NEW i \in 1..(m + n), NEW j \in 1..(m + n), i < j
        PROVE  Precedes(numbered'[h][i], numbered'[h][j])
    <3>1. CASE i \in 1..m /\ j \in 1..m
      BY <1>3, <1>5, <1>12, <2>2, <3>1 DEF OutIInv, NumberInv
    <3>2. CASE i \in 1..m /\ j \in (m + 1)..(m + n)
      <4>1. numbered'[h][j].seq = s
        BY <1>24, <1>14, <3>2
      <4> QED  BY <1>6, <1>12, <3>2, <4>1 DEF Precedes
    <3>3. CASE i \in (m + 1)..(m + n) /\ j \in (m + 1)..(m + n)
      <4>1. /\ numbered'[h][i].seq = s /\ numbered'[h][i].segment = (i - m) - 1
            /\ numbered'[h][j].seq = s /\ numbered'[h][j].segment = (j - m) - 1
        BY <1>24, <1>14, <3>3
      <4>2. (i - m) - 1 < (j - m) - 1
        BY <1>5, <2>2
      <4> QED  BY <4>1, <4>2 DEF Precedes
    <3> QED  BY <1>5, <1>10, <2>2, <3>1, <3>2, <3>3
  <2>3. ASSUME NEW k \in Keys
        PROVE  /\ \A i \in DOMAIN numbered'[k] : numbered'[k][i].key = k
               /\ \A i, j \in DOMAIN numbered'[k] :
                    i < j => Precedes(numbered'[k][i], numbered'[k][j])
               /\ Len(received[k]) <= Len(numbered'[k])
               /\ \A i \in DOMAIN received[k] : received[k][i] = numbered'[k][i]
    <3>1. CASE k = h
      <4>1. \A i \in DOMAIN received[h] : i \in 1..m /\ received[h][i] = numbered[h][i]
        BY <1>3, <1>4, <1>5 DEF OutIInv, NumberInv
      <4>2. Len(received[h]) <= Len(numbered'[h])
        BY <1>5, <1>10, <1>12
      <4>3. \A i \in DOMAIN received[h] : received[h][i] = numbered'[h][i]
        BY <1>12, <4>1
      <4>4. /\ \A i \in DOMAIN numbered'[h] : numbered'[h][i].key = h
            /\ \A i, j \in DOMAIN numbered'[h] :
                 i < j => Precedes(numbered'[h][i], numbered'[h][j])
        BY <1>12, <2>1, <2>2
      <4> QED  BY <3>1, <4>2, <4>3, <4>4
    <3>2. CASE k # h
      BY <1>11, <3>2 DEF OutIInv, NumberInv
    <3> QED  BY <3>1, <3>2
  <2> QED  BY <1>1, <2>3 DEF NumberInv
<1>17. BufferInv'
  <2>1. ASSUME NEW e \in buffer' PROVE \E i \in DOMAIN numbered'[e.key] : e = numbered'[e.key][i]
    <3>1. CASE e \in buffer
      <4>1. e.key \in Keys
        BY <3>1 DEF OutIInv, OutTypes, OutEnvelope
      <4>2. PICK i \in DOMAIN numbered[e.key] : e = numbered[e.key][i]
        BY <3>1 DEF OutIInv, BufferInv
      <4> QED  BY <1>13, <4>1, <4>2
    <3>2. CASE e \in Range(envelopes)
      <4>1. PICK i \in 1..n : e = envelopes[i]
        BY <1>7, <3>2 DEF Range
      <4>2. e.key = h
        BY <1>24, <4>1
      <4>3. m + i \in 1..(m + n)
        BY <1>5, <1>10
      <4> QED  BY <1>12, <4>1, <4>2, <4>3
    <3> QED  BY <1>1, <3>1, <3>2
  <2>2. ASSUME NEW k \in Keys, NEW i \in DOMAIN numbered'[k], i > Len(received[k])
        PROVE  numbered'[k][i] \in buffer'
    <3>1. CASE i \in DOMAIN numbered[k]
      BY <1>1, <1>13, <2>2, <3>1 DEF OutIInv, BufferInv
    <3>2. CASE i \notin DOMAIN numbered[k]
      <4>1. k = h /\ i \in (m + 1)..(m + n)
        BY <1>5, <1>11, <1>12, <3>2
      <4>2. numbered'[k][i] \in Range(envelopes)
        BY <1>7, <1>14, <4>1 DEF Range
      <4> QED  BY <1>1, <4>2
    <3> QED  BY <3>1, <3>2
  <2> QED  BY <1>1, <2>1, <2>2 DEF BufferInv
(* Until now the writer was empty, so whatever is missing is on the wire.  *)
<1>18. \A k \in Keys : \A y \in DOMAIN numbered[k] : y <= Len(received[k]) \/ OnWire(k, y)
  BY <1>1 DEF OutIInv, ComingInv, InWriter
<1>19. \A j \in DOMAIN wire : wire[j].key \in Keys
  <2>1. \A j \in DOMAIN wire : wire[j] \in OutEnvelope
    BY DEF OutIInv, OutTypes
  <2> QED  BY <2>1 DEF OutEnvelope
<1>20. WireInv'
  <2> SUFFICES ASSUME NEW j \in DOMAIN wire
               PROVE  \E x \in DOMAIN numbered'[wire[j].key] :
                        /\ wire[j] = numbered'[wire[j].key][x]
                        /\ \A y \in 1..(x - 1) :
                             \/ y <= Len(received[wire[j].key])
                             \/ \E i \in 1..(j - 1) : wire[i] = numbered'[wire[j].key][y]
    BY <1>0 DEF WireInv
  <2> DEFINE k == wire[j].key
  <2>1. k \in Keys
    BY <1>19
  <2>2. PICK x \in DOMAIN numbered[k] :
          /\ wire[j] = numbered[k][x]
          /\ \A y \in 1..(x - 1) :
               \/ y <= Len(received[k])
               \/ \E i \in 1..(j - 1) : wire[i] = numbered[k][y]
    BY DEF OutIInv, WireInv
  <2>3. \A y \in 1..(x - 1) : y \in DOMAIN numbered[k]
    <3>1. numbered[k] \in Seq(OutEnvelope)
      BY <2>1 DEF OutIInv, OutTypes
    <3> QED  BY <2>2, <3>1
  <2> QED  BY <1>13, <2>1, <2>2, <2>3
<1>21. WriterInv'
  <2> SUFFICES ASSUME NEW j \in 1..n
               PROVE  \E x \in DOMAIN numbered'[h] :
                        /\ envelopes[j] = numbered'[h][x]
                        /\ \A y \in 1..(x - 1) :
                             \/ y <= Len(received[h])
                             \/ \E i \in DOMAIN wire : wire[i] = numbered'[h][y]
                             \/ \E i \in 1..(j - 1) : envelopes[i] = numbered'[h][y]
    <3>1. writer' = envelopes /\ DOMAIN envelopes = 1..n
      BY <1>1, <1>7
    <3>2. \A j \in 1..n : writer'[j].key = h
      BY <1>24, <3>1
    <3> QED  BY <1>0, <3>1, <3>2 DEF WriterInv, OnWire
  <2>1. m + j \in DOMAIN numbered'[h] /\ envelopes[j] = numbered'[h][m + j]
    BY <1>5, <1>10, <1>12
  <2>2. ASSUME NEW y \in 1..((m + j) - 1), ~(y <= Len(received[h]))
        PROVE  \/ \E i \in DOMAIN wire : wire[i] = numbered'[h][y]
               \/ \E i \in 1..(j - 1) : envelopes[i] = numbered'[h][y]
    <3>1. CASE y \in 1..m
      <4>1. PICK i \in DOMAIN wire : wire[i] = numbered[h][y]
        BY <1>3, <1>5, <1>18, <2>2, <3>1 DEF OnWire
      <4> QED  BY <1>12, <3>1, <4>1
    <3>2. CASE y \in (m + 1)..((m + j) - 1)
      <4>1. y \in (m + 1)..(m + n) /\ y - m \in 1..(j - 1)
        BY <1>5, <1>10, <3>2
      <4> QED  BY <1>14, <4>1
    <3> QED  BY <1>5, <1>10, <3>1, <3>2
  <2> QED  BY <2>1, <2>2
<1>22. ComingInv'
  <2> SUFFICES ASSUME NEW k \in Keys, NEW y \in DOMAIN numbered'[k], ~(y <= Len(received[k])),
                      ~(\E i \in DOMAIN wire : wire[i] = numbered'[k][y])
               PROVE  \E i \in 1..n : envelopes[i] = numbered'[k][y]
    BY <1>1, <1>7, ZenonT(60) DEF ComingInv, OnWire, InWriter
  <2>1. CASE y \in DOMAIN numbered[k]
    BY <1>13, <1>18, <2>1 DEF OnWire
  <2>2. CASE y \notin DOMAIN numbered[k]
    <3>1. k = h /\ y \in (m + 1)..(m + n)
      BY <1>5, <1>11, <1>12, <2>2
    <3> QED  BY <1>14, <3>1
  <2> QED  BY <2>1, <2>2
<1> QED  BY <1>15, <1>16, <1>17, <1>20, <1>21, <1>22 DEF OutIInv

-----------------------------------------------------------------------------
(* The invariant, and what it means for the relay.                         *)

LEMMA OutInit ==
  ASSUME Init
  PROVE  OutIInv
<1> USE DEF Init
<1>1. /\ link = FALSE /\ queue = <<>> /\ writer = <<>> /\ wire = <<>> /\ buffer = {}
      /\ numbered = [k \in Keys |-> <<>>] /\ received = [k \in Keys |-> <<>>]
  OBVIOUS
<1>2. <<>> \in Seq(OutEnvelope) /\ <<>> \in Seq(OutEvent)
  OBVIOUS
<1>3. IsFiniteSet(buffer)
  BY <1>1, FS_EmptySet
<1> HIDE DEF Init
<1>4. OutTypes
  BY <1>1, <1>2, <1>3 DEF OutTypes
<1>5. /\ \A k \in Keys : numbered[k] = <<>> /\ received[k] = <<>>
      /\ \A k \in Keys : DOMAIN numbered[k] = {} /\ DOMAIN received[k] = {}
      /\ \A k \in Keys : Len(numbered[k]) = 0 /\ Len(received[k]) = 0
      /\ DOMAIN wire = {} /\ DOMAIN writer = {}
  BY <1>1
<1>6. NumberInv /\ BufferInv
  BY <1>1, <1>5 DEF NumberInv, BufferInv
<1>7. WireInv /\ WriterInv /\ ComingInv
  BY <1>1, <1>5 DEF WireInv, WriterInv, ComingInv
<1> QED  BY <1>4, <1>6, <1>7 DEF OutIInv

LEMMA OutNext ==
  ASSUME OutIInv, InIInv, [Next]_vars
  PROVE  OutIInv'
<1>1. CASE UNCHANGED vars
  BY <1>1, OutStutters DEF vars, outVars, OutSame
<1>2. CASE Connect
  BY <1>2, OutConnect
<1>3. CASE Break \/ ForwardTimeout
  BY <1>3, OutStop DEF Break, ForwardTimeout
<1>4. CASE Handle
  BY <1>4, OutStutters DEF Handle, Read, HandleMessage, ReplaceClient, OpenClient, ForwardInit,
     HandleClosed, Record, outVars, OutSame
<1>5. ASSUME NEW k \in Keys, ClientSends(k) \/ IdleSweep(k) \/ Ack(k)
      PROVE  OutIInv'
  <2>1. CASE ClientSends(k) \/ IdleSweep(k)
    BY <2>1, OutStutters DEF ClientSends, IdleSweep, CloseStream, outVars, OutSame
  <2> QED  BY <1>5, <2>1, OutAck
<1>6. ASSUME NEW c \in Conns, TaskEnds(c) \/ Join(c) \/ Enqueue(c)
      PROVE  OutIInv'
  <2>1. CASE TaskEnds(c) \/ Join(c)
    BY <2>1, OutStutters DEF TaskEnds, Join, CloseStream, outVars, OutSame
  <2>2. CASE Enqueue(c)
    <3>1. tasks \in [running : SUBSET (DOMAIN conns), ended : SUBSET (DOMAIN conns)]
      BY DEF InIInv, InTypes
    <3>2. c \in DOMAIN conns
      BY <2>2, <3>1 DEF Enqueue
    <3>3. conns[c] \in Keys
      BY <3>2, TrackTypes DEF InIInv
    <3> QED  BY <2>2, <3>3, OutEnqueue
  <2> QED  BY <1>6, <2>1, <2>2
<1>7. CASE TakeEvent \/ Send \/ Receive
  BY <1>7, OutTakeEvent, OutSend, OutReceive
<1> QED  BY <1>1, <1>2, <1>3, <1>4, <1>5, <1>6, <1>7 DEF Next

(* The invariant of the outbound direction is inductive.                   *)
THEOREM OutboundInductive == Spec => []OutIInv
<1>1. OutIInv /\ InIInv /\ [Next]_vars => OutIInv'
  BY OutNext
<1> QED  BY <1>1, OutInit, InboundInductive, PTL DEF Spec

(* The relay sees each stream's envelopes in order and without a hole,     *)
(* whatever is sent again on a new websocket (run_server_writer_inner,     *)
(* BoundedOutboundBuffer).                                                 *)
THEOREM RelaySeesPrefix == Spec => []RelayInOrder
<1>1. OutIInv => RelayInOrder
  <2> SUFFICES ASSUME OutIInv, NEW k \in Keys
               PROVE  IsPrefix(received[k], numbered[k])
    BY DEF RelayInOrder
  <2>1. numbered[k] \in Seq(OutEnvelope) /\ received[k] \in Seq(OutEnvelope)
    BY DEF OutIInv, OutTypes
  <2>2. Len(received[k]) <= Len(numbered[k])
        /\ \A i \in DOMAIN received[k] : received[k][i] = numbered[k][i]
    BY DEF OutIInv, NumberInv
  <2>3. received[k] = SubSeq(numbered[k], 1, Len(received[k]))
    BY <2>1, <2>2
  <2> QED  BY <2>2, <2>3 DEF IsPrefix
<1> QED  BY <1>1, OutboundInductive, PTL
=============================================================================
