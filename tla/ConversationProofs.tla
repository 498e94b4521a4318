------------------------- MODULE ConversationProofs -------------------------
(***************************************************************************)
(* Proofs about Conversation and the operators of ToolRequests, for every  *)
(* number of items, calls and requests:                                    *)
(*   - no history that a request is made from holds an output without a    *)
(*     call, also where the ids of calls are used again;                   *)
(*   - with calls that have ids of their own, what a history becomes in a  *)
(*     Chat request has a closed form, from which pairing and the prefix   *)
(*     property follow, and its items have places in the turns of an       *)
(*     Anthropic request.                                                  *)
(***************************************************************************)
EXTENDS Conversation, FiniteSetTheorems, NaturalsInduction, WellFoundedInduction, TLAPS

-----------------------------------------------------------------------------
(* Numbers. *)

LEMMA LeastOf ==
    ASSUME NEW S, S \subseteq Nat, S # {}
    PROVE  \E x \in S : \A y \in S : x <= y
  <1>1. PICK x \in S : \A y \in S : ~(<<y, x>> \in OpToRel(<, Nat))
    BY NatLessThanWellFounded, WFMin
  <1>2. \A y \in S : ~(y < x)
    BY <1>1 DEF OpToRel
  <1> QED BY <1>2

\* Induction up to n, over the set of the numbers that have the property.
LEMMA UpTo ==
    ASSUME NEW n \in Nat, NEW T, 0 \in T, \A k \in 0..(n - 1) : k \in T => k + 1 \in T
    PROVE  \A k \in 0..n : k \in T
  <1> DEFINE S == {k \in 0..n : k \notin T}
  <1> SUFFICES ASSUME S # {} PROVE FALSE
    OBVIOUS
  <1>1. S \subseteq Nat
    OBVIOUS
  <1>2. PICK m \in S : \A y \in S : m <= y
    <2> HIDE DEF S
    <2> QED BY <1>1, LeastOf
  <1>3. m # 0 /\ m \in 0..n
    OBVIOUS
  <1>4. m - 1 \in 0..(n - 1) /\ m - 1 \in 0..n /\ (m - 1) + 1 = m
    BY <1>3
  <1>5. m - 1 \notin S
    BY <1>2, <1>3
  <1> QED BY <1>4, <1>5

LEMMA MinOf ==
    ASSUME NEW S, S \subseteq Nat, S # {}
    PROVE  Min(S) \in S /\ \A y \in S : Min(S) <= y
  BY LeastOf DEF Min

LEMMA MaxOf ==
    ASSUME NEW n \in Nat, NEW S, S \subseteq 0..n, S # {}
    PROVE  Max(S) \in S /\ \A y \in S : Max(S) >= y
  <1> DEFINE R == {n - y : y \in S}
  <1>1. R \subseteq Nat
    OBVIOUS
  <1>11. R # {}
    OBVIOUS
  <1>2. PICK r \in R : \A y \in R : r <= y
    <2> HIDE DEF R
    <2> QED BY <1>1, <1>11, LeastOf
  <1>3. PICK x \in S : r = n - x
    OBVIOUS
  <1>4. \A y \in S : n - x <= n - y
    BY <1>2, <1>3
  <1>5. \A y \in S : x >= y
    BY <1>4
  <1> QED BY <1>5 DEF Max

-----------------------------------------------------------------------------
(* Sequences. *)

LEMMA ConcatPlaces ==
    ASSUME NEW S, NEW a \in Seq(S), NEW b \in Seq(S)
    PROVE  /\ a \o b \in Seq(S) /\ Len(a \o b) = Len(a) + Len(b)
           /\ Len(a) \in Nat /\ Len(b) \in Nat
           /\ \A i \in 1..Len(a) : (a \o b)[i] = a[i]
           /\ \A i \in 1..Len(b) : (a \o b)[Len(a) + i] = b[i]
           /\ \A i \in 1..(Len(a) + Len(b)) :
                i \in 1..Len(a) \/ \E j \in 1..Len(b) : i = Len(a) + j
  <1>1. /\ a \o b \in Seq(S) /\ Len(a \o b) = Len(a) + Len(b)
        /\ Len(a) \in Nat /\ Len(b) \in Nat
    OBVIOUS
  <1>2. \A i \in 1..Len(a) : (a \o b)[i] = a[i]
    OBVIOUS
  <1>3. ASSUME NEW i \in 1..Len(b) PROVE (a \o b)[Len(a) + i] = b[i]
    <2>1. Len(a) + i \in 1..(Len(a) + Len(b)) /\ ~(Len(a) + i <= Len(a)) /\ (Len(a) + i) - Len(a) = i
      BY <1>1
    <2> QED BY <2>1
  <1>4. ASSUME NEW i \in 1..(Len(a) + Len(b)), i \notin 1..Len(a) PROVE \E j \in 1..Len(b) : i = Len(a) + j
    <2>1. i - Len(a) \in 1..Len(b) /\ i = Len(a) + (i - Len(a))
      BY <1>1, <1>4
    <2> QED BY <2>1
  <1> QED BY <1>1, <1>2, <1>3, <1>4

LEMMA Pair ==
    ASSUME NEW S, NEW a \in S, NEW b \in S
    PROVE  <<a>> \o <<b>> = <<a, b>>
  <1>1. <<a>> \in Seq(S) /\ <<b>> \in Seq(S) /\ Len(<<a>>) = 1 /\ Len(<<b>>) = 1
    OBVIOUS
  <1>2. <<a>> \o <<b>> \in Seq(S) /\ Len(<<a>> \o <<b>>) = 2
    BY <1>1
  <1>3. (<<a>> \o <<b>>)[1] = a /\ (<<a>> \o <<b>>)[2] = b
    BY <1>1
  <1>4. <<a, b>> \in Seq(S) /\ Len(<<a, b>>) = 2 /\ <<a, b>>[1] = a /\ <<a, b>>[2] = b
    OBVIOUS
  <1>5. \A i \in 1..2 : (<<a>> \o <<b>>)[i] = <<a, b>>[i]
    <2>1. \A i \in 1..2 : i = 1 \/ i = 2
      OBVIOUS
    <2> QED BY <1>3, <1>4, <2>1
  <1>6. \A p, q \in Seq(S) : Len(p) = 2 /\ Len(q) = 2 /\ (\A i \in 1..2 : p[i] = q[i]) => p = q
    OBVIOUS
  <1> QED BY <1>2, <1>4, <1>5, <1>6

-----------------------------------------------------------------------------
(* FlattenSeq, block by block. *)

Chain(f, s, n) == \A i \in 1..n : f[i] = IF i = 1 THEN s[i] ELSE f[i - 1] \o s[i]

LEMMA ChainsAgree ==
    ASSUME NEW n \in Nat, NEW s, NEW t, NEW f, NEW g, Chain(f, s, n), Chain(g, t, n),
           \A i \in 1..n : s[i] = t[i]
    PROVE  \A i \in 1..n : f[i] = g[i]
  <1> DEFINE T == {k \in 0..n : \A i \in 1..k : f[i] = g[i]}
  <1>1. 0 \in T
    OBVIOUS
  <1>2. ASSUME NEW k \in 0..(n - 1), k \in T PROVE k + 1 \in T
    <2>1. f[k + 1] = g[k + 1]
      <3>1. CASE k = 0
        BY <3>1 DEF Chain
      <3>2. CASE k # 0
        <4>1. k + 1 \in 1..n /\ k \in 1..k /\ k + 1 # 1 /\ (k + 1) - 1 = k
          BY <3>2
        <4>2. f[k] = g[k]
          BY <1>2, <4>1
        <4>3. f[k + 1] = f[k] \o s[k + 1] /\ g[k + 1] = g[k] \o t[k + 1] /\ s[k + 1] = t[k + 1]
          BY <4>1 DEF Chain
        <4> QED BY <4>2, <4>3
      <3> QED BY <3>1, <3>2
    <2>2. \A i \in 1..(k + 1) : i \in 1..k \/ i = k + 1
      OBVIOUS
    <2> QED BY <1>2, <2>1, <2>2
  <1>3. n \in T
    <2> HIDE DEF T
    <2> QED BY <1>1, <1>2, UpTo
  <1> QED BY <1>3

LEMMA ChainExists ==
    ASSUME NEW n \in Nat, NEW s
    PROVE  \E f : f = [i \in 1..n |-> IF i = 1 THEN s[i] ELSE f[i - 1] \o s[i]]
  <1> DEFINE T == {k \in 0..n : \E f : f = [i \in 1..k |-> IF i = 1 THEN s[i] ELSE f[i - 1] \o s[i]]}
  <1>1. 0 \in T
    <2> DEFINE f == [i \in 1..0 |-> s[i]]
    <2>1. f = [i \in 1..0 |-> IF i = 1 THEN s[i] ELSE f[i - 1] \o s[i]]
      OBVIOUS
    <2>2. 0 \in 0..n
      OBVIOUS
    <2> HIDE DEF f
    <2> QED BY <2>1, <2>2
  <1>2. ASSUME NEW k \in 0..(n - 1), k \in T PROVE k + 1 \in T
    <2>1. PICK f : f = [i \in 1..k |-> IF i = 1 THEN s[i] ELSE f[i - 1] \o s[i]]
      BY <1>2
    <2> DEFINE g == [i \in 1..(k + 1) |->
                       IF i \in 1..k THEN f[i] ELSE IF i = 1 THEN s[i] ELSE f[i - 1] \o s[i]]
    <2>2. ASSUME NEW i \in 1..(k + 1)
          PROVE  g[i] = IF i = 1 THEN s[i] ELSE g[i - 1] \o s[i]
      <3>1. CASE i = 1
        BY <2>1, <3>1
      <3>2. CASE i # 1
        <4>1. i - 1 \in 1..k /\ i - 1 \in 1..(k + 1)
          BY <3>2
        <4>2. g[i - 1] = f[i - 1]
          BY <4>1
        <4>3. CASE i \in 1..k
          BY <2>1, <3>2, <4>2, <4>3
        <4>4. CASE i \notin 1..k
          BY <3>2, <4>2, <4>4
        <4> QED BY <4>3, <4>4
      <3> QED BY <3>1, <3>2
    <2>3. g = [i \in 1..(k + 1) |-> IF i = 1 THEN s[i] ELSE g[i - 1] \o s[i]]
      BY <2>2
    <2>4. k + 1 \in 0..n
      OBVIOUS
    <2> HIDE DEF g
    <2> QED BY <2>3, <2>4
  <1>3. n \in T
    <2> HIDE DEF T
    <2> QED BY <1>1, <1>2, UpTo
  <1> QED BY <1>3

\* The first k of the blocks b, put together.
Flat(b, k) == FlattenSeq([i \in 1..k |-> b[i]])

LEMMA FlatIsChain ==
    ASSUME NEW n \in Nat, NEW b, NEW k \in 1..n
    PROVE  \E f : Chain(f, b, k) /\ Flat(b, k) = f[k]
  <1> DEFINE s == [i \in 1..k |-> b[i]]
             f == CHOOSE f : f = [i \in 1..Len(s) |-> IF i = 1 THEN s[i] ELSE f[i - 1] \o s[i]]
  <1>1. Len(s) = k /\ k \in Nat /\ k # 0 /\ \A i \in 1..k : s[i] = b[i]
    OBVIOUS
  <1>11. Flat(b, k) = FlattenSeq(s)
    BY DEF Flat
  <1> HIDE DEF s
  <1>12. FlattenSeq(s) = IF Len(s) = 0 THEN s ELSE f[Len(s)]
    BY DEF FlattenSeq
  <1>2. Flat(b, k) = f[k]
    BY <1>1, <1>11, <1>12
  <1>3. \E g : g = [i \in 1..Len(s) |-> IF i = 1 THEN s[i] ELSE g[i - 1] \o s[i]]
    BY <1>1, ChainExists
  <1>4. f = [i \in 1..Len(s) |-> IF i = 1 THEN s[i] ELSE f[i - 1] \o s[i]]
    BY <1>3
  <1> HIDE DEF f
  <1>5. Chain(f, b, k)
    BY <1>1, <1>4 DEF Chain
  <1> QED BY <1>2, <1>5

\* The blocks of b one after the other.
LEMMA FlatSteps ==
    ASSUME NEW n \in Nat, NEW S, NEW b, \A i \in 1..n : b[i] \in Seq(S)
    PROVE  /\ Flat(b, 0) = <<>>
           /\ \A k \in 0..(n - 1) : Flat(b, k + 1) = Flat(b, k) \o b[k + 1]
           /\ \A k \in 0..n : Flat(b, k) \in Seq(S)
  <1>1. Flat(b, 0) = <<>>
    BY DEF Flat, FlattenSeq
  <1>2. ASSUME NEW k \in 0..(n - 1), Flat(b, k) \in Seq(S)
        PROVE  Flat(b, k + 1) = Flat(b, k) \o b[k + 1]
    <2>1. k + 1 \in 1..n
      OBVIOUS
    <2>2. PICK f : Chain(f, b, k + 1) /\ Flat(b, k + 1) = f[k + 1]
      BY <2>1, FlatIsChain
    <2>3. CASE k = 0
      BY <1>1, <2>1, <2>2, <2>3 DEF Chain
    <2>4. CASE k # 0
      <3>1. k \in 1..n /\ k + 1 # 1 /\ (k + 1) - 1 = k /\ k + 1 \in 1..(k + 1)
        BY <2>4
      <3>2. PICK g : Chain(g, b, k) /\ Flat(b, k) = g[k]
        BY <3>1, FlatIsChain
      <3>3. Chain(f, b, k)
        BY <2>2, <3>1 DEF Chain
      <3>4. f[k] = g[k]
        BY <3>1, <3>2, <3>3, ChainsAgree
      <3> QED BY <2>2, <3>1, <3>2, <3>4 DEF Chain
    <2> QED BY <2>3, <2>4
  <1> DEFINE T == {k \in 0..n : Flat(b, k) \in Seq(S)}
  <1>3. 0 \in T
    <2>1. <<>> \in Seq(S) /\ 0 \in 0..n
      OBVIOUS
    <2> QED BY <1>1, <2>1
  <1>4. ASSUME NEW k \in 0..(n - 1), k \in T PROVE k + 1 \in T
    <2>1. Flat(b, k + 1) = Flat(b, k) \o b[k + 1] /\ k + 1 \in 0..n /\ k + 1 \in 1..n
      BY <1>2, <1>4
    <2>2. Flat(b, k) \in Seq(S) /\ b[k + 1] \in Seq(S)
      BY <1>4, <2>1
    <2>3. Flat(b, k) \o b[k + 1] \in Seq(S)
      BY <2>2
    <2> QED BY <2>1, <2>3
  <1>5. \A k \in 0..n : k \in T
    <2> HIDE DEF T
    <2> QED BY <1>3, <1>4, UpTo
  <1>6. \A k \in 0..n : Flat(b, k) \in Seq(S)
    BY <1>5
  <1>7. \A k \in 0..(n - 1) : k \in 0..n
    OBVIOUS
  <1> QED BY <1>1, <1>2, <1>6, <1>7

\* FlattenSeq of as many blocks as b has.
LEMMA FlatAll ==
    ASSUME NEW n \in Nat, NEW b, b = [i \in 1..n |-> b[i]]
    PROVE  FlattenSeq(b) = Flat(b, n)
  BY DEF Flat

LEMMA FlatSame ==
    ASSUME NEW n \in Nat, NEW b, NEW d, \A i \in 1..n : b[i] = d[i]
    PROVE  Flat(b, n) = Flat(d, n)
  <1>1. [i \in 1..n |-> b[i]] = [i \in 1..n |-> d[i]]
    OBVIOUS
  <1> QED BY <1>1 DEF Flat

-----------------------------------------------------------------------------
(* The items at some places. *)

Kept(x, P) == [i \in 1..Len(x) |-> IF i \in P THEN <<x[i]>> ELSE <<>>]

\* Only, built up place by place.
OnlyBuilds(x, P, S) ==
    /\ Only(x, P) = Flat(Kept(x, P), Len(x))
    /\ Len(x) \in Nat /\ Flat(Kept(x, P), 0) = <<>>
    /\ \A k \in 0..Len(x) : Flat(Kept(x, P), k) \in Seq(S)
    /\ \A k \in 0..(Len(x) - 1) :
         /\ k + 1 \in P => Flat(Kept(x, P), k + 1) = Append(Flat(Kept(x, P), k), x[k + 1])
         /\ k + 1 \notin P => Flat(Kept(x, P), k + 1) = Flat(Kept(x, P), k)

LEMMA OnlySteps ==
    ASSUME NEW S, NEW x \in Seq(S), NEW P
    PROVE  OnlyBuilds(x, P, S)
  <1> DEFINE b == Kept(x, P)
             n == Len(x)
  <1>1. n \in Nat /\ \A i \in 1..n : x[i] \in S
    OBVIOUS
  <1>2. b = [i \in 1..n |-> b[i]] /\ Only(x, P) = FlattenSeq(b)
    BY DEF Kept, Only
  <1>3. \A i \in 1..n : b[i] = IF i \in P THEN <<x[i]>> ELSE <<>>
    BY DEF Kept
  <1> HIDE DEF b, n
  <1>4. ASSUME NEW i \in 1..n PROVE b[i] \in Seq(S)
    <2>1. <<x[i]>> \in Seq(S) /\ <<>> \in Seq(S)
      BY <1>1
    <2> QED BY <1>3, <2>1
  <1>5. /\ Flat(b, 0) = <<>>
        /\ \A k \in 0..(n - 1) : Flat(b, k + 1) = Flat(b, k) \o b[k + 1]
        /\ \A k \in 0..n : Flat(b, k) \in Seq(S)
    BY <1>1, <1>4, FlatSteps
  <1>6. Only(x, P) = Flat(b, n)
    BY <1>1, <1>2, FlatAll
  <1>7. ASSUME NEW k \in 0..(n - 1)
        PROVE  /\ k + 1 \in P => Flat(b, k + 1) = Append(Flat(b, k), x[k + 1])
               /\ k + 1 \notin P => Flat(b, k + 1) = Flat(b, k)
    <2>1. k + 1 \in 1..n /\ k \in 0..n
      BY <1>1
    <2>2. Flat(b, k) \in Seq(S) /\ Flat(b, k + 1) = Flat(b, k) \o b[k + 1]
      BY <1>5, <2>1
    <2>3. CASE k + 1 \in P
      <3>1. b[k + 1] = <<x[k + 1]>> /\ x[k + 1] \in S
        BY <1>1, <1>3, <2>1, <2>3
      <3> QED BY <2>2, <2>3, <3>1
    <2>4. CASE k + 1 \notin P
      <3>1. b[k + 1] = <<>>
        BY <1>3, <2>1, <2>4
      <3> QED BY <2>2, <2>4, <3>1
    <2> QED BY <2>3, <2>4
  <1> QED BY <1>1, <1>5, <1>6, <1>7 DEF b, n, OnlyBuilds

LEMMA OnlyAll ==
    ASSUME NEW S, NEW x \in Seq(S)
    PROVE  Only(x, 1..Len(x)) = x
  <1>0. SubSeq(x, 1, 0) = <<>> /\ 0 \in 0..Len(x)
    OBVIOUS
  <1>10. PICK P : P = 1..Len(x)
    OBVIOUS
  <1> DEFINE f(k) == Flat(Kept(x, P), k)
  <1>9. OnlyBuilds(x, P, S)
    BY OnlySteps
  <1>1. Only(x, P) = f(Len(x))
    BY <1>9 DEF OnlyBuilds
  <1>11. Len(x) \in Nat /\ f(0) = <<>>
    BY <1>9 DEF OnlyBuilds
  <1>12. ASSUME NEW k \in 0..(Len(x) - 1), k + 1 \in P
         PROVE  f(k + 1) = Append(f(k), x[k + 1])
    BY <1>9, <1>12 DEF OnlyBuilds
  <1> DEFINE T == {k \in 0..Len(x) : f(k) = SubSeq(x, 1, k)}
  <1> HIDE DEF f
  <1>2. 0 \in T
    BY <1>0, <1>11
  <1>3. ASSUME NEW k \in 0..(Len(x) - 1), k \in T PROVE k + 1 \in T
    <2>1. k + 1 \in 1..Len(x) /\ k + 1 \in P /\ k + 1 \in 0..Len(x)
      BY <1>10, <1>11
    <2>2. f(k + 1) = Append(SubSeq(x, 1, k), x[k + 1])
      BY <1>12, <1>3, <2>1
    <2>3. SubSeq(x, 1, k + 1) = Append(SubSeq(x, 1, k), x[k + 1])
      BY <2>1
    <2> QED BY <2>1, <2>2, <2>3
  <1>4. Len(x) \in T
    <2>1. Len(x) \in Nat /\ Len(x) \in 0..Len(x)
      OBVIOUS
    <2> HIDE DEF T
    <2> QED BY <1>2, <1>3, <2>1, UpTo
  <1>5. SubSeq(x, 1, Len(x)) = x
    OBVIOUS
  <1> QED BY <1>1, <1>4, <1>5, <1>10

LEMMA OnlyNone ==
    ASSUME NEW S, NEW x \in Seq(S), NEW P, \A i \in 1..Len(x) : i \notin P
    PROVE  Only(x, P) = <<>>
  <1> DEFINE f(k) == Flat(Kept(x, P), k)
             T == {k \in 0..Len(x) : f(k) = <<>>}
  <1>1. /\ Only(x, P) = f(Len(x)) /\ Len(x) \in Nat /\ f(0) = <<>>
        /\ \A k \in 0..(Len(x) - 1) :
             /\ k + 1 \in P => f(k + 1) = Append(f(k), x[k + 1])
             /\ k + 1 \notin P => f(k + 1) = f(k)
    <2>1. OnlyBuilds(x, P, S)
      BY OnlySteps
    <2> QED BY <2>1 DEF OnlyBuilds
  <1> HIDE DEF f
  <1>2. 0 \in T
    BY <1>1
  <1>3. ASSUME NEW k \in 0..(Len(x) - 1), k \in T PROVE k + 1 \in T
    <2>1. k + 1 \in 1..Len(x) /\ k + 1 \in 0..Len(x)
      BY <1>1
    <2> QED BY <1>1, <1>3, <2>1
  <1>4. Len(x) \in T
    <2>1. Len(x) \in Nat /\ Len(x) \in 0..Len(x)
      OBVIOUS
    <2> HIDE DEF T
    <2> QED BY <1>2, <1>3, <2>1, UpTo
  <1> QED BY <1>1, <1>4

LEMMA OnlyOne ==
    ASSUME NEW S, NEW x \in Seq(S), NEW p \in 1..Len(x)
    PROVE  Only(x, {p}) = <<x[p]>>
  <1> DEFINE P == {p}
             f(k) == Flat(Kept(x, P), k)
             T == {k \in 0..Len(x) : f(k) = IF k < p THEN <<>> ELSE <<x[p]>>}
  <1> HIDE DEF P
  <1>1. /\ Only(x, P) = f(Len(x)) /\ Len(x) \in Nat /\ f(0) = <<>>
        /\ \A k \in 0..(Len(x) - 1) :
             /\ k + 1 \in P => f(k + 1) = Append(f(k), x[k + 1])
             /\ k + 1 \notin P => f(k + 1) = f(k)
    <2>1. OnlyBuilds(x, P, S)
      BY OnlySteps
    <2> QED BY <2>1 DEF OnlyBuilds
  <1> HIDE DEF f
  <1> USE DEF P
  <1>2. 0 \in T
    BY <1>1
  <1>3. ASSUME NEW k \in 0..(Len(x) - 1), k \in T PROVE k + 1 \in T
    <2>1. k + 1 \in 1..Len(x) /\ k + 1 \in 0..Len(x)
      BY <1>1
    <2>2. CASE k + 1 = p
      <3>1. f(k) = <<>> /\ f(k + 1) = Append(f(k), x[p])
        BY <1>1, <1>3, <2>2
      <3> QED BY <2>1, <2>2, <3>1
    <2>3. CASE k + 1 # p
      <3>1. f(k + 1) = f(k)
        BY <1>1, <2>3
      <3>2. k + 1 < p <=> k < p
        BY <2>3
      <3> QED BY <1>3, <2>1, <3>1, <3>2
    <2> QED BY <2>2, <2>3
  <1>4. Len(x) \in T
    <2>1. Len(x) \in Nat /\ Len(x) \in 0..Len(x)
      OBVIOUS
    <2> HIDE DEF T
    <2> QED BY <1>2, <1>3, <2>1, UpTo
  <1> QED BY <1>1, <1>4

\* What is kept, and that nothing else is.
LEMMA OnlyHolds ==
    ASSUME NEW S, NEW x \in Seq(S), NEW P
    PROVE  /\ Only(x, P) \in Seq(S)
           /\ \A i \in 1..Len(Only(x, P)) : \E j \in 1..Len(x) : j \in P /\ Only(x, P)[i] = x[j]
           /\ \A j \in 1..Len(x) : j \in P => \E i \in 1..Len(Only(x, P)) : Only(x, P)[i] = x[j]
  <1> DEFINE f(k) == Flat(Kept(x, P), k)
             T == {k \in 0..Len(x) :
                     /\ \A i \in 1..Len(f(k)) : \E j \in 1..k : j \in P /\ f(k)[i] = x[j]
                     /\ \A j \in 1..k : j \in P => \E i \in 1..Len(f(k)) : f(k)[i] = x[j]}
  <1>1. /\ Only(x, P) = f(Len(x)) /\ Len(x) \in Nat /\ f(0) = <<>>
        /\ \A k \in 0..Len(x) : f(k) \in Seq(S)
        /\ \A k \in 0..(Len(x) - 1) :
             /\ k + 1 \in P => f(k + 1) = Append(f(k), x[k + 1])
             /\ k + 1 \notin P => f(k + 1) = f(k)
    <2>1. OnlyBuilds(x, P, S)
      BY OnlySteps
    <2> QED BY <2>1 DEF OnlyBuilds
  <1> HIDE DEF f
  <1>2. 0 \in T
    BY <1>1
  <1>3. ASSUME NEW k \in 0..(Len(x) - 1), k \in T PROVE k + 1 \in T
    <2>1. k + 1 \in 1..Len(x) /\ k + 1 \in 0..Len(x) /\ f(k) \in Seq(S) /\ x[k + 1] \in S
      BY <1>1
    <2>2. \A j \in 1..k : j \in 1..(k + 1)
      OBVIOUS
    <2>3. \A j \in 1..(k + 1) : j \in 1..k \/ j = k + 1
      OBVIOUS
    <2>4. CASE k + 1 \in P
      <3>1. f(k + 1) = Append(f(k), x[k + 1])
        BY <1>1, <2>4
      <3>2. /\ Len(f(k + 1)) = Len(f(k)) + 1 /\ Len(f(k)) \in Nat
            /\ \A i \in 1..Len(f(k)) : f(k + 1)[i] = f(k)[i]
            /\ f(k + 1)[Len(f(k)) + 1] = x[k + 1]
        BY <2>1, <3>1, SMTT(60)
      <3>3. /\ \A i \in 1..Len(f(k + 1)) : i \in 1..Len(f(k)) \/ i = Len(f(k)) + 1
            /\ \A i \in 1..Len(f(k)) : i \in 1..Len(f(k + 1))
            /\ Len(f(k)) + 1 \in 1..Len(f(k + 1)) /\ k + 1 \in 1..(k + 1)
        BY <3>2
      <3>4. \A i \in 1..Len(f(k + 1)) : \E j \in 1..(k + 1) : j \in P /\ f(k + 1)[i] = x[j]
        BY <1>3, <2>2, <2>4, <3>2, <3>3
      <3>5. \A j \in 1..(k + 1) : j \in P => \E i \in 1..Len(f(k + 1)) : f(k + 1)[i] = x[j]
        BY <1>3, <2>3, <3>2, <3>3
      <3> QED BY <2>1, <3>4, <3>5
    <2>5. CASE k + 1 \notin P
      <3>1. f(k + 1) = f(k)
        BY <1>1, <2>5
      <3> QED BY <1>3, <2>1, <2>2, <2>3, <2>5, <3>1
    <2> QED BY <2>4, <2>5
  <1>4. Len(x) \in T
    <2>1. Len(x) \in Nat /\ Len(x) \in 0..Len(x)
      OBVIOUS
    <2> HIDE DEF T
    <2> QED BY <1>2, <1>3, <2>1, UpTo
  <1> QED BY <1>1, <1>4

-----------------------------------------------------------------------------
(* The connectors' loops over the items, one item after the other. *)

Translate(c, acc, it) == IF c = "chat" THEN ChatItem(acc, it) ELSE AnthropicItem(acc, it)

Folds(g, c, a, q, n) ==
    g = [s \in SUBSET (1..n) |->
           IF s = {} THEN a ELSE Translate(c, g[s \ {Max(s)}], q[Max(s)])]

LEMMA MaxOfSome ==
    ASSUME NEW n \in Nat, NEW s \in SUBSET (1..n), s # {}
    PROVE  /\ Max(s) \in s /\ (s \in SUBSET (1..(n - 1)) \/ Max(s) = n)
           /\ s \ {n} \in SUBSET (1..(n - 1)) /\ (n \in s => Max(s) = n)
           /\ s \ {Max(s)} \in SUBSET (1..n)
  <1>1. s \subseteq 0..n
    OBVIOUS
  <1>2. Max(s) \in s /\ \A y \in s : Max(s) >= y
    BY <1>1, MaxOf
  <1>3. s \ {n} \in SUBSET (1..(n - 1)) /\ s \ {Max(s)} \in SUBSET (1..n)
    <2>1. \A y \in 1..n : y # n => y \in 1..(n - 1)
      OBVIOUS
    <2>2. \A y \in s : y \in 1..n
      OBVIOUS
    <2> QED BY <2>1, <2>2
  <1>4. Max(s) \in 1..n
    BY <1>2
  <1>5. n \in s => Max(s) = n
    BY <1>2, <1>4
  <1>6. n \notin s => s \in SUBSET (1..(n - 1))
    BY <1>3
  <1> QED BY <1>2, <1>3, <1>5, <1>6

LEMMA FoldsExist ==
    ASSUME NEW n \in Nat, NEW c, NEW a, NEW q
    PROVE  \E g : Folds(g, c, a, q, n)
  <1> DEFINE T == {k \in 0..n : \E g : Folds(g, c, a, q, k)}
  <1>1. 0 \in T
    <2> DEFINE g == [s \in SUBSET (1..0) |-> a]
    <2>1. \A s \in SUBSET (1..0) : s = {}
      OBVIOUS
    <2>2. g = [s \in SUBSET (1..0) |-> IF s = {} THEN a ELSE Translate(c, g[s \ {Max(s)}], q[Max(s)])]
      BY <2>1
    <2>3. 0 \in 0..n
      OBVIOUS
    <2> HIDE DEF g
    <2>4. Folds(g, c, a, q, 0)
      BY <2>2 DEF Folds
    <2> QED BY <2>3, <2>4
  <1>2. ASSUME NEW k \in 0..(n - 1), k \in T PROVE k + 1 \in T
    <2>1. PICK g : Folds(g, c, a, q, k)
      BY <1>2
    <2> DEFINE h == [s \in SUBSET (1..(k + 1)) |->
                       IF s \in SUBSET (1..k) THEN g[s]
                       ELSE Translate(c, g[s \ {k + 1}], q[k + 1])]
    <2>2. ASSUME NEW s \in SUBSET (1..(k + 1))
          PROVE  h[s] = IF s = {} THEN a ELSE Translate(c, h[s \ {Max(s)}], q[Max(s)])
      <3>0. k + 1 \in Nat /\ (k + 1) - 1 = k
        OBVIOUS
      <3>1. CASE s = {}
        <4>1. s \in SUBSET (1..k)
          BY <3>1
        <4> QED BY <2>1, <3>1, <4>1 DEF Folds
      <3>2. CASE s # {} /\ s \in SUBSET (1..k)
        <4>1. Max(s) \in s
          BY <3>2, MaxOfSome
        <4>2. s \ {Max(s)} \in SUBSET (1..k) /\ s \ {Max(s)} \in SUBSET (1..(k + 1))
          BY <3>2
        <4>3. h[s] = g[s] /\ h[s \ {Max(s)}] = g[s \ {Max(s)}]
          BY <3>2, <4>2
        <4>4. g[s] = Translate(c, g[s \ {Max(s)}], q[Max(s)])
          BY <2>1, <3>2 DEF Folds
        <4> HIDE DEF h
        <4> QED BY <3>2, <4>3, <4>4
      <3>3. CASE s # {} /\ s \notin SUBSET (1..k)
        <4>1. Max(s) = k + 1 /\ s \ {k + 1} \in SUBSET (1..k) /\ s \ {k + 1} \in SUBSET (1..(k + 1))
          BY <3>0, <3>3, MaxOfSome
        <4>2. h[s] = Translate(c, g[s \ {k + 1}], q[k + 1])
          BY <3>3
        <4>3. h[s \ {k + 1}] = g[s \ {k + 1}]
          BY <4>1
        <4> HIDE DEF h
        <4> QED BY <3>3, <4>1, <4>2, <4>3
      <3> QED BY <3>1, <3>2, <3>3
    <2>3. h = [s \in SUBSET (1..(k + 1)) |-> h[s]]
      OBVIOUS
    <2>4. k + 1 \in 0..n
      OBVIOUS
    <2> HIDE DEF h
    <2>5. Folds(h, c, a, q, k + 1)
      BY <2>2, <2>3 DEF Folds
    <2> QED BY <2>4, <2>5
  <1>3. n \in T
    <2> HIDE DEF T
    <2> QED BY <1>1, <1>2, UpTo
  <1> QED BY <1>3

\* The state of a loop after each of the items.
States(f, c, a, q) ==
    /\ f[0] = a
    /\ \A k \in 0..(Len(q) - 1) : f[k + 1] = Translate(c, f[k], q[k + 1])

LEMMA FoldStates ==
    ASSUME NEW X, NEW q \in Seq(X), NEW c, NEW a, NEW g, Folds(g, c, a, q, Len(q))
    PROVE  \E f : States(f, c, a, q) /\ f[Len(q)] = g[1..Len(q)]
  <1> DEFINE f == [k \in 0..Len(q) |-> g[1..k]]
  <1>1. Len(q) \in Nat
    OBVIOUS
  <1>2. f[0] = a
    <2>1. 1..0 = {} /\ {} \in SUBSET (1..Len(q)) /\ 0 \in 0..Len(q)
      BY <1>1
    <2>2. g[{}] = a
      BY <2>1 DEF Folds
    <2> QED BY <2>1, <2>2
  <1>3. ASSUME NEW k \in 0..(Len(q) - 1) PROVE f[k + 1] = Translate(c, f[k], q[k + 1])
    <2>1. /\ k + 1 \in Nat /\ k + 1 \in 1..(k + 1) /\ 1..(k + 1) # {} /\ 1..(k + 1) \in SUBSET (1..Len(q))
          /\ (1..(k + 1)) \ {k + 1} = 1..k /\ k \in 0..Len(q) /\ k + 1 \in 0..Len(q)
      BY <1>1
    <2>2. Max(1..(k + 1)) = k + 1
      <3>1. PICK m, s : m = k + 1 /\ s = 1..m
        OBVIOUS
      <3>2. m \in Nat /\ s \in SUBSET (1..m) /\ s # {} /\ m \in s
        BY <2>1, <3>1
      <3>3. Max(s) = m
        BY <3>2, MaxOfSome
      <3> QED BY <3>1, <3>3
    <2>3. g[1..(k + 1)] = Translate(c, g[1..k], q[k + 1])
      BY <2>1, <2>2 DEF Folds
    <2> QED BY <2>1, <2>3
  <1>4. f[Len(q)] = g[1..Len(q)]
    BY <1>1
  <1> HIDE DEF f
  <1> QED BY <1>2, <1>3, <1>4 DEF States

LEMMA ChatLoop ==
    ASSUME NEW X, NEW q \in Seq(X)
    PROVE  \E f : States(f, "chat", ChatStart, q) /\ FoldLeft(ChatItem, ChatStart, q) = f[Len(q)]
  <1> DEFINE D == DOMAIN q
             iter == CHOOSE g : g = [s \in SUBSET D |->
                       IF s = {} THEN ChatStart ELSE ChatItem(g[s \ {Max(s)}], q[Max(s)])]
  <1>1. D = 1..Len(q) /\ Len(q) \in Nat
    OBVIOUS
  <1>2. FoldLeft(ChatItem, ChatStart, q) = iter[D]
    BY DEF FoldLeft, MapThenFoldSet
  <1> HIDE DEF D
  <1>3. PICK g : Folds(g, "chat", ChatStart, q, Len(q))
    BY <1>1, FoldsExist
  <1>4. g = [s \in SUBSET D |-> IF s = {} THEN ChatStart ELSE ChatItem(g[s \ {Max(s)}], q[Max(s)])]
    BY <1>1, <1>3 DEF Folds, Translate
  <1>5. iter = [s \in SUBSET D |-> IF s = {} THEN ChatStart ELSE ChatItem(iter[s \ {Max(s)}], q[Max(s)])]
    BY <1>4
  <1> HIDE DEF iter
  <1>6. Folds(iter, "chat", ChatStart, q, Len(q))
    BY <1>1, <1>5 DEF Folds, Translate
  <1> QED BY <1>1, <1>2, <1>6, FoldStates

LEMMA AnthropicLoop ==
    ASSUME NEW X, NEW q \in Seq(X)
    PROVE  \E f : /\ States(f, "anthropic", AnthropicStart, q)
                  /\ FoldLeft(AnthropicItem, AnthropicStart, q) = f[Len(q)]
  <1> DEFINE D == DOMAIN q
             iter == CHOOSE g : g = [s \in SUBSET D |->
                       IF s = {} THEN AnthropicStart ELSE AnthropicItem(g[s \ {Max(s)}], q[Max(s)])]
  <1>1. D = 1..Len(q) /\ Len(q) \in Nat
    OBVIOUS
  <1>2. FoldLeft(AnthropicItem, AnthropicStart, q) = iter[D]
    BY DEF FoldLeft, MapThenFoldSet
  <1> HIDE DEF D
  <1>3. PICK g : Folds(g, "anthropic", AnthropicStart, q, Len(q))
    BY <1>1, FoldsExist
  <1>4. g = [s \in SUBSET D |-> IF s = {} THEN AnthropicStart ELSE AnthropicItem(g[s \ {Max(s)}], q[Max(s)])]
    BY <1>1, <1>3 DEF Folds, Translate
  <1>5. iter = [s \in SUBSET D |->
                  IF s = {} THEN AnthropicStart ELSE AnthropicItem(iter[s \ {Max(s)}], q[Max(s)])]
    BY <1>4
  <1> HIDE DEF iter
  <1>6. Folds(iter, "anthropic", AnthropicStart, q, Len(q))
    BY <1>1, <1>5 DEF Folds, Translate
  <1> QED BY <1>1, <1>2, <1>6, FoldStates

-----------------------------------------------------------------------------
(* Histories. *)

Ids == [from : {"upstream", "call"}, n : Nat]
Roles == {"user", "assistant", "context", "summary"}
Entry ==
    {Message(r) : r \in Roles} \cup {Unsupported}
      \cup {Call(id, n) : id \in Ids, n \in Nat} \cup {Output(id, n) : id \in Ids, n \in Nat}

LEMMA EntryIs ==
    ASSUME NEW it \in Entry
    PROVE  /\ it.type \in {"message", "call", "output", "unsupported"}
           /\ it.type = "call" => it.role = "assistant" /\ it.call_id \in Ids /\ it.of \in Nat
           /\ it.type = "output" => it.role = "tool" /\ it.call_id \in Ids /\ it.of \in Nat
           /\ DOMAIN it = {"type", "role", "call_id", "of"}
  BY DEF Entry, Message, Unsupported, Call, Output, Ids

LEMMA EntryMakes ==
    /\ \A r \in Roles : Message(r) \in Entry /\ Message(r).type = "message"
    /\ Unsupported \in Entry /\ Unsupported.type = "unsupported"
    /\ \A id \in Ids, n \in Nat : /\ Call(id, n) \in Entry /\ Output(id, n) \in Entry
                                  /\ Call(id, n).type = "call" /\ Output(id, n).type = "output"
                                  /\ Call(id, n).call_id = id /\ Output(id, n).call_id = id
                                  /\ Call(id, n).of = n /\ Output(id, n).of = n
  <1>1. /\ \A r \in Roles : Message(r) \in Entry
        /\ Unsupported \in Entry
        /\ \A id \in Ids, n \in Nat : Call(id, n) \in Entry /\ Output(id, n) \in Entry
    BY DEF Entry
  <1>2. (\A r \in Roles : Message(r).type = "message") /\ Unsupported.type = "unsupported"
    BY DEF Message, Unsupported
  <1>3. \A id \in Ids, n \in Nat :
          /\ Call(id, n).type = "call" /\ Call(id, n).call_id = id /\ Call(id, n).of = n
          /\ Output(id, n).type = "output" /\ Output(id, n).call_id = id /\ Output(id, n).of = n
    BY DEF Call, Output
  <1> QED BY <1>1, <1>2, <1>3

Calls(x) == IdsOf(x, "call")
Outputs(x) == IdsOf(x, "output")
Supported(x) == \A i \in 1..Len(x) : x[i].type # "unsupported"

LEMMA IdsAppend ==
    ASSUME NEW x \in Seq(Entry), NEW it \in Entry, NEW type
    PROVE  IdsOf(Append(x, it), type) = IdsOf(x, type) \cup (IF it.type = type THEN {it.call_id} ELSE {})
  <1> DEFINE y == Append(x, it)
  <1>1. /\ Len(y) = Len(x) + 1 /\ Len(x) \in Nat
        /\ \A i \in 1..Len(x) : y[i] = x[i]
        /\ y[Len(x) + 1] = it
    OBVIOUS
  <1> HIDE DEF y
  <1>2. /\ \A i \in 1..Len(y) : i \in 1..Len(x) \/ i = Len(x) + 1
        /\ \A i \in 1..Len(x) : i \in 1..Len(y)
        /\ Len(x) + 1 \in 1..Len(y)
    BY <1>1
  <1>3. IdsOf(y, type) \subseteq IdsOf(x, type) \cup (IF it.type = type THEN {it.call_id} ELSE {})
    BY <1>1, <1>2 DEF IdsOf
  <1>4. IdsOf(x, type) \subseteq IdsOf(y, type)
    BY <1>1, <1>2 DEF IdsOf
  <1>5. it.type = type => it.call_id \in IdsOf(y, type)
    BY <1>1, <1>2 DEF IdsOf
  <1> QED BY <1>3, <1>4, <1>5 DEF y

LEMMA BothAppend ==
    ASSUME NEW x \in Seq(Entry), NEW it \in Entry
    PROVE  /\ Append(x, it) \in Seq(Entry)
           /\ Calls(Append(x, it)) = Calls(x) \cup (IF it.type = "call" THEN {it.call_id} ELSE {})
           /\ Outputs(Append(x, it)) = Outputs(x) \cup (IF it.type = "output" THEN {it.call_id} ELSE {})
  <1>1. Append(x, it) \in Seq(Entry)
    OBVIOUS
  <1>2. Calls(Append(x, it)) = Calls(x) \cup (IF it.type = "call" THEN {it.call_id} ELSE {})
    BY IdsAppend DEF Calls
  <1>3. Outputs(Append(x, it)) = Outputs(x) \cup (IF it.type = "output" THEN {it.call_id} ELSE {})
    BY IdsAppend DEF Outputs
  <1> QED BY <1>1, <1>2, <1>3

LEMMA IdsAt ==
    ASSUME NEW x, NEW type
    PROVE  /\ \A id \in IdsOf(x, type) : \E i \in 1..Len(x) : x[i].type = type /\ x[i].call_id = id
           /\ \A i \in 1..Len(x) : x[i].type = type => x[i].call_id \in IdsOf(x, type)
  BY DEF IdsOf

\* Ids are not used twice, and an output comes after its own call.
Distinct(x, type) ==
    \A i, j \in 1..Len(x) :
      x[i].type = type /\ x[j].type = type /\ x[i].call_id = x[j].call_id => i = j

Follows(x) ==
    \A q \in 1..Len(x) : x[q].type = "output" =>
      \E p \in 1..(q - 1) : /\ x[p].type = "call" /\ x[p].call_id = x[q].call_id
                            /\ x[q].of \in {0, x[p].of}

Clean(x) == Distinct(x, "call") /\ Distinct(x, "output") /\ Follows(x)

\* What has to be asked of an item that is appended.
Fits(x, it) ==
    /\ it.type = "call" => it.call_id \notin Calls(x)
    /\ it.type = "output" =>
         /\ it.call_id \notin Outputs(x)
         /\ \E p \in 1..Len(x) : /\ x[p].type = "call" /\ x[p].call_id = it.call_id
                                 /\ it.of \in {0, x[p].of}

LEMMA CleanAppend ==
    ASSUME NEW x \in Seq(Entry), NEW it \in Entry
    PROVE  Clean(Append(x, it)) <=> Clean(x) /\ Fits(x, it)
  <1> DEFINE y == Append(x, it)
  <1>1. /\ Len(y) = Len(x) + 1 /\ Len(x) \in Nat
        /\ \A i \in 1..Len(x) : y[i] = x[i]
        /\ y[Len(x) + 1] = it
    OBVIOUS
  <1> HIDE DEF y
  <1>2. /\ \A i \in 1..Len(y) : i \in 1..Len(x) \/ i = Len(x) + 1
        /\ \A i \in 1..Len(x) : i \in 1..Len(y) /\ i # Len(x) + 1 /\ \A p \in 1..(i - 1) : p \in 1..Len(x)
        /\ Len(x) + 1 \in 1..Len(y) /\ 1..((Len(x) + 1) - 1) = 1..Len(x)
    BY <1>1
  <1>3. ASSUME NEW type
        PROVE  Distinct(y, type) <=> Distinct(x, type) /\ (it.type = type => it.call_id \notin IdsOf(x, type))
    <2>1. ASSUME Distinct(y, type) PROVE Distinct(x, type)
      BY <1>1, <1>2, <2>1 DEF Distinct
    <2>2. ASSUME Distinct(y, type), it.type = type, it.call_id \in IdsOf(x, type) PROVE FALSE
      <3>1. PICK i \in 1..Len(x) : x[i].type = type /\ x[i].call_id = it.call_id
        BY <2>2, IdsAt
      <3> QED BY <1>1, <1>2, <2>2, <3>1 DEF Distinct
    <2>3. ASSUME Distinct(x, type), it.type = type => it.call_id \notin IdsOf(x, type),
                 NEW i \in 1..Len(y), NEW j \in 1..Len(y),
                 y[i].type = type /\ y[j].type = type /\ y[i].call_id = y[j].call_id
          PROVE  i = j
      <3>1. CASE i \in 1..Len(x) /\ j \in 1..Len(x)
        BY <1>1, <2>3, <3>1 DEF Distinct
      <3>2. CASE i \in 1..Len(x) /\ j = Len(x) + 1
        BY <1>1, <2>3, <3>2, IdsAt
      <3>3. CASE j \in 1..Len(x) /\ i = Len(x) + 1
        BY <1>1, <2>3, <3>3, IdsAt
      <3> QED BY <1>2, <3>1, <3>2, <3>3
    <2> QED BY <2>1, <2>2, <2>3 DEF Distinct
  <1> DEFINE Own(p) == /\ x[p].type = "call" /\ x[p].call_id = it.call_id
                       /\ it.of \in {0, x[p].of}
  <1>4. ASSUME Follows(y) PROVE Follows(x) /\ (it.type = "output" => \E p \in 1..Len(x) : Own(p))
    <2>1. Follows(x)
      BY <1>1, <1>2, <1>4 DEF Follows
    <2>2. ASSUME it.type = "output" PROVE \E p \in 1..Len(x) : Own(p)
      <3>1. PICK p \in 1..((Len(x) + 1) - 1) : /\ y[p].type = "call" /\ y[p].call_id = it.call_id
                                               /\ it.of \in {0, y[p].of}
        BY <1>1, <1>2, <1>4, <2>2 DEF Follows
      <3>2. p \in 1..Len(x)
        BY <1>2
      <3> QED BY <1>1, <3>1, <3>2
    <2> QED BY <2>1, <2>2
  <1>5. ASSUME Follows(x), it.type = "output" => \E p \in 1..Len(x) : Own(p) PROVE Follows(y)
    <2> SUFFICES ASSUME NEW q \in 1..Len(y), y[q].type = "output"
                 PROVE  \E p \in 1..(q - 1) : /\ y[p].type = "call" /\ y[p].call_id = y[q].call_id
                                              /\ y[q].of \in {0, y[p].of}
      BY DEF Follows
    <2>1. CASE q \in 1..Len(x)
      <3>1. PICK p \in 1..(q - 1) : /\ x[p].type = "call" /\ x[p].call_id = x[q].call_id
                                    /\ x[q].of \in {0, x[p].of}
        BY <1>1, <1>5, <2>1 DEF Follows
      <3> QED BY <1>1, <1>2, <2>1, <3>1
    <2>2. CASE q = Len(x) + 1
      <3>1. PICK p \in 1..Len(x) : Own(p)
        BY <1>1, <1>5, <2>2
      <3> QED BY <1>1, <1>2, <2>2, <3>1
    <2> QED BY <1>2, <2>1, <2>2
  <1>6. Clean(y) <=> Clean(x) /\ Fits(x, it)
    BY <1>3, <1>4, <1>5 DEF Clean, Fits, Calls, Outputs
  <1> QED BY <1>6 DEF y

LEMMA FirstItems ==
    ASSUME NEW S, NEW x \in Seq(S), NEW k \in 0..(Len(x) - 1)
    PROVE  /\ SubSeq(x, 1, k + 1) = Append(SubSeq(x, 1, k), x[k + 1])
           /\ SubSeq(x, 1, k) \in Seq(S) /\ Len(SubSeq(x, 1, k)) = k /\ x[k + 1] \in S
           /\ \A i \in 1..k : SubSeq(x, 1, k)[i] = x[i]
           /\ k + 1 \in 1..Len(x) /\ k \in 0..Len(x)
  OBVIOUS

LEMMA AllItems ==
    ASSUME NEW S, NEW x \in Seq(S)
    PROVE  /\ SubSeq(x, 1, Len(x)) = x /\ SubSeq(x, 1, 0) = <<>>
           /\ Len(x) \in Nat /\ Len(x) \in 0..Len(x) /\ 0 \in 0..Len(x)
  OBVIOUS

\* A history stays clean when its end is cut off, and what was appended fitted.
LEMMA CleanPrefix ==
    ASSUME NEW x \in Seq(Entry), Clean(x), NEW k \in 0..Len(x)
    PROVE  Clean(SubSeq(x, 1, k))
  <1> DEFINE y == SubSeq(x, 1, k)
  <1>1. /\ Len(y) = k /\ k \in Nat /\ Len(x) \in Nat /\ \A i \in 1..k : y[i] = x[i] /\ i \in 1..Len(x)
    OBVIOUS
  <1> HIDE DEF y
  <1>2. \A i \in 1..k : \A p \in 1..(i - 1) : p \in 1..k
    BY <1>1
  <1>3. \A type : Distinct(x, type) => Distinct(y, type)
    BY <1>1 DEF Distinct
  <1>4. Follows(y)
    <2> SUFFICES ASSUME NEW q \in 1..Len(y), y[q].type = "output"
                 PROVE  \E p \in 1..(q - 1) : /\ y[p].type = "call" /\ y[p].call_id = y[q].call_id
                                              /\ y[q].of \in {0, y[p].of}
      BY DEF Follows
    <2>1. q \in 1..k /\ q \in 1..Len(x) /\ x[q].type = "output"
      BY <1>1
    <2>2. PICK p \in 1..(q - 1) : /\ x[p].type = "call" /\ x[p].call_id = x[q].call_id
                                  /\ x[q].of \in {0, x[p].of}
      BY <2>1 DEF Clean, Follows
    <2> QED BY <1>1, <1>2, <2>1, <2>2
  <1> QED BY <1>3, <1>4 DEF Clean, y

LEMMA CleanFits ==
    ASSUME NEW x \in Seq(Entry), Clean(x), NEW k \in 0..(Len(x) - 1)
    PROVE  Clean(SubSeq(x, 1, k)) /\ Fits(SubSeq(x, 1, k), x[k + 1])
  <1>1. /\ SubSeq(x, 1, k + 1) = Append(SubSeq(x, 1, k), x[k + 1])
        /\ SubSeq(x, 1, k) \in Seq(Entry) /\ x[k + 1] \in Entry
    BY FirstItems
  <1>2. k + 1 \in 0..Len(x)
    OBVIOUS
  <1>3. Clean(SubSeq(x, 1, k + 1))
    BY <1>2, CleanPrefix
  <1> QED BY <1>1, <1>3, CleanAppend

\* A call is made before it is answered.
LEMMA OutputsAreCalled ==
    ASSUME NEW x \in Seq(Entry), Follows(x)
    PROVE  Outputs(x) \subseteq Calls(x)
  <1> SUFFICES ASSUME NEW id \in Outputs(x) PROVE id \in Calls(x)
    OBVIOUS
  <1>1. PICK q \in 1..Len(x) : x[q].type = "output" /\ x[q].call_id = id
    BY IdsAt DEF Outputs
  <1>2. PICK p \in 1..(q - 1) : x[p].type = "call" /\ x[p].call_id = id
    BY <1>1 DEF Follows
  <1>3. p \in 1..Len(x)
    OBVIOUS
  <1> QED BY <1>2, <1>3, IdsAt DEF Calls

-----------------------------------------------------------------------------
(* The messages of a Chat request, for a clean history x: every call with  *)
(* its output, or an invented one, right behind it.                        *)

OutputFor(x, id) ==
    IF id \in Outputs(x) THEN x[CHOOSE i \in 1..Len(x) : x[i].type = "output" /\ x[i].call_id = id]
    ELSE Output(id, 0)

ChatBlock(x, it) ==
    CASE it.type = "output" -> <<>>
      [] it.type = "call" -> <<it, OutputFor(x, it.call_id)>>
      [] OTHER -> <<it>>

BlocksOf(x, s) == [j \in 1..Len(s) |-> ChatBlock(x, s[j])]

\* The messages made of the items of s; OutputFor looks for outputs in x.
ChatOf(x, s) == Flat(BlocksOf(x, s), Len(s))

LEMMA OutputForIs ==
    ASSUME NEW x \in Seq(Entry), NEW id \in Ids
    PROVE  /\ OutputFor(x, id) \in Entry
           /\ OutputFor(x, id).type = "output" /\ OutputFor(x, id).call_id = id
           /\ id \notin Outputs(x) => OutputFor(x, id) = Output(id, 0)
           /\ id \in Outputs(x) => \E i \in 1..Len(x) : x[i] = OutputFor(x, id)
  <1>1. CASE id \in Outputs(x)
    <2> DEFINE i == CHOOSE i \in 1..Len(x) : x[i].type = "output" /\ x[i].call_id = id
    <2>1. \E j \in 1..Len(x) : x[j].type = "output" /\ x[j].call_id = id
      BY <1>1, IdsAt DEF Outputs
    <2>2. i \in 1..Len(x) /\ x[i].type = "output" /\ x[i].call_id = id
      BY <2>1
    <2>3. OutputFor(x, id) = x[i]
      BY <1>1 DEF OutputFor
    <2> HIDE DEF i
    <2>4. x[i] \in Entry
      BY <2>2
    <2> QED BY <1>1, <2>2, <2>3, <2>4
  <1>2. CASE id \notin Outputs(x)
    <2>1. OutputFor(x, id) = Output(id, 0)
      BY <1>2 DEF OutputFor
    <2> QED BY <1>2, <2>1, EntryMakes
  <1> QED BY <1>1, <1>2

\* The output of an id is the only one.
LEMMA OutputForOnly ==
    ASSUME NEW x \in Seq(Entry), Distinct(x, "output"), NEW q \in 1..Len(x), x[q].type = "output"
    PROVE  OutputFor(x, x[q].call_id) = x[q]
  <1> DEFINE id == x[q].call_id
             i == CHOOSE i \in 1..Len(x) : x[i].type = "output" /\ x[i].call_id = id
  <1>1. id \in Outputs(x)
    BY IdsAt DEF Outputs
  <1>2. i \in 1..Len(x) /\ x[i].type = "output" /\ x[i].call_id = id
    OBVIOUS
  <1>3. OutputFor(x, id) = x[i]
    BY <1>1 DEF OutputFor
  <1> HIDE DEF i
  <1>4. i = q
    BY <1>2 DEF Distinct
  <1> QED BY <1>3, <1>4

LEMMA ChatBlockIs ==
    ASSUME NEW x \in Seq(Entry), NEW it \in Entry
    PROVE  /\ ChatBlock(x, it) \in Seq(Entry)
           /\ it.type = "output" => ChatBlock(x, it) = <<>>
           /\ it.type = "call" => ChatBlock(x, it) = <<it, OutputFor(x, it.call_id)>>
           /\ it.type \notin {"call", "output"} => ChatBlock(x, it) = <<it>>
  <1>1. /\ it.type = "output" => ChatBlock(x, it) = <<>>
        /\ it.type = "call" => ChatBlock(x, it) = <<it, OutputFor(x, it.call_id)>>
        /\ it.type \notin {"call", "output"} => ChatBlock(x, it) = <<it>>
    BY DEF ChatBlock
  <1>2. it.type = "call" => OutputFor(x, it.call_id) \in Entry
    BY EntryIs, OutputForIs
  <1>3. /\ <<>> \in Seq(Entry) /\ <<it>> \in Seq(Entry)
        /\ \A o \in Entry : <<it, o>> \in Seq(Entry)
    OBVIOUS
  <1> QED BY <1>1, <1>2, <1>3

LEMMA ChatOfSteps ==
    ASSUME NEW x \in Seq(Entry), NEW s \in Seq(Entry), NEW it \in Entry
    PROVE  /\ ChatOf(x, <<>>) = <<>>
           /\ ChatOf(x, s) \in Seq(Entry)
           /\ ChatOf(x, Append(s, it)) = ChatOf(x, s) \o ChatBlock(x, it)
  <1> DEFINE t == Append(s, it)
             b == BlocksOf(x, t)
             n == Len(s)
  <1>1. /\ t \in Seq(Entry) /\ Len(t) = n + 1 /\ n \in Nat /\ t[n + 1] = it
        /\ \A i \in 1..n : t[i] = s[i] /\ s[i] \in Entry
        /\ \A i \in 1..(n + 1) : t[i] \in Entry
    OBVIOUS
  <1> HIDE DEF t, n
  <1>2. \A i \in 1..(n + 1) : b[i] = ChatBlock(x, t[i])
    BY <1>1 DEF BlocksOf
  <1>3. b[n + 1] = ChatBlock(x, it)
    BY <1>1, <1>2
  <1> HIDE DEF b
  <1>4. \A i \in 1..(n + 1) : b[i] \in Seq(Entry)
    BY <1>1, <1>2, ChatBlockIs
  <1>5. n \in 0..((n + 1) - 1) /\ n + 1 \in Nat /\ n \in 0..(n + 1)
    BY <1>1
  <1>6. Flat(b, n + 1) = Flat(b, n) \o b[n + 1] /\ Flat(b, n) \in Seq(Entry)
    BY <1>4, <1>5, FlatSteps
  <1>7. Flat(b, n) = Flat(BlocksOf(x, s), n)
    <2>1. \A i \in 1..n : b[i] = BlocksOf(x, s)[i]
      BY <1>1, <1>2 DEF BlocksOf, n
    <2> QED BY <1>1, <2>1, FlatSame
  <1>8. ChatOf(x, s) = Flat(b, n) /\ ChatOf(x, t) = Flat(b, n + 1)
    BY <1>1, <1>7 DEF ChatOf, b, n
  <1>9. ChatOf(x, <<>>) = <<>>
    BY DEF ChatOf, Flat, FlattenSeq
  <1> QED BY <1>3, <1>6, <1>8, <1>9 DEF t

\* The same outputs make the same messages.
LEMMA ChatOfSame ==
    ASSUME NEW x \in Seq(Entry), NEW y \in Seq(Entry), NEW s \in Seq(Entry),
           \A id \in Calls(s) : OutputFor(x, id) = OutputFor(y, id)
    PROVE  ChatOf(x, s) = ChatOf(y, s)
  <1>1. ASSUME NEW i \in 1..Len(s) PROVE BlocksOf(x, s)[i] = BlocksOf(y, s)[i]
    <2>1. s[i] \in Entry /\ (s[i].type = "call" => s[i].call_id \in Calls(s))
      BY IdsAt DEF Calls
    <2>2. ChatBlock(x, s[i]) = ChatBlock(y, s[i])
      BY <2>1, ChatBlockIs, EntryIs
    <2> QED BY <2>2 DEF BlocksOf
  <1>2. Len(s) \in Nat
    OBVIOUS
  <1> QED BY <1>1, <1>2, FlatSame DEF ChatOf

\* Calls and results in pairs stay so when two lists are put together.
LEMMA PairedTogether ==
    ASSUME NEW a \in Seq(Entry), NEW b \in Seq(Entry), ChatPaired(a), ChatPaired(b)
    PROVE  ChatPaired(a \o b)
  <1> DEFINE c == a \o b
             m == Len(a)
             n == Len(b)
  <1>1. /\ m \in Nat /\ n \in Nat /\ Len(c) = m + n
        /\ \A i \in 1..m : c[i] = a[i]
        /\ \A i \in 1..n : c[m + i] = b[i]
        /\ \A i \in 1..(m + n) : i \in 1..m \/ (i - m \in 1..n /\ i = m + (i - m))
    OBVIOUS
  <1>2. /\ \A i \in 1..m : a[i].type = "call" =>
             /\ i < m /\ a[i + 1].type = "output" /\ a[i + 1].call_id = a[i].call_id
             /\ a[i + 1].of \in {0, a[i].of}
        /\ \A i \in 1..m : a[i].type = "output" => i > 1 /\ a[i - 1].type = "call"
    BY DEF ChatPaired
  <1>3. /\ \A i \in 1..n : b[i].type = "call" =>
             /\ i < n /\ b[i + 1].type = "output" /\ b[i + 1].call_id = b[i].call_id
             /\ b[i + 1].of \in {0, b[i].of}
        /\ \A i \in 1..n : b[i].type = "output" => i > 1 /\ b[i - 1].type = "call"
    BY DEF ChatPaired
  <1> HIDE DEF c, m, n
  <1>4. ASSUME NEW i \in 1..m
        PROVE  /\ c[i].type = "call" => /\ i < m + n /\ c[i + 1].type = "output"
                                        /\ c[i + 1].call_id = c[i].call_id /\ c[i + 1].of \in {0, c[i].of}
               /\ c[i].type = "output" => i > 1 /\ c[i - 1].type = "call"
    <2>1. a[i].type = "call" => i + 1 \in 1..m
      BY <1>1, <1>2
    <2>2. a[i].type = "output" => i - 1 \in 1..m
      BY <1>1, <1>2
    <2> QED BY <1>1, <1>2, <2>1, <2>2
  <1>5. ASSUME NEW j \in 1..n
        PROVE  LET i == m + j
               IN  /\ c[i].type = "call" => /\ i < m + n /\ c[i + 1].type = "output"
                                            /\ c[i + 1].call_id = c[i].call_id /\ c[i + 1].of \in {0, c[i].of}
                   /\ c[i].type = "output" => i > 1 /\ c[i - 1].type = "call"
    <2>1. b[j].type = "call" => j + 1 \in 1..n /\ (m + j) + 1 = m + (j + 1) /\ m + j < m + n
      BY <1>1, <1>3
    <2>2. b[j].type = "output" => j - 1 \in 1..n /\ (m + j) - 1 = m + (j - 1) /\ m + j > 1
      BY <1>1, <1>3
    <2>3. c[m + j] = b[j]
      BY <1>1
    <2>4. b[j].type = "call" => c[(m + j) + 1] = b[j + 1]
      BY <1>1, <2>1
    <2>5. b[j].type = "output" => c[(m + j) - 1] = b[j - 1]
      BY <1>1, <2>2
    <2> QED BY <1>3, <2>1, <2>2, <2>3, <2>4, <2>5
  <1>6. ChatPaired(c)
    <2> SUFFICES ASSUME NEW i \in 1..Len(c)
                 PROVE  /\ c[i].type = "call" => /\ i < Len(c) /\ c[i + 1].type = "output"
                                                 /\ c[i + 1].call_id = c[i].call_id
                                                 /\ c[i + 1].of \in {0, c[i].of}
                        /\ c[i].type = "output" => i > 1 /\ c[i - 1].type = "call"
      BY DEF ChatPaired
    <2>1. CASE i \in 1..m
      BY <1>1, <1>4, <2>1
    <2>2. CASE i \notin 1..m
      <3>1. PICK j \in 1..n : i = m + j
        BY <1>1, <2>2
      <3> QED BY <1>1, <1>5, <3>1
    <2> QED BY <2>1, <2>2
  <1> QED BY <1>6 DEF c

\* The messages of a clean history are paired.
LEMMA ChatOfPaired ==
    ASSUME NEW x \in Seq(Entry), Clean(x)
    PROVE  ChatPaired(ChatOf(x, x))
  <1> DEFINE T == {k \in 0..Len(x) : ChatPaired(ChatOf(x, SubSeq(x, 1, k)))}
  <1>1. SubSeq(x, 1, Len(x)) = x /\ SubSeq(x, 1, 0) = <<>> /\ Len(x) \in Nat
          /\ Len(x) \in 0..Len(x) /\ 0 \in 0..Len(x)
    BY AllItems
  <1>2. 0 \in T
    <2>1. ChatOf(x, <<>>) = <<>>
      BY DEF ChatOf, Flat, FlattenSeq
    <2>2. ChatPaired(<<>>)
      BY DEF ChatPaired
    <2> QED BY <1>1, <2>1, <2>2
  <1>3. ASSUME NEW k \in 0..(Len(x) - 1), k \in T PROVE k + 1 \in T
    <2> DEFINE s == SubSeq(x, 1, k)
               it == x[k + 1]
               b == ChatBlock(x, it)
    <2>1. /\ SubSeq(x, 1, k + 1) = Append(s, it) /\ s \in Seq(Entry) /\ it \in Entry
          /\ k + 1 \in 1..Len(x) /\ k + 1 \in 0..Len(x)
      BY FirstItems
    <2>2. ChatPaired(ChatOf(x, s))
      BY <1>3
    <2> HIDE DEF s
    <2>3. ChatOf(x, SubSeq(x, 1, k + 1)) = ChatOf(x, s) \o b /\ ChatOf(x, s) \in Seq(Entry)
      BY <2>1, ChatOfSteps
    <2>4. b \in Seq(Entry)
      BY <2>1, ChatBlockIs
    <2>5. ChatPaired(b)
      <3>1. CASE it.type = "call"
        <4> DEFINE o == OutputFor(x, it.call_id)
        <4>1. it.call_id \in Ids
          BY <2>1, <3>1, EntryIs
        <4>2. o.type = "output" /\ o.call_id = it.call_id
          BY <4>1, OutputForIs
        <4>3. o.of \in {0, it.of}
          <5>1. CASE it.call_id \in Outputs(x)
            <6>1. PICK q \in 1..Len(x) : x[q] = o
              BY <4>1, <5>1, OutputForIs
            <6>2. PICK p \in 1..(q - 1) : /\ x[p].type = "call" /\ x[p].call_id = x[q].call_id
                                          /\ x[q].of \in {0, x[p].of}
              BY <4>2, <6>1 DEF Clean, Follows
            <6>3. p \in 1..Len(x)
              OBVIOUS
            <6>4. p = k + 1
              BY <2>1, <3>1, <4>2, <6>1, <6>2, <6>3 DEF Clean, Distinct
            <6> QED BY <6>1, <6>2, <6>4
          <5>2. CASE it.call_id \notin Outputs(x)
            <6>1. o = Output(it.call_id, 0)
              BY <4>1, <5>2, OutputForIs
            <6> QED BY <6>1 DEF Output
          <5> QED BY <5>1, <5>2
        <4>4. b = <<it, o>>
          BY <2>1, <3>1, ChatBlockIs
        <4> HIDE DEF b, o, it
        <4>5. Len(b) = 2 /\ b[1] = it /\ b[2] = o /\ 1..2 = {1, 2}
          BY <4>4
        <4> QED BY <3>1, <4>2, <4>3, <4>5 DEF ChatPaired
      <3>2. CASE it.type = "output"
        <4>1. b = <<>>
          BY <2>1, <3>2, ChatBlockIs
        <4> QED BY <4>1 DEF ChatPaired
      <3>3. CASE it.type \notin {"call", "output"}
        <4>1. b = <<it>>
          BY <2>1, <3>3, ChatBlockIs
        <4> QED BY <3>3, <4>1 DEF ChatPaired
      <3> QED BY <3>1, <3>2, <3>3
    <2>6. ChatPaired(ChatOf(x, SubSeq(x, 1, k + 1)))
      <3> HIDE DEF b
      <3> QED BY <2>2, <2>3, <2>4, <2>5, PairedTogether
    <2> QED BY <2>1, <2>6
  <1>4. Len(x) \in T
    <2> HIDE DEF T
    <2> QED BY <1>1, <1>2, <1>3, UpTo
  <1> QED BY <1>1, <1>4

-----------------------------------------------------------------------------
(* What the Chat connector makes of a clean history. *)

\* The loop takes every item, and an item it does not support ends it.
LEMMA ChatFold ==
    ASSUME NEW x \in Seq(Entry), Clean(x)
    PROVE  LET acc == FoldLeft(ChatItem, ChatStart, x)
           IN  /\ Supported(x) =>
                    acc = [messages |-> x, seen |-> Calls(x), needing |-> Calls(x) \ Outputs(x),
                           failed |-> FALSE]
               /\ ~Supported(x) => acc.failed
  <1> DEFINE End(k, acc) ==
        LET y == SubSeq(x, 1, k)
        IN  /\ Supported(y) =>
                 acc = [messages |-> y, seen |-> Calls(y), needing |-> Calls(y) \ Outputs(y),
                        failed |-> FALSE]
            /\ ~Supported(y) => acc.failed = TRUE
  <1>1. PICK f : States(f, "chat", ChatStart, x) /\ FoldLeft(ChatItem, ChatStart, x) = f[Len(x)]
    BY ChatLoop
  <1>2. /\ SubSeq(x, 1, Len(x)) = x /\ SubSeq(x, 1, 0) = <<>>
        /\ Len(x) \in Nat /\ Len(x) \in 0..Len(x) /\ 0 \in 0..Len(x)
    BY AllItems
  <1> DEFINE T == {k \in 0..Len(x) : End(k, f[k])}
  <1>3. 0 \in T
    <2>1. Calls(<<>>) = {} /\ Outputs(<<>>) = {} /\ Supported(<<>>)
      BY DEF Calls, Outputs, IdsOf, Supported
    <2>2. f[0] = ChatStart
      BY <1>1 DEF States
    <2>3. End(0, f[0])
      BY <1>2, <2>1, <2>2 DEF ChatStart
    <2> HIDE DEF End
    <2> QED BY <1>2, <2>3
  <1>4. ASSUME NEW k \in 0..(Len(x) - 1), k \in T PROVE k + 1 \in T
    <2> DEFINE y == SubSeq(x, 1, k)
               z == SubSeq(x, 1, k + 1)
               it == x[k + 1]
    <2>1. /\ z = Append(y, it) /\ y \in Seq(Entry) /\ it \in Entry /\ Len(y) = k
          /\ k + 1 \in 1..Len(x) /\ k + 1 \in 0..Len(x)
      BY FirstItems
    <2>2. Fits(y, it)
      BY CleanFits
    <2>21. Clean(y)
      BY CleanFits
    <2>3. f[k + 1] = ChatItem(f[k], it)
      BY <1>1 DEF States, Translate
    <2>4. /\ Supported(y) =>
               f[k] = [messages |-> y, seen |-> Calls(y), needing |-> Calls(y) \ Outputs(y),
                       failed |-> FALSE]
          /\ ~Supported(y) => f[k].failed = TRUE
      BY <1>4
    <2> HIDE DEF y, z
    <2>5. Supported(z) <=> Supported(y) /\ it.type # "unsupported"
      <3>1. /\ Len(z) = k + 1 /\ z[k + 1] = it /\ k \in Nat /\ \A i \in 1..k : z[i] = y[i]
        BY <2>1
      <3>2. /\ \A i \in 1..(k + 1) : i \in 1..k \/ i = k + 1
            /\ \A i \in 1..k : i \in 1..(k + 1)
            /\ k + 1 \in 1..(k + 1)
        BY <3>1
      <3> QED BY <2>1, <3>1, <3>2 DEF Supported
    <2>6. /\ Calls(z) = Calls(y) \cup (IF it.type = "call" THEN {it.call_id} ELSE {})
          /\ Outputs(z) = Outputs(y) \cup (IF it.type = "output" THEN {it.call_id} ELSE {})
      BY <2>1, IdsAppend DEF Calls, Outputs
    <2>7. Outputs(y) \subseteq Calls(y)
      BY <2>1, <2>21, OutputsAreCalled DEF Clean
    <2> HIDE DEF it
    <2>8. ASSUME ~Supported(y) PROVE f[k + 1].failed = TRUE
      BY <2>3, <2>4, <2>8 DEF ChatItem
    <2>9. ASSUME Supported(y)
          PROVE  /\ Supported(z) =>
                      f[k + 1] = [messages |-> z, seen |-> Calls(z), needing |-> Calls(z) \ Outputs(z),
                                  failed |-> FALSE]
                 /\ ~Supported(z) => f[k + 1].failed = TRUE
      <3> DEFINE acc == [messages |-> y, seen |-> Calls(y), needing |-> Calls(y) \ Outputs(y),
                         failed |-> FALSE]
      <3>0. f[k] = acc
        BY <2>4, <2>9
      <3>1. CASE it.type = "message"
        <4>1. f[k + 1] = [acc EXCEPT !.messages = Append(@, it)]
          BY <2>3, <3>0, <3>1 DEF ChatItem
        <4>2. f[k + 1] = [messages |-> z, seen |-> Calls(z), needing |-> Calls(z) \ Outputs(z),
                          failed |-> FALSE]
          BY <2>1, <2>6, <3>1, <4>1
        <4> QED BY <2>5, <2>9, <3>1, <4>2
      <3>2. CASE it.type = "call"
        <4>1. f[k + 1] = [acc EXCEPT !.messages = Append(@, it), !.seen = @ \cup {it.call_id},
                                     !.needing = @ \cup {it.call_id}]
          BY <2>3, <3>0, <3>2 DEF ChatItem
        <4>2. it.call_id \notin Outputs(y)
          BY <2>2, <2>7, <3>2 DEF Fits
        <4>3. /\ Calls(z) = Calls(y) \cup {it.call_id}
              /\ Calls(z) \ Outputs(z) = (Calls(y) \ Outputs(y)) \cup {it.call_id}
          BY <2>6, <3>2, <4>2
        <4>4. f[k + 1] = [messages |-> z, seen |-> Calls(z), needing |-> Calls(z) \ Outputs(z),
                          failed |-> FALSE]
          BY <2>1, <4>1, <4>3
        <4> QED BY <2>5, <2>9, <3>2, <4>4
      <3>3. CASE it.type = "output"
        <4>1. it.call_id \in Calls(y)
          BY <2>2, <3>3, IdsAt DEF Fits, Calls
        <4>2. f[k + 1] = [acc EXCEPT !.messages = Append(@, it), !.needing = @ \ {it.call_id}]
          BY <2>3, <3>0, <3>3, <4>1 DEF ChatItem
        <4>3. /\ Calls(z) = Calls(y)
              /\ Calls(z) \ Outputs(z) = (Calls(y) \ Outputs(y)) \ {it.call_id}
          BY <2>6, <3>3
        <4>4. f[k + 1] = [messages |-> z, seen |-> Calls(z), needing |-> Calls(z) \ Outputs(z),
                          failed |-> FALSE]
          BY <2>1, <4>2, <4>3
        <4> QED BY <2>5, <2>9, <3>3, <4>4
      <3>4. CASE it.type = "unsupported"
        <4>1. f[k + 1] = [acc EXCEPT !.failed = TRUE]
          BY <2>3, <3>0, <3>4 DEF ChatItem
        <4>2. f[k + 1].failed = TRUE
          BY <4>1
        <4> QED BY <2>5, <3>4, <4>2
      <3> QED BY <2>1, <3>1, <3>2, <3>3, <3>4, EntryIs
    <2>10. End(k + 1, f[k + 1])
      <3>1. /\ Supported(z) =>
                 f[k + 1] = [messages |-> z, seen |-> Calls(z), needing |-> Calls(z) \ Outputs(z),
                             failed |-> FALSE]
            /\ ~Supported(z) => f[k + 1].failed = TRUE
        BY <2>5, <2>8, <2>9
      <3> QED BY <3>1 DEF z
    <2> HIDE DEF End
    <2> QED BY <2>1, <2>10
  <1>5. Len(x) \in T
    <2> HIDE DEF T
    <2> QED BY <1>2, <1>3, <1>4, UpTo
  <1>6. End(Len(x), f[Len(x)])
    <2> HIDE DEF End
    <2> QED BY <1>5
  <1> QED BY <1>1, <1>2, <1>6

LEMMA IdsFinite ==
    ASSUME NEW x \in Seq(Entry), NEW type
    PROVE  IsFiniteSet(IdsOf(x, type))
  <1> DEFINE D == {i \in 1..Len(x) : x[i].type = type}
             f == [i \in D |-> x[i].call_id]
  <1>1. IsFiniteSet(D)
    <2>1. Len(x) \in Nat /\ D \subseteq 1..Len(x)
      OBVIOUS
    <2>2. IsFiniteSet(1..Len(x))
      BY <2>1, FS_Interval
    <2> HIDE DEF D
    <2> QED BY <2>1, <2>2, FS_Subset
  <1>2. f \in Surjection(D, IdsOf(x, type))
    <2>1. IdsOf(x, type) = {x[i].call_id : i \in D}
      BY DEF IdsOf
    <2>2. f \in [D -> IdsOf(x, type)] /\ \A e \in IdsOf(x, type) : \E i \in D : f[i] = e
      <3> HIDE DEF D
      <3> QED BY <2>1
    <2> HIDE DEF f, D
    <2> QED BY <2>2 DEF Surjection
  <1> QED BY <1>1, <1>2, FS_Surjection

LEMMA SetToSeqIs ==
    ASSUME NEW S, IsFiniteSet(S)
    PROVE  /\ SetToSeq(S) \in Seq(S)
           /\ \A i, j \in 1..Len(SetToSeq(S)) : SetToSeq(S)[i] = SetToSeq(S)[j] => i = j
           /\ \A e \in S : \E i \in 1..Len(SetToSeq(S)) : SetToSeq(S)[i] = e
  <1> DEFINE n == Cardinality(S)
             q == SetToSeq(S)
  <1>1. n \in Nat /\ ExistsBijection(1..n, S)
    BY FS_CardinalityType
  <1>2. \E f \in [1..n -> S] : IsInjective(f)
    BY <1>1 DEF ExistsBijection, Bijection, Injection
  <1>3. q \in [1..n -> S] /\ IsInjective(q)
    BY <1>2 DEF SetToSeq
  <1> HIDE DEF q, n
  <1>4. q \in Injection(1..n, S)
    BY <1>3 DEF Injection
  <1>5. IsFiniteSet(1..n) /\ Cardinality(1..n) = n
    BY <1>1, FS_Interval
  <1>6. q \in Surjection(1..n, S)
    BY <1>4, <1>5, FS_Injection DEF n
  <1>7. q \in Seq(S) /\ Len(q) = n
    BY <1>1, <1>3
  <1>8. \A e \in S : \E i \in 1..n : q[i] = e
    BY <1>6 DEF Surjection
  <1>9. \A i, j \in 1..n : q[i] = q[j] => i = j
    BY <1>3 DEF IsInjective
  <1> QED BY <1>7, <1>8, <1>9 DEF q

\* With an output for every call, the reordering yields the pairs.
LEMMA ReorderIs ==
    ASSUME NEW y \in Seq(Entry), Clean(y), Calls(y) \subseteq Outputs(y)
    PROVE  ReorderToolMessages(y) = ChatOf(y, y)
  <1> DEFINE First(i) == \A j \in 1..(i - 1) : y[j].type = "call" => y[j].call_id # y[i].call_id
             b == [i \in 1..Len(y) |->
                     CASE y[i].type = "output" -> <<>>
                       [] y[i].type = "call" /\ First(i) ->
                            <<y[i]>> \o Only(y, OutputsOf(y, y[i].call_id))
                       [] OTHER -> <<y[i]>>]
  <1>1. ReorderToolMessages(y) = FlattenSeq(b) \o Only(y, OrphanOutputs(y))
    BY DEF ReorderToolMessages
  <1>2. Only(y, OrphanOutputs(y)) = <<>>
    <2>1. Outputs(y) \subseteq Calls(y)
      BY OutputsAreCalled DEF Clean
    <2>2. \A i \in 1..Len(y) : i \notin OrphanOutputs(y)
      BY <2>1, IdsAt DEF OrphanOutputs, Calls, Outputs
    <2> QED BY <2>2, OnlyNone
  <1>3. ASSUME NEW i \in 1..Len(y) PROVE b[i] = ChatBlock(y, y[i])
    <2>1. y[i] \in Entry
      OBVIOUS
    <2>2. CASE y[i].type = "call"
      <3> DEFINE id == y[i].call_id
      <3>1. First(i)
        <4> SUFFICES ASSUME NEW j \in 1..(i - 1), y[j].type = "call", y[j].call_id = y[i].call_id
                     PROVE  FALSE
          OBVIOUS
        <4>1. j \in 1..Len(y) /\ j # i
          OBVIOUS
        <4> QED BY <2>2, <4>1 DEF Clean, Distinct
      <3>2. id \in Ids /\ id \in Outputs(y)
        BY <2>1, <2>2, EntryIs, IdsAt DEF Calls
      <3>3. PICK q \in 1..Len(y) : y[q] = OutputFor(y, id)
        BY <3>2, OutputForIs
      <3>4. y[q].type = "output" /\ y[q].call_id = id
        BY <3>2, <3>3, OutputForIs
      <3>5. OutputsOf(y, id) = {q}
        BY <3>4 DEF OutputsOf, Clean, Distinct
      <3>6. Only(y, OutputsOf(y, id)) = <<OutputFor(y, id)>>
        BY <3>3, <3>5, OnlyOne
      <3>7. b[i] = <<y[i]>> \o Only(y, OutputsOf(y, id))
        BY <2>2, <3>1
      <3>8. OutputFor(y, id) \in Entry
        BY <3>2, OutputForIs
      <3>9. <<y[i]>> \o <<OutputFor(y, id)>> = <<y[i], OutputFor(y, id)>>
        BY <2>1, <3>8, Pair
      <3> HIDE DEF b
      <3> QED BY <2>1, <2>2, <3>6, <3>7, <3>9, ChatBlockIs
    <2>3. CASE y[i].type = "output"
      <3>1. b[i] = <<>>
        BY <2>3
      <3> HIDE DEF b
      <3> QED BY <2>1, <2>3, <3>1, ChatBlockIs
    <2>4. CASE y[i].type \notin {"call", "output"}
      <3>1. b[i] = <<y[i]>>
        BY <2>4
      <3> HIDE DEF b
      <3> QED BY <2>1, <2>4, <3>1, ChatBlockIs
    <2> QED BY <2>2, <2>3, <2>4
  <1>4. Len(y) \in Nat
    OBVIOUS
  <1>5. b = BlocksOf(y, y)
    <2>1. b = [i \in 1..Len(y) |-> b[i]]
      OBVIOUS
    <2> HIDE DEF b
    <2> QED BY <1>3, <2>1 DEF BlocksOf
  <1> HIDE DEF b
  <1>6. FlattenSeq(b) = ChatOf(y, y)
    <2>1. BlocksOf(y, y) = [i \in 1..Len(y) |-> BlocksOf(y, y)[i]]
      BY DEF BlocksOf
    <2> QED BY <1>4, <1>5, <2>1, FlatAll DEF ChatOf
  <1>7. ChatOf(y, y) \in Seq(Entry)
    BY ChatOfSteps, EntryMakes
  <1> QED BY <1>1, <1>2, <1>6, <1>7

\* A request has an item of its own for each missing output.
LEMMA BuildChatIs ==
    ASSUME NEW x \in Seq(Entry), Clean(x)
    PROVE  /\ BuildChat(x).failed <=> ~Supported(x)
           /\ Supported(x) => BuildChat(x).messages = ChatOf(x, x)
  <1> DEFINE acc == FoldLeft(ChatItem, ChatStart, x)
             ids == SetToSeq(acc.needing)
             ph == [i \in 1..Len(ids) |-> Output(ids[i], 0)]
             y == acc.messages \o ph
  <1>1. BuildChat(x).failed = acc.failed /\ BuildChat(x).messages = ReorderToolMessages(y)
    BY DEF BuildChat
  <1>2. /\ Supported(x) =>
             acc = [messages |-> x, seen |-> Calls(x), needing |-> Calls(x) \ Outputs(x),
                    failed |-> FALSE]
        /\ ~Supported(x) => acc.failed
    BY ChatFold
  <1> HIDE DEF acc
  <1>3. BuildChat(x).failed <=> ~Supported(x)
    BY <1>1, <1>2
  <1>4. ASSUME Supported(x) PROVE BuildChat(x).messages = ChatOf(x, x)
    <2> DEFINE N == Calls(x) \ Outputs(x)
               m == Len(x)
               l == Len(ids)
    <2>1. acc.messages = x /\ acc.needing = N
      BY <1>2, <1>4
    <2>2. IsFiniteSet(N) /\ N \subseteq Ids
      <3>1. IsFiniteSet(Calls(x))
        BY IdsFinite DEF Calls
      <3>2. ASSUME NEW id \in Calls(x) PROVE id \in Ids
        <4>1. PICK i \in 1..Len(x) : x[i].type = "call" /\ x[i].call_id = id
          BY IdsAt DEF Calls
        <4>2. x[i] \in Entry
          OBVIOUS
        <4> QED BY <4>1, <4>2, EntryIs
      <3> QED BY <3>1, <3>2, FS_Subset
    <2>3. /\ ids \in Seq(N)
          /\ \A i, j \in 1..Len(ids) : ids[i] = ids[j] => i = j
          /\ \A e \in N : \E i \in 1..Len(ids) : ids[i] = e
      <3> HIDE DEF N
      <3> QED BY <2>1, <2>2, SetToSeqIs
    <2> HIDE DEF ids
    <2>4. l \in Nat /\ m \in Nat /\ \A i \in 1..l : ids[i] \in N
      BY <2>3
    <2>5. ph \in Seq(Entry) /\ Len(ph) = l /\ \A i \in 1..l : ph[i] = Output(ids[i], 0)
      <3>1. \A i \in 1..l : Output(ids[i], 0) \in Entry
        BY <2>2, <2>4, EntryMakes
      <3> QED BY <2>4, <3>1
    <2> HIDE DEF ph, m, l
    <2>6. /\ y \in Seq(Entry) /\ Len(y) = m + l
          /\ \A i \in 1..m : y[i] = x[i]
          /\ \A i \in 1..l : y[m + i] = Output(ids[i], 0)
      <3>1. y = x \o ph
        BY <2>1
      <3> HIDE DEF y
      <3>10. PICK r : r = ph /\ r \in Seq(Entry)
        BY <2>5
      <3>11. x \o r \in Seq(Entry) /\ Len(x \o r) = Len(x) + Len(r)
        BY <3>10
      <3>12. \A i \in 1..Len(x) : (x \o r)[i] = x[i]
        BY <3>10, ConcatPlaces
      <3>13. \A i \in 1..Len(r) : (x \o r)[Len(x) + i] = r[i]
        BY <3>10, ConcatPlaces
      <3>2. /\ y \in Seq(Entry) /\ Len(y) = Len(x) + Len(ph)
            /\ \A i \in 1..Len(x) : y[i] = x[i]
            /\ \A i \in 1..Len(ph) : y[Len(x) + i] = ph[i]
        BY <3>1, <3>10, <3>11, <3>12, <3>13
      <3> QED BY <2>4, <2>5, <3>2 DEF m
    <2> HIDE DEF y
    <2> DEFINE Y(k) == SubSeq(y, 1, m + k)
               T == {k \in 0..l :
                       /\ Clean(Y(k)) /\ Calls(Y(k)) = Calls(x)
                       /\ Outputs(Y(k)) = Outputs(x) \cup {ids[i] : i \in 1..k}
                       /\ \A s \in {y} : ChatOf(s, Y(k)) = ChatOf(s, x)}
    <2>7. Y(0) = x /\ Y(l) = y
      <3>1. m + 0 = m /\ SubSeq(y, 1, m + l) = y
        BY <2>4, <2>6, AllItems
      <3>2. Len(SubSeq(y, 1, m)) = Len(x) /\ \A i \in 1..Len(x) : SubSeq(y, 1, m)[i] = x[i]
        BY <2>4, <2>6 DEF m
      <3>3. SubSeq(y, 1, m) \in Seq(Entry)
        BY <2>4, <2>6
      <3>4. SubSeq(y, 1, m) = x
        BY <3>2, <3>3
      <3> QED BY <3>1, <3>4
    <2>8. 0 \in T
      <3>1. 0 \in 0..l /\ 1..0 = {}
        BY <2>4
      <3> HIDE DEF Y
      <3> QED BY <2>7, <3>1
    <2>9. ASSUME NEW k \in 0..(l - 1), k \in T PROVE k + 1 \in T
      <3> DEFINE it == Output(ids[k + 1], 0)
      <3>1. k + 1 \in 1..l /\ k + 1 \in 0..l /\ m + (k + 1) = (m + k) + 1 /\ m + k \in 0..(Len(y) - 1)
        BY <2>4, <2>6
      <3>2. Y(k + 1) = Append(Y(k), it) /\ Y(k) \in Seq(Entry)
        BY <2>6, <3>1, FirstItems
      <3>3. ids[k + 1] \in N /\ ids[k + 1] \in Ids
        BY <2>2, <2>4, <3>1
      <3>4. it \in Entry /\ it.type = "output" /\ it.call_id = ids[k + 1] /\ it.of = 0
        BY <3>3, EntryMakes
      <3> HIDE DEF Y, it
      <3>5. Clean(Y(k)) /\ Calls(Y(k)) = Calls(x) /\ Outputs(Y(k)) = Outputs(x) \cup {ids[i] : i \in 1..k}
              /\ ChatOf(y, Y(k)) = ChatOf(y, x)
        BY <2>9
      <3>6. ids[k + 1] \notin Outputs(Y(k))
        <4>1. \A i \in 1..k : i \in 1..l /\ i # k + 1
          BY <2>4, <3>1
        <4> QED BY <2>3, <3>1, <3>3, <3>5, <4>1 DEF l
      <3>7. Fits(Y(k), it)
        <4>1. PICK p \in 1..Len(Y(k)) : Y(k)[p].type = "call" /\ Y(k)[p].call_id = ids[k + 1]
          BY <3>3, <3>5, IdsAt DEF Calls
        <4> QED BY <3>4, <3>6, <4>1 DEF Fits
      <3>8. Clean(Y(k + 1))
        BY <3>2, <3>4, <3>5, <3>7, CleanAppend
      <3>9. Calls(Y(k + 1)) = Calls(x) /\ Outputs(Y(k + 1)) = Outputs(Y(k)) \cup {ids[k + 1]}
        <4>1. IdsOf(Append(Y(k), it), "call")
                = IdsOf(Y(k), "call") \cup (IF it.type = "call" THEN {it.call_id} ELSE {})
          BY <3>2, <3>4, IdsAppend, ZenonT(60)
        <4>2. IdsOf(Append(Y(k), it), "output")
                = IdsOf(Y(k), "output") \cup (IF it.type = "output" THEN {it.call_id} ELSE {})
          BY <3>2, <3>4, IdsAppend
        <4> QED BY <3>2, <3>4, <3>5, <4>1, <4>2 DEF Calls, Outputs
      <3>10. {ids[i] : i \in 1..(k + 1)} = {ids[i] : i \in 1..k} \cup {ids[k + 1]}
        <4>1. \A i \in 1..(k + 1) : i \in 1..k \/ i = k + 1
          BY <3>1
        <4>2. k + 1 \in 1..(k + 1) /\ \A i \in 1..k : i \in 1..(k + 1)
          BY <3>1
        <4> QED BY <4>1, <4>2
      <3>11. ChatOf(y, Y(k + 1)) = ChatOf(y, x)
        <4>1. ChatBlock(y, it) = <<>>
          BY <2>6, <3>4, ChatBlockIs
        <4>2. ChatOf(y, Y(k + 1)) = ChatOf(y, Y(k)) \o <<>> /\ ChatOf(y, Y(k)) \in Seq(Entry)
          <5>1. it \in Entry /\ y \in Seq(Entry) /\ Y(k) \in Seq(Entry)
            BY <2>6, <3>2, <3>4
          <5>2. ChatOf(y, Append(Y(k), it)) = ChatOf(y, Y(k)) \o ChatBlock(y, it) /\ ChatOf(y, Y(k)) \in Seq(Entry)
            BY <5>1, ChatOfSteps
          <5> QED BY <3>2, <4>1, <5>2
        <4> QED BY <3>5, <4>2
      <3> QED BY <3>1, <3>5, <3>8, <3>9, <3>10, <3>11
    <2>10. l \in T
      <3>1. l \in 0..l
        BY <2>4
      <3> HIDE DEF T
      <3> QED BY <2>4, <2>8, <2>9, <3>1, UpTo
    <2>11. Clean(y) /\ Calls(y) = Calls(x) /\ Outputs(y) = Outputs(x) \cup {ids[i] : i \in 1..l}
             /\ ChatOf(y, y) = ChatOf(y, x)
      <3> HIDE DEF Y
      <3> QED BY <2>7, <2>10
    <2>12. Calls(y) \subseteq Outputs(y)
      BY <2>3, <2>11 DEF l
    <2>13. ReorderToolMessages(y) = ChatOf(y, x)
      BY <2>6, <2>11, <2>12, ReorderIs
    <2>14. ASSUME NEW id \in Calls(x) PROVE OutputFor(y, id) = OutputFor(x, id)
      <3>1. CASE id \in Outputs(x)
        <4>1. id \in Ids
          BY <2>2, <3>1, IdsAt, EntryIs DEF Outputs
        <4>2. PICK q \in 1..Len(x) : x[q] = OutputFor(x, id)
          BY <3>1, <4>1, OutputForIs
        <4>3. x[q].type = "output" /\ x[q].call_id = id
          BY <4>1, <4>2, OutputForIs
        <4>4. q \in 1..Len(y) /\ y[q] = x[q]
          BY <2>4, <2>6 DEF m
        <4> QED BY <2>6, <2>11, <4>2, <4>3, <4>4, OutputForOnly DEF Clean
      <3>2. CASE id \notin Outputs(x)
        <4>1. id \in N /\ id \in Ids
          BY <2>2, <3>2
        <4>2. PICK j \in 1..l : ids[j] = id
          BY <2>3, <4>1 DEF l
        <4>3. m + j \in 1..Len(y) /\ y[m + j] = Output(id, 0)
          BY <2>4, <2>6, <4>2
        <4>4. Output(id, 0).type = "output" /\ Output(id, 0).call_id = id
          BY <4>1, EntryMakes
        <4>5. OutputFor(y, id) = Output(id, 0)
          BY <2>6, <2>11, <4>3, <4>4, OutputForOnly DEF Clean
        <4> QED BY <3>2, <4>1, <4>5, OutputForIs
      <3> QED BY <3>1, <3>2
    <2>15. ChatOf(y, x) = ChatOf(x, x)
      BY <2>6, <2>14, ChatOfSame
    <2> QED BY <1>1, <2>13, <2>15
  <1> QED BY <1>3, <1>4

-----------------------------------------------------------------------------
(* What the repair before a request makes of a history. *)

Repaired(x) ==
    [i \in 1..Len(x) |->
       IF x[i].type = "call" /\ x[i].call_id \notin Outputs(x)
       THEN <<x[i], Output(x[i].call_id, 0)>> ELSE <<x[i]>>]

\* Item after item: a call without an output gets one.
LEMMA EnsureSteps ==
    ASSUME NEW x \in Seq(Entry)
    PROVE  /\ EnsureCallOutputsPresent(x) = Flat(Repaired(x), Len(x))
           /\ Flat(Repaired(x), 0) = <<>>
           /\ \A k \in 0..Len(x) : Flat(Repaired(x), k) \in Seq(Entry)
           /\ \A k \in 0..(Len(x) - 1) :
                Flat(Repaired(x), k + 1) =
                  IF x[k + 1].type = "call" /\ x[k + 1].call_id \notin Outputs(x)
                  THEN Append(Append(Flat(Repaired(x), k), x[k + 1]), Output(x[k + 1].call_id, 0))
                  ELSE Append(Flat(Repaired(x), k), x[k + 1])
  <1> DEFINE b == Repaired(x)
             n == Len(x)
  <1>1. n \in Nat /\ \A i \in 1..n : x[i] \in Entry
    OBVIOUS
  <1>2. b = [i \in 1..n |-> b[i]] /\ EnsureCallOutputsPresent(x) = FlattenSeq(b)
    BY DEF Repaired, EnsureCallOutputsPresent, Outputs
  <1>3. \A i \in 1..n : b[i] = IF x[i].type = "call" /\ x[i].call_id \notin Outputs(x)
                               THEN <<x[i], Output(x[i].call_id, 0)>> ELSE <<x[i]>>
    BY DEF Repaired
  <1> HIDE DEF b, n
  <1>4. ASSUME NEW i \in 1..n, x[i].type = "call" PROVE Output(x[i].call_id, 0) \in Entry
    BY <1>1, <1>4, EntryIs, EntryMakes
  <1>5. ASSUME NEW i \in 1..n PROVE b[i] \in Seq(Entry)
    <2>1. /\ <<x[i]>> \in Seq(Entry)
          /\ x[i].type = "call" => <<x[i], Output(x[i].call_id, 0)>> \in Seq(Entry)
      BY <1>1, <1>4
    <2> QED BY <1>3, <2>1
  <1>6. /\ Flat(b, 0) = <<>>
        /\ \A k \in 0..(n - 1) : Flat(b, k + 1) = Flat(b, k) \o b[k + 1]
        /\ \A k \in 0..n : Flat(b, k) \in Seq(Entry)
    BY <1>1, <1>5, FlatSteps
  <1>7. EnsureCallOutputsPresent(x) = Flat(b, n)
    BY <1>1, <1>2, FlatAll
  <1>8. ASSUME NEW k \in 0..(n - 1)
        PROVE  Flat(b, k + 1) =
                 IF x[k + 1].type = "call" /\ x[k + 1].call_id \notin Outputs(x)
                 THEN Append(Append(Flat(b, k), x[k + 1]), Output(x[k + 1].call_id, 0))
                 ELSE Append(Flat(b, k), x[k + 1])
    <2>1. k + 1 \in 1..n /\ k \in 0..n
      BY <1>1
    <2>2. Flat(b, k) \in Seq(Entry) /\ Flat(b, k + 1) = Flat(b, k) \o b[k + 1] /\ x[k + 1] \in Entry
      BY <1>1, <1>6, <2>1
    <2>3. CASE x[k + 1].type = "call" /\ x[k + 1].call_id \notin Outputs(x)
      <3>1. PICK s, a, o : s = Flat(b, k) /\ a = x[k + 1] /\ o = Output(x[k + 1].call_id, 0)
        OBVIOUS
      <3>2. s \in Seq(Entry) /\ a \in Entry /\ o \in Entry
        BY <1>4, <2>1, <2>2, <2>3, <3>1
      <3>3. b[k + 1] = <<a, o>>
        BY <1>3, <2>1, <2>3, <3>1
      <3>4. s \o <<a, o>> = Append(Append(s, a), o)
        BY <3>2
      <3> QED BY <2>2, <2>3, <3>1, <3>3, <3>4
    <2>4. CASE ~(x[k + 1].type = "call" /\ x[k + 1].call_id \notin Outputs(x))
      <3>1. b[k + 1] = <<x[k + 1]>>
        BY <1>3, <2>1, <2>4
      <3>2. Flat(b, k) \o <<x[k + 1]>> = Append(Flat(b, k), x[k + 1])
        BY <2>2
      <3> QED BY <2>2, <2>4, <3>1, <3>2
    <2> QED BY <2>3, <2>4
  <1> QED BY <1>1, <1>6, <1>7, <1>8 DEF b, n

\* The ids after the first k items.
LEMMA EnsureIds ==
    ASSUME NEW x \in Seq(Entry), NEW k \in 0..Len(x)
    PROVE  /\ Calls(Flat(Repaired(x), k)) = Calls(SubSeq(x, 1, k))
           /\ Outputs(Flat(Repaired(x), k)) =
                Outputs(SubSeq(x, 1, k)) \cup (Calls(SubSeq(x, 1, k)) \ Outputs(x))
  <1> DEFINE e(j) == Flat(Repaired(x), j)
             s(j) == SubSeq(x, 1, j)
             T == {j \in 0..Len(x) : /\ Calls(e(j)) = Calls(s(j))
                                     /\ Outputs(e(j)) = Outputs(s(j)) \cup (Calls(s(j)) \ Outputs(x))}
  <1>1. Len(x) \in Nat /\ 0 \in 0..Len(x) /\ s(0) = <<>>
    BY AllItems
  <1>2. e(0) = <<>>
    BY EnsureSteps
  <1>3. 0 \in T
    <2>1. Calls(<<>>) = {} /\ Outputs(<<>>) = {}
      BY DEF Calls, Outputs, IdsOf
    <2> HIDE DEF e, s
    <2> QED BY <1>1, <1>2, <2>1
  <1>4. ASSUME NEW j \in 0..(Len(x) - 1), j \in T PROVE j + 1 \in T
    <2> DEFINE it == x[j + 1]
               o == Output(it.call_id, 0)
    <2>1. s(j + 1) = Append(s(j), it) /\ s(j) \in Seq(Entry) /\ it \in Entry
            /\ j \in 0..Len(x) /\ j + 1 \in 0..Len(x)
      BY <1>1, FirstItems
    <2>2. e(j) \in Seq(Entry)
      BY <2>1, EnsureSteps
    <2>3. e(j + 1) = IF it.type = "call" /\ it.call_id \notin Outputs(x)
                     THEN Append(Append(e(j), it), o) ELSE Append(e(j), it)
      BY EnsureSteps
    <2>4. /\ Calls(e(j)) = Calls(s(j))
          /\ Outputs(e(j)) = Outputs(s(j)) \cup (Calls(s(j)) \ Outputs(x))
      BY <1>4
    <2>5. it.type = "call" => o \in Entry /\ o.type = "output" /\ o.call_id = it.call_id
      BY <2>1, EntryIs, EntryMakes
    <2> HIDE DEF e, s, it, o
    <2>6. /\ Calls(s(j + 1)) = Calls(s(j)) \cup (IF it.type = "call" THEN {it.call_id} ELSE {})
          /\ Outputs(s(j + 1)) = Outputs(s(j)) \cup (IF it.type = "output" THEN {it.call_id} ELSE {})
      BY <2>1, BothAppend
    <2>7. PICK a : a = Append(e(j), it)
      OBVIOUS
    <2>8. /\ a \in Seq(Entry)
          /\ Calls(a) = Calls(e(j)) \cup (IF it.type = "call" THEN {it.call_id} ELSE {})
          /\ Outputs(a) = Outputs(e(j)) \cup (IF it.type = "output" THEN {it.call_id} ELSE {})
      BY <2>1, <2>2, <2>7, BothAppend
    <2>9. CASE it.type = "call" /\ it.call_id \notin Outputs(x)
      <3>1. e(j + 1) = Append(a, o) /\ o \in Entry /\ o.type = "output" /\ o.call_id = it.call_id
        BY <2>3, <2>5, <2>7, <2>9
      <3>2. Calls(Append(a, o)) = Calls(a) \cup (IF o.type = "call" THEN {o.call_id} ELSE {})
        BY <2>8, <3>1, BothAppend
      <3>3. Outputs(Append(a, o)) = Outputs(a) \cup (IF o.type = "output" THEN {o.call_id} ELSE {})
        BY <2>8, <3>1, BothAppend
      <3>4. Calls(e(j + 1)) = Calls(a) /\ Outputs(e(j + 1)) = Outputs(a) \cup {it.call_id}
        BY <3>1, <3>2, <3>3
      <3> QED BY <2>1, <2>4, <2>6, <2>8, <2>9, <3>4
    <2>10. CASE ~(it.type = "call" /\ it.call_id \notin Outputs(x))
      <3>1. e(j + 1) = a
        BY <2>3, <2>7, <2>10
      <3> QED BY <2>1, <2>4, <2>6, <2>8, <2>10, <3>1
    <2> QED BY <2>9, <2>10
  <1>5. k \in T
    <2> HIDE DEF T
    <2> QED BY <1>1, <1>3, <1>4, UpTo
  <1> QED BY <1>5

\* A history without orphans has none after the repair, and none is removed.
LEMMA NoOrphanAfter ==
    ASSUME NEW x \in Seq(Entry), Outputs(x) \subseteq Calls(x)
    PROVE  /\ OrphanOutputs(EnsureCallOutputsPresent(x)) = {}
           /\ ForPrompt(x) = EnsureCallOutputsPresent(x)
           /\ EnsureCallOutputsPresent(x) \in Seq(Entry)
  <1> DEFINE e == EnsureCallOutputsPresent(x)
  <1>1. Len(x) \in 0..Len(x) /\ SubSeq(x, 1, Len(x)) = x
    BY AllItems
  <1>2. e = Flat(Repaired(x), Len(x)) /\ e \in Seq(Entry)
    BY <1>1, EnsureSteps
  <1>3. Calls(e) = Calls(x) /\ Outputs(e) = Outputs(x) \cup (Calls(x) \ Outputs(x))
    BY <1>1, <1>2, EnsureIds
  <1> HIDE DEF e
  <1>4. Outputs(e) \subseteq Calls(e)
    BY <1>3
  <1>5. OrphanOutputs(e) = {}
    BY <1>4, IdsAt DEF OrphanOutputs, Calls, Outputs
  <1>6. RemoveOrphanOutputs(e) = e
    <2>1. (1..Len(e)) \ OrphanOutputs(e) = 1..Len(e)
      BY <1>5
    <2> QED BY <1>2, <2>1, OnlyAll DEF RemoveOrphanOutputs
  <1> QED BY <1>2, <1>5, <1>6 DEF e, ForPrompt

\* The repair of a clean history, up to any item: it stays clean, and makes
\* the same messages; its outputs are those of x or invented.
RepairedWell(x, e, k) ==
    /\ Clean(e)
    /\ \A i \in 1..k : \E j \in 1..Len(e) : e[j] = x[i]
    /\ \A j \in 1..Len(e) : \/ \E i \in 1..k : e[j] = x[i]
                            \/ /\ e[j].type = "output" /\ e[j].call_id \notin Outputs(x)
                               /\ e[j] = Output(e[j].call_id, 0)
    /\ ChatOf(x, e) = ChatOf(x, SubSeq(x, 1, k))

LEMMA RepairedItem ==
    ASSUME NEW x \in Seq(Entry), Clean(x), NEW k \in 0..(Len(x) - 1), NEW e \in Seq(Entry),
           RepairedWell(x, e, k), Calls(e) = Calls(SubSeq(x, 1, k)),
           Outputs(e) = Outputs(SubSeq(x, 1, k)) \cup (Calls(SubSeq(x, 1, k)) \ Outputs(x))
    PROVE  /\ RepairedWell(x, Append(e, x[k + 1]), k + 1)
           /\ x[k + 1].type = "call" /\ x[k + 1].call_id \notin Outputs(x) =>
                RepairedWell(x, Append(Append(e, x[k + 1]), Output(x[k + 1].call_id, 0)), k + 1)
  <1> DEFINE s == SubSeq(x, 1, k)
             it == x[k + 1]
             a == Append(e, it)
  <1>1. /\ SubSeq(x, 1, k + 1) = Append(s, it) /\ s \in Seq(Entry) /\ it \in Entry /\ k \in Nat
        /\ k + 1 \in 1..Len(x) /\ k \in 0..Len(x) /\ Len(s) = k /\ \A i \in 1..k : s[i] = x[i]
    BY FirstItems
  <1>2. Clean(s) /\ Fits(s, it)
    BY CleanFits
  <1>3. Fits(e, it)
    <2>1. ASSUME it.type = "call" PROVE it.call_id \notin Calls(e)
      BY <1>2, <2>1 DEF Fits
    <2>2. ASSUME it.type = "output" PROVE it.call_id \notin Outputs(e)
      <3>1. it.call_id \in Outputs(x)
        BY <1>1, <2>2, IdsAt DEF Outputs
      <3> QED BY <1>2, <2>2, <3>1 DEF Fits
    <2>3. ASSUME it.type = "output"
          PROVE  \E p \in 1..Len(e) : /\ e[p].type = "call" /\ e[p].call_id = it.call_id
                                      /\ it.of \in {0, e[p].of}
      <3>1. PICK p \in 1..Len(s) : /\ s[p].type = "call" /\ s[p].call_id = it.call_id
                                   /\ it.of \in {0, s[p].of}
        BY <1>2, <2>3 DEF Fits
      <3>2. p \in 1..k /\ s[p] = x[p]
        BY <1>1
      <3>3. PICK j \in 1..Len(e) : e[j] = x[p]
        BY <3>2 DEF RepairedWell
      <3> QED BY <3>1, <3>2, <3>3
    <2> QED BY <2>1, <2>2, <2>3 DEF Fits
  <1>4. Clean(a) /\ a \in Seq(Entry)
    BY <1>1, <1>3, CleanAppend DEF RepairedWell
  <1>5. /\ Len(a) = Len(e) + 1 /\ Len(e) \in Nat /\ a[Len(e) + 1] = it
        /\ \A j \in 1..Len(e) : a[j] = e[j] /\ j \in 1..Len(a)
        /\ \A j \in 1..Len(a) : j \in 1..Len(e) \/ j = Len(e) + 1
        /\ Len(e) + 1 \in 1..Len(a)
        /\ \A i \in 1..(k + 1) : i \in 1..k \/ i = k + 1
        /\ \A i \in 1..k : i \in 1..(k + 1)
        /\ k + 1 \in 1..(k + 1)
    BY <1>1
  <1>6. \A i \in 1..(k + 1) : \E j \in 1..Len(a) : a[j] = x[i]
    <2> HIDE DEF a
    <2> QED BY <1>5 DEF RepairedWell
  <1>7. ASSUME NEW j \in 1..Len(a)
        PROVE  \/ \E i \in 1..(k + 1) : a[j] = x[i]
               \/ /\ a[j].type = "output" /\ a[j].call_id \notin Outputs(x)
                  /\ a[j] = Output(a[j].call_id, 0)
    <2> HIDE DEF a
    <2> QED BY <1>5 DEF RepairedWell
  <1>8. ChatOf(x, a) = ChatOf(x, Append(s, it))
    <2>1. ChatOf(x, Append(e, it)) = ChatOf(x, e) \o ChatBlock(x, it)
      BY <1>1, ChatOfSteps
    <2>2. ChatOf(x, Append(s, it)) = ChatOf(x, s) \o ChatBlock(x, it)
      BY <1>1, ChatOfSteps
    <2>3. ChatOf(x, e) = ChatOf(x, s)
      BY DEF RepairedWell
    <2> QED BY <2>1, <2>2, <2>3
  <1>9. RepairedWell(x, a, k + 1)
    <2> HIDE DEF a, s, it
    <2> QED BY <1>1, <1>4, <1>6, <1>7, <1>8 DEF RepairedWell
  <1>10. ASSUME it.type = "call", it.call_id \notin Outputs(x)
         PROVE  RepairedWell(x, Append(a, Output(it.call_id, 0)), k + 1)
    <2> DEFINE o == Output(it.call_id, 0)
               d == Append(a, o)
    <2>1. it.call_id \in Ids
      BY <1>1, <1>10, EntryIs
    <2>2. o \in Entry /\ o.type = "output" /\ o.call_id = it.call_id /\ o.of = 0
      BY <2>1, EntryMakes
    <2>3. it.call_id \notin Outputs(a)
      <3>1. Outputs(a) = Outputs(e) \cup (IF it.type = "output" THEN {it.call_id} ELSE {})
        BY <1>1, BothAppend
      <3>2. it.call_id \notin Calls(s)
        BY <1>2, <1>10 DEF Fits
      <3>3. Outputs(s) \subseteq Calls(s)
        BY <1>1, <1>2, OutputsAreCalled DEF Clean
      <3> HIDE DEF a, s, it
      <3> QED BY <1>10, <3>1, <3>2, <3>3 DEF s
    <2> HIDE DEF o, a, it
    <2>4. Fits(a, o)
      BY <1>5, <1>10, <2>2, <2>3 DEF Fits
    <2>5. Clean(d) /\ d \in Seq(Entry)
      BY <1>4, <2>2, <2>4, CleanAppend
    <2>6. /\ Len(d) = Len(a) + 1 /\ Len(a) \in Nat /\ d[Len(a) + 1] = o
          /\ \A j \in 1..Len(a) : d[j] = a[j] /\ j \in 1..Len(d)
          /\ \A j \in 1..Len(d) : j \in 1..Len(a) \/ j = Len(a) + 1
      BY <1>4, <2>2
    <2>7. ChatOf(x, d) = ChatOf(x, a)
      <3>1. ChatOf(x, Append(a, o)) = ChatOf(x, a) \o ChatBlock(x, o) /\ ChatOf(x, a) \in Seq(Entry)
        BY <1>4, <2>2, ChatOfSteps
      <3>2. ChatBlock(x, o) = <<>>
        BY <2>2, ChatBlockIs
      <3> QED BY <3>1, <3>2
    <2> HIDE DEF d
    <2>8. \A i \in 1..(k + 1) : \E j \in 1..Len(d) : d[j] = x[i]
      BY <1>6, <2>6
    <2>9. ASSUME NEW j \in 1..Len(d)
          PROVE  \/ \E i \in 1..(k + 1) : d[j] = x[i]
                 \/ /\ d[j].type = "output" /\ d[j].call_id \notin Outputs(x)
                    /\ d[j] = Output(d[j].call_id, 0)
      <3>1. CASE j \in 1..Len(a)
        BY <1>7, <2>6, <3>1
      <3>2. CASE j = Len(a) + 1
        BY <1>10, <2>2, <2>6, <3>2 DEF o
      <3> QED BY <2>6, <3>1, <3>2
    <2>10. RepairedWell(x, d, k + 1)
      BY <1>1, <1>8, <2>5, <2>7, <2>8, <2>9 DEF RepairedWell
    <2> QED BY <2>10 DEF d, o
  <1> QED BY <1>9, <1>10

\* The history a request is built from, and the messages it makes.
LEMMA ForPromptIs ==
    ASSUME NEW x \in Seq(Entry), Clean(x)
    PROVE  /\ ForPrompt(x) \in Seq(Entry) /\ Clean(ForPrompt(x))
           /\ Calls(ForPrompt(x)) \subseteq Outputs(ForPrompt(x))
           /\ Supported(ForPrompt(x)) <=> Supported(x)
           /\ ChatOf(ForPrompt(x), ForPrompt(x)) = ChatOf(x, x)
  <1> DEFINE b == Repaired(x)
             T == {k \in 0..Len(x) : RepairedWell(x, Flat(b, k), k)}
  <1>1. /\ SubSeq(x, 1, Len(x)) = x /\ SubSeq(x, 1, 0) = <<>>
        /\ Len(x) \in Nat /\ Len(x) \in 0..Len(x) /\ 0 \in 0..Len(x)
    BY AllItems
  <1>2. Flat(b, 0) = <<>> /\ EnsureCallOutputsPresent(x) = Flat(b, Len(x))
    BY EnsureSteps
  <1>3. 0 \in T
    <2>0. Clean(<<>>)
      BY DEF Clean, Distinct, Follows
    <2>1. PICK z : z = <<>> /\ z = SubSeq(x, 1, 0)
      BY <1>1
    <2>2. Len(z) = 0 /\ 1..0 = {} /\ z \in Seq(Entry)
      BY <2>1
    <2>3. Supported(z) /\ \A i \in 1..0 : FALSE
      BY <2>2 DEF Supported
    <2>4. RepairedWell(x, z, 0)
      BY <2>0, <2>1, <2>2, <2>3 DEF RepairedWell
    <2>5. RepairedWell(x, <<>>, 0)
      BY <2>1, <2>4
    <2> HIDE DEF b
    <2> QED BY <1>1, <1>2, <2>5
  <1>4. ASSUME NEW k \in 0..(Len(x) - 1), k \in T PROVE k + 1 \in T
    <2>1. k \in 0..Len(x) /\ k + 1 \in 0..Len(x)
      BY <1>1
    <2>2. Flat(b, k) \in Seq(Entry)
      BY <2>1, EnsureSteps
    <2>3. Flat(b, k + 1) = IF x[k + 1].type = "call" /\ x[k + 1].call_id \notin Outputs(x)
                           THEN Append(Append(Flat(b, k), x[k + 1]), Output(x[k + 1].call_id, 0))
                           ELSE Append(Flat(b, k), x[k + 1])
      BY EnsureSteps
    <2>4. /\ Calls(Flat(b, k)) = Calls(SubSeq(x, 1, k))
          /\ Outputs(Flat(b, k)) = Outputs(SubSeq(x, 1, k)) \cup (Calls(SubSeq(x, 1, k)) \ Outputs(x))
      BY <2>1, EnsureIds
    <2> HIDE DEF b
    <2>5. /\ RepairedWell(x, Append(Flat(b, k), x[k + 1]), k + 1)
          /\ x[k + 1].type = "call" /\ x[k + 1].call_id \notin Outputs(x) =>
               RepairedWell(x, Append(Append(Flat(b, k), x[k + 1]), Output(x[k + 1].call_id, 0)), k + 1)
      BY <1>4, <2>2, <2>4, RepairedItem
    <2>6. RepairedWell(x, Flat(b, k + 1), k + 1)
      BY <2>3, <2>5
    <2> QED BY <2>1, <2>6
  <1>5. Len(x) \in T
    <2> HIDE DEF T
    <2> QED BY <1>1, <1>3, <1>4, UpTo
  <1>6. PICK e : e = EnsureCallOutputsPresent(x)
    OBVIOUS
  <1>7. Outputs(x) \subseteq Calls(x)
    BY OutputsAreCalled DEF Clean
  <1>8. ForPrompt(x) = e /\ e \in Seq(Entry)
    BY <1>6, <1>7, NoOrphanAfter
  <1>9. RepairedWell(x, e, Len(x))
    <2> HIDE DEF b
    <2> QED BY <1>2, <1>5, <1>6
  <1>10. Calls(e) = Calls(x) /\ Outputs(e) = Outputs(x) \cup (Calls(x) \ Outputs(x))
    BY <1>1, <1>2, <1>6, EnsureIds
  <1>11. Clean(e) /\ ChatOf(x, e) = ChatOf(x, x)
    BY <1>1, <1>9 DEF RepairedWell
  <1>12. Supported(e) <=> Supported(x)
    BY <1>9 DEF RepairedWell, Supported
  <1>13. ASSUME NEW id \in Calls(e) PROVE OutputFor(x, id) = OutputFor(e, id)
    <2>1. id \in Ids
      <3>1. PICK i \in 1..Len(x) : x[i].type = "call" /\ x[i].call_id = id
        BY <1>10, IdsAt DEF Calls
      <3>2. x[i] \in Entry
        OBVIOUS
      <3> QED BY <3>1, <3>2, EntryIs
    <2>2. id \in Outputs(e)
      BY <1>10
    <2>3. PICK j \in 1..Len(e) : e[j] = OutputFor(e, id)
      BY <1>8, <2>1, <2>2, OutputForIs
    <2>4. e[j].type = "output" /\ e[j].call_id = id
      BY <1>8, <2>1, <2>3, OutputForIs
    <2>5. CASE \E i \in 1..Len(x) : e[j] = x[i]
      <3>1. PICK i \in 1..Len(x) : e[j] = x[i]
        BY <2>5
      <3>2. OutputFor(x, id) = x[i]
        BY <2>4, <3>1, OutputForOnly DEF Clean
      <3> QED BY <2>3, <3>1, <3>2
    <2>6. CASE id \notin Outputs(x) /\ e[j] = Output(id, 0)
      BY <2>1, <2>3, <2>6, OutputForIs
    <2> QED BY <1>9, <2>4, <2>5, <2>6 DEF RepairedWell
  <1>14. ChatOf(x, e) = ChatOf(e, e)
    BY <1>8, <1>13, ChatOfSame
  <1> QED BY <1>8, <1>10, <1>11, <1>12, <1>14

\* The requests of a clean history, built from the history as it is or from
\* the repaired one: the same messages, in pairs.
LEMMA ChatRequest ==
    ASSUME NEW x \in Seq(Entry), Clean(x)
    PROVE  /\ HardFails(x) <=> ~Supported(x)
           /\ Supported(x) => /\ BuildChat(ForPrompt(x)).messages = ChatOf(x, x)
                              /\ BuildChat(x).messages = ChatOf(x, x)
           /\ ChatPaired(ChatOf(x, x))
  <1>1. PICK e : e = ForPrompt(x)
    OBVIOUS
  <1>2. e \in Seq(Entry) /\ Clean(e) /\ (Supported(e) <=> Supported(x)) /\ ChatOf(e, e) = ChatOf(x, x)
    BY <1>1, ForPromptIs
  <1>3. (BuildChat(e).failed <=> ~Supported(e)) /\ (Supported(e) => BuildChat(e).messages = ChatOf(e, e))
    BY <1>2, BuildChatIs
  <1>4. Supported(x) => BuildChat(x).messages = ChatOf(x, x)
    BY BuildChatIs
  <1>5. ChatPaired(ChatOf(x, x))
    BY ChatOfPaired
  <1> QED BY <1>1, <1>2, <1>3, <1>4, <1>5 DEF HardFails

-----------------------------------------------------------------------------
(* What is left of a history when some of its items go.  Also where ids    *)
(* are used again, between two outputs of an id there is a call.           *)

Answered(x, p, q) ==
    /\ x[p].type = "call" /\ x[p].call_id = x[q].call_id
    /\ \A r \in (p + 1)..(q - 1) : x[r].type = "output" => x[r].call_id # x[q].call_id

Answers(x) ==
    \A q \in 1..Len(x) : x[q].type = "output" => \E p \in 1..(q - 1) : Answered(x, p, q)

\* y holds the items of x at the places h, and of each output the call.
Keeps(x, y, h) ==
    /\ h \in [1..Len(y) -> 1..Len(x)]
    /\ \A i, j \in 1..Len(y) : i < j => h[i] < h[j]
    /\ \A i \in 1..Len(y) : y[i] = x[h[i]]
    /\ \A q \in 1..Len(y) : \A p \in 1..(h[q] - 1) :
         y[q].type = "output" /\ Answered(x, p, h[q]) => \E i \in 1..Len(y) : h[i] = p

LEMMA KeepsAnswers ==
    ASSUME NEW x \in Seq(Entry), NEW y \in Seq(Entry), NEW h, Keeps(x, y, h), Answers(x)
    PROVE  Answers(y)
  <1>0. Len(x) \in Nat /\ Len(y) \in Nat
    OBVIOUS
  <1> SUFFICES ASSUME NEW q \in 1..Len(y), y[q].type = "output"
               PROVE  \E p \in 1..(q - 1) : Answered(y, p, q)
    BY DEF Answers
  <1>1. h[q] \in 1..Len(x) /\ x[h[q]] = y[q]
    BY DEF Keeps
  <1>2. PICK p \in 1..(h[q] - 1) : Answered(x, p, h[q])
    BY <1>1 DEF Answers
  <1>3. PICK i \in 1..Len(y) : h[i] = p
    BY <1>2 DEF Keeps
  <1>4. i < q
    <2>1. \A j \in 1..Len(y) : h[j] \in Nat
      BY <1>0 DEF Keeps
    <2>2. h[i] < h[q]
      BY <1>1, <1>3, <2>1
    <2>3. q < i => h[q] < h[i]
      BY DEF Keeps
    <2>4. q = i => h[q] = h[i]
      OBVIOUS
    <2>5. q \in Nat /\ i \in Nat
      BY <1>0
    <2> QED BY <2>1, <2>2, <2>3, <2>4, <2>5
  <1>5. y[i] = x[p]
    BY <1>3 DEF Keeps
  <1>6. ASSUME NEW r \in (i + 1)..(q - 1) PROVE y[r].type = "output" => y[r].call_id # y[q].call_id
    <2>1. r \in 1..Len(y) /\ i < r /\ r < q
      BY <1>0
    <2>2. h[i] < h[r] /\ h[r] < h[q] /\ y[r] = x[h[r]] /\ h[r] \in 1..Len(x)
      BY <2>1 DEF Keeps
    <2>3. h[r] \in (p + 1)..(h[q] - 1)
      BY <1>0, <1>1, <1>3, <2>2
    <2> QED BY <1>1, <1>2, <2>2, <2>3 DEF Answered
  <1>7. i \in 1..(q - 1)
    BY <1>0, <1>4
  <1> QED BY <1>1, <1>2, <1>5, <1>6, <1>7 DEF Answered

LEMMA KeepsClean ==
    ASSUME NEW x \in Seq(Entry), NEW y \in Seq(Entry), NEW h, Keeps(x, y, h), Clean(x)
    PROVE  Clean(y) /\ Calls(y) \subseteq Calls(x)
  <1>0. Len(x) \in Nat /\ Len(y) \in Nat
    OBVIOUS
  <1>1. \A i \in 1..Len(y) : h[i] \in 1..Len(x) /\ h[i] \in Nat /\ y[i] = x[h[i]]
    BY <1>0 DEF Keeps
  <1>2. ASSUME NEW i \in 1..Len(y), NEW j \in 1..Len(y), h[i] = h[j] PROVE i = j
    <2>1. ~(i < j) /\ ~(j < i)
      BY <1>1, <1>2 DEF Keeps
    <2> QED BY <1>0, <2>1
  <1>3. ASSUME NEW type, Distinct(x, type) PROVE Distinct(y, type)
    <2> SUFFICES ASSUME NEW i \in 1..Len(y), NEW j \in 1..Len(y),
                        y[i].type = type, y[j].type = type, y[i].call_id = y[j].call_id
                 PROVE  i = j
      BY DEF Distinct
    <2>1. h[i] \in 1..Len(x) /\ h[j] \in 1..Len(x) /\ y[i] = x[h[i]] /\ y[j] = x[h[j]]
      BY <1>1
    <2>2. h[i] = h[j]
      BY <1>3, <2>1 DEF Distinct
    <2> QED BY <1>2, <2>2
  <1>4. Follows(y)
    <2> SUFFICES ASSUME NEW q \in 1..Len(y), y[q].type = "output"
                 PROVE  \E p \in 1..(q - 1) : /\ y[p].type = "call" /\ y[p].call_id = y[q].call_id
                                              /\ y[q].of \in {0, y[p].of}
      BY DEF Follows
    <2>1. PICK p \in 1..(h[q] - 1) : /\ x[p].type = "call" /\ x[p].call_id = y[q].call_id
                                     /\ y[q].of \in {0, x[p].of}
      <3>1. h[q] \in 1..Len(x) /\ x[h[q]] = y[q] /\ x[h[q]].type = "output"
        BY <1>1
      <3>2. \E p \in 1..(h[q] - 1) : /\ x[p].type = "call" /\ x[p].call_id = x[h[q]].call_id
                                     /\ x[h[q]].of \in {0, x[p].of}
        BY <3>1 DEF Clean, Follows
      <3> QED BY <3>1, <3>2
    <2>2. Answered(x, p, h[q])
      <3>1. ASSUME NEW r \in (p + 1)..(h[q] - 1), x[r].type = "output", x[r].call_id = x[h[q]].call_id
            PROVE  FALSE
        <4>1. r \in 1..Len(x) /\ r # h[q]
          BY <1>0, <1>1
        <4> QED BY <1>1, <3>1, <4>1 DEF Clean, Distinct
      <3> QED BY <1>1, <2>1, <3>1 DEF Answered
    <2>3. PICK i \in 1..Len(y) : h[i] = p
      BY <2>2 DEF Keeps
    <2>4. i < q
      <3>1. h[i] < h[q]
        BY <1>1, <2>3
      <3>2. q < i => h[q] < h[i]
        BY DEF Keeps
      <3> QED BY <1>0, <1>1, <3>1, <3>2
    <2>5. i \in 1..(q - 1) /\ y[i] = x[p]
      BY <1>0, <1>1, <2>3, <2>4
    <2> QED BY <2>1, <2>5
  <1>5. Calls(y) \subseteq Calls(x)
    <2> SUFFICES ASSUME NEW id \in Calls(y) PROVE id \in Calls(x)
      OBVIOUS
    <2>1. PICK i \in 1..Len(y) : y[i].type = "call" /\ y[i].call_id = id
      BY IdsAt DEF Calls
    <2> QED BY <1>1, <2>1, IdsAt DEF Calls
  <1> QED BY <1>3, <1>4, <1>5 DEF Clean

LEMMA PrefixKeeps ==
    ASSUME NEW x \in Seq(Entry), NEW k \in 0..Len(x)
    PROVE  /\ SubSeq(x, 1, k) \in Seq(Entry) /\ Len(SubSeq(x, 1, k)) = k
           /\ \A i \in 1..k : SubSeq(x, 1, k)[i] = x[i]
           /\ \E h : Keeps(x, SubSeq(x, 1, k), h)
  <1> DEFINE y == SubSeq(x, 1, k)
             h == [i \in 1..k |-> i]
  <1>1. y \in Seq(Entry) /\ Len(y) = k /\ k \in Nat /\ Len(x) \in Nat /\ \A i \in 1..k : y[i] = x[i]
    OBVIOUS
  <1>2. \A i \in 1..k : h[i] = i /\ h[i] \in 1..Len(x)
    BY <1>1
  <1>3. h \in [1..k -> 1..Len(x)]
    BY <1>2
  <1> HIDE DEF h, y
  <1>4. \A q \in 1..k : \A p \in 1..(q - 1) : p \in 1..k
    BY <1>1
  <1>5. Keeps(x, y, h)
    BY <1>1, <1>2, <1>3, <1>4 DEF Keeps
  <1> QED BY <1>1, <1>5 DEF y

\* The first m items are no calls.
LEMMA SuffixKeeps ==
    ASSUME NEW x \in Seq(Entry), NEW m \in 0..Len(x), \A i \in 1..m : x[i].type # "call"
    PROVE  /\ SubSeq(x, m + 1, Len(x)) \in Seq(Entry)
           /\ \E h : Keeps(x, SubSeq(x, m + 1, Len(x)), h)
  <1> DEFINE y == SubSeq(x, m + 1, Len(x))
             h == [i \in 1..(Len(x) - m) |-> m + i]
  <1>1. /\ y \in Seq(Entry) /\ Len(y) = Len(x) - m /\ m \in Nat /\ Len(x) \in Nat
        /\ \A i \in 1..(Len(x) - m) : y[i] = x[m + i]
    <2>1. m \in Nat /\ Len(x) \in Nat /\ m + 1 \in 1..(Len(x) + 1)
      OBVIOUS
    <2>2. y \in Seq(Entry) /\ Len(y) = (IF m + 1 <= Len(x) THEN Len(x) - (m + 1) + 1 ELSE 0)
      BY <2>1
    <2>3. Len(y) = Len(x) - m
      BY <2>1, <2>2
    <2>4. ASSUME NEW i \in 1..(Len(x) - m) PROVE y[i] = x[m + i]
      <3>1. y[i] = x[(m + 1) + i - 1] /\ (m + 1) + i - 1 = m + i
        BY <2>1, <2>3
      <3> QED BY <3>1
    <2> QED BY <2>1, <2>2, <2>3, <2>4
  <1>2. \A i \in 1..(Len(x) - m) : h[i] = m + i /\ h[i] \in 1..Len(x)
    BY <1>1
  <1>3. h \in [1..(Len(x) - m) -> 1..Len(x)]
    BY <1>2
  <1> HIDE DEF h, y
  <1>4. ASSUME NEW q \in 1..(Len(x) - m), NEW p \in 1..(h[q] - 1), Answered(x, p, h[q])
        PROVE  \E i \in 1..(Len(x) - m) : h[i] = p
    <2>1. p \in 1..Len(x) /\ x[p].type = "call"
      BY <1>1, <1>2, <1>4 DEF Answered
    <2>2. p \notin 1..m
      BY <2>1
    <2>3. p - m \in 1..(Len(x) - m) /\ m + (p - m) = p
      BY <1>1, <2>1, <2>2
    <2> QED BY <1>2, <2>3
  <1>5. \A i, j \in 1..(Len(x) - m) : i < j => h[i] < h[j]
    BY <1>1, <1>2
  <1>6. Keeps(x, y, h)
    BY <1>1, <1>2, <1>3, <1>4, <1>5 DEF Keeps
  <1> QED BY <1>1, <1>6 DEF y

\* remove_first_item takes the matching output away with a call.
LEMMA RemoveFirstKeeps ==
    ASSUME NEW x \in Seq(Entry), Answers(x)
    PROVE  /\ RemoveFirstItem(x) \in Seq(Entry)
           /\ \E h : Keeps(x, RemoveFirstItem(x), h)
  <1>1. CASE x = <<>>
    <2>1. RemoveFirstItem(x) = SubSeq(x, 1, 0) /\ 0 \in 0..Len(x)
      BY <1>1 DEF RemoveFirstItem
    <2> QED BY <2>1, PrefixKeeps
  <1>2. CASE x # <<>>
    <2> DEFINE n == Len(x)
               rest == Tail(x)
               match == Counterparts(rest, x[1])
               m == Min(match)
               y == IF match = {} THEN rest ELSE RemoveAt(rest, m)
               gap(i) == IF match # {} /\ i >= m THEN i + 2 ELSE i + 1
               l == IF match = {} THEN n - 1 ELSE n - 2
               h == [i \in 1..l |-> gap(i)]
    <2>1. RemoveFirstItem(x) = y
      BY <1>2 DEF RemoveFirstItem
    <2>2. /\ n \in Nat \ {0} /\ rest \in Seq(Entry) /\ Len(rest) = n - 1
          /\ \A i \in 1..(n - 1) : rest[i] = x[i + 1] /\ i + 1 \in 1..n
          /\ 1 \in 1..n /\ x[1] \in Entry
      BY <1>2
    <2>3. x[1].type # "output"
      BY <2>2 DEF Answers
    <2>4. match = {i \in 1..(n - 1) : /\ rest[i].call_id = x[1].call_id
                                      /\ x[1].type = "call" /\ rest[i].type = "output"}
      BY <2>2, <2>3 DEF Counterparts
    <2>5. match # {} => m \in match /\ \A j \in match : m <= j
      <3>1. match \subseteq Nat
        BY <2>2, <2>4
      <3> HIDE DEF match
      <3> QED BY <3>1, MinOf
    <2>6. match # {} => m \in 1..(n - 1)
      BY <2>4, <2>5
    <2> HIDE DEF match, m, n
    <2>7. l \in Nat /\ \A i \in 1..l : gap(i) \in 1..n /\ gap(i) # 1 /\ (match # {} => gap(i) # m + 1)
      BY <2>2, <2>6
    <2>8. y \in Seq(Entry) /\ Len(y) = l /\ \A i \in 1..l : y[i] = x[gap(i)]
      <3>1. CASE match = {}
        BY <2>2, <3>1
      <3>2. CASE match # {}
        <4> DEFINE a == SubSeq(rest, 1, m - 1)
                   b == SubSeq(rest, m + 1, n - 1)
        <4>0. m \in 1..(n - 1) /\ n - 1 \in Nat /\ l = n - 2
          BY <2>2, <2>6, <3>2
        <4>1. y = a \o b
          BY <2>2, <3>2 DEF RemoveAt
        <4>2. a \in Seq(Entry) /\ Len(a) = m - 1 /\ \A i \in 1..(m - 1) : a[i] = rest[i]
          <5>1. m - 1 \in 0..Len(rest)
            BY <2>2, <4>0
          <5> QED BY <2>2, <5>1, PrefixKeeps
        <4>3. b \in Seq(Entry) /\ Len(b) = (n - 1) - m
          <5>1. Len(b) = IF m + 1 <= n - 1 THEN (n - 1) - (m + 1) + 1 ELSE 0
            BY <2>2, <4>0
          <5> QED BY <2>2, <4>0, <5>1
        <4>4. ASSUME NEW i \in 1..((n - 1) - m) PROVE b[i] = rest[m + i]
          <5>1. b[i] = rest[(m + 1) + i - 1] /\ (m + 1) + i - 1 = m + i
            BY <2>2, <4>0, <4>3
          <5> QED BY <5>1
        <4> HIDE DEF a, b, y, rest
        <4>5. /\ y \in Seq(Entry) /\ Len(y) = l
              /\ \A i \in 1..Len(a) : y[i] = a[i]
              /\ \A i \in 1..Len(b) : y[Len(a) + i] = b[i]
          <5>1. /\ a \o b \in Seq(Entry) /\ Len(a \o b) = Len(a) + Len(b)
                /\ \A i \in 1..Len(a) : (a \o b)[i] = a[i]
                /\ \A i \in 1..Len(b) : (a \o b)[Len(a) + i] = b[i]
            <6>1. a \in Seq(Entry) /\ b \in Seq(Entry)
              BY <4>2, <4>3
            <6> QED BY <6>1, ConcatPlaces
          <5>2. Len(a) + Len(b) = l
            BY <2>2, <2>6, <3>2, <4>0, <4>2, <4>3
          <5> HIDE DEF l
          <5> QED BY <4>1, <5>1, <5>2
        <4>6. ASSUME NEW i \in 1..l PROVE y[i] = x[gap(i)]
          <5>1. CASE i < m
            <6>1. i \in 1..(m - 1) /\ i \in 1..(n - 1) /\ gap(i) = i + 1
              BY <4>0, <5>1
            <6> QED BY <2>2, <4>2, <4>5, <6>1
          <5>2. CASE i >= m
            <6> DEFINE j == i - (m - 1)
            <6>1. /\ j \in 1..((n - 1) - m) /\ (m - 1) + j = i /\ m + j \in 1..(n - 1)
                  /\ (m + j) + 1 = i + 2 /\ gap(i) = i + 2
              <7>1. i \in Nat /\ m \in Nat /\ n \in Nat /\ i <= n - 2 /\ m <= n - 1 /\ 1 <= m /\ m <= i
                BY <2>2, <4>0, <5>2
              <7> QED BY <3>2, <7>1
            <6> HIDE DEF j
            <6>2. y[i] = b[j] /\ b[j] = rest[m + j] /\ rest[m + j] = x[(m + j) + 1]
              BY <2>2, <4>2, <4>3, <4>4, <4>5, <6>1
            <6> QED BY <6>1, <6>2
          <5> QED BY <4>0, <5>1, <5>2
        <4> QED BY <4>5, <4>6
      <3> QED BY <3>1, <3>2
    <2>9. h \in [1..l -> 1..n] /\ \A i \in 1..l : h[i] = gap(i)
      BY <2>7
    <2>10. \A i, j \in 1..l : i < j => gap(i) < gap(j)
      BY <2>2, <2>6, <2>7
    <2>11. ASSUME NEW q \in 1..l, NEW p \in 1..(gap(q) - 1), y[q].type = "output", Answered(x, p, gap(q))
           PROVE  \E i \in 1..l : gap(i) = p
      <3>0. gap(q) \in 1..n /\ p \in 1..n /\ p < gap(q) /\ x[p].type = "call"
              /\ x[p].call_id = x[gap(q)].call_id /\ x[gap(q)].type = "output"
        BY <2>2, <2>7, <2>8, <2>11 DEF Answered
      <3>1. p # 1
        <4> SUFFICES ASSUME p = 1 PROVE FALSE
          OBVIOUS
        <4>1. gap(q) - 1 \in 1..(n - 1) /\ (gap(q) - 1) + 1 = gap(q)
          BY <2>2, <2>7, <3>0
        <4>2. rest[gap(q) - 1] = x[gap(q)]
          BY <2>2, <4>1
        <4>3. gap(q) - 1 \in match
          BY <2>4, <3>0, <4>1, <4>2
        <4>4. m \in match /\ m <= gap(q) - 1 /\ m \in 1..(n - 1) /\ match # {}
          BY <2>5, <2>6, <4>3
        <4>5. m + 1 \in (p + 1)..(gap(q) - 1)
          BY <2>2, <2>7, <4>1, <4>4
        <4>6. x[m + 1].type = "output" /\ x[m + 1].call_id = x[gap(q)].call_id
          BY <2>2, <2>4, <3>0, <4>4
        <4> QED BY <2>11, <4>5, <4>6 DEF Answered
      <3>2. match # {} => p # m + 1
        BY <2>2, <2>4, <2>5, <2>6, <3>0
      <3> HIDE DEF y, rest
      <3>3. CASE match = {} \/ p < m + 1
        <4>1. p - 1 \in 1..l /\ gap(p - 1) = p
          BY <2>2, <2>6, <2>7, <3>0, <3>1, <3>3, SMTT(60)
        <4> QED BY <4>1
      <3>4. CASE match # {} /\ ~(p < m + 1)
        <4>0. p \in Nat /\ m \in Nat /\ n \in Nat /\ p <= n /\ 1 <= m /\ m + 1 < p
          <5>1. p \in Nat /\ m \in Nat /\ n \in Nat /\ p <= n /\ 1 <= m /\ ~(p < m + 1)
            BY <2>2, <2>6, <3>0, <3>4
          <5> QED BY <3>2, <3>4, <5>1
        <4>1. p - 2 \in 1..l /\ gap(p - 2) = p
          BY <3>4, <4>0
        <4> QED BY <4>1
      <3> QED BY <3>3, <3>4
    <2>12. /\ \A i, j \in 1..l : i < j => h[i] < h[j]
           /\ \A i \in 1..l : y[i] = x[h[i]]
      <3> HIDE DEF y, h, gap, l
      <3> QED BY <2>8, <2>9, <2>10
    <2>13. ASSUME NEW q \in 1..l, NEW p \in 1..(h[q] - 1), y[q].type = "output", Answered(x, p, h[q])
           PROVE  \E i \in 1..l : h[i] = p
      <3>1. h[q] = gap(q)
        BY <2>9
      <3> HIDE DEF y, h, l, gap
      <3>2. PICK i \in 1..l : gap(i) = p
        BY <2>11, <2>13, <3>1
      <3> QED BY <2>9, <3>2
    <2>14. Keeps(x, y, h)
      <3>1. Len(y) = l /\ n = Len(x) /\ h \in [1..l -> 1..n]
        BY <2>8, <2>9 DEF n
      <3> HIDE DEF y, h, gap, l
      <3> QED BY <2>12, <2>13, <3>1 DEF Keeps
    <2> HIDE DEF y, h, gap, l
    <2> QED BY <2>1, <2>8, <2>14
  <1> QED BY <1>1, <1>2

-----------------------------------------------------------------------------
(* What items at the end of a history add to it.                           *)

Longer(x, y) == Len(x) <= Len(y) /\ \A i \in 1..Len(x) : y[i] = x[i]

LEMMA LongerAppend ==
    ASSUME NEW x \in Seq(Entry), NEW it \in Entry
    PROVE  /\ Append(x, it) \in Seq(Entry) /\ Longer(x, Append(x, it))
           /\ Len(Append(x, it)) = Len(x) + 1 /\ Append(x, it)[Len(x) + 1] = it
           /\ \A i \in 1..(Len(x) + 1) : i \in 1..Len(x) \/ i = Len(x) + 1
  <1>1. /\ Append(x, it) \in Seq(Entry) /\ Len(Append(x, it)) = Len(x) + 1 /\ Len(x) \in Nat
        /\ \A i \in 1..Len(x) : Append(x, it)[i] = x[i]
        /\ Append(x, it)[Len(x) + 1] = it
    OBVIOUS
  <1> QED BY <1>1 DEF Longer

LEMMA LongerPrefix ==
    ASSUME NEW x \in Seq(Entry), NEW y \in Seq(Entry), Longer(x, y), NEW n \in 0..Len(x)
    PROVE  SubSeq(y, 1, n) = SubSeq(x, 1, n) /\ n \in 0..Len(y)
  <1>1. n \in Nat /\ Len(x) \in Nat /\ Len(y) \in Nat /\ n \in 0..Len(y)
    BY DEF Longer
  <1>2. \A i \in 1..n : y[i] = x[i]
    BY <1>1 DEF Longer
  <1>3. SubSeq(y, 1, n) \in Seq(Entry) /\ SubSeq(x, 1, n) \in Seq(Entry)
        /\ Len(SubSeq(y, 1, n)) = n /\ Len(SubSeq(x, 1, n)) = n
        /\ \A i \in 1..n : SubSeq(y, 1, n)[i] = SubSeq(x, 1, n)[i]
    BY <1>1, <1>2
  <1>4. \A p, q \in Seq(Entry) : Len(p) = n /\ Len(q) = n /\ (\A i \in 1..n : p[i] = q[i]) => p = q
    BY <1>1
  <1> QED BY <1>1, <1>3, <1>4

LEMMA LongerAnswers ==
    ASSUME NEW x \in Seq(Entry), NEW y \in Seq(Entry), Longer(x, y), Answers(x),
           \A q \in 1..Len(y) : y[q].type = "output" =>
             q \in 1..Len(x) \/ \E p \in 1..(q - 1) : Answered(y, p, q)
    PROVE  Answers(y)
  <1> SUFFICES ASSUME NEW q \in 1..Len(x), y[q].type = "output"
               PROVE  \E p \in 1..(q - 1) : Answered(y, p, q)
    BY DEF Answers
  <1>0. Len(x) \in Nat
    OBVIOUS
  <1>1. \A i \in 1..q : y[i] = x[i]
    BY <1>0 DEF Longer
  <1>2. PICK p \in 1..(q - 1) : Answered(x, p, q)
    BY <1>0, <1>1 DEF Answers
  <1>3. \A r \in (p + 1)..(q - 1) : r \in 1..q
    BY <1>0
  <1>4. p \in 1..q /\ q \in 1..q
    BY <1>0
  <1>5. y[p] = x[p] /\ y[q] = x[q] /\ \A r \in (p + 1)..(q - 1) : y[r] = x[r]
    BY <1>1, <1>3, <1>4
  <1>6. Answered(y, p, q)
    BY <1>2, <1>5 DEF Answered
  <1> QED BY <1>6

\* New calls have ids of their own.
LEMMA LongerClean ==
    ASSUME NEW x \in Seq(Entry), NEW y \in Seq(Entry), Longer(x, y), Clean(x),
           \A q \in 1..Len(y) : q \notin 1..Len(x) =>
             /\ y[q].type # "output"
             /\ y[q].type = "call" => y[q].call_id \notin Calls(x),
           \A q, r \in 1..Len(y) :
             (/\ q \notin 1..Len(x) /\ r \notin 1..Len(x)
              /\ y[q].type = "call" /\ y[r].type = "call"
              /\ y[q].call_id = y[r].call_id) => q = r
    PROVE  Clean(y) /\ Outputs(y) = Outputs(x)
  <1>0. /\ Len(x) \in Nat /\ Len(y) \in Nat /\ \A i \in 1..Len(x) : y[i] = x[i] /\ i \in 1..Len(y)
    BY DEF Longer
  <1>1. Distinct(y, "output")
    BY <1>0 DEF Clean, Distinct
  <1>2. Distinct(y, "call")
    <2> SUFFICES ASSUME NEW i \in 1..Len(y), NEW j \in 1..Len(y),
                        y[i].type = "call", y[j].type = "call", y[i].call_id = y[j].call_id
                 PROVE  i = j
      BY DEF Distinct
    <2>1. CASE i \in 1..Len(x) /\ j \in 1..Len(x)
      BY <1>0, <2>1 DEF Clean, Distinct
    <2>2. CASE i \in 1..Len(x) /\ j \notin 1..Len(x)
      BY <1>0, <2>2, IdsAt DEF Calls
    <2>3. CASE i \notin 1..Len(x) /\ j \in 1..Len(x)
      BY <1>0, <2>3, IdsAt DEF Calls
    <2> QED BY <2>1, <2>2, <2>3
  <1>3. Follows(y)
    <2> SUFFICES ASSUME NEW q \in 1..Len(y), y[q].type = "output"
                 PROVE  \E p \in 1..(q - 1) : /\ y[p].type = "call" /\ y[p].call_id = y[q].call_id
                                              /\ y[q].of \in {0, y[p].of}
      BY DEF Follows
    <2>1. q \in 1..Len(x) /\ y[q] = x[q]
      BY <1>0
    <2>2. PICK p \in 1..(q - 1) : /\ x[p].type = "call" /\ x[p].call_id = x[q].call_id
                                  /\ x[q].of \in {0, x[p].of}
      BY <2>1 DEF Clean, Follows
    <2>3. p \in 1..Len(x)
      BY <1>0, <2>1
    <2> QED BY <1>0, <2>1, <2>2, <2>3
  <1>4. Outputs(y) = Outputs(x)
    <2>1. ASSUME NEW id \in Outputs(y) PROVE id \in Outputs(x)
      <3>1. PICK q \in 1..Len(y) : y[q].type = "output" /\ y[q].call_id = id
        BY <2>1, IdsAt DEF Outputs
      <3>2. q \in 1..Len(x) /\ y[q] = x[q]
        BY <1>0, <3>1
      <3> QED BY <3>1, <3>2, IdsAt DEF Outputs
    <2>2. ASSUME NEW id \in Outputs(x) PROVE id \in Outputs(y)
      <3>1. PICK q \in 1..Len(x) : x[q].type = "output" /\ x[q].call_id = id
        BY <2>2, IdsAt DEF Outputs
      <3> QED BY <1>0, <3>1, IdsAt DEF Outputs
    <2> QED BY <2>1, <2>2
  <1> QED BY <1>1, <1>2, <1>3, <1>4 DEF Clean

\* What a call is answered with does not change without an output for it.
LEMMA OutputForLonger ==
    ASSUME NEW x \in Seq(Entry), NEW y \in Seq(Entry), Longer(x, y), Distinct(y, "output"),
           NEW id \in Ids,
           \A q \in 1..Len(y) : q \notin 1..Len(x) /\ y[q].type = "output" => y[q].call_id # id
    PROVE  OutputFor(y, id) = OutputFor(x, id)
  <1>0. /\ Len(x) \in Nat /\ Len(y) \in Nat /\ \A i \in 1..Len(x) : y[i] = x[i] /\ i \in 1..Len(y)
    BY DEF Longer
  <1>1. CASE id \in Outputs(x)
    <2>1. PICK i \in 1..Len(x) : x[i] = OutputFor(x, id)
      BY <1>1, OutputForIs
    <2>2. x[i].type = "output" /\ x[i].call_id = id /\ y[i] = x[i] /\ i \in 1..Len(y)
      BY <1>0, <2>1, OutputForIs
    <2>3. OutputFor(y, id) = y[i]
      BY <2>2, OutputForOnly
    <2> QED BY <2>1, <2>2, <2>3
  <1>2. CASE id \notin Outputs(x)
    <2>1. id \notin Outputs(y)
      <3> SUFFICES ASSUME id \in Outputs(y) PROVE FALSE
        OBVIOUS
      <3>1. PICK q \in 1..Len(y) : y[q].type = "output" /\ y[q].call_id = id
        BY IdsAt DEF Outputs
      <3>2. q \in 1..Len(x) /\ y[q] = x[q]
        BY <1>0, <3>1
      <3> QED BY <1>2, <3>1, <3>2, IdsAt DEF Outputs
    <2> QED BY <1>2, <2>1, OutputForIs
  <1> QED BY <1>1, <1>2

LEMMA CallsAreIds ==
    ASSUME NEW x \in Seq(Entry)
    PROVE  Calls(x) \subseteq Ids /\ Outputs(x) \subseteq Ids
  <1>1. ASSUME NEW id \in Calls(x) PROVE id \in Ids
    <2>1. PICK i \in 1..Len(x) : x[i].type = "call" /\ x[i].call_id = id
      BY <1>1, IdsAt DEF Calls
    <2>2. x[i] \in Entry
      OBVIOUS
    <2> QED BY <2>1, <2>2, EntryIs
  <1>2. ASSUME NEW id \in Outputs(x) PROVE id \in Ids
    <2>1. PICK i \in 1..Len(x) : x[i].type = "output" /\ x[i].call_id = id
      BY <1>2, IdsAt DEF Outputs
    <2>2. x[i] \in Entry
      OBVIOUS
    <2> QED BY <2>1, <2>2, EntryIs
  <1> QED BY <1>1, <1>2

\* What was sent is made again from a longer history, unless one of the calls
\* in it was answered since.
LEMMA SentAgain ==
    ASSUME NEW x \in Seq(Entry), NEW y \in Seq(Entry), Longer(x, y), Distinct(y, "output"),
           NEW n \in 0..Len(x),
           \A q \in 1..Len(y) : q \notin 1..Len(x) /\ y[q].type = "output" =>
             y[q].call_id \notin Calls(SubSeq(x, 1, n))
    PROVE  /\ SubSeq(y, 1, n) = SubSeq(x, 1, n) /\ n \in 0..Len(y)
           /\ ChatOf(y, SubSeq(y, 1, n)) = ChatOf(x, SubSeq(x, 1, n))
  <1>1. PICK s : s = SubSeq(x, 1, n)
    OBVIOUS
  <1>2. s \in Seq(Entry)
    BY <1>1, PrefixKeeps
  <1>3. SubSeq(y, 1, n) = s /\ n \in 0..Len(y)
    BY <1>1, LongerPrefix
  <1>4. ASSUME NEW id \in Calls(s) PROVE OutputFor(y, id) = OutputFor(x, id)
    <2>1. id \in Ids
      BY <1>2, CallsAreIds
    <2>2. \A q \in 1..Len(y) : q \notin 1..Len(x) /\ y[q].type = "output" => y[q].call_id # id
      BY <1>1
    <2> QED BY <2>1, <2>2, OutputForLonger
  <1>5. ChatOf(y, s) = ChatOf(x, s)
    BY <1>2, <1>4, ChatOfSame
  <1> QED BY <1>1, <1>3, <1>5

-----------------------------------------------------------------------------
(* Rollback and compaction.                                                *)

LEMMA UserTurnsAre ==
    ASSUME NEW x \in Seq(Entry)
    PROVE  /\ UserTurns(x) \subseteq 1..Len(x) /\ UserTurns(x) \subseteq Nat /\ Len(x) \in Nat
           /\ IsFiniteSet(UserTurns(x)) /\ Cardinality(UserTurns(x)) \in Nat
  <1>1. UserTurns(x) \subseteq 1..Len(x) /\ Len(x) \in Nat
    BY DEF UserTurns
  <1>2. UserTurns(x) \subseteq Nat
    BY <1>1
  <1>3. IsFiniteSet(1..Len(x))
    BY <1>1, FS_Interval
  <1>4. IsFiniteSet(UserTurns(x))
    BY <1>1, <1>3, FS_Subset
  <1> QED BY <1>1, <1>2, <1>4, FS_CardinalityType

Younger(x, i) == {j \in UserTurns(x) : j >= i}
CutAt(x, n) ==
    IF n >= Cardinality(UserTurns(x)) THEN Min(UserTurns(x))
    ELSE Max({i \in UserTurns(x) : Cardinality(Younger(x, i)) >= n})

LEMMA CutIs ==
    ASSUME NEW x \in Seq(Entry), NEW n \in Nat, UserTurns(x) # {}
    PROVE  /\ CutAt(x, n) \in 1..Len(x) /\ RollbackCut(x, n) \in 1..Len(x)
           /\ \A i \in RollbackCut(x, n)..(CutAt(x, n) - 1) : x[i] = Message("context")
           /\ n < Cardinality(UserTurns(x)) =>
                \A i \in UserTurns(x) : Cardinality(Younger(x, i)) >= n => CutAt(x, n) >= i
  <1> DEFINE turns == UserTurns(x)
             first == Min(turns)
             C == {i \in turns : Cardinality(Younger(x, i)) >= n}
             cut == CutAt(x, n)
             K == {k \in first..cut : \A i \in k..(cut - 1) : x[i] = Message("context")}
  <1>1. turns \subseteq 1..Len(x) /\ turns \subseteq Nat /\ Len(x) \in Nat /\ Cardinality(turns) \in Nat
    BY UserTurnsAre
  <1>2. first \in turns /\ \A j \in turns : first <= j
    <2> HIDE DEF turns
    <2> QED BY <1>1, MinOf DEF turns
  <1>3. first \in 1..Len(x) /\ first \in Nat
    <2> HIDE DEF turns, first
    <2> QED BY <1>1, <1>2
  <1>4. ASSUME n < Cardinality(turns)
        PROVE  cut \in turns /\ \A i \in C : cut >= i
    <2>1. Younger(x, first) = turns
      <3>1. \A j \in turns : j >= first
        <4> HIDE DEF turns, first
        <4> QED BY <1>1, <1>2
      <3> HIDE DEF first
      <3> QED BY <3>1 DEF Younger
    <2>2. first \in C
      <3> HIDE DEF first
      <3>1. Cardinality(Younger(x, first)) >= n
        BY <1>1, <1>4, <2>1
      <3> QED BY <1>2, <3>1
    <2>3. C \subseteq turns
      OBVIOUS
    <2>4. cut = Max(C)
      BY <1>1, <1>4 DEF CutAt
    <2> HIDE DEF C, cut, turns, first
    <2>5. C \subseteq 0..Len(x) /\ C # {}
      BY <1>1, <2>2, <2>3
    <2>6. Max(C) \in C /\ \A y \in C : Max(C) >= y
      BY <1>1, <2>5, MaxOf
    <2> QED BY <2>3, <2>4, <2>6
  <1>5. ASSUME ~(n < Cardinality(turns)) PROVE cut = first
    <2>1. n >= Cardinality(turns)
      BY <1>1, <1>5
    <2> QED BY <2>1 DEF CutAt
  <1>6. cut \in turns
    <2> HIDE DEF cut, turns, first
    <2> QED BY <1>2, <1>4, <1>5
  <1>7. RollbackCut(x, n) = Min(K)
    BY DEF RollbackCut, CutAt, Younger
  <1>8. cut \in 1..Len(x) /\ cut \in Nat /\ first <= cut
    <2> HIDE DEF cut, turns, first
    <2> QED BY <1>1, <1>2, <1>6
  <1>9. K \subseteq Nat /\ K # {}
    <2> HIDE DEF cut, turns, first
    <2>1. cut \in first..cut /\ cut..(cut - 1) = {}
      BY <1>3, <1>8
    <2>2. cut \in K
      BY <2>1
    <2>3. K \subseteq first..cut
      OBVIOUS
    <2>4. first..cut \subseteq Nat
      BY <1>3, <1>8
    <2> HIDE DEF K
    <2> QED BY <2>2, <2>3, <2>4
  <1>10. Min(K) \in K
    <2> HIDE DEF K
    <2> QED BY <1>9, MinOf
  <1>11. Min(K) \in 1..Len(x) /\ \A i \in Min(K)..(cut - 1) : x[i] = Message("context")
    <2>1. PICK k : k = Min(K)
      OBVIOUS
    <2>2. k \in first..cut /\ \A i \in k..(cut - 1) : x[i] = Message("context")
      <3> HIDE DEF cut, first
      <3> QED BY <1>10, <2>1
    <2>3. k \in 1..Len(x)
      <3> HIDE DEF cut, first
      <3> QED BY <1>1, <1>3, <1>8, <2>2
    <2> HIDE DEF K, cut
    <2> QED BY <2>1, <2>2, <2>3
  <1> HIDE DEF K
  <1> QED BY <1>4, <1>7, <1>8, <1>11

\* A rollback cuts the history off.
LEMMA DropIsPrefix ==
    ASSUME NEW x \in Seq(Entry), NEW n \in Nat
    PROVE  \E k \in 0..Len(x) : DropLastNUserTurns(x, n) = SubSeq(x, 1, k)
  <1>1. CASE n = 0 \/ UserTurns(x) = {}
    BY <1>1, AllItems DEF DropLastNUserTurns
  <1>2. CASE ~(n = 0 \/ UserTurns(x) = {})
    <2>1. PICK c : c = RollbackCut(x, n)
      OBVIOUS
    <2>2. c \in 1..Len(x)
      BY <1>2, <2>1, CutIs
    <2>3. DropLastNUserTurns(x, n) = SubSeq(x, 1, c - 1)
      BY <1>2, <2>1 DEF DropLastNUserTurns
    <2>4. c - 1 \in 0..Len(x)
      BY <2>2
    <2> QED BY <2>3, <2>4
  <1> QED BY <1>1, <1>2

\* A rollback of turns behind a compaction leaves what the compaction left.
LEMMA DropKeepsSummary ==
    ASSUME NEW x \in Seq(Entry), NEW m \in 1..Len(x), x[m] = Message("summary"),
           NEW n \in Nat \ {0}, n <= Cardinality(UserTurns(SubSeq(x, m + 1, Len(x))))
    PROVE  \E k \in m..Len(x) : DropLastNUserTurns(x, n) = SubSeq(x, 1, k)
  <1> DEFINE y == SubSeq(x, m + 1, Len(x))
             u == UserTurns(y)
             turns == UserTurns(x)
             v == {j \in turns : j > m}
             f == [i \in u |-> m + i]
  <1>0. Len(x) \in Nat /\ m \in Nat
    OBVIOUS
  <1>1. y \in Seq(Entry) /\ Len(y) = Len(x) - m /\ \A i \in 1..(Len(x) - m) : y[i] = x[m + i]
    <2>1. m + 1 \in 1..(Len(x) + 1)
      BY <1>0
    <2>2. y \in Seq(Entry) /\ Len(y) = (IF m + 1 <= Len(x) THEN Len(x) - (m + 1) + 1 ELSE 0)
      BY <1>0, <2>1
    <2>3. Len(y) = Len(x) - m
      BY <1>0, <2>2
    <2>4. ASSUME NEW i \in 1..(Len(x) - m) PROVE y[i] = x[m + i]
      <3>1. y[i] = x[(m + 1) + i - 1] /\ (m + 1) + i - 1 = m + i
        BY <1>0, <2>3
      <3> QED BY <3>1
    <2> QED BY <2>2, <2>3, <2>4
  <1> HIDE DEF y
  <1>2. /\ turns \subseteq 1..Len(x) /\ turns \subseteq Nat /\ IsFiniteSet(turns) /\ Cardinality(turns) \in Nat
    BY UserTurnsAre
  <1>3. /\ u \subseteq 1..Len(y) /\ IsFiniteSet(u) /\ Cardinality(u) \in Nat
    BY <1>1, UserTurnsAre
  <1>4. \A i \in u : m + i \in v
    BY <1>0, <1>1 DEF UserTurns
  <1>5. ASSUME NEW j \in v PROVE j - m \in u /\ m + (j - m) = j
    <2>1. j \in 1..Len(x) /\ j > m
      BY <1>2
    <2>2. j - m \in 1..(Len(x) - m) /\ m + (j - m) = j
      BY <1>0, <2>1
    <2> QED BY <1>1, <2>2 DEF UserTurns
  <1>6. f \in Bijection(u, v)
    <2>1. f \in [u -> v]
      BY <1>4
    <2>2. \A a, b \in u : f[a] = f[b] => a = b
      BY <1>0, <1>1, <1>3
    <2>3. \A j \in v : \E a \in u : f[a] = j
      BY <1>5
    <2> HIDE DEF f, u, v
    <2> QED BY <2>1, <2>2, <2>3 DEF Bijection, Injection, Surjection, IsInjective
  <1>7. IsFiniteSet(v) /\ Cardinality(v) = Cardinality(u)
    <2>1. ExistsBijection(u, v)
      <3> HIDE DEF f, u, v
      <3> QED BY <1>6 DEF ExistsBijection
    <2> HIDE DEF u, v
    <2> QED BY <1>3, <2>1, FS_Bijection
  <1>8. m \in turns /\ m \notin v /\ v \subseteq turns
    BY <1>0 DEF UserTurns
  <1>9. Cardinality(v) < Cardinality(turns)
    <2>1. Cardinality(v) <= Cardinality(turns) /\ (Cardinality(turns) = Cardinality(v) => turns = v)
      <3> HIDE DEF v, turns
      <3> QED BY <1>2, <1>8, FS_Subset
    <2> HIDE DEF v, turns
    <2> QED BY <1>2, <1>3, <1>7, <1>8, <2>1
  <1>10. n <= Cardinality(v) /\ Cardinality(v) \in Nat
    BY <1>3, <1>7 DEF y
  <1>11. v # {}
    <2>1. v = {} => Cardinality(v) = 0
      BY FS_EmptySet
    <2> HIDE DEF v
    <2> QED BY <1>10, <2>1
  <1>12. PICK i \in v : \A j \in v : i <= j
    <2>1. v \subseteq Nat
      BY <1>2
    <2> HIDE DEF v
    <2> QED BY <1>11, <2>1, LeastOf
  <1>13. Younger(x, i) = v
    <2>1. i \in turns /\ i > m /\ i \in Nat
      BY <1>2
    <2>2. \A j \in turns : j >= i <=> j > m
      BY <1>0, <1>2, <1>12, <2>1
    <2> QED BY <2>2 DEF Younger
  <1>14. n < Cardinality(turns) /\ UserTurns(x) # {}
    <2> HIDE DEF v, turns
    <2> QED BY <1>2, <1>8, <1>9, <1>10 DEF turns
  <1>15. PICK cut, c : cut = CutAt(x, n) /\ c = RollbackCut(x, n)
    OBVIOUS
  <1>16. /\ cut \in 1..Len(x) /\ c \in 1..Len(x)
         /\ \A k \in c..(cut - 1) : x[k] = Message("context")
    BY <1>14, <1>15, CutIs
  <1>17. cut >= i
    <2>1. \A k \in UserTurns(x) : Cardinality(Younger(x, k)) >= n => cut >= k
      BY <1>14, <1>15, CutIs
    <2>2. i \in UserTurns(x)
      OBVIOUS
    <2>3. Cardinality(Younger(x, i)) >= n
      <3> HIDE DEF v
      <3> QED BY <1>10, <1>13
    <2> QED BY <2>1, <2>2, <2>3
  <1>18. i > m /\ i \in Nat
    BY <1>2
  <1>19. c > m
    <2> SUFFICES ASSUME ~(c > m) PROVE FALSE
      OBVIOUS
    <2>1. m \in c..(cut - 1)
      BY <1>0, <1>16, <1>17, <1>18
    <2>2. x[m] = Message("context")
      BY <1>16, <2>1
    <2> QED BY <2>2 DEF Message
  <1>20. DropLastNUserTurns(x, n) = SubSeq(x, 1, c - 1)
    BY <1>14, <1>15 DEF DropLastNUserTurns
  <1>21. c - 1 \in m..Len(x)
    BY <1>0, <1>16, <1>19
  <1> QED BY <1>20, <1>21

\* A compaction leaves messages, the last one a summary.
LEMMA CompactedIs ==
    ASSUME NEW x \in Seq(Entry)
    PROVE  LET c == CompactedHistory(x)
           IN  /\ c \in Seq(Entry) /\ Len(c) \in Nat \ {0} /\ c[Len(c)] = Message("summary")
               /\ \A i \in 1..Len(c) : c[i].type = "message"
               /\ Answers(c) /\ Clean(c) /\ Calls(c) = {}
  <1> DEFINE o == Only(x, {i \in 1..Len(x) : x[i] = Message("user")})
             c == Append(o, Message("summary"))
  <1>1. CompactedHistory(x) = c
    BY DEF CompactedHistory
  <1>2. Message("summary") \in Entry /\ Message("summary").type = "message" /\ Message("user").type = "message"
    BY EntryMakes DEF Roles
  <1>3. o \in Seq(Entry) /\ \A i \in 1..Len(o) : \E j \in 1..Len(x) : x[j] = Message("user") /\ o[i] = x[j]
    <2>1. PICK P : P = {i \in 1..Len(x) : x[i] = Message("user")}
      OBVIOUS
    <2>2. /\ Only(x, P) \in Seq(Entry)
          /\ \A i \in 1..Len(Only(x, P)) : \E j \in 1..Len(x) : j \in P /\ Only(x, P)[i] = x[j]
      BY OnlyHolds
    <2> QED BY <2>1, <2>2
  <1> HIDE DEF o
  <1>4. /\ c \in Seq(Entry) /\ Len(c) = Len(o) + 1 /\ c[Len(o) + 1] = Message("summary") /\ Longer(o, c)
        /\ \A i \in 1..(Len(o) + 1) : i \in 1..Len(o) \/ i = Len(o) + 1
    BY <1>2, <1>3, LongerAppend
  <1> HIDE DEF c
  <1>5. Len(o) \in Nat
    BY <1>3
  <1>6. \A i \in 1..Len(c) : c[i].type = "message"
    BY <1>2, <1>3, <1>4, <1>5 DEF Longer
  <1>7. Answers(c) /\ Clean(c)
    BY <1>6 DEF Answers, Clean, Distinct, Follows
  <1>8. Calls(c) = {}
    BY <1>6, IdsAt DEF Calls
  <1> QED BY <1>1, <1>4, <1>5, <1>6, <1>7, <1>8

-----------------------------------------------------------------------------
(* Every history the thread can have, whatever ids its calls carry.        *)

TypeInv ==
    /\ items \in Seq(Entry) /\ inflight \in Seq(Entry) /\ copy \in Seq(Entry)
    /\ made \in Nat /\ kept \in Nat

\* A running call is in the history, and not answered there.
Running(x, it) ==
    /\ it.type = "call"
    /\ \E p \in 1..Len(x) :
         /\ x[p] = it
         /\ \A r \in (p + 1)..Len(x) : x[r].type = "output" => x[r].call_id # it.call_id

FlightInv ==
    /\ compacting => inflight = <<>>
    /\ \A k \in 1..Len(inflight) : Running(items, inflight[k])
    /\ Distinct(inflight, "call")

\* What the last compaction left begins the history and ends in a summary.
KeptInv ==
    /\ kept <= Len(items)
    /\ \A i \in 1..kept : items[i].type # "call"
    /\ kept # 0 => items[kept] = Message("summary")

HistoryInv == TypeInv /\ Answers(items) /\ Answers(copy) /\ FlightInv /\ KeptInv

LEMMA KeptLonger ==
    ASSUME TypeInv, KeptInv, items' \in Seq(Entry), Longer(items, items'), kept' = kept
    PROVE  KeptInv'
  <1>1. kept \in Nat /\ Len(items) \in Nat /\ Len(items') \in Nat /\ kept <= Len(items) /\ kept <= Len(items')
    BY DEF TypeInv, KeptInv, Longer
  <1>2. \A i \in 1..kept : i \in 1..Len(items) /\ items'[i] = items[i]
    BY <1>1 DEF Longer
  <1>3. kept # 0 => kept \in 1..kept
    BY <1>1
  <1> QED BY <1>1, <1>2, <1>3 DEF KeptInv

\* What an answer of the model adds to the history.
ResponseOf(n, says, named, calls, text) ==
    /\ n \in Nat /\ says \in BOOLEAN /\ named \in NamesCalls
    /\ calls = [k \in 1..n |-> Call(IF named THEN [from |-> "upstream", n |-> made + k]
                                    ELSE [from |-> "call", n |-> k], made + k)]
    /\ text = IF says THEN <<Message("assistant")>> ELSE <<>>

LEMMA RespondIs ==
    ASSUME Respond, TypeInv
    PROVE  \E n, says, named, calls, text :
             /\ ResponseOf(n, says, named, calls, text)
             /\ items' = items \o calls \o text /\ inflight' = calls /\ made' = made + n
  <1>1. PICK n \in 0..MaxParallel, says \in BOOLEAN, named \in NamesCalls :
          LET id(k) == IF named THEN [from |-> "upstream", n |-> made + k]
                       ELSE [from |-> "call", n |-> k]
              calls == [k \in 1..n |-> Call(id(k), made + k)]
              text == IF says THEN <<Message("assistant")>> ELSE <<>>
          IN  items' = items \o calls \o text /\ inflight' = calls /\ made' = made + n
    BY DEF Respond
  <1>2. n \in Nat
    BY ConversationAssumption
  <1>3. PICK calls, text :
          /\ calls = [k \in 1..n |-> Call(IF named THEN [from |-> "upstream", n |-> made + k]
                                          ELSE [from |-> "call", n |-> k], made + k)]
          /\ text = IF says THEN <<Message("assistant")>> ELSE <<>>
    OBVIOUS
  <1>4. items' = items \o calls \o text /\ inflight' = calls /\ made' = made + n
    BY <1>1, <1>3
  <1>5. ResponseOf(n, says, named, calls, text)
    BY <1>2, <1>3 DEF ResponseOf
  <1> QED BY <1>4, <1>5

\* y is the history x with the calls and perhaps a message at its end.
Responded(x, y, n, named, calls) ==
    /\ n \in Nat /\ calls \in Seq(Entry) /\ Len(calls) = n
    /\ \A k \in 1..n : /\ calls[k].type = "call"
                       /\ calls[k].call_id = IF named THEN [from |-> "upstream", n |-> made + k]
                                             ELSE [from |-> "call", n |-> k]
    /\ y \in Seq(Entry) /\ Longer(x, y)
    /\ \A k \in 1..n : Len(x) + k \in 1..Len(y) /\ y[Len(x) + k] = calls[k]
    /\ \A i \in 1..Len(y) : \/ i \in 1..Len(x)
                            \/ \E k \in 1..n : i = Len(x) + k
                            \/ y[i].type = "message"

LEMMA ResponseIs ==
    ASSUME TypeInv, NEW n, NEW says, NEW named, NEW calls, NEW text,
           ResponseOf(n, says, named, calls, text)
    PROVE  Responded(items, items \o calls \o text, n, named, calls)
  <1> DEFINE id(k) == IF named THEN [from |-> "upstream", n |-> made + k] ELSE [from |-> "call", n |-> k]
             z == items \o calls
             y == z \o text
  <1>0. n \in Nat /\ made \in Nat /\ items \in Seq(Entry)
    BY DEF ResponseOf, TypeInv
  <1>1. ASSUME NEW k \in 1..n
        PROVE  /\ id(k) \in Ids /\ made + k \in Nat
               /\ Call(id(k), made + k) \in Entry /\ Call(id(k), made + k).type = "call"
               /\ Call(id(k), made + k).call_id = id(k)
    <2>1. made + k \in Nat /\ k \in Nat
      BY <1>0
    <2>2. id(k) \in Ids
      BY <2>1 DEF Ids
    <2> HIDE DEF id
    <2> QED BY <2>1, <2>2, EntryMakes
  <1>2. calls = [k \in 1..n |-> Call(id(k), made + k)]
    BY DEF ResponseOf
  <1> HIDE DEF id
  <1>3. calls \in Seq(Entry) /\ Len(calls) = n /\ \A k \in 1..n : calls[k] = Call(id(k), made + k)
    BY <1>0, <1>1, <1>2
  <1>4. text \in Seq(Entry) /\ \A i \in 1..Len(text) : text[i].type = "message"
    <2>1. PICK m : m = Message("assistant")
      OBVIOUS
    <2>2. m \in Entry /\ m.type = "message"
      BY <2>1, EntryMakes DEF Roles
    <2>3. text = <<m>> \/ text = <<>>
      BY <2>1 DEF ResponseOf
    <2>4. CASE text = <<m>>
      <3>1. text \in Seq(Entry) /\ Len(text) = 1 /\ text[1] = m
        BY <2>2, <2>4
      <3> QED BY <2>2, <3>1
    <2>5. CASE text = <<>>
      BY <2>5
    <2> QED BY <2>3, <2>4, <2>5
  <1>5. /\ z \in Seq(Entry) /\ Len(z) = Len(items) + n /\ Len(items) \in Nat
        /\ \A i \in 1..Len(items) : z[i] = items[i]
        /\ \A k \in 1..n : z[Len(items) + k] = calls[k]
        /\ \A i \in 1..(Len(items) + n) : i \in 1..Len(items) \/ \E k \in 1..n : i = Len(items) + k
    <2>1. PICK x : x = items
      OBVIOUS
    <2>2. x \in Seq(Entry) /\ calls \in Seq(Entry)
      BY <1>0, <1>3, <2>1
    <2>3. /\ x \o calls \in Seq(Entry) /\ Len(x \o calls) = Len(x) + Len(calls) /\ Len(x) \in Nat
          /\ \A i \in 1..Len(x) : (x \o calls)[i] = x[i]
      BY <2>2, ConcatPlaces
    <2>4. /\ \A k \in 1..Len(calls) : (x \o calls)[Len(x) + k] = calls[k]
          /\ \A i \in 1..(Len(x) + Len(calls)) :
               i \in 1..Len(x) \/ \E k \in 1..Len(calls) : i = Len(x) + k
      BY <2>2, ConcatPlaces
    <2> QED BY <1>3, <2>1, <2>3, <2>4
  <1> HIDE DEF z
  <1>6. /\ y \in Seq(Entry) /\ Len(y) = Len(z) + Len(text) /\ Len(text) \in Nat
        /\ \A i \in 1..Len(z) : y[i] = z[i]
        /\ \A i \in 1..Len(text) : y[Len(z) + i] = text[i]
        /\ \A i \in 1..(Len(z) + Len(text)) : i \in 1..Len(z) \/ \E j \in 1..Len(text) : i = Len(z) + j
    <2>1. z \in Seq(Entry) /\ text \in Seq(Entry)
      BY <1>4, <1>5
    <2>2. /\ z \o text \in Seq(Entry) /\ Len(z \o text) = Len(z) + Len(text) /\ Len(text) \in Nat
          /\ \A i \in 1..Len(z) : (z \o text)[i] = z[i]
      BY <2>1, ConcatPlaces
    <2>3. /\ \A i \in 1..Len(text) : (z \o text)[Len(z) + i] = text[i]
          /\ \A i \in 1..(Len(z) + Len(text)) : i \in 1..Len(z) \/ \E j \in 1..Len(text) : i = Len(z) + j
      BY <2>1, ConcatPlaces
    <2> QED BY <2>2, <2>3
  <1> HIDE DEF y
  <1>7. Longer(items, y)
    <2>1. Len(items) <= Len(y)
      BY <1>0, <1>5, <1>6
    <2>2. \A i \in 1..Len(items) : i \in 1..Len(z)
      BY <1>0, <1>5
    <2> QED BY <1>5, <1>6, <2>1, <2>2 DEF Longer
  <1>8. ASSUME NEW k \in 1..n PROVE Len(items) + k \in 1..Len(y) /\ y[Len(items) + k] = calls[k]
    <2>1. Len(items) + k \in 1..Len(z) /\ Len(items) + k \in 1..Len(y)
      BY <1>0, <1>5, <1>6
    <2> QED BY <1>5, <1>6, <2>1
  <1>9. ASSUME NEW i \in 1..Len(y)
        PROVE  i \in 1..Len(items) \/ (\E k \in 1..n : i = Len(items) + k) \/ y[i].type = "message"
    <2>1. CASE i \in 1..Len(z)
      BY <1>5, <2>1
    <2>2. CASE \E j \in 1..Len(text) : i = Len(z) + j
      BY <1>4, <1>6, <2>2
    <2> QED BY <1>6, <2>1, <2>2
  <1>10. \A k \in 1..n : calls[k].type = "call" /\ calls[k].call_id = id(k)
    BY <1>1, <1>3
  <1>11. y = items \o calls \o text
    BY DEF y, z
  <1>12. Responded(items, y, n, named, calls)
    BY <1>0, <1>3, <1>6, <1>7, <1>8, <1>9, <1>10 DEF Responded, id
  <1> QED BY <1>11, <1>12

LEMMA NoneRunning ==
    ASSUME inflight' = <<>>
    PROVE  FlightInv'
  <1>1. PICK f : f = inflight'
    OBVIOUS
  <1>2. f = <<>> /\ Len(f) = 0 /\ 1..0 = {}
    BY <1>1
  <1> QED BY <1>1, <1>2 DEF FlightInv, Distinct

\* A message at the end.
LEMMA MessageAdded ==
    ASSUME NEW x \in Seq(Entry), Answers(x), NEW it \in Entry, it.type \notin {"call", "output"}
    PROVE  Append(x, it) \in Seq(Entry) /\ Longer(x, Append(x, it)) /\ Answers(Append(x, it))
  <1>1. /\ Append(x, it) \in Seq(Entry) /\ Longer(x, Append(x, it))
        /\ Len(Append(x, it)) = Len(x) + 1 /\ Append(x, it)[Len(x) + 1] = it
        /\ \A i \in 1..(Len(x) + 1) : i \in 1..Len(x) \/ i = Len(x) + 1
    BY LongerAppend
  <1>2. PICK y : y = Append(x, it)
    OBVIOUS
  <1>3. \A q \in 1..Len(y) : y[q].type = "output" => q \in 1..Len(x)
    BY <1>1, <1>2
  <1>4. Answers(y)
    BY <1>1, <1>2, <1>3, LongerAnswers
  <1> QED BY <1>1, <1>2, <1>4

LEMMA SameLonger ==
    ASSUME NEW x \in Seq(Entry)
    PROVE  Longer(x, x)
  BY DEF Longer

\* What the messages that the thread adds by itself are.
LEMMA OwnMessages ==
    \A r \in {"user", "context", "assistant"} :
      Message(r) \in Entry /\ Message(r).type \notin {"call", "output"}
  BY EntryMakes DEF Roles

LEMMA HistoryInit == Init => HistoryInv
  <1> SUFFICES ASSUME Init PROVE HistoryInv
    OBVIOUS
  <1>1. PICK e : e = <<>>
    OBVIOUS
  <1>2. e \in Seq(Entry) /\ Len(e) = 0 /\ 1..0 = {}
    BY <1>1
  <1>3. items = e /\ inflight = e /\ copy = e /\ made = 0 /\ kept = 0 /\ ~compacting
    BY <1>1 DEF Init
  <1> QED BY <1>2, <1>3 DEF HistoryInv, TypeInv, Answers, FlightInv, KeptInv, Distinct

LEMMA HistoryMessage == HistoryInv /\ UserMessage => HistoryInv'
  <1> SUFFICES ASSUME HistoryInv, UserMessage PROVE HistoryInv'
    OBVIOUS
  <1>1. PICK it \in {Message("user"), Unsupported} : items' = Append(items, it)
    BY DEF UserMessage
  <1>2. it \in Entry /\ it.type \notin {"call", "output"}
    BY EntryMakes, OwnMessages
  <1>3. items \in Seq(Entry) /\ Answers(items)
    BY DEF HistoryInv, TypeInv
  <1>4. items' \in Seq(Entry) /\ Longer(items, items') /\ Answers(items')
    BY <1>1, <1>2, <1>3, MessageAdded
  <1>5. inflight' = <<>> /\ inflight' = inflight /\ kept' = kept /\ copy' = copy /\ made' = made
    BY DEF UserMessage, Idle
  <1>6. FlightInv' /\ KeptInv'
    BY <1>4, <1>5, NoneRunning, KeptLonger DEF HistoryInv
  <1> QED BY <1>4, <1>5, <1>6 DEF HistoryInv, TypeInv

LEMMA RespondedDistinct ==
    ASSUME made \in Nat, NEW x, NEW y, NEW n, NEW named, NEW calls, Responded(x, y, n, named, calls)
    PROVE  Distinct(calls, "call")
  <1> SUFFICES ASSUME NEW i \in 1..n, NEW j \in 1..n, calls[i].call_id = calls[j].call_id PROVE i = j
    BY DEF Distinct, Responded
  <1>0. n \in Nat
    BY DEF Responded
  <1>1. CASE named
    <2>1. /\ calls[i].call_id = [from |-> "upstream", n |-> made + i]
          /\ calls[j].call_id = [from |-> "upstream", n |-> made + j]
      BY <1>1 DEF Responded
    <2>2. PICK a, b : a = made + i /\ b = made + j
      OBVIOUS
    <2>3. [from |-> "upstream", n |-> a] = [from |-> "upstream", n |-> b]
      BY <2>1, <2>2
    <2>4. [from |-> "upstream", n |-> a].n = a /\ [from |-> "upstream", n |-> b].n = b
      OBVIOUS
    <2>5. made + i = made + j
      BY <2>2, <2>3, <2>4
    <2> QED BY <1>0, <2>5
  <1>2. CASE ~named
    <2>1. /\ calls[i].call_id = [from |-> "call", n |-> i]
          /\ calls[j].call_id = [from |-> "call", n |-> j]
      BY <1>2 DEF Responded
    <2>2. [from |-> "call", n |-> i] = [from |-> "call", n |-> j]
      BY <2>1
    <2>3. [from |-> "call", n |-> i].n = i /\ [from |-> "call", n |-> j].n = j
      OBVIOUS
    <2> QED BY <2>2, <2>3
  <1> QED BY <1>1, <1>2

LEMMA HistoryRespond == HistoryInv /\ Respond => HistoryInv'
  <1> SUFFICES ASSUME HistoryInv, Respond PROVE HistoryInv'
    OBVIOUS
  <1>0. TypeInv /\ KeptInv /\ Answers(items) /\ Answers(copy) /\ items \in Seq(Entry) /\ made \in Nat
    BY DEF HistoryInv, TypeInv
  <1>1. PICK n, says, named, calls, text :
          /\ ResponseOf(n, says, named, calls, text)
          /\ items' = items \o calls \o text /\ inflight' = calls /\ made' = made + n
    BY <1>0, RespondIs
  <1>3. PICK x, y : x = items /\ y = items'
    OBVIOUS
  <1>20. Responded(x, y, n, named, calls)
    BY <1>0, <1>1, <1>3, ResponseIs
  <1>2. /\ n \in Nat /\ calls \in Seq(Entry) /\ Len(calls) = n /\ x \in Seq(Entry)
        /\ y \in Seq(Entry) /\ Longer(x, y)
    BY <1>0, <1>3, <1>20 DEF Responded
  <1>21. \A k \in 1..n : calls[k].type = "call"
    BY <1>20 DEF Responded
  <1>4. ASSUME NEW q \in 1..Len(y), y[q].type = "output" PROVE q \in 1..Len(x)
    <2> SUFFICES ASSUME NEW k \in 1..n, q = Len(x) + k PROVE FALSE
      BY <1>4, <1>20 DEF Responded
    <2>1. y[q] = calls[k]
      BY <1>20 DEF Responded
    <2> QED BY <1>4, <1>21, <2>1
  <1>5. Answers(y)
    <2>1. \A q \in 1..Len(y) : y[q].type = "output" =>
            q \in 1..Len(x) \/ \E p \in 1..(q - 1) : Answered(y, p, q)
      BY <1>4
    <2> QED BY <1>0, <1>2, <1>3, <2>1, LongerAnswers
  <1>6. kept' = kept /\ copy' = copy /\ compacting' = compacting /\ ~compacting
    BY DEF Respond, Idle
  <1>7. KeptInv'
    BY <1>0, <1>2, <1>3, <1>6, KeptLonger
  <1>8. ASSUME NEW k \in 1..n PROVE Running(y, calls[k])
    <2>1. Len(x) + k \in 1..Len(y) /\ y[Len(x) + k] = calls[k] /\ Len(x) \in Nat /\ Len(y) \in Nat
      BY <1>2, <1>20 DEF Responded
    <2>2. ASSUME NEW r \in ((Len(x) + k) + 1)..Len(y), y[r].type = "output" PROVE FALSE
      <3>1. r \in 1..Len(y) /\ r \notin 1..Len(x)
        BY <1>2, <2>1
      <3> QED BY <1>4, <2>2, <3>1
    <2> QED BY <1>21, <2>1, <2>2 DEF Running
  <1>9. Distinct(calls, "call")
    BY <1>0, <1>20, RespondedDistinct
  <1>10. FlightInv'
    BY <1>1, <1>2, <1>3, <1>6, <1>8, <1>9 DEF FlightInv
  <1>11. TypeInv'
    BY <1>0, <1>1, <1>2, <1>3, <1>6 DEF TypeInv
  <1> QED BY <1>0, <1>3, <1>5, <1>6, <1>7, <1>10, <1>11 DEF HistoryInv

\* The item a tool's end adds.
LEMMA ToolOutputIs ==
    ASSUME HistoryInv, ToolOutput
    PROVE  \E c, o :
             /\ c = inflight[1] /\ c \in Entry /\ Running(items, c)
             /\ o = Output(c.call_id, c.of) /\ o \in Entry /\ o.type = "output"
             /\ o.call_id = c.call_id /\ o.of = c.of /\ c.call_id \in Ids
             /\ items' = Append(items, o)
             /\ inflight' \in Seq(Entry) /\ Len(inflight) \in Nat /\ Len(inflight') = Len(inflight) - 1
             /\ \A k \in 1..Len(inflight') : k + 1 \in 1..Len(inflight) /\ inflight'[k] = inflight[k + 1]
             /\ \A k \in 1..Len(inflight') : inflight'[k].call_id # c.call_id
  <1>1. inflight \in Seq(Entry) /\ inflight # <<>>
    BY DEF HistoryInv, TypeInv, ToolOutput
  <1>2. PICK f : f = inflight
    OBVIOUS
  <1>3. PICK c : c = f[1]
    OBVIOUS
  <1>4. c \in Entry /\ c = Head(f) /\ 1 \in 1..Len(f) /\ Len(f) \in Nat
    BY <1>1, <1>2, <1>3
  <1>5. /\ Tail(f) \in Seq(Entry) /\ Len(Tail(f)) = Len(f) - 1
        /\ \A k \in 1..(Len(f) - 1) : Tail(f)[k] = f[k + 1] /\ k + 1 \in 1..Len(f)
    BY <1>1, <1>2
  <1>6. Running(items, c) /\ Distinct(f, "call") /\ \A k \in 1..Len(f) : f[k].type = "call"
    BY <1>2, <1>3, <1>4 DEF HistoryInv, FlightInv, Running
  <1>7. c.type = "call" /\ c.call_id \in Ids /\ c.of \in Nat
    BY <1>4, <1>6, EntryIs DEF Running
  <1>8. PICK o : o = Output(c.call_id, c.of)
    OBVIOUS
  <1>9. o \in Entry /\ o.type = "output" /\ o.call_id = c.call_id /\ o.of = c.of
    BY <1>7, <1>8, EntryMakes
  <1>10. items' = Append(items, o) /\ inflight' = Tail(f)
    BY <1>2, <1>4, <1>8 DEF ToolOutput
  <1>11. ASSUME NEW k \in 1..(Len(f) - 1) PROVE Tail(f)[k].call_id # c.call_id
    <2>1. k + 1 \in 1..Len(f) /\ k + 1 # 1 /\ Tail(f)[k] = f[k + 1]
      BY <1>4, <1>5
    <2> QED BY <1>3, <1>4, <1>6, <2>1 DEF Distinct
  <1>12. Len(inflight') = Len(f) - 1 /\ inflight' \in Seq(Entry)
    BY <1>5, <1>10
  <1>13. \A k \in 1..Len(inflight') : k + 1 \in 1..Len(f) /\ inflight'[k] = f[k + 1]
    BY <1>5, <1>10
  <1>14. \A k \in 1..Len(inflight') : inflight'[k].call_id # c.call_id
    BY <1>5, <1>10, <1>11
  <1>15. /\ c = inflight[1] /\ Len(inflight) \in Nat /\ Len(inflight') = Len(inflight) - 1
         /\ \A k \in 1..Len(inflight') : k + 1 \in 1..Len(inflight) /\ inflight'[k] = inflight[k + 1]
    BY <1>2, <1>3, <1>4, <1>12, <1>13
  <1> QED BY <1>4, <1>6, <1>7, <1>8, <1>9, <1>10, <1>12, <1>14, <1>15

LEMMA HistoryOutput == HistoryInv /\ ToolOutput => HistoryInv'
  <1> SUFFICES ASSUME HistoryInv, ToolOutput PROVE HistoryInv'
    OBVIOUS
  <1>0. TypeInv /\ KeptInv /\ FlightInv /\ Answers(items) /\ items \in Seq(Entry)
    BY DEF HistoryInv, TypeInv
  <1>1. PICK c, o :
             /\ c = inflight[1] /\ c \in Entry /\ Running(items, c)
             /\ o = Output(c.call_id, c.of) /\ o \in Entry /\ o.type = "output"
             /\ o.call_id = c.call_id /\ o.of = c.of /\ c.call_id \in Ids
             /\ items' = Append(items, o)
             /\ inflight' \in Seq(Entry) /\ Len(inflight) \in Nat /\ Len(inflight') = Len(inflight) - 1
             /\ \A k \in 1..Len(inflight') : k + 1 \in 1..Len(inflight) /\ inflight'[k] = inflight[k + 1]
             /\ \A k \in 1..Len(inflight') : inflight'[k].call_id # c.call_id
    BY ToolOutputIs
  <1>2. PICK y, n : y = items' /\ n = Len(items)
    OBVIOUS
  <1>3. /\ y \in Seq(Entry) /\ Longer(items, y) /\ Len(y) = n + 1 /\ y[n + 1] = o /\ n \in Nat
        /\ \A i \in 1..(n + 1) : i \in 1..n \/ i = n + 1
        /\ \A i \in 1..n : y[i] = items[i]
    BY <1>0, <1>1, <1>2, LongerAppend DEF Longer
  <1>4. PICK p \in 1..n : /\ items[p] = c
                          /\ \A r \in (p + 1)..n : items[r].type = "output" => items[r].call_id # c.call_id
    BY <1>1, <1>2 DEF Running
  <1>5. Answered(y, p, n + 1)
    <2>1. y[p] = c /\ c.type = "call"
      BY <1>1, <1>3, <1>4 DEF Running
    <2>2. ASSUME NEW r \in (p + 1)..((n + 1) - 1) PROVE y[r].type = "output" => y[r].call_id # c.call_id
      <3>1. r \in (p + 1)..n /\ r \in 1..n
        BY <1>3
      <3> QED BY <1>3, <1>4, <3>1
    <2> QED BY <1>1, <1>3, <2>1, <2>2 DEF Answered
  <1>6. ASSUME NEW q \in 1..Len(y), y[q].type = "output"
        PROVE  q \in 1..Len(items) \/ \E i \in 1..(q - 1) : Answered(y, i, q)
    <2>1. (n + 1) - 1 = n
      BY <1>3
    <2> QED BY <1>2, <1>3, <1>5, <2>1
  <1>7. Answers(y)
    BY <1>0, <1>3, <1>6, LongerAnswers
  <1>8. kept' = kept /\ copy' = copy /\ compacting' = compacting /\ made' = made
    BY DEF ToolOutput
  <1>9. KeptInv'
    BY <1>0, <1>2, <1>3, <1>8, KeptLonger
  <1>10. ASSUME NEW k \in 1..Len(inflight') PROVE Running(items, inflight[k])'
    <2>1. PICK it : it = inflight'[k]
      OBVIOUS
    <2>2. it = inflight[k + 1] /\ k + 1 \in 1..Len(inflight) /\ it.call_id # c.call_id
      BY <1>1, <2>1
    <2>3. Running(items, it)
      BY <1>0, <2>2 DEF FlightInv
    <2>4. PICK i \in 1..n : /\ items[i] = it
                            /\ \A r \in (i + 1)..n : items[r].type = "output" => items[r].call_id # it.call_id
      BY <1>2, <2>3 DEF Running
    <2>5. ASSUME NEW r \in (i + 1)..(n + 1) PROVE y[r].type = "output" => y[r].call_id # it.call_id
      <3>1. CASE r = n + 1
        BY <1>1, <1>3, <2>2, <3>1
      <3>2. CASE r # n + 1
        <4>1. r \in (i + 1)..n /\ r \in 1..n
          BY <1>3, <3>2
        <4> QED BY <1>3, <2>4, <4>1
      <3> QED BY <3>1, <3>2
    <2>6. i \in 1..Len(y) /\ y[i] = it
      BY <1>3, <2>4
    <2>7. Running(y, it)
      BY <1>3, <2>3, <2>5, <2>6 DEF Running
    <2> QED BY <1>2, <2>1, <2>7
  <1>11. Distinct(inflight', "call")
    <2>1. Distinct(inflight, "call")
      BY <1>0 DEF FlightInv
    <2> SUFFICES ASSUME NEW i \in 1..Len(inflight'), NEW j \in 1..Len(inflight'),
                        inflight'[i].type = "call", inflight'[j].type = "call",
                        inflight'[i].call_id = inflight'[j].call_id
                 PROVE  i = j
      BY DEF Distinct
    <2>2. /\ i + 1 \in 1..Len(inflight) /\ j + 1 \in 1..Len(inflight)
          /\ inflight'[i] = inflight[i + 1] /\ inflight'[j] = inflight[j + 1]
      BY <1>1
    <2>3. i + 1 = j + 1
      BY <2>1, <2>2 DEF Distinct
    <2> QED BY <1>1, <2>3
  <1>12. ~compacting
    <2>1. inflight # <<>>
      BY DEF ToolOutput
    <2> QED BY <1>0, <2>1 DEF FlightInv
  <1>13. FlightInv'
    BY <1>8, <1>10, <1>11, <1>12 DEF FlightInv
  <1>14. TypeInv'
    BY <1>0, <1>1, <1>2, <1>3, <1>8 DEF TypeInv
  <1> QED BY <1>2, <1>7, <1>8, <1>9, <1>13, <1>14 DEF HistoryInv

LEMMA HistoryInterrupt == HistoryInv /\ Interrupt => HistoryInv'
  <1> SUFFICES ASSUME HistoryInv, Interrupt PROVE HistoryInv'
    OBVIOUS
  <1>1. items \in Seq(Entry) /\ Answers(items) /\ TypeInv /\ KeptInv /\ Answers(copy)
    BY DEF HistoryInv, TypeInv
  <1>2. /\ items' \in {items, Append(items, Message("context"))}
        /\ inflight' = <<>> /\ kept' = kept /\ copy' = copy /\ made' = made
    BY DEF Interrupt
  <1>3. items' \in Seq(Entry) /\ Longer(items, items') /\ Answers(items')
    BY <1>1, <1>2, MessageAdded, OwnMessages, SameLonger
  <1>4. FlightInv' /\ KeptInv'
    BY <1>1, <1>2, <1>3, NoneRunning, KeptLonger
  <1>5. inflight' \in Seq(Entry)
    BY <1>2
  <1> QED BY <1>1, <1>2, <1>3, <1>4, <1>5 DEF HistoryInv, TypeInv

\* What a rollback leaves is the history or the items behind the compaction,
\* cut off, and what the compaction left stays while kept says so.
LEMMA RollbackIs ==
    ASSUME HistoryInv, Rollback
    PROVE  /\ items' \in Seq(Entry) /\ kept' \in Nat
           /\ \E y \in Seq(Entry) : \E h, g : Keeps(items, y, h) /\ Keeps(y, items', g)
           /\ kept' = 0 \/ (kept' = kept /\ kept <= Len(items') /\ \A i \in 1..kept : items'[i] = items[i])
  <1>0. items \in Seq(Entry) /\ Len(items) \in Nat /\ kept \in Nat /\ kept \in 0..Len(items) /\ KeptInv
    BY DEF HistoryInv, TypeInv, KeptInv
  <1>1. PICK x, m : x = items /\ m = kept
    OBVIOUS
  <1>2. PICK n \in 1..2 :
          LET younger == SubSeq(items, kept + 1, Len(items))
              turns == Cardinality(UserTurns(younger))
              whole == DropLastNUserTurns(items, n)
          IN  \/ /\ kept = 0 \/ n <= turns
                 /\ items' = whole
                 /\ UNCHANGED kept
              \/ /\ kept # 0 /\ n >= turns
                 /\ items' \in {whole, DropLastNUserTurns(younger, n)}
                 /\ kept' = 0
    BY DEF Rollback
  <1>3. PICK younger, whole, rest :
          younger = SubSeq(x, m + 1, Len(x)) /\ whole = DropLastNUserTurns(x, n)
          /\ rest = DropLastNUserTurns(younger, n)
    OBVIOUS
  <1>4. \/ (m = 0 \/ n <= Cardinality(UserTurns(younger))) /\ items' = whole /\ kept' = m
        \/ items' \in {whole, rest} /\ kept' = 0
    BY <1>1, <1>2, <1>3
  <1>5. /\ x \in Seq(Entry) /\ m \in 0..Len(x) /\ m \in Nat /\ n \in Nat \ {0}
        /\ \A i \in 1..m : x[i].type # "call"
        /\ m # 0 => x[m] = Message("summary")
    BY <1>0, <1>1 DEF KeptInv
  <1>6. x = SubSeq(x, 1, Len(x)) /\ Len(x) \in 0..Len(x)
    BY <1>5, AllItems
  <1>7. PICK h0 : Keeps(x, x, h0)
    BY <1>5, <1>6, PrefixKeeps
  <1>8. PICK k \in 0..Len(x) : whole = SubSeq(x, 1, k)
    BY <1>3, <1>5, DropIsPrefix
  <1>9. whole \in Seq(Entry) /\ \E g : Keeps(x, whole, g)
    BY <1>5, <1>8, PrefixKeeps
  <1>10. younger \in Seq(Entry) /\ \E h : Keeps(x, younger, h)
    BY <1>3, <1>5, SuffixKeeps
  <1>11. PICK l \in 0..Len(younger) : rest = SubSeq(younger, 1, l)
    BY <1>3, <1>5, <1>10, DropIsPrefix
  <1>12. rest \in Seq(Entry) /\ \E g : Keeps(younger, rest, g)
    BY <1>10, <1>11, PrefixKeeps
  <1>13. CASE items' = rest /\ kept' = 0
    BY <1>1, <1>10, <1>12, <1>13
  <1>14. CASE items' = whole /\ kept' = 0
    BY <1>1, <1>5, <1>7, <1>9, <1>14
  <1>15. CASE m # 0 /\ n <= Cardinality(UserTurns(younger)) /\ items' = whole /\ kept' = m
    <2>1. m \in 1..Len(x)
      BY <1>5, <1>15
    <2>2. PICK j \in m..Len(x) : whole = SubSeq(x, 1, j)
      BY <1>3, <1>5, <1>15, <2>1, DropKeepsSummary
    <2>3. j \in 0..Len(x) /\ m <= j /\ \A i \in 1..m : i \in 1..j
      BY <1>5, <2>1, <2>2
    <2>4. Len(whole) = j /\ \A i \in 1..j : whole[i] = x[i]
      BY <1>5, <2>2, <2>3, PrefixKeeps
    <2> QED BY <1>1, <1>5, <1>7, <1>9, <1>15, <2>3, <2>4
  <1> QED BY <1>4, <1>13, <1>14, <1>15

LEMMA HistoryRollback == HistoryInv /\ Rollback => HistoryInv'
  <1> SUFFICES ASSUME HistoryInv, Rollback PROVE HistoryInv'
    OBVIOUS
  <1>0. items \in Seq(Entry) /\ Answers(items) /\ TypeInv /\ KeptInv /\ Answers(copy)
    BY DEF HistoryInv, TypeInv
  <1>1. /\ inflight' = inflight /\ inflight = <<>> /\ copy' = copy /\ made' = made
    BY DEF Rollback, Idle
  <1>2. items' \in Seq(Entry) /\ kept' \in Nat
    BY RollbackIs
  <1>30. PICK y \in Seq(Entry) : \E h, g : Keeps(items, y, h) /\ Keeps(y, items', g)
    BY RollbackIs
  <1>3. PICK h, g : Keeps(items, y, h) /\ Keeps(y, items', g)
    BY <1>30
  <1>4. kept' = 0 \/ (kept' = kept /\ kept <= Len(items') /\ \A i \in 1..kept : items'[i] = items[i])
    BY RollbackIs
  <1>5. Answers(y)
    BY <1>0, <1>3, KeepsAnswers
  <1>6. Answers(items')
    BY <1>2, <1>3, <1>5, KeepsAnswers
  <1>7. FlightInv'
    BY <1>1, NoneRunning
  <1>8. KeptInv'
    <2>1. CASE kept' = 0
      <3>1. Len(items') \in Nat /\ 1..0 = {}
        BY <1>2
      <3> QED BY <2>1, <3>1 DEF KeptInv
    <2>2. CASE kept' = kept /\ kept <= Len(items') /\ \A i \in 1..kept : items'[i] = items[i]
      <3>1. kept # 0 => kept \in 1..kept
        BY <1>0 DEF TypeInv
      <3> QED BY <1>0, <2>2, <3>1 DEF KeptInv
    <2> QED BY <1>4, <2>1, <2>2
  <1> QED BY <1>0, <1>1, <1>2, <1>6, <1>7, <1>8 DEF HistoryInv, TypeInv

LEMMA HistoryCompact ==
    HistoryInv /\ (CompactStart \/ ContextWindowExceeded \/ CompactDone \/ CompactFails) => HistoryInv'
  <1> SUFFICES ASSUME HistoryInv, CompactStart \/ ContextWindowExceeded \/ CompactDone \/ CompactFails
               PROVE  HistoryInv'
    OBVIOUS
  <1>0. /\ items \in Seq(Entry) /\ Answers(items) /\ TypeInv /\ KeptInv
        /\ copy \in Seq(Entry) /\ Answers(copy)
    BY DEF HistoryInv, TypeInv
  <1>1. inflight' = inflight /\ inflight = <<>> /\ made' = made
    BY DEF HistoryInv, FlightInv, CompactStart, Idle, ContextWindowExceeded, CompactDone, CompactFails
  <1>2. FlightInv'
    BY <1>1, NoneRunning
  <1>3. PICK e : e = <<>>
    OBVIOUS
  <1>4. e \in Seq(Entry) /\ Answers(e)
    BY <1>3 DEF Answers
  <1>5. CASE CompactStart
    <2>1. copy' = Append(copy, Message("user")) \/ copy' = Append(items, Message("user"))
      BY <1>5 DEF CompactStart
    <2>2. copy' \in Seq(Entry) /\ Answers(copy')
      BY <1>0, <2>1, MessageAdded, OwnMessages
    <2>3. items' = items /\ kept' = kept
      BY <1>5 DEF CompactStart
    <2> QED BY <1>0, <1>1, <1>2, <2>2, <2>3 DEF HistoryInv, TypeInv, KeptInv
  <1>6. CASE ContextWindowExceeded
    <2>1. PICK y : y = copy'
      OBVIOUS
    <2>2. y = RemoveFirstItem(copy) /\ items' = items /\ kept' = kept
      BY <1>6, <2>1 DEF ContextWindowExceeded
    <2>3. y \in Seq(Entry)
      BY <1>0, <2>2, RemoveFirstKeeps
    <2>4. PICK h : Keeps(copy, y, h)
      BY <1>0, <2>2, RemoveFirstKeeps
    <2>5. Answers(y)
      BY <1>0, <2>3, <2>4, KeepsAnswers
    <2> QED BY <1>0, <1>1, <1>2, <2>1, <2>2, <2>3, <2>5 DEF HistoryInv, TypeInv, KeptInv
  <1>7. CASE CompactDone
    <2>1. PICK c : c = CompactedHistory(items)
      OBVIOUS
    <2>2. items' = c /\ kept' = Len(c) /\ copy' = e
      BY <1>3, <1>7, <2>1 DEF CompactDone
    <2>3. /\ c \in Seq(Entry) /\ Len(c) \in Nat \ {0} /\ c[Len(c)] = Message("summary")
          /\ \A i \in 1..Len(c) : c[i].type = "message"
          /\ Answers(c)
      BY <1>0, <2>1, CompactedIs
    <2>4. KeptInv'
      BY <2>2, <2>3 DEF KeptInv
    <2> QED BY <1>0, <1>1, <1>2, <1>4, <2>2, <2>3, <2>4 DEF HistoryInv, TypeInv
  <1>8. CASE CompactFails
    <2>1. items' = items \/ items' = Append(items, Message("assistant"))
      BY <1>8 DEF CompactFails
    <2>2. copy' = e /\ kept' = kept
      BY <1>3, <1>8 DEF CompactFails
    <2>3. items' \in Seq(Entry) /\ Longer(items, items') /\ Answers(items')
      BY <1>0, <2>1, MessageAdded, OwnMessages, SameLonger
    <2>4. KeptInv'
      BY <1>0, <2>2, <2>3, KeptLonger
    <2> QED BY <1>0, <1>1, <1>2, <1>4, <2>2, <2>3, <2>4 DEF HistoryInv, TypeInv
  <1> QED BY <1>5, <1>6, <1>7, <1>8

LEMMA HistoryStutter == HistoryInv /\ UNCHANGED vars => HistoryInv'
  <1> SUFFICES ASSUME HistoryInv, UNCHANGED vars PROVE HistoryInv'
    OBVIOUS
  <1>1. /\ items' = items /\ inflight' = inflight /\ made' = made /\ kept' = kept
        /\ copy' = copy /\ compacting' = compacting
    BY DEF vars
  <1>2. TypeInv' /\ KeptInv' /\ FlightInv'
    BY <1>1 DEF HistoryInv, TypeInv, KeptInv, FlightInv
  <1> QED BY <1>1, <1>2 DEF HistoryInv

\* Every history of the thread, whatever ids its upstream gives: an output
\* stands behind a call of its id that no other output answers.
THEOREM HistoryIsAnswered == Spec => []HistoryInv
  <1>1. Init => HistoryInv
    BY HistoryInit
  <1>2. HistoryInv /\ [Next]_vars => HistoryInv'
    BY HistoryMessage, HistoryRespond, HistoryOutput, HistoryInterrupt, HistoryRollback,
       HistoryCompact, HistoryStutter DEF Next
  <1> QED BY <1>1, <1>2, PTL DEF Spec

LEMMA HistoryNoOrphans == HistoryInv => NoOrphanOutputs
  <1> SUFFICES ASSUME HistoryInv PROVE OrphanOutputs(EnsureCallOutputsPresent(History)) = {}
    BY DEF NoOrphanOutputs
  <1>1. PICK x : x = History
    OBVIOUS
  <1>2. x \in Seq(Entry) /\ Answers(x)
    BY <1>1 DEF HistoryInv, TypeInv, History
  <1>3. Outputs(x) \subseteq Calls(x)
    <2> SUFFICES ASSUME NEW id \in Outputs(x) PROVE id \in Calls(x)
      OBVIOUS
    <2>1. PICK q \in 1..Len(x) : x[q].type = "output" /\ x[q].call_id = id
      BY IdsAt DEF Outputs
    <2>2. PICK p \in 1..(q - 1) : Answered(x, p, q)
      BY <1>2, <2>1 DEF Answers
    <2>3. p \in 1..Len(x)
      BY <1>2
    <2> QED BY <2>1, <2>2, <2>3, IdsAt DEF Answered, Calls
  <1> QED BY <1>1, <1>2, <1>3, NoOrphanAfter

\* No request is ever built from a history with an orphan output, not even
\* from the copy that remove_first_item shortens, with reused ids too.
THEOREM NoOrphans == Spec => []NoOrphanOutputs
  BY HistoryIsAnswered, HistoryNoOrphans, PTL

-----------------------------------------------------------------------------
(* With upstreams that name their calls, every call has an id of its own.  *)

NamedInv ==
    /\ Clean(items) /\ Clean(copy)
    /\ \A id \in Calls(items) : id.n <= made
    /\ \A k \in 1..Len(inflight) : inflight[k].call_id \notin Outputs(items)

\* The last request is what its part of the history still makes, and none of
\* the running calls was in it.
SentInv ==
    \E n \in 0..Len(items) :
      /\ lastSent = ChatOf(items, SubSeq(items, 1, n))
      /\ \A k \in 1..Len(inflight) : inflight[k].call_id \notin Calls(SubSeq(items, 1, n))

RequestInv == HistoryInv /\ NamedInv /\ SentInv

LEMMA NothingSent ==
    ASSUME items' \in Seq(Entry), lastSent' = <<>>
    PROVE  SentInv'
  <1>1. PICK y, f : y = items' /\ f = inflight'
    OBVIOUS
  <1>2. y \in Seq(Entry) /\ SubSeq(y, 1, 0) = <<>> /\ 0 \in 0..Len(y)
    BY <1>1, AllItems
  <1>3. ChatOf(y, <<>>) = <<>>
    <2>1. Message("user") \in Entry
      BY OwnMessages
    <2> QED BY <1>2, <2>1, ChatOfSteps
  <1>4. Calls(<<>>) = {}
    BY DEF Calls, IdsOf
  <1>5. lastSent' = ChatOf(y, SubSeq(y, 1, 0)) /\ Calls(SubSeq(y, 1, 0)) = {}
    BY <1>2, <1>3, <1>4
  <1> QED BY <1>1, <1>2, <1>5 DEF SentInv

LEMMA CleanMessage ==
    ASSUME NEW x \in Seq(Entry), Clean(x), NEW it \in Entry, it.type \notin {"call", "output"}
    PROVE  /\ Clean(Append(x, it)) /\ Calls(Append(x, it)) = Calls(x) /\ Outputs(Append(x, it)) = Outputs(x)
           /\ \A q \in 1..Len(Append(x, it)) : q \notin 1..Len(x) => Append(x, it)[q].type # "output"
  <1>1. Fits(x, it)
    BY DEF Fits
  <1>2. Clean(Append(x, it))
    BY <1>1, CleanAppend
  <1>3. Calls(Append(x, it)) = Calls(x) /\ Outputs(Append(x, it)) = Outputs(x)
    BY BothAppend
  <1>4. \A q \in 1..Len(Append(x, it)) : q \notin 1..Len(x) => Append(x, it)[q] = it
    BY LongerAppend
  <1> QED BY <1>2, <1>3, <1>4

\* Steps that add at most a message and start no call.
LEMMA NamedMessage ==
    ASSUME RequestInv, copy' \in Seq(Entry), Clean(copy'), made' = made, lastSent' = lastSent,
           inflight' = <<>>, NEW it \in Entry, it.type \notin {"call", "output"},
           items' = items \/ items' = Append(items, it)
    PROVE  NamedInv' /\ SentInv'
  <1>1. PICK x, y : x = items /\ y = items'
    OBVIOUS
  <1>2. x \in Seq(Entry) /\ Clean(x) /\ \A id \in Calls(x) : id.n <= made
    BY <1>1 DEF RequestInv, HistoryInv, TypeInv, NamedInv
  <1>5. /\ y \in Seq(Entry) /\ Longer(x, y) /\ Clean(y) /\ Calls(y) = Calls(x)
        /\ \A q \in 1..Len(y) : q \notin 1..Len(x) => y[q].type # "output"
    <2>1. CASE y = x
      BY <1>2, <2>1, SameLonger
    <2>2. CASE y = Append(x, it)
      BY <1>2, <2>2, LongerAppend, CleanMessage
    <2> QED BY <1>1, <2>1, <2>2
  <1>6. PICK f : f = inflight'
    OBVIOUS
  <1>7. f = <<>> /\ Len(f) = 0 /\ 1..0 = {}
    BY <1>6
  <1>8. NamedInv'
    BY <1>1, <1>2, <1>5, <1>6, <1>7 DEF NamedInv
  <1>9. SentInv'
    <2>1. PICK n \in 0..Len(x) : lastSent = ChatOf(x, SubSeq(x, 1, n))
      BY <1>1 DEF RequestInv, SentInv
    <2>2. n \in 0..Len(y) /\ ChatOf(y, SubSeq(y, 1, n)) = ChatOf(x, SubSeq(x, 1, n))
      BY <1>2, <1>5, SentAgain DEF Clean
    <2> QED BY <1>1, <1>6, <1>7, <2>1, <2>2 DEF SentInv
  <1> QED BY <1>8, <1>9

LEMMA NamedRespond ==
    ASSUME NamesCalls \subseteq {TRUE}, RequestInv, Respond
    PROVE  NamedInv' /\ SentInv'
  <1>0. TypeInv /\ items \in Seq(Entry) /\ made \in Nat /\ Clean(items) /\ Clean(copy)
    BY DEF RequestInv, HistoryInv, TypeInv, NamedInv
  <1>1. PICK n, says, named, calls, text :
          /\ ResponseOf(n, says, named, calls, text)
          /\ items' = items \o calls \o text /\ inflight' = calls /\ made' = made + n
    BY <1>0, RespondIs
  <1>2. PICK x, y : x = items /\ y = items'
    OBVIOUS
  <1>3. Responded(x, y, n, named, calls)
    BY <1>0, <1>1, <1>2, ResponseIs
  <1>4. named = TRUE
    BY <1>1 DEF ResponseOf
  <1>5. /\ n \in Nat /\ calls \in Seq(Entry) /\ Len(calls) = n /\ x \in Seq(Entry)
        /\ y \in Seq(Entry) /\ Longer(x, y) /\ Len(x) \in Nat /\ Len(y) \in Nat
    BY <1>0, <1>2, <1>3 DEF Responded
  <1>6. ASSUME NEW k \in 1..n
        PROVE  /\ calls[k].type = "call" /\ calls[k].call_id \notin Calls(x)
               /\ calls[k].call_id.n = made + k
    <2>1. calls[k].type = "call" /\ calls[k].call_id = [from |-> "upstream", n |-> made + k]
      BY <1>3, <1>4 DEF Responded
    <2>2. PICK id : id = [from |-> "upstream", n |-> made + k]
      OBVIOUS
    <2>3. id.n = made + k
      BY <2>2
    <2>4. id \notin Calls(x)
      <3>1. \A i \in Calls(x) : i.n <= made
        BY <1>2 DEF RequestInv, NamedInv
      <3>2. ~(made + k <= made)
        BY <1>0, <1>5
      <3> QED BY <2>3, <3>1, <3>2
    <2> QED BY <2>1, <2>2, <2>3, <2>4
  <1>7. ASSUME NEW q \in 1..Len(y), q \notin 1..Len(x)
        PROVE  y[q].type # "output" /\ (y[q].type = "call" => \E k \in 1..n : q = Len(x) + k /\ y[q] = calls[k])
    <2>1. CASE \E k \in 1..n : q = Len(x) + k
      <3>1. PICK k \in 1..n : q = Len(x) + k
        BY <2>1
      <3>2. y[q] = calls[k]
        BY <1>3, <3>1 DEF Responded
      <3> QED BY <1>6, <3>1, <3>2
    <2>2. CASE y[q].type = "message"
      BY <2>2
    <2> QED BY <1>3, <1>7, <2>1, <2>2 DEF Responded
  <1>8. Distinct(calls, "call")
    BY <1>0, <1>3, RespondedDistinct
  <1>9. ASSUME NEW q \in 1..Len(y), NEW r \in 1..Len(y), q \notin 1..Len(x), r \notin 1..Len(x),
               y[q].type = "call", y[r].type = "call", y[q].call_id = y[r].call_id
        PROVE  q = r
    <2>1. PICK k \in 1..n : q = Len(x) + k /\ y[q] = calls[k]
      BY <1>7, <1>9
    <2>2. PICK l \in 1..n : r = Len(x) + l /\ y[r] = calls[l]
      BY <1>7, <1>9
    <2>3. k = l
      BY <1>5, <1>8, <1>9, <2>1, <2>2 DEF Distinct
    <2> QED BY <2>1, <2>2, <2>3
  <1>10. \A q \in 1..Len(y) : q \notin 1..Len(x) =>
             /\ y[q].type # "output"
             /\ y[q].type = "call" => y[q].call_id \notin Calls(x)
    <2> SUFFICES ASSUME NEW q \in 1..Len(y), q \notin 1..Len(x)
                 PROVE  y[q].type # "output" /\ (y[q].type = "call" => y[q].call_id \notin Calls(x))
      OBVIOUS
    <2> QED BY <1>6, <1>7
  <1>11. Clean(y) /\ Outputs(y) = Outputs(x)
    <2>1. \A q, r \in 1..Len(y) :
            (/\ q \notin 1..Len(x) /\ r \notin 1..Len(x)
             /\ y[q].type = "call" /\ y[r].type = "call"
             /\ y[q].call_id = y[r].call_id) => q = r
      <3> SUFFICES ASSUME NEW q \in 1..Len(y), NEW r \in 1..Len(y), q \notin 1..Len(x), r \notin 1..Len(x),
                          y[q].type = "call", y[r].type = "call", y[q].call_id = y[r].call_id
                   PROVE  q = r
        OBVIOUS
      <3> QED BY <1>9
    <2> QED BY <1>0, <1>2, <1>5, <1>10, <2>1, LongerClean
  <1>12. ASSUME NEW id \in Calls(y) PROVE id.n <= made + n
    <2>1. PICK q \in 1..Len(y) : y[q].type = "call" /\ y[q].call_id = id
      BY <1>12, IdsAt DEF Calls
    <2>2. CASE q \in 1..Len(x)
      <3>1. x[q] = y[q] /\ x[q].call_id \in Calls(x)
        BY <1>5, <2>1, <2>2, IdsAt DEF Longer, Calls
      <3>2. id.n <= made /\ id \in Ids
        BY <1>2, <1>5, <2>1, <3>1, CallsAreIds DEF RequestInv, NamedInv
      <3>3. id.n \in Nat
        BY <3>2 DEF Ids
      <3> QED BY <1>0, <1>5, <3>2, <3>3
    <2>3. CASE q \notin 1..Len(x)
      <3>1. PICK k \in 1..n : y[q] = calls[k]
        BY <1>7, <2>1, <2>3
      <3>2. id.n = made + k
        BY <1>6, <2>1, <3>1
      <3> QED BY <1>0, <1>5, <3>2
    <2> QED BY <2>2, <2>3
  <1>13. ASSUME NEW k \in 1..n PROVE calls[k].call_id \notin Outputs(y)
    <2>1. Outputs(x) \subseteq Calls(x)
      BY <1>0, <1>2, <1>5, OutputsAreCalled DEF Clean
    <2> QED BY <1>6, <1>11, <2>1
  <1>14. copy' = copy
    BY DEF Respond
  <1>15. NamedInv'
    BY <1>0, <1>1, <1>2, <1>5, <1>11, <1>12, <1>13, <1>14 DEF NamedInv
  <1>16. lastSent' = ChatOf(x, x)
    <2>1. ~HardFails(x) /\ lastSent' = BuildChat(ForPrompt(x)).messages
      BY <1>2 DEF Respond
    <2>2. Supported(x)
      BY <1>0, <1>2, <1>5, <2>1, ChatRequest
    <2>3. BuildChat(ForPrompt(x)).messages = ChatOf(x, x)
      BY <1>0, <1>2, <1>5, <2>2, ChatRequest
    <2> QED BY <2>1, <2>3
  <1>17. PICK m : m = Len(x)
    OBVIOUS
  <1>18. m \in 0..Len(x) /\ SubSeq(x, 1, m) = x
    BY <1>5, <1>17, AllItems
  <1>19. SubSeq(y, 1, m) = x /\ m \in 0..Len(y) /\ ChatOf(y, SubSeq(y, 1, m)) = ChatOf(x, x)
    <2>1. \A q \in 1..Len(y) : q \notin 1..Len(x) /\ y[q].type = "output" =>
            y[q].call_id \notin Calls(SubSeq(x, 1, m))
      BY <1>10
    <2>2. Distinct(y, "output")
      BY <1>11 DEF Clean
    <2>3. SubSeq(y, 1, m) = SubSeq(x, 1, m) /\ m \in 0..Len(y)
      BY <1>5, <1>18, LongerPrefix
    <2>4. ChatOf(y, SubSeq(y, 1, m)) = ChatOf(x, SubSeq(x, 1, m))
      BY <1>5, <1>18, <2>1, <2>2, SentAgain
    <2> QED BY <1>18, <2>3, <2>4
  <1>20. \A k \in 1..Len(calls) : calls[k].call_id \notin Calls(SubSeq(y, 1, m))
    BY <1>5, <1>6, <1>19
  <1>21. SentInv'
    BY <1>1, <1>2, <1>16, <1>19, <1>20 DEF SentInv
  <1> QED BY <1>15, <1>21

LEMMA NamedOutput ==
    ASSUME RequestInv, ToolOutput
    PROVE  NamedInv' /\ SentInv'
  <1>0. /\ HistoryInv /\ items \in Seq(Entry) /\ made \in Nat /\ Clean(items) /\ Clean(copy)
        /\ \A id \in Calls(items) : id.n <= made
        /\ inflight \in Seq(Entry) /\ inflight # <<>>
    BY DEF RequestInv, HistoryInv, TypeInv, NamedInv, ToolOutput
  <1>1. PICK c, o :
             /\ c = inflight[1] /\ c \in Entry /\ Running(items, c)
             /\ o = Output(c.call_id, c.of) /\ o \in Entry /\ o.type = "output"
             /\ o.call_id = c.call_id /\ o.of = c.of /\ c.call_id \in Ids
             /\ items' = Append(items, o)
             /\ inflight' \in Seq(Entry) /\ Len(inflight) \in Nat /\ Len(inflight') = Len(inflight) - 1
             /\ \A k \in 1..Len(inflight') : k + 1 \in 1..Len(inflight) /\ inflight'[k] = inflight[k + 1]
             /\ \A k \in 1..Len(inflight') : inflight'[k].call_id # c.call_id
    BY <1>0, ToolOutputIs
  <1>2. PICK x, y : x = items /\ y = items'
    OBVIOUS
  <1>3. x \in Seq(Entry) /\ y = Append(x, o) /\ Clean(x) /\ 1 \in 1..Len(inflight)
    BY <1>0, <1>1, <1>2
  <1>4. PICK p \in 1..Len(x) : x[p] = c
    BY <1>1, <1>2 DEF Running
  <1>5. Fits(x, o)
    <2>1. o.call_id \notin Outputs(x)
      BY <1>1, <1>2, <1>3 DEF RequestInv, NamedInv
    <2>2. x[p].type = "call" /\ x[p].call_id = o.call_id /\ o.of \in {0, x[p].of}
      BY <1>1, <1>4 DEF Running
    <2> QED BY <1>1, <2>1, <2>2 DEF Fits
  <1>6. Clean(y)
    BY <1>1, <1>3, <1>5, CleanAppend
  <1>7. /\ y \in Seq(Entry) /\ Calls(y) = Calls(x) \cup (IF o.type = "call" THEN {o.call_id} ELSE {})
        /\ Outputs(y) = Outputs(x) \cup (IF o.type = "output" THEN {o.call_id} ELSE {})
    BY <1>1, <1>3, BothAppend
  <1>8. Calls(y) = Calls(x) /\ Outputs(y) = Outputs(x) \cup {c.call_id}
    BY <1>1, <1>7
  <1>9. ASSUME NEW k \in 1..Len(inflight') PROVE inflight'[k].call_id \notin Outputs(y)
    <2>1. PICK it : it = inflight'[k]
      OBVIOUS
    <2>2. it = inflight[k + 1] /\ k + 1 \in 1..Len(inflight) /\ it.call_id # c.call_id
      BY <1>1, <2>1
    <2>3. it.call_id \notin Outputs(x)
      BY <1>2, <2>2 DEF RequestInv, NamedInv
    <2> QED BY <1>8, <2>1, <2>2, <2>3
  <1>10. made' = made /\ copy' = copy /\ lastSent' = lastSent
    BY DEF ToolOutput
  <1>11. NamedInv'
    BY <1>0, <1>2, <1>6, <1>8, <1>9, <1>10 DEF NamedInv
  <1>12. PICK n \in 0..Len(x) :
           /\ lastSent = ChatOf(x, SubSeq(x, 1, n))
           /\ \A k \in 1..Len(inflight) : inflight[k].call_id \notin Calls(SubSeq(x, 1, n))
    BY <1>2 DEF RequestInv, SentInv
  <1>13. Longer(x, y) /\ \A q \in 1..Len(y) : q \notin 1..Len(x) => y[q] = o
    BY <1>1, <1>3, LongerAppend
  <1>14. \A q \in 1..Len(y) : q \notin 1..Len(x) /\ y[q].type = "output" =>
           y[q].call_id \notin Calls(SubSeq(x, 1, n))
    <2>1. c.call_id \notin Calls(SubSeq(x, 1, n))
      BY <1>1, <1>3, <1>12
    <2>2. o.call_id \notin Calls(SubSeq(x, 1, n))
      BY <1>1, <2>1
    <2> QED BY <1>13, <2>2
  <1>15. /\ SubSeq(y, 1, n) = SubSeq(x, 1, n) /\ n \in 0..Len(y)
         /\ ChatOf(y, SubSeq(y, 1, n)) = ChatOf(x, SubSeq(x, 1, n))
    <2>1. Distinct(y, "output")
      BY <1>6 DEF Clean
    <2>2. /\ SubSeq(y, 1, n) = SubSeq(x, 1, n) /\ n \in 0..Len(y)
      BY <1>3, <1>7, <1>13, LongerPrefix
    <2>3. ChatOf(y, SubSeq(y, 1, n)) = ChatOf(x, SubSeq(x, 1, n))
      <3>1. PICK u, v, w : u = x /\ v = y /\ w = n
        OBVIOUS
      <3>2. u \in Seq(Entry) /\ v \in Seq(Entry) /\ Longer(u, v) /\ Distinct(v, "output") /\ w \in 0..Len(u)
        BY <1>3, <1>7, <1>13, <2>1, <3>1
      <3>3. \A q \in 1..Len(v) : q \notin 1..Len(u) /\ v[q].type = "output" =>
              v[q].call_id \notin Calls(SubSeq(u, 1, w))
        BY <1>14, <3>1
      <3>4. ChatOf(v, SubSeq(v, 1, w)) = ChatOf(u, SubSeq(u, 1, w))
        BY <3>2, <3>3, SentAgain
      <3> QED BY <3>1, <3>4
    <2> QED BY <2>2, <2>3
  <1>16. \A k \in 1..Len(inflight') : inflight'[k].call_id \notin Calls(SubSeq(y, 1, n))
    BY <1>1, <1>12, <1>15
  <1>17. SentInv'
    BY <1>2, <1>10, <1>12, <1>15, <1>16 DEF SentInv
  <1> QED BY <1>11, <1>17

LEMMA NamedRollback ==
    ASSUME RequestInv, Rollback
    PROVE  NamedInv' /\ SentInv'
  <1>0. HistoryInv /\ items \in Seq(Entry) /\ Clean(items) /\ Clean(copy) /\ \A id \in Calls(items) : id.n <= made
    BY DEF RequestInv, HistoryInv, TypeInv, NamedInv
  <1>1. /\ inflight' = <<>> /\ copy' = copy /\ made' = made /\ lastSent' = <<>>
    BY DEF Rollback, Idle
  <1>2. items' \in Seq(Entry)
    BY <1>0, RollbackIs
  <1>30. PICK y \in Seq(Entry) : \E h, g : Keeps(items, y, h) /\ Keeps(y, items', g)
    BY <1>0, RollbackIs
  <1>3. PICK h, g : Keeps(items, y, h) /\ Keeps(y, items', g)
    BY <1>30
  <1>4. Clean(y) /\ Calls(y) \subseteq Calls(items)
    BY <1>0, <1>3, KeepsClean
  <1>5. Clean(items') /\ Calls(items') \subseteq Calls(y)
    BY <1>2, <1>3, <1>4, KeepsClean
  <1>6. PICK f : f = inflight'
    OBVIOUS
  <1>7. f = <<>> /\ Len(f) = 0 /\ 1..0 = {}
    BY <1>1, <1>6
  <1>8. NamedInv'
    BY <1>0, <1>1, <1>4, <1>5, <1>6, <1>7 DEF NamedInv
  <1> QED BY <1>1, <1>2, <1>8, NothingSent

LEMMA NamedCompactDone ==
    ASSUME RequestInv, CompactDone
    PROVE  NamedInv' /\ SentInv'
  <1>0. HistoryInv /\ items \in Seq(Entry) /\ compacting
    BY DEF RequestInv, HistoryInv, TypeInv, CompactDone
  <1>1. inflight' = <<>> /\ made' = made /\ lastSent' = <<>> /\ copy' = <<>>
    BY <1>0 DEF CompactDone, HistoryInv, FlightInv
  <1>2. PICK c : c = CompactedHistory(items)
    OBVIOUS
  <1>3. c \in Seq(Entry) /\ Clean(c) /\ Calls(c) = {}
    BY <1>0, <1>2, CompactedIs
  <1>4. items' = c
    BY <1>2 DEF CompactDone
  <1>5. PICK f : f = inflight'
    OBVIOUS
  <1>6. f = <<>> /\ Len(f) = 0 /\ 1..0 = {} /\ copy' = f
    BY <1>1, <1>5
  <1>7. Clean(f)
    BY <1>6 DEF Clean, Distinct, Follows
  <1>8. NamedInv'
    BY <1>1, <1>3, <1>4, <1>5, <1>6, <1>7 DEF NamedInv
  <1> QED BY <1>1, <1>3, <1>4, <1>8, NothingSent

\* The other steps.
LEMMA NamedOther ==
    ASSUME RequestInv,
           UserMessage \/ Interrupt \/ CompactStart \/ ContextWindowExceeded \/ CompactFails
    PROVE  NamedInv' /\ SentInv'
  <1>0. /\ HistoryInv /\ items \in Seq(Entry) /\ copy \in Seq(Entry) /\ Clean(items) /\ Clean(copy)
        /\ Answers(copy)
    BY DEF RequestInv, HistoryInv, TypeInv, NamedInv
  <1>1. inflight' = <<>> /\ made' = made /\ lastSent' = lastSent
    BY <1>0 DEF UserMessage, Interrupt, CompactStart, ContextWindowExceeded, CompactFails, Idle,
                HistoryInv, FlightInv
  <1>2. PICK m : m = Message("user")
    OBVIOUS
  <1>3. m \in Entry /\ m.type \notin {"call", "output"}
    BY <1>2, OwnMessages
  <1>4. CASE UserMessage
    <2>1. PICK it \in {Message("user"), Unsupported} : items' = Append(items, it)
      BY <1>4 DEF UserMessage
    <2>2. it \in Entry /\ it.type \notin {"call", "output"}
      BY EntryMakes, OwnMessages
    <2>3. copy' = copy
      BY <1>4 DEF UserMessage
    <2> QED BY <1>0, <1>1, <2>1, <2>2, <2>3, NamedMessage
  <1>5. CASE Interrupt
    <2>1. items' = items \/ items' = Append(items, Message("context"))
      BY <1>5 DEF Interrupt
    <2>2. Message("context") \in Entry /\ Message("context").type \notin {"call", "output"}
      BY OwnMessages
    <2>3. copy' = copy
      BY <1>5 DEF Interrupt
    <2> QED BY <1>0, <1>1, <2>1, <2>2, <2>3, NamedMessage
  <1>6. CASE CompactStart
    <2>1. items' = items /\ copy' = Append(items, m)
      BY <1>2, <1>6 DEF CompactStart
    <2>2. copy' \in Seq(Entry) /\ Clean(copy')
      BY <1>0, <1>3, <2>1, BothAppend, CleanMessage
    <2> QED BY <1>1, <1>3, <2>1, <2>2, NamedMessage
  <1>7. CASE ContextWindowExceeded
    <2>1. PICK y : y = copy'
      OBVIOUS
    <2>2. y = RemoveFirstItem(copy) /\ items' = items
      BY <1>7, <2>1 DEF ContextWindowExceeded
    <2>3. y \in Seq(Entry)
      BY <1>0, <2>2, RemoveFirstKeeps
    <2>4. PICK h : Keeps(copy, y, h)
      BY <1>0, <2>2, RemoveFirstKeeps
    <2>5. Clean(y)
      BY <1>0, <2>3, <2>4, KeepsClean
    <2> QED BY <1>1, <1>3, <2>1, <2>2, <2>3, <2>5, NamedMessage
  <1>8. CASE CompactFails
    <2>1. items' = items \/ items' = Append(items, Message("assistant"))
      BY <1>8 DEF CompactFails
    <2>2. Message("assistant") \in Entry /\ Message("assistant").type \notin {"call", "output"}
      BY OwnMessages
    <2>3. PICK f : f = copy'
      OBVIOUS
    <2>4. f = <<>> /\ Len(f) = 0 /\ 1..0 = {} /\ f \in Seq(Entry)
      BY <1>8, <2>3 DEF CompactFails
    <2>5. Clean(f)
      BY <2>4 DEF Clean, Distinct, Follows
    <2> QED BY <1>1, <2>1, <2>2, <2>3, <2>4, <2>5, NamedMessage
  <1> QED BY <1>4, <1>5, <1>6, <1>7, <1>8

LEMMA RequestInit == Init => RequestInv
  <1> SUFFICES ASSUME Init PROVE RequestInv
    OBVIOUS
  <1>1. PICK e : e = <<>>
    OBVIOUS
  <1>2. e \in Seq(Entry) /\ Len(e) = 0 /\ 1..0 = {}
    BY <1>1
  <1>3. items = e /\ inflight = e /\ copy = e /\ made = 0 /\ lastSent = e
    BY <1>1 DEF Init
  <1>4. Clean(e)
    BY <1>2 DEF Clean, Distinct, Follows
  <1>5. Calls(e) = {}
    BY <1>2 DEF Calls, IdsOf
  <1>6. NamedInv
    BY <1>2, <1>3, <1>4, <1>5 DEF NamedInv
  <1>7. ChatOf(e, e) = e /\ SubSeq(e, 1, 0) = e /\ 0 \in 0..Len(e)
    <2>1. Message("user") \in Entry
      BY OwnMessages
    <2>2. ChatOf(e, <<>>) = <<>>
      BY <1>2, <2>1, ChatOfSteps
    <2> QED BY <1>1, <1>2, <2>2
  <1>8. SentInv
    BY <1>2, <1>3, <1>7 DEF SentInv
  <1> QED BY <1>6, <1>8, HistoryInit DEF RequestInv

\* Every history of a thread whose upstreams name their calls.
THEOREM RequestsAreOrdered ==
    ASSUME NamesCalls \subseteq {TRUE}
    PROVE  Spec => []RequestInv
  <1>1. Init => RequestInv
    BY RequestInit
  <1>2. RequestInv /\ [Next]_vars => RequestInv'
    <2> SUFFICES ASSUME RequestInv, [Next]_vars PROVE RequestInv'
      OBVIOUS
    <2>1. HistoryInv'
      BY HistoryMessage, HistoryRespond, HistoryOutput, HistoryInterrupt, HistoryRollback,
         HistoryCompact, HistoryStutter DEF Next, RequestInv
    <2>2. CASE Next
      <3>1. NamedInv' /\ SentInv'
        BY <2>2, NamedRespond, NamedOutput, NamedRollback, NamedCompactDone, NamedOther DEF Next
      <3> QED BY <2>1, <3>1 DEF RequestInv
    <2>3. CASE UNCHANGED vars
      <3>1. /\ items' = items /\ inflight' = inflight /\ made' = made
            /\ copy' = copy /\ lastSent' = lastSent
        BY <2>3 DEF vars
      <3>2. NamedInv' /\ SentInv'
        BY <3>1 DEF RequestInv, NamedInv, SentInv
      <3> QED BY <2>1, <3>2 DEF RequestInv
    <2> QED BY <2>2, <2>3
  <1> QED BY <1>1, <1>2, PTL DEF Spec

\* Every Chat request has its calls and results in pairs.
THEOREM ChatRequestsArePaired ==
    ASSUME NamesCalls \subseteq {TRUE}
    PROVE  Spec => []ChatRequestsPaired
  <1>1. RequestInv => ChatRequestsPaired
    <2> SUFFICES ASSUME RequestInv PROVE ChatRequestsPaired
      OBVIOUS
    <2>1. PICK x : x = History
      OBVIOUS
    <2>2. x \in Seq(Entry) /\ Clean(x)
      BY <2>1 DEF RequestInv, HistoryInv, TypeInv, NamedInv, History
    <2>3. HardFails(x) <=> ~Supported(x)
      BY <2>2, ChatRequest
    <2>4. Supported(x) => /\ BuildChat(ForPrompt(x)).messages = ChatOf(x, x)
                          /\ BuildChat(x).messages = ChatOf(x, x)
      BY <2>2, ChatRequest
    <2>5. ChatPaired(ChatOf(x, x))
      BY <2>2, ChatRequest
    <2> QED BY <2>1, <2>3, <2>4, <2>5 DEF ChatRequestsPaired, MayRequest
  <1> QED BY <1>1, RequestsAreOrdered, PTL

LEMMA PrefixLonger ==
    ASSUME NEW a \in Seq(Entry), NEW b \in Seq(Entry), NEW c \in Seq(Entry), IsPrefix(a, b)
    PROVE  IsPrefix(a, b \o c)
  <1>1. /\ b \o c \in Seq(Entry) /\ Len(b \o c) = Len(b) + Len(c) /\ Len(b) \in Nat /\ Len(c) \in Nat
        /\ \A i \in 1..Len(b) : (b \o c)[i] = b[i]
    BY ConcatPlaces
  <1>2. PICK d, l : d = b \o c /\ l = Len(a)
    OBVIOUS
  <1>3. l \in Nat /\ l <= Len(b) /\ SubSeq(a, 1, l) = SubSeq(b, 1, l)
    BY <1>2 DEF IsPrefix
  <1>4. Longer(b, d) /\ d \in Seq(Entry) /\ l \in 0..Len(b) /\ l <= Len(d)
    BY <1>1, <1>2, <1>3 DEF Longer
  <1>5. SubSeq(d, 1, l) = SubSeq(b, 1, l)
    BY <1>4, LongerPrefix
  <1> QED BY <1>2, <1>3, <1>4, <1>5 DEF IsPrefix

\* The messages of the first items begin those of all of them.
LEMMA ChatOfPrefix ==
    ASSUME NEW x \in Seq(Entry), NEW n \in 0..Len(x)
    PROVE  IsPrefix(ChatOf(x, SubSeq(x, 1, n)), ChatOf(x, x))
  <1> DEFINE d(k) == ChatOf(x, SubSeq(x, 1, k))
             T == {k \in 0..(Len(x) - n) : IsPrefix(d(n), d(n + k))}
  <1>0. n \in Nat /\ Len(x) \in Nat /\ Len(x) - n \in Nat /\ n + 0 = n /\ n + (Len(x) - n) = Len(x)
    OBVIOUS
  <1>1. \A k \in 0..Len(x) : d(k) \in Seq(Entry)
    <2> SUFFICES ASSUME NEW k \in 0..Len(x) PROVE d(k) \in Seq(Entry)
      OBVIOUS
    <2>1. SubSeq(x, 1, k) \in Seq(Entry)
      BY PrefixKeeps
    <2>2. Message("user") \in Entry
      BY OwnMessages
    <2> QED BY <2>1, <2>2, ChatOfSteps
  <1>2. 0 \in T
    <2>1. IsPrefix(d(n), d(n))
      <3>1. Len(d(n)) \in Nat
        BY <1>1
      <3> HIDE DEF d
      <3> QED BY <3>1 DEF IsPrefix
    <2> HIDE DEF d
    <2> QED BY <1>0, <2>1
  <1>3. ASSUME NEW k \in 0..((Len(x) - n) - 1), k \in T PROVE k + 1 \in T
    <2>1. /\ n + k \in 0..(Len(x) - 1) /\ k + 1 \in 0..(Len(x) - n) /\ n + (k + 1) = (n + k) + 1
          /\ n + k \in 0..Len(x)
      BY <1>0
    <2>2. PICK j : j = n + k
      OBVIOUS
    <2>3. /\ SubSeq(x, 1, j + 1) = Append(SubSeq(x, 1, j), x[j + 1])
          /\ SubSeq(x, 1, j) \in Seq(Entry) /\ x[j + 1] \in Entry
      BY <2>1, <2>2, FirstItems
    <2>4. d(j + 1) = d(j) \o ChatBlock(x, x[j + 1]) /\ ChatBlock(x, x[j + 1]) \in Seq(Entry)
      BY <2>3, ChatOfSteps, ChatBlockIs
    <2>5. d(j) \in Seq(Entry) /\ d(n) \in Seq(Entry) /\ IsPrefix(d(n), d(j))
      BY <1>1, <1>3, <2>1, <2>2
    <2>6. PICK a, b, c : a = d(n) /\ b = d(j) /\ c = ChatBlock(x, x[j + 1])
      OBVIOUS
    <2> HIDE DEF d
    <2>7. a \in Seq(Entry) /\ b \in Seq(Entry) /\ c \in Seq(Entry) /\ IsPrefix(a, b)
      BY <2>4, <2>5, <2>6
    <2>8. IsPrefix(a, b \o c)
      BY <2>7, PrefixLonger
    <2> QED BY <2>1, <2>2, <2>4, <2>6, <2>8
  <1>4. Len(x) - n \in T
    <2> HIDE DEF T
    <2>1. Len(x) - n \in 0..(Len(x) - n)
      BY <1>0
    <2> QED BY <1>0, <1>2, <1>3, <2>1, UpTo
  <1>5. IsPrefix(d(n), d(Len(x)))
    <2> HIDE DEF d
    <2> QED BY <1>0, <1>4
  <1>6. SubSeq(x, 1, Len(x)) = x
    BY AllItems
  <1> QED BY <1>5, <1>6

\* Until the history is rewritten, a request begins with the one before.
THEOREM RequestsAreExtended ==
    ASSUME NamesCalls \subseteq {TRUE}
    PROVE  Spec => []RequestsExtend
  <1>1. RequestInv => RequestsExtend
    <2> SUFFICES ASSUME RequestInv, MayRequest, ~compacting
                 PROVE  IsPrefix(lastSent, BuildChat(ForPrompt(items)).messages)
      BY DEF RequestsExtend
    <2>1. PICK x : x = items
      OBVIOUS
    <2>2. x \in Seq(Entry) /\ Clean(x)
      BY <2>1 DEF RequestInv, HistoryInv, TypeInv, NamedInv
    <2>3. ~HardFails(x)
      BY <2>1 DEF MayRequest, History
    <2>4. HardFails(x) <=> ~Supported(x)
      BY <2>2, ChatRequest
    <2>5. Supported(x) => BuildChat(ForPrompt(x)).messages = ChatOf(x, x)
      BY <2>2, ChatRequest
    <2>6. PICK n \in 0..Len(x) : lastSent = ChatOf(x, SubSeq(x, 1, n))
      BY <2>1 DEF RequestInv, SentInv
    <2>7. IsPrefix(ChatOf(x, SubSeq(x, 1, n)), ChatOf(x, x))
      BY <2>2, ChatOfPrefix
    <2> QED BY <2>1, <2>3, <2>4, <2>5, <2>6, <2>7
  <1> QED BY <1>1, RequestsAreOrdered, PTL

-----------------------------------------------------------------------------
(* The turns of an Anthropic request.                                      *)

Turn == [role : {"user", "assistant"}, blocks : Seq(Entry)]

\* Item i of s is block B[i] of turn T[i], in the order of the items, in a
\* turn of its role; there are no other blocks.
Placed(s, t, T, B) ==
    /\ t \in Seq(Turn)
    /\ \A i \in 1..Len(s) :
         /\ T[i] \in 1..Len(t) /\ B[i] \in 1..Len(t[T[i]].blocks)
         /\ t[T[i]].blocks[B[i]] = s[i] /\ t[T[i]].role = TurnRole(s[i])
    /\ \A i, j \in 1..Len(s) : i < j => T[i] <= T[j]
    /\ \A l \in 1..Len(t) : \A b \in 1..Len(t[l].blocks) :
         \E i \in 1..Len(s) : T[i] = l /\ B[i] = b
    /\ Alternates(t)

LEMMA PushIs ==
    ASSUME NEW t \in Seq(Turn), NEW it \in Entry
    PROVE  \E u \in Seq(Turn) :
             /\ u = PushBlock(t, it) /\ Len(u) \in Nat \ {0} /\ Len(t) <= Len(u) /\ Len(t) \in Nat
             /\ u[Len(u)].role = TurnRole(it)
             /\ Len(u[Len(u)].blocks) \in Nat \ {0} /\ u[Len(u)].blocks[Len(u[Len(u)].blocks)] = it
             /\ \A l \in 1..Len(t) :
                  /\ u[l].role = t[l].role /\ Len(t[l].blocks) <= Len(u[l].blocks)
                  /\ Len(t[l].blocks) \in Nat /\ Len(u[l].blocks) \in Nat
                  /\ \A b \in 1..Len(t[l].blocks) : u[l].blocks[b] = t[l].blocks[b]
             /\ \A l \in 1..Len(u) : \A b \in 1..Len(u[l].blocks) :
                  \/ l \in 1..Len(t) /\ b \in 1..Len(t[l].blocks)
                  \/ l = Len(u) /\ b = Len(u[l].blocks)
             /\ Alternates(t) => Alternates(u)
  <1> DEFINE n == Len(t)
             role == TurnRole(it)
             new == [role |-> role, blocks |-> <<it>>]
  <1>0. n \in Nat /\ role \in {"user", "assistant"} /\ \A l \in 1..n : t[l] \in Turn
    BY DEF TurnRole
  <1>1. \A l \in 1..n : t[l].blocks \in Seq(Entry) /\ Len(t[l].blocks) \in Nat
    BY <1>0 DEF Turn
  <1>2. CASE t # <<>> /\ t[n].role = role
    <2> DEFINE old == t[n]
               bs == Append(old.blocks, it)
               top == [old EXCEPT !.blocks = bs]
    <2>1. n \in 1..n /\ old \in Turn
      BY <1>0, <1>2
    <2>2. /\ bs \in Seq(Entry) /\ Len(bs) = Len(old.blocks) + 1 /\ Len(old.blocks) \in Nat
          /\ bs[Len(old.blocks) + 1] = it
          /\ \A b \in 1..Len(old.blocks) : bs[b] = old.blocks[b]
      BY <2>1 DEF Turn
    <2>3. top \in Turn /\ top.role = role /\ top.blocks = bs
      <3> HIDE DEF bs
      <3> QED BY <1>2, <2>1, <2>2 DEF Turn
    <2>4. PushBlock(t, it) = [t EXCEPT ![n] = top]
      BY <1>2 DEF PushBlock
    <2>5. PICK u : u = [t EXCEPT ![n] = top]
      OBVIOUS
    <2> HIDE DEF top, bs, new, role
    <2>6. u \in Seq(Turn) /\ Len(u) = n /\ u[n] = top /\ \A l \in 1..n : l # n => u[l] = t[l]
      BY <1>0, <2>1, <2>3, <2>5
    <2> HIDE DEF old
    <2>7. \A l \in 1..n : /\ u[l].role = t[l].role /\ Len(t[l].blocks) <= Len(u[l].blocks)
                          /\ Len(t[l].blocks) \in Nat /\ Len(u[l].blocks) \in Nat
                          /\ \A b \in 1..Len(t[l].blocks) : u[l].blocks[b] = t[l].blocks[b]
      <3> SUFFICES ASSUME NEW l \in 1..n
                   PROVE  /\ u[l].role = t[l].role /\ Len(t[l].blocks) <= Len(u[l].blocks)
                          /\ Len(t[l].blocks) \in Nat /\ Len(u[l].blocks) \in Nat
                          /\ \A b \in 1..Len(t[l].blocks) : u[l].blocks[b] = t[l].blocks[b]
        OBVIOUS
      <3>1. CASE l = n
        <4>1. t[l] = old /\ u[l] = top /\ old.role = role
          BY <1>2, <2>6, <3>1 DEF old
        <4> QED BY <2>2, <2>3, <4>1
      <3>2. CASE l # n
        BY <1>1, <2>6, <3>2
      <3> QED BY <3>1, <3>2
    <2>8. ASSUME NEW l \in 1..n, NEW b \in 1..Len(u[l].blocks)
          PROVE  b \in 1..Len(t[l].blocks) \/ (l = n /\ b = Len(u[l].blocks))
      <3>1. CASE l = n
        <4>1. t[l] = old /\ u[l].blocks = bs
          BY <2>3, <2>6, <3>1 DEF old
        <4>2. \A i \in 1..(Len(old.blocks) + 1) : i \in 1..Len(old.blocks) \/ i = Len(old.blocks) + 1
          BY <2>2
        <4> QED BY <2>2, <3>1, <4>1, <4>2
      <3>2. CASE l # n
        BY <2>6, <3>2
      <3> QED BY <3>1, <3>2
    <2>9. Alternates(t) => Alternates(u)
      <3>1. \A l \in 1..(n - 1) : l \in 1..n /\ l + 1 \in 1..n
        BY <1>0
      <3> QED BY <2>6, <2>7, <3>1 DEF Alternates
    <2>10. u[n].role = role /\ Len(u[n].blocks) \in Nat \ {0} /\ u[n].blocks[Len(u[n].blocks)] = it
      BY <2>2, <2>3, <2>6
    <2>11. /\ Len(u) \in Nat \ {0} /\ Len(t) <= Len(u) /\ Len(t) \in Nat /\ u = PushBlock(t, it)
      BY <1>0, <2>1, <2>4, <2>5, <2>6
    <2> QED BY <2>6, <2>7, <2>8, <2>9, <2>10, <2>11 DEF role
  <1>3. CASE ~(t # <<>> /\ t[n].role = role)
    <2>1. PushBlock(t, it) = Append(t, new)
      BY <1>3 DEF PushBlock
    <2>2. PICK one : one = <<it>>
      OBVIOUS
    <2>3. one \in Seq(Entry) /\ Len(one) = 1 /\ one[1] = it
      BY <2>2
    <2>4. new \in Turn /\ new.role = role /\ new.blocks = one
      BY <1>0, <2>2, <2>3 DEF Turn
    <2>5. PICK u : u = Append(t, new)
      OBVIOUS
    <2>51. n # 0 => t[n].role # role
      BY <1>3
    <2> HIDE DEF new, role
    <2>6. u \in Seq(Turn) /\ Len(u) = n + 1 /\ u[n + 1] = new /\ \A l \in 1..n : u[l] = t[l]
      BY <1>0, <2>4, <2>5
    <2>7. \A l \in 1..n : /\ u[l].role = t[l].role /\ Len(t[l].blocks) <= Len(u[l].blocks)
                          /\ Len(t[l].blocks) \in Nat /\ Len(u[l].blocks) \in Nat
                          /\ \A b \in 1..Len(t[l].blocks) : u[l].blocks[b] = t[l].blocks[b]
      BY <1>1, <2>6
    <2>8. ASSUME NEW l \in 1..(n + 1), NEW b \in 1..Len(u[l].blocks)
          PROVE  (l \in 1..n /\ b \in 1..Len(t[l].blocks)) \/ (l = n + 1 /\ b = Len(u[l].blocks))
      <3>1. CASE l = n + 1
        <4>1. u[l].blocks = one
          BY <2>4, <2>6, <3>1
        <4>2. Len(u[l].blocks) = 1 /\ b \in 1..1
          BY <2>3, <4>1
        <4>3. b = 1
          BY <4>2
        <4> QED BY <3>1, <4>2, <4>3
      <3>2. CASE l # n + 1
        <4>1. l \in 1..n
          BY <1>0, <3>2
        <4> QED BY <2>6, <4>1
      <3> QED BY <3>1, <3>2
    <2>9. ASSUME Alternates(t) PROVE Alternates(u)
      <3> SUFFICES ASSUME NEW l \in 1..n PROVE u[l].role # u[l + 1].role
        BY <1>0, <2>6 DEF Alternates
      <3>1. CASE l = n
        BY <1>0, <2>4, <2>51, <2>6, <3>1
      <3>2. CASE l # n
        <4>1. l \in 1..(n - 1) /\ l + 1 \in 1..n
          BY <1>0, <3>2
        <4> QED BY <2>6, <2>9, <4>1 DEF Alternates
      <3> QED BY <3>1, <3>2
    <2>10. u[n + 1].role = role /\ Len(u[n + 1].blocks) = 1 /\ u[n + 1].blocks[1] = it
      BY <2>3, <2>4, <2>6
    <2>11. /\ Len(u) \in Nat \ {0} /\ Len(t) <= Len(u) /\ Len(t) \in Nat /\ u = PushBlock(t, it)
      BY <1>0, <2>1, <2>5, <2>6
    <2> QED BY <2>6, <2>7, <2>8, <2>9, <2>10, <2>11 DEF role
  <1> QED BY <1>2, <1>3

LEMMA PlacedPush ==
    ASSUME NEW s \in Seq(Entry), NEW it \in Entry, NEW t, NEW T, NEW B, Placed(s, t, T, B)
    PROVE  \E T2, B2 : Placed(Append(s, it), PushBlock(t, it), T2, B2)
  <1>0. t \in Seq(Turn)
    BY DEF Placed
  <1>1. PICK u \in Seq(Turn) :
             /\ u = PushBlock(t, it) /\ Len(u) \in Nat \ {0} /\ Len(t) <= Len(u) /\ Len(t) \in Nat
             /\ u[Len(u)].role = TurnRole(it)
             /\ Len(u[Len(u)].blocks) \in Nat \ {0} /\ u[Len(u)].blocks[Len(u[Len(u)].blocks)] = it
             /\ \A l \in 1..Len(t) :
                  /\ u[l].role = t[l].role /\ Len(t[l].blocks) <= Len(u[l].blocks)
                  /\ Len(t[l].blocks) \in Nat /\ Len(u[l].blocks) \in Nat
                  /\ \A b \in 1..Len(t[l].blocks) : u[l].blocks[b] = t[l].blocks[b]
             /\ \A l \in 1..Len(u) : \A b \in 1..Len(u[l].blocks) :
                  \/ l \in 1..Len(t) /\ b \in 1..Len(t[l].blocks)
                  \/ l = Len(u) /\ b = Len(u[l].blocks)
             /\ Alternates(t) => Alternates(u)
    BY <1>0, PushIs
  <1>2. PICK r, n, m, e : r = Append(s, it) /\ n = Len(s) /\ m = Len(u) /\ e = Len(u[Len(u)].blocks)
    OBVIOUS
  <1>3. /\ r \in Seq(Entry) /\ Len(r) = n + 1 /\ n \in Nat /\ r[n + 1] = it
        /\ \A i \in 1..n : r[i] = s[i]
        /\ \A i \in 1..(n + 1) : i \in 1..n \/ i = n + 1
        /\ \A i \in 1..n : i # n + 1 /\ i \in 1..(n + 1)
        /\ n + 1 \in 1..(n + 1)
    <2>1. r \in Seq(Entry) /\ Len(r) = n + 1 /\ n \in Nat /\ r[n + 1] = it
      BY <1>2
    <2>2. \A i \in 1..n : r[i] = s[i]
      BY <1>2
    <2> QED BY <2>1, <2>2
  <1>4. PICK T2 : T2 = [i \in 1..(n + 1) |-> IF i = n + 1 THEN m ELSE T[i]]
    OBVIOUS
  <1>5. PICK B2 : B2 = [i \in 1..(n + 1) |-> IF i = n + 1 THEN e ELSE B[i]]
    OBVIOUS
  <1>6. T2[n + 1] = m /\ B2[n + 1] = e /\ \A i \in 1..n : T2[i] = T[i] /\ B2[i] = B[i]
    BY <1>3, <1>4, <1>5
  <1>7. \A i \in 1..n : /\ T[i] \in 1..Len(t) /\ T[i] \in Nat /\ B[i] \in 1..Len(t[T[i]].blocks)
                        /\ t[T[i]].blocks[B[i]] = s[i] /\ t[T[i]].role = TurnRole(s[i])
    BY <1>1, <1>2 DEF Placed
  <1>8. ASSUME NEW i \in 1..(n + 1)
        PROVE  /\ T2[i] \in 1..Len(u) /\ B2[i] \in 1..Len(u[T2[i]].blocks)
               /\ u[T2[i]].blocks[B2[i]] = r[i] /\ u[T2[i]].role = TurnRole(r[i])
    <2>1. CASE i = n + 1
      <3>1. m \in 1..m /\ e \in 1..e
        BY <1>1, <1>2
      <3> QED BY <1>1, <1>2, <1>3, <1>6, <2>1, <3>1
    <2>2. CASE i \in 1..n
      <3>1. PICK l, b : l = T[i] /\ b = B[i]
        OBVIOUS
      <3>2. /\ l \in 1..Len(t) /\ b \in 1..Len(t[l].blocks) /\ t[l].blocks[b] = s[i]
            /\ t[l].role = TurnRole(s[i]) /\ T2[i] = l /\ B2[i] = b /\ r[i] = s[i]
        BY <1>3, <1>6, <1>7, <2>2, <3>1
      <3>3. l \in 1..Len(u) /\ b \in 1..Len(u[l].blocks) /\ u[l].blocks[b] = t[l].blocks[b] /\ u[l].role = t[l].role
        BY <1>1, <3>2
      <3> QED BY <3>2, <3>3
    <2> QED BY <1>3, <2>1, <2>2
  <1>9. ASSUME NEW i \in 1..(n + 1), NEW j \in 1..(n + 1), i < j PROVE T2[i] <= T2[j]
    <2>1. i \in 1..n
      BY <1>3, <1>9
    <2>2. CASE j = n + 1
      <3>1. T[i] \in 1..Len(t)
        BY <1>7, <2>1
      <3> QED BY <1>1, <1>2, <1>6, <2>1, <2>2, <3>1
    <2>3. CASE j \in 1..n
      BY <1>2, <1>6, <1>9, <2>1, <2>3 DEF Placed
    <2> QED BY <1>3, <2>2, <2>3
  <1>10. ASSUME NEW l \in 1..Len(u), NEW b \in 1..Len(u[l].blocks)
         PROVE  \E i \in 1..(n + 1) : T2[i] = l /\ B2[i] = b
    <2>1. CASE l \in 1..Len(t) /\ b \in 1..Len(t[l].blocks)
      <3>1. PICK i \in 1..n : T[i] = l /\ B[i] = b
        BY <1>2, <2>1 DEF Placed
      <3> QED BY <1>3, <1>6, <3>1
    <2>2. CASE l = Len(u) /\ b = Len(u[l].blocks)
      BY <1>2, <1>3, <1>6, <2>2
    <2> QED BY <1>1, <2>1, <2>2
  <1>11. Alternates(u)
    BY <1>1 DEF Placed
  <1>12. Placed(r, u, T2, B2)
    BY <1>1, <1>3, <1>8, <1>9, <1>10, <1>11 DEF Placed
  <1> QED BY <1>1, <1>2, <1>12

\* The translation up to some item.
Turns(s, acc) ==
    /\ acc \in [turns : Seq(Turn), seen : SUBSET Ids, needing : Seq(Ids), failed : BOOLEAN]
    /\ acc.failed = FALSE /\ acc.seen = Calls(s)
    /\ \A i \in 1..Len(acc.needing) : acc.needing[i] \in Calls(s) \ Outputs(s)
    /\ \E T, B : Placed(s, acc.turns, T, B)

LEMMA TurnsStart == Turns(<<>>, AnthropicStart)
  <1>1. PICK e : e = <<>>
    OBVIOUS
  <1>2. e \in Seq(Turn) /\ e \in Seq(Ids) /\ Len(e) = 0 /\ 1..0 = {} /\ 1..(0 - 1) = {}
    BY <1>1
  <1>3. Calls(e) = {}
    BY <1>2 DEF Calls, IdsOf
  <1>4. AnthropicStart = [turns |-> e, seen |-> {}, needing |-> e, failed |-> FALSE]
    BY <1>1 DEF AnthropicStart
  <1>5. Alternates(e)
    BY <1>2 DEF Alternates
  <1>6. Placed(e, e, e, e)
    BY <1>2, <1>5 DEF Placed
  <1>7. /\ AnthropicStart \in [turns : Seq(Turn), seen : SUBSET Ids, needing : Seq(Ids), failed : BOOLEAN]
        /\ AnthropicStart.failed = FALSE /\ AnthropicStart.seen = {} /\ AnthropicStart.needing = e
        /\ AnthropicStart.turns = e
    BY <1>2, <1>4
  <1>8. Turns(e, AnthropicStart)
    BY <1>2, <1>3, <1>6, <1>7 DEF Turns
  <1> QED BY <1>1, <1>8

LEMMA TurnsItem ==
    ASSUME NEW s \in Seq(Entry), NEW it \in Entry, Clean(s), Fits(s, it), it.type # "unsupported",
           NEW acc, Turns(s, acc)
    PROVE  Turns(Append(s, it), AnthropicItem(acc, it))
  <1> DEFINE R == [turns : Seq(Turn), seen : SUBSET Ids, needing : Seq(Ids), failed : BOOLEAN]
  <1>0. /\ acc \in R /\ acc.failed = FALSE /\ acc.seen = Calls(s) /\ acc.turns \in Seq(Turn)
        /\ acc.needing \in Seq(Ids) /\ acc.seen \in SUBSET Ids
        /\ \A i \in 1..Len(acc.needing) : acc.needing[i] \in Calls(s) \ Outputs(s)
    BY DEF Turns
  <1>1. PICK r, u : r = Append(s, it) /\ u = PushBlock(acc.turns, it)
    OBVIOUS
  <1>2. u \in Seq(Turn) /\ \E T, B : Placed(r, u, T, B)
    <2>1. PICK T, B : Placed(s, acc.turns, T, B)
      BY DEF Turns
    <2>2. PICK T2, B2 : Placed(r, u, T2, B2)
      BY <1>1, <2>1, PlacedPush
    <2>3. u \in Seq(Turn)
      BY <2>2 DEF Placed
    <2> QED BY <2>2, <2>3
  <1>3. /\ Calls(r) = Calls(s) \cup (IF it.type = "call" THEN {it.call_id} ELSE {})
        /\ Outputs(r) = Outputs(s) \cup (IF it.type = "output" THEN {it.call_id} ELSE {})
    BY <1>1, BothAppend
  <1>4. Outputs(s) \subseteq Calls(s)
    BY OutputsAreCalled DEF Clean
  <1>5. PICK d : d = AnthropicItem(acc, it)
    OBVIOUS
  <1>6. CASE it.type = "message"
    <2>1. d = [acc EXCEPT !.turns = u]
      BY <1>0, <1>1, <1>5, <1>6 DEF AnthropicItem
    <2>2. d \in R /\ d.turns = u /\ d.seen = acc.seen /\ d.needing = acc.needing /\ d.failed = FALSE
      BY <1>0, <1>2, <2>1
    <2>3. Calls(r) = Calls(s) /\ Outputs(r) = Outputs(s)
      BY <1>3, <1>6
    <2>4. Turns(r, d)
      BY <1>0, <1>2, <2>2, <2>3 DEF Turns
    <2> QED BY <1>1, <1>5, <2>4
  <1>7. CASE it.type = "call"
    <2>1. PICK a, w : a = acc.seen \cup {it.call_id} /\ w = Append(acc.needing, it.call_id)
      OBVIOUS
    <2>2. d = [acc EXCEPT !.turns = u, !.seen = a, !.needing = w]
      BY <1>0, <1>1, <1>5, <1>7, <2>1 DEF AnthropicItem
    <2>3. it.call_id \in Ids
      BY <1>7, EntryIs
    <2>4. /\ w \in Seq(Ids) /\ Len(w) = Len(acc.needing) + 1 /\ Len(acc.needing) \in Nat
          /\ w[Len(acc.needing) + 1] = it.call_id
          /\ \A i \in 1..Len(acc.needing) : w[i] = acc.needing[i]
      BY <1>0, <2>1, <2>3
    <2>5. a \in SUBSET Ids
      BY <1>0, <2>1, <2>3
    <2>6. d \in R /\ d.turns = u /\ d.seen = a /\ d.needing = w /\ d.failed = FALSE
      BY <1>0, <1>2, <2>2, <2>4, <2>5
    <2>7. Calls(r) = Calls(s) \cup {it.call_id} /\ Outputs(r) = Outputs(s)
      BY <1>3, <1>7
    <2>8. it.call_id \notin Outputs(s)
      BY <1>4, <1>7 DEF Fits
    <2>9. ASSUME NEW i \in 1..Len(w) PROVE w[i] \in Calls(r) \ Outputs(r)
      <3>1. i \in 1..Len(acc.needing) \/ i = Len(acc.needing) + 1
        BY <2>4
      <3> QED BY <1>0, <2>4, <2>7, <2>8, <3>1
    <2>10. Turns(r, d)
      BY <1>0, <1>2, <2>1, <2>6, <2>7, <2>9 DEF Turns
    <2> QED BY <1>1, <1>5, <2>10
  <1>8. CASE it.type = "output"
    <2>0. it.call_id \in acc.seen
      BY <1>0, <1>8, IdsAt DEF Fits, Calls
    <2>1. PICK P : P = {i \in 1..Len(acc.needing) : acc.needing[i] # it.call_id}
      OBVIOUS
    <2>2. PICK w : w = Only(acc.needing, P)
      OBVIOUS
    <2>3. d = [acc EXCEPT !.turns = u, !.needing = w]
      BY <1>0, <1>1, <1>5, <1>8, <2>0, <2>1, <2>2 DEF AnthropicItem
    <2>4. w \in Seq(Ids) /\ \A i \in 1..Len(w) : \E j \in 1..Len(acc.needing) : j \in P /\ w[i] = acc.needing[j]
      <3>1. PICK v : v = acc.needing
        OBVIOUS
      <3>2. v \in Seq(Ids) /\ w = Only(v, P)
        BY <1>0, <2>2, <3>1
      <3>3. w \in Seq(Ids)
        BY <3>2, OnlyHolds
      <3>4. \A i \in 1..Len(w) : \E j \in 1..Len(v) : j \in P /\ w[i] = v[j]
        BY <3>2, OnlyHolds
      <3> QED BY <3>1, <3>3, <3>4
    <2>5. d \in R /\ d.turns = u /\ d.seen = acc.seen /\ d.needing = w /\ d.failed = FALSE
      BY <1>0, <1>2, <2>3, <2>4
    <2>6. Calls(r) = Calls(s) /\ Outputs(r) = Outputs(s) \cup {it.call_id}
      BY <1>3, <1>8
    <2>7. ASSUME NEW i \in 1..Len(w) PROVE w[i] \in Calls(r) \ Outputs(r)
      <3>1. PICK j \in 1..Len(acc.needing) : j \in P /\ w[i] = acc.needing[j]
        BY <2>4
      <3> QED BY <1>0, <2>1, <2>6, <3>1
    <2>8. Turns(r, d)
      BY <1>0, <1>2, <2>5, <2>6, <2>7 DEF Turns
    <2> QED BY <1>1, <1>5, <2>8
  <1> QED BY <1>6, <1>7, <1>8, EntryIs

LEMMA TurnsAll ==
    ASSUME NEW x \in Seq(Entry), Clean(x), Supported(x)
    PROVE  Turns(x, FoldLeft(AnthropicItem, AnthropicStart, x))
  <1>1. PICK f : /\ States(f, "anthropic", AnthropicStart, x)
                 /\ FoldLeft(AnthropicItem, AnthropicStart, x) = f[Len(x)]
    BY AnthropicLoop
  <1>2. /\ SubSeq(x, 1, Len(x)) = x /\ SubSeq(x, 1, 0) = <<>>
        /\ Len(x) \in Nat /\ Len(x) \in 0..Len(x) /\ 0 \in 0..Len(x)
    BY AllItems
  <1> DEFINE S == {k \in 0..Len(x) : Turns(SubSeq(x, 1, k), f[k])}
  <1>3. 0 \in S
    BY <1>1, <1>2, TurnsStart DEF States
  <1>4. ASSUME NEW k \in 0..(Len(x) - 1), k \in S PROVE k + 1 \in S
    <2>1. PICK s, it, acc : s = SubSeq(x, 1, k) /\ it = x[k + 1] /\ acc = f[k]
      OBVIOUS
    <2>2. /\ SubSeq(x, 1, k + 1) = Append(s, it) /\ s \in Seq(Entry) /\ it \in Entry
          /\ k + 1 \in 1..Len(x) /\ k + 1 \in 0..Len(x)
      BY <2>1, FirstItems
    <2>3. Clean(s) /\ Fits(s, it)
      BY <2>1, CleanFits
    <2>4. it.type # "unsupported"
      BY <2>1, <2>2 DEF Supported
    <2>5. f[k + 1] = AnthropicItem(acc, it)
      BY <1>1, <2>1 DEF States, Translate
    <2>6. Turns(s, acc)
      BY <1>4, <2>1
    <2>7. Turns(Append(s, it), AnthropicItem(acc, it))
      BY <2>2, <2>3, <2>4, <2>6, TurnsItem
    <2> QED BY <2>2, <2>5, <2>7
  <1>5. Len(x) \in S
    <2> HIDE DEF S
    <2> QED BY <1>2, <1>3, <1>4, UpTo
  <1> QED BY <1>1, <1>2, <1>5

LEMMA NothingPushed ==
    ASSUME NEW t
    PROVE  FoldLeft(PushBlock, t, <<>>) = t
  <1>1. PICK q : q = <<>>
    OBVIOUS
  <1> DEFINE D == DOMAIN q
             iter == CHOOSE g : g = [s \in SUBSET D |->
                       IF s = {} THEN t ELSE PushBlock(g[s \ {Max(s)}], q[Max(s)])]
  <1>2. D = {}
    BY <1>1
  <1>3. FoldLeft(PushBlock, t, q) = iter[D]
    BY DEF FoldLeft, MapThenFoldSet
  <1> HIDE DEF D
  <1>4. PICK g : g = [s \in SUBSET D |-> t]
    OBVIOUS
  <1>5. \A s \in SUBSET D : s = {}
    BY <1>2
  <1>6. g = [s \in SUBSET D |-> IF s = {} THEN t ELSE PushBlock(g[s \ {Max(s)}], q[Max(s)])]
    BY <1>4, <1>5
  <1>7. iter = [s \in SUBSET D |-> IF s = {} THEN t ELSE PushBlock(iter[s \ {Max(s)}], q[Max(s)])]
    BY <1>6
  <1> HIDE DEF iter
  <1>8. iter[D] = t
    BY <1>2, <1>7
  <1> QED BY <1>1, <1>3, <1>8

\* Turns that hold the items of a clean history whose calls are all answered.
LEMMA PlacedAnswered ==
    ASSUME NEW x \in Seq(Entry), Clean(x), Calls(x) \subseteq Outputs(x),
           NEW t, NEW T, NEW B, Placed(x, t, T, B)
    PROVE  AnthropicAnswered(t)
  <1>1. Alternates(t) /\ t \in Seq(Turn) /\ Len(t) \in Nat /\ Len(x) \in Nat
    BY DEF Placed
  <1>2. ASSUME NEW k \in 1..Len(t), NEW b \in ToSet(t[k].blocks), b.type = "call"
        PROVE  LET results == UNION {{<<l, j>> : j \in OutputsOf(t[l].blocks, b.call_id)} :
                                       l \in 1..Len(t)}
               IN  /\ Cardinality(results) = 1
                   /\ \A r \in results : r[1] > k /\ t[r[1]].blocks[r[2]].of \in {0, b.of}
    <2> DEFINE results == UNION {{<<l, j>> : j \in OutputsOf(t[l].blocks, b.call_id)} : l \in 1..Len(t)}
    <2>1. t[k].blocks \in Seq(Entry)
      <3>1. t[k] \in Turn
        BY <1>1
      <3> QED BY <3>1 DEF Turn
    <2>2. PICK c \in 1..Len(t[k].blocks) : t[k].blocks[c] = b
      BY <2>1 DEF ToSet
    <2>3. PICK p \in 1..Len(x) : T[p] = k /\ B[p] = c
      BY <2>2 DEF Placed
    <2>4. x[p] = b /\ t[k].role = TurnRole(b)
      BY <2>2, <2>3 DEF Placed
    <2>5. b.call_id \in Outputs(x)
      BY <1>2, <2>4, IdsAt DEF Calls
    <2>6. PICK q \in 1..Len(x) : x[q].type = "output" /\ x[q].call_id = b.call_id
      BY <2>5, IdsAt DEF Outputs
    <2>7. p < q /\ x[q].of \in {0, b.of}
      <3>1. PICK i \in 1..(q - 1) : /\ x[i].type = "call" /\ x[i].call_id = x[q].call_id
                                    /\ x[q].of \in {0, x[i].of}
        BY <2>6 DEF Clean, Follows
      <3>2. i \in 1..Len(x) /\ i < q
        BY <1>1
      <3>3. i = p
        BY <1>2, <2>4, <2>6, <3>1, <3>2 DEF Clean, Distinct
      <3> QED BY <2>4, <3>1, <3>2, <3>3
    <2>8. PICK l, j : l = T[q] /\ j = B[q]
      OBVIOUS
    <2>9. /\ l \in 1..Len(t) /\ j \in 1..Len(t[l].blocks) /\ t[l].blocks[j] = x[q]
          /\ t[l].role = TurnRole(x[q])
      BY <2>8 DEF Placed
    <2>10. l > k
      <3>1. k <= l
        BY <2>3, <2>7, <2>8 DEF Placed
      <3>2. x[p] \in Entry /\ x[q] \in Entry
        OBVIOUS
      <3>3. b.role = "assistant" /\ x[q].role = "tool"
        BY <1>2, <2>4, <2>6, <3>2, EntryIs
      <3>4. t[k].role = "assistant" /\ t[l].role = "user"
        BY <2>4, <2>9, <3>3 DEF TurnRole
      <3>5. k # l
        BY <3>4
      <3> QED BY <1>1, <2>9, <3>1, <3>5
    <2>11. j \in OutputsOf(t[l].blocks, b.call_id)
      BY <2>6, <2>9 DEF OutputsOf
    <2>12. ASSUME NEW l2 \in 1..Len(t), NEW j2 \in OutputsOf(t[l2].blocks, b.call_id)
           PROVE  l2 = l /\ j2 = j
      <3>1. /\ j2 \in 1..Len(t[l2].blocks) /\ t[l2].blocks[j2].type = "output"
            /\ t[l2].blocks[j2].call_id = b.call_id
        BY DEF OutputsOf
      <3>2. PICK i \in 1..Len(x) : T[i] = l2 /\ B[i] = j2
        BY <3>1 DEF Placed
      <3>3. x[i] = t[l2].blocks[j2]
        BY <3>2 DEF Placed
      <3>4. i = q
        BY <2>6, <3>1, <3>3 DEF Clean, Distinct
      <3> QED BY <2>8, <3>2, <3>4
    <2>13. results = {<<l, j>>}
      <3>1. <<l, j>> \in results
        BY <2>9, <2>11
      <3>2. ASSUME NEW r \in results PROVE r = <<l, j>>
        <4>1. PICK l2 \in 1..Len(t) : r \in {<<l2, j2>> : j2 \in OutputsOf(t[l2].blocks, b.call_id)}
          BY <3>2
        <4>2. PICK j2 \in OutputsOf(t[l2].blocks, b.call_id) : r = <<l2, j2>>
          BY <4>1
        <4> QED BY <2>12, <4>2
      <3> HIDE DEF results
      <3> QED BY <3>1, <3>2
    <2> HIDE DEF results
    <2>14. Cardinality(results) = 1
      BY <2>13, FS_Singleton
    <2>15. ASSUME NEW r \in results PROVE r[1] > k /\ t[r[1]].blocks[r[2]].of \in {0, b.of}
      <3>1. r = <<l, j>>
        BY <2>13, <2>15
      <3>2. r[1] = l /\ r[2] = j
        BY <3>1
      <3> QED BY <2>7, <2>9, <2>10, <3>2
    <2> QED BY <2>14, <2>15 DEF results
  <1> QED BY <1>1, <1>2 DEF AnthropicAnswered

\* Every Anthropic request: the turns alternate, and each call has exactly one
\* result, its own or an invented one, in a later turn.
THEOREM AnthropicRequestsAreAnswered ==
    ASSUME NamesCalls \subseteq {TRUE}
    PROVE  Spec => []AnthropicRequestsAnswered
  <1>1. RequestInv => AnthropicRequestsAnswered
    <2> SUFFICES ASSUME RequestInv, MayRequest
                 PROVE  AnthropicAnswered(BuildAnthropic(ForPrompt(History)).turns)
      BY DEF AnthropicRequestsAnswered
    <2>1. PICK x, e : x = History /\ e = ForPrompt(x)
      OBVIOUS
    <2>2. x \in Seq(Entry) /\ Clean(x)
      BY <2>1 DEF RequestInv, HistoryInv, TypeInv, NamedInv, History
    <2>3. Supported(x)
      <3>1. ~HardFails(x)
        BY <2>1 DEF MayRequest
      <3> QED BY <2>2, <3>1, ChatRequest
    <2>4. /\ e \in Seq(Entry) /\ Clean(e) /\ Calls(e) \subseteq Outputs(e)
          /\ Supported(e) <=> Supported(x)
      BY <2>1, <2>2, ForPromptIs
    <2>5. PICK acc : acc = FoldLeft(AnthropicItem, AnthropicStart, e)
      OBVIOUS
    <2>6. Turns(e, acc)
      BY <2>3, <2>4, <2>5, TurnsAll
    <2>7. acc.needing = <<>> /\ Len(acc.needing) = 0
      <3>1. acc.needing \in Seq(Ids) /\ \A i \in 1..Len(acc.needing) : acc.needing[i] \in Calls(e) \ Outputs(e)
        BY <2>6 DEF Turns
      <3>2. \A i \in 1..Len(acc.needing) : FALSE
        BY <2>4, <3>1
      <3>3. Len(acc.needing) = 0
        BY <3>1, <3>2
      <3> QED BY <3>1, <3>3
    <2>8. [i \in 1..Len(acc.needing) |-> Output(acc.needing[i], 0)] = <<>>
      BY <2>7
    <2>9. BuildAnthropic(e).turns = FoldLeft(PushBlock, acc.turns, <<>>)
      BY <2>5, <2>8 DEF BuildAnthropic
    <2>10. BuildAnthropic(e).turns = acc.turns
      BY <2>9, NothingPushed
    <2>11. PICK T, B : Placed(e, acc.turns, T, B)
      BY <2>6 DEF Turns
    <2>12. AnthropicAnswered(acc.turns)
      BY <2>4, <2>11, PlacedAnswered
    <2> QED BY <2>1, <2>10, <2>12
  <1> QED BY <1>1, RequestsAreOrdered, PTL

=============================================================================
