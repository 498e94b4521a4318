--------------------------- MODULE CompressProofs ---------------------------
(***************************************************************************)
(* Proofs about Compress for every set of texts and calls and every        *)
(* configuration of the store: what each segment of a request satisfies    *)
(* (the final gate, and the store's rule that a lossy text has a path),    *)
(* the bound on the thread's directory, that a request repeats the one     *)
(* before it, and that the paths a request mentions exist.                 *)
(***************************************************************************)
EXTENDS Compress, FiniteSetTheorems, WellFoundedInduction, TLAPS

(* What every segment of a request satisfies. *)
GoodSegment(s) ==
  /\ s.size <= Size(s.text)
  /\ CcrEnabled /\ s.lost /\ ~IsToon(s.form) => s.ptr

OutInv == \E S : out \in Seq(S) /\ \A s \in S : GoodSegment(s)

Items == [call : Calls, text : Texts, cmd : Hints]

Files == [path : Calls \X Texts, mtime : 1..MaxRequests]

(* The store: the directory is finite, and bounded while no file operation  *)
(* has failed.                                                              *)
StoreInv ==
  /\ registry \subseteq Calls \X Texts
  /\ files \subseteq Files
  /\ \A f \in files : f.mtime <= requests
  /\ IsFiniteSet(files)
  /\ faults \in 0..MaxFaults
  /\ faults = 0 => Cardinality(files) <= MaxFiles + 1

(* The inductive invariant. *)
IInv ==
  /\ sending \in BOOLEAN
  /\ requests \in 0..MaxRequests
  /\ sending => requests > 0
  /\ history \in Seq(Items)
  /\ OutInv
  /\ StoreInv

-----------------------------------------------------------------------------
(* A text has a size. *)
LEMMA ProfileTypes ==
  ASSUME NEW t \in Texts
  PROVE  Size(t) \in Nat
  BY CompressAssumption DEF CompressAssumption, Size

(* The bounds are numbers. *)
LEMMA BoundTypes ==
  /\ MaxFiles \in Nat /\ MaxRequests \in Nat /\ MaxFaults \in Nat /\ MaxHistory \in Nat
  BY CompressAssumption DEF CompressAssumption

(* Appending a good segment keeps all segments good. *)
LEMMA AppendGood ==
  ASSUME OutInv, NEW x, GoodSegment(x), out' = Append(out, x)
  PROVE  OutInv'
<1>1. PICK S : out \in Seq(S) /\ \A s \in S : GoodSegment(s)
  BY DEF OutInv
<1> DEFINE T == S \cup {x}
<1>2. out \in Seq(T)
  BY <1>1
<1>3. Append(out, x) \in Seq(T)
  BY <1>2
<1>4. \A s \in T : GoodSegment(s)
  BY <1>1
<1>5. (\A s \in T : GoodSegment(s))'
  BY <1>4 DEF GoodSegment, IsToon, Size
<1>6. out' \in Seq(T)
  BY <1>3
<1> QED
  BY <1>5, <1>6 DEF OutInv

(* The original itself is always good. *)
LEMMA OriginalGood ==
  ASSUME NEW item \in Items
  PROVE  GoodSegment(Original(item)) /\ Original(item).size = Size(item.text)
<1>1. item.text \in Texts
  BY DEF Items
<1> QED
  BY <1>1, ProfileTypes DEF GoodSegment, Original, Segment

(* The final gate: what is written back is good when the product, were it   *)
(* small enough, keeps the rule on lossy texts.                             *)
LEMMA WriteBackGood ==
  ASSUME OutInv, NEW item \in Items, NEW form, NEW ptr \in BOOLEAN, NEW lost \in BOOLEAN, NEW size,
         WriteBack(item, Segment(item, form, ptr, lost, size)),
         CcrEnabled /\ lost /\ ~IsToon(form) => ptr
  PROVE  OutInv'
<1> DEFINE product == Segment(item, form, ptr, lost, size)
<1>1. CASE size <= Size(item.text)
  <2>1. GoodSegment(product)
    BY <1>1 DEF GoodSegment, Segment
  <2>2. out' = Append(out, product)
    BY <1>1 DEF WriteBack, Segment
  <2> QED
    BY <2>1, <2>2, AppendGood
<1>2. CASE ~(size <= Size(item.text))
  <2>1. out' = Append(out, Original(item))
    BY <1>2 DEF WriteBack, Segment
  <2> QED
    BY <2>1, OriginalGood, AppendGood
<1> QED
  BY <1>1, <1>2

(* So is the request after the original was kept.                           *)
LEMMA WriteBackOriginalGood ==
  ASSUME OutInv, NEW item \in Items, WriteBack(item, Original(item))
  PROVE  OutInv'
<1>1. out' = Append(out, Original(item))
  BY DEF WriteBack
<1> QED
  BY <1>1, OriginalGood, AppendGood

-----------------------------------------------------------------------------
(* Without stuck files enforce_limits leaves at most MaxFiles files.        *)
LEMMA EvictionBound ==
  ASSUME IsFiniteSet(files), NEW gone \in Evictions(files, {})
  PROVE  Cardinality(files \ gone) <= MaxFiles
<1>1. CASE ~OverLimits(files \ gone)
  <2>1. IsFiniteSet(files \ gone)
    BY FS_Difference
  <2>2. Cardinality(files \ gone) \in Nat
    BY <2>1, FS_CardinalityType
  <2> QED
    BY <1>1, <2>2, BoundTypes DEF OverLimits
<1>2. CASE gone = files \ {}
  <2>1. files \ gone = {}
    BY <1>2
  <2> QED
    BY <2>1, FS_EmptySet, BoundTypes
<1> QED
  BY <1>1, <1>2 DEF Evictions

(* Writing a file adds at most one.                                         *)
LEMMA ReplaceBound ==
  ASSUME NEW fs, IsFiniteSet(fs), NEW path
  PROVE  /\ IsFiniteSet(Replace(fs, path))
         /\ Cardinality(Replace(fs, path)) <= Cardinality(fs) + 1
<1> DEFINE rest == {f \in fs : f.path # path}
           new == [path |-> path, mtime |-> requests]
<1>1. IsFiniteSet(rest) /\ Cardinality(rest) <= Cardinality(fs)
  <2>1. rest \subseteq fs
    OBVIOUS
  <2> QED
    BY <2>1, FS_Subset
<1>2. Replace(fs, path) = rest \cup {new}
  BY DEF Replace
<1> HIDE DEF rest, new
<1>3. /\ IsFiniteSet(rest \cup {new})
      /\ Cardinality(rest \cup {new}) = IF new \in rest THEN Cardinality(rest) ELSE Cardinality(rest) + 1
  BY <1>1, FS_AddElement
<1>4. Cardinality(rest) \in Nat /\ Cardinality(fs) \in Nat
  BY <1>1, FS_CardinalityType
<1> QED
  BY <1>1, <1>2, <1>3, <1>4

(* The directory after room was made and, perhaps, a file written.          *)
LEMMA StoreStep ==
  ASSUME StoreInv, requests \in 0..MaxRequests, requests > 0,
         NEW c \in Calls, NEW t \in Texts,
         NEW gone \in SUBSET files,
         files' \in {files \ gone, Replace(files \ gone, <<c, t>>)},
         faults' \in faults..MaxFaults,
         faults' = 0 => Cardinality(files \ gone) <= MaxFiles,
         registry' \in {registry, registry \cup {<<c, t>>}},
         requests' = requests
  PROVE  StoreInv'
<1> DEFINE left == files \ gone
           p == <<c, t>>
<1>1. IsFiniteSet(left) /\ Cardinality(left) \in Nat
  BY FS_Difference, FS_CardinalityType DEF StoreInv
<1>2. p \in Calls \X Texts
  OBVIOUS
<1>3. /\ left \subseteq Files
      /\ \A f \in left : f.mtime <= requests
  BY DEF StoreInv
<1>4. /\ Replace(left, p) \subseteq Files
      /\ \A f \in Replace(left, p) : f.mtime <= requests
  BY <1>2, <1>3, BoundTypes DEF Replace, Files
<1>5. /\ IsFiniteSet(Replace(left, p)) /\ Cardinality(Replace(left, p)) <= Cardinality(left) + 1
      /\ Cardinality(Replace(left, p)) \in Nat
  BY <1>1, ReplaceBound, FS_CardinalityType
<1>6. faults' \in 0..MaxFaults
  BY BoundTypes DEF StoreInv
<1>7. registry' \subseteq Calls \X Texts
  BY <1>2 DEF StoreInv
<1>8. files' = left \/ files' = Replace(left, p)
  OBVIOUS
<1> HIDE DEF left, p
<1>9. IsFiniteSet(files') /\ files' \subseteq Files /\ \A f \in files' : f.mtime <= requests'
  BY <1>1, <1>3, <1>4, <1>5, <1>8
<1>10. faults' = 0 => Cardinality(files') <= MaxFiles + 1
  <2> SUFFICES ASSUME faults' = 0 PROVE Cardinality(files') <= MaxFiles + 1
    OBVIOUS
  <2>1. Cardinality(left) <= MaxFiles
    BY DEF left
  <2> QED
    BY <2>1, <1>1, <1>5, <1>8, BoundTypes
<1> QED
  BY <1>6, <1>7, <1>9, <1>10 DEF StoreInv, Files


(* A segment that does not reach the store leaves it alone.                 *)
LEMMA NoStoreKeeps ==
  ASSUME StoreInv, NoStore, requests' = requests
  PROVE  StoreInv'
  BY DEF StoreInv, NoStore, Files

(* Reusing, writing and failing to write keep the store's invariant.        *)
LEMMA ReusedKeeps ==
  ASSUME StoreInv, NEW c, NEW t, Reused(c, t), requests' = requests
  PROVE  StoreInv'
  BY DEF StoreInv, Reused, Files

(* Writing makes room first; only stuck files, which are faults, can leave  *)
(* the directory above the bound.                                           *)
LEMMA WrittenKeeps ==
  ASSUME StoreInv, requests \in 0..MaxRequests, requests > 0, requests' = requests,
         NEW c \in Calls, NEW t \in Texts, Written(c, t)
  PROVE  StoreInv'
<1>1. PICK stuck \in SUBSET files :
        /\ faults' = faults + Cardinality(stuck)
        /\ faults' <= MaxFaults
        /\ \E gone \in Evictions(files, stuck) : files' = Replace(files \ gone, <<c, t>>)
  BY DEF Written
<1>2. PICK gone \in Evictions(files, stuck) : files' = Replace(files \ gone, <<c, t>>)
  BY <1>1
<1>3. gone \in SUBSET files
  BY <1>2 DEF Evictions
<1>4. IsFiniteSet(files) /\ faults \in Nat
  BY BoundTypes DEF StoreInv
<1>5. IsFiniteSet(stuck) /\ Cardinality(stuck) \in Nat
  BY <1>4, FS_Subset, FS_CardinalityType
<1>6. faults' \in faults..MaxFaults
  BY <1>1, <1>4, <1>5, BoundTypes
<1>7. faults' = 0 => Cardinality(files \ gone) <= MaxFiles
  <2> SUFFICES ASSUME faults' = 0 PROVE Cardinality(files \ gone) <= MaxFiles
    OBVIOUS
  <2>1. Cardinality(stuck) = 0
    BY <1>1, <1>4, <1>5
  <2>2. stuck = {}
    BY <2>1, <1>5, FS_EmptySet
  <2> QED
    BY <1>2, <1>4, <2>2, EvictionBound
<1>8. registry' = registry \cup {<<c, t>>}
  BY DEF Written
<1> QED
  BY <1>2, <1>3, <1>6, <1>7, <1>8, StoreStep

(* A failed write may leave any of three directories, all of them finite.   *)
LEMMA PersistFailsKeeps ==
  ASSUME StoreInv, requests \in 0..MaxRequests, requests > 0, requests' = requests,
         NEW c \in Calls, NEW t \in Texts, PersistFails(c, t)
  PROVE  StoreInv'
<1>1. faults \in Nat /\ faults' = faults + 1 /\ faults' <= MaxFaults
  BY BoundTypes DEF StoreInv, PersistFails
<1>2. faults' \in faults..MaxFaults /\ faults' # 0
  BY <1>1, BoundTypes
<1>3. registry' = registry
  BY DEF PersistFails
<1>4. CASE files' = files
  <2> DEFINE none == {}
  <2>1. none \in SUBSET files /\ files' = files \ none
    BY <1>4
  <2> HIDE DEF none
  <2>2. files' \in {files \ none, Replace(files \ none, <<c, t>>)}
    BY <2>1
  <2> QED
    BY <1>2, <1>3, <2>1, <2>2, StoreStep
<1>5. CASE \E gone \in Evictions(files, {}) :
             files' \in {files \ gone, Replace(files \ gone, <<c, t>>)}
  <2>1. PICK gone \in Evictions(files, {}) :
          files' \in {files \ gone, Replace(files \ gone, <<c, t>>)}
    BY <1>5
  <2>2. gone \in SUBSET files
    BY <2>1 DEF Evictions
  <2> QED
    BY <1>2, <1>3, <2>1, <2>2, StoreStep
<1> QED
  BY <1>4, <1>5 DEF PersistFails

(* ccr::attach keeps both parts of the invariant.                           *)
LEMMA AttachKeeps ==
  ASSUME StoreInv, OutInv, requests \in 0..MaxRequests, requests > 0, requests' = requests,
         NEW item \in Items, NEW form, NEW size, Attach(item, form, size)
  PROVE  StoreInv' /\ OutInv'
<1>0. item.call \in Calls /\ item.text \in Texts
  BY DEF Items
<1>1. CASE /\ ~CcrEnabled
           /\ NoStore
           /\ WriteBack(item, Segment(item, form, FALSE, TRUE, size))
  <2>1. OutInv'
    BY <1>1, WriteBackGood
  <2> QED
    BY <1>1, <2>1, NoStoreKeeps
<1>2. CASE NoStore /\ WriteBack(item, Original(item))
  BY <1>2, NoStoreKeeps, WriteBackOriginalGood
<1>3. CASE /\ Reused(item.call, item.text) \/ Written(item.call, item.text)
           /\ WriteBack(item, Segment(item, form, TRUE, TRUE, size + PointerSize))
  <2>1. OutInv'
    BY <1>3, WriteBackGood
  <2> QED
    BY <1>0, <1>3, <2>1, ReusedKeeps, WrittenKeeps
<1>4. CASE PersistFails(item.call, item.text) /\ WriteBack(item, Original(item))
  BY <1>0, <1>4, PersistFailsKeeps, WriteBackOriginalGood
<1> QED
  BY <1>1, <1>2, <1>3, <1>4 DEF Attach

-----------------------------------------------------------------------------
(* The invariant holds initially and is kept by every step.                 *)
LEMMA InitIInv == Init => IInv
<1> SUFFICES ASSUME Init PROVE IInv
  OBVIOUS
<1>1. OutInv
  <2>1. out \in Seq({})
    BY DEF Init
  <2> QED
    BY <2>1 DEF OutInv
<1>2. StoreInv
  BY FS_EmptySet, BoundTypes DEF Init, StoreInv
<1>3. history \in Seq(Items) /\ requests \in 0..MaxRequests /\ sending = FALSE
  BY BoundTypes DEF Init
<1> QED
  BY <1>1, <1>2, <1>3 DEF IInv

(* One case per action; only CompressItem touches the store.                *)
LEMMA NextIInv == IInv /\ [Next]_vars => IInv'
<1> SUFFICES ASSUME IInv, [Next]_vars PROVE IInv'
  OBVIOUS
<1> USE DEF IInv
<1>1. CASE \E c \in Calls, t \in Texts, cmd \in Hints : ToolOutput(c, t, cmd)
  <2>1. PICK c \in Calls, t \in Texts, cmd \in Hints : ToolOutput(c, t, cmd)
    BY <1>1
  <2>2. history' \in Seq(Items)
    BY <2>1 DEF ToolOutput, Items
  <2>3. OutInv' /\ StoreInv'
    BY <2>1 DEF ToolOutput, OutInv, GoodSegment, IsToon, Size, StoreInv, Files
  <2> QED
    BY <2>1, <2>2, <2>3 DEF ToolOutput
<1>2. CASE DropOldest
  <2>1. history' \in Seq(Items)
    BY <1>2 DEF DropOldest
  <2>2. OutInv' /\ StoreInv'
    BY <1>2 DEF DropOldest, OutInv, GoodSegment, IsToon, Size, StoreInv, Files
  <2> QED
    BY <1>2, <2>1, <2>2 DEF DropOldest
<1>3. CASE StartRequest
  <2>1. OutInv'
    <3>1. out' \in Seq({})
      BY <1>3 DEF StartRequest
    <3> QED
      BY <3>1 DEF OutInv
  <2>2. StoreInv'
    BY <1>3, BoundTypes DEF StartRequest, StoreInv, Files
  <2>3. requests' \in 0..MaxRequests /\ requests' > 0
    BY <1>3, BoundTypes DEF StartRequest
  <2> QED
    BY <1>3, <2>1, <2>2, <2>3 DEF StartRequest
<1>4. CASE CompressItem
  <2> DEFINE item == history[Len(out) + 1]
             t == item.text
             cmd == CmdIndex(item.call)
             hit == Hit(t, cmd)
             new == Profile[t].new_size
             pre == Profile[t].pre_size
             pre_lossy == Profile[t].pre_lossy
  <2>1. Len(out) \in Nat
    BY DEF OutInv
  <2>2. item \in Items
    BY <1>4, <2>1 DEF CompressItem
  <2>3. pre_lossy \in BOOLEAN
    BY <2>2, CompressAssumption DEF CompressAssumption, Items
  <2>4. requests > 0 /\ requests' = requests
    BY <1>4 DEF CompressItem
  <2>5. \/ NoStore /\ WriteBack(item, Original(item))
        \/ /\ IsToon(hit)
           /\ NoStore
           /\ WriteBack(item, Segment(item, hit, FALSE, pre_lossy, new))
        \/ Attach(item, hit, new)
        \/ Attach(item, "preprocessed", pre)
        \/ NoStore /\ WriteBack(item, Segment(item, "preprocessed", FALSE, FALSE, pre))
    BY <1>4 DEF CompressItem
  <2> HIDE DEF item, hit, new, pre, pre_lossy
  <2>6. StoreInv' /\ OutInv'
    <3>1. CASE NoStore /\ WriteBack(item, Original(item))
      BY <2>2, <2>4, <3>1, NoStoreKeeps, WriteBackOriginalGood
    <3>2. CASE /\ IsToon(hit)
               /\ NoStore
               /\ WriteBack(item, Segment(item, hit, FALSE, pre_lossy, new))
      BY <2>2, <2>3, <2>4, <3>2, NoStoreKeeps, WriteBackGood
    <3>3. CASE Attach(item, hit, new)
      BY <2>2, <2>4, <3>3, AttachKeeps
    <3>4. CASE Attach(item, "preprocessed", pre)
      BY <2>2, <2>4, <3>4, AttachKeeps
    <3>5. CASE NoStore /\ WriteBack(item, Segment(item, "preprocessed", FALSE, FALSE, pre))
      BY <2>2, <2>4, <3>5, NoStoreKeeps, WriteBackGood
    <3> QED
      BY <2>5, <3>1, <3>2, <3>3, <3>4, <3>5
  <2> QED
    BY <1>4, <2>6 DEF CompressItem
<1>5. CASE Sent
  <2>1. OutInv' /\ StoreInv'
    BY <1>5 DEF Sent, OutInv, GoodSegment, IsToon, Size, StoreInv, Files
  <2> QED
    BY <1>5, <2>1 DEF Sent
<1>6. CASE UNCHANGED vars
  <2>1. OutInv' /\ StoreInv'
    BY <1>6 DEF vars, OutInv, GoodSegment, IsToon, Size, StoreInv, Files
  <2> QED
    BY <1>6, <2>1 DEF vars
<1> QED
  BY <1>1, <1>2, <1>3, <1>4, <1>5, <1>6 DEF Next

(* What each part of the invariant gives.                                   *)
LEMMA IInvGives == IInv => TypeOK /\ LossyTextHasPath /\ DirectoryBounded
<1> SUFFICES ASSUME IInv PROVE TypeOK /\ LossyTextHasPath /\ DirectoryBounded
  OBVIOUS
<1>1. PICK S : out \in Seq(S) /\ \A s \in S : GoodSegment(s)
  BY DEF IInv, OutInv
<1>2. \A i \in 1..Len(out) : GoodSegment(out[i])
  BY <1>1
<1>3. LossyTextHasPath
  BY <1>2 DEF LossyTextHasPath, GoodSegment
<1>4. \A i \in 1..Len(out) : out[i].size <= Size(out[i].text)
  BY <1>2 DEF GoodSegment
<1>5. DirectoryBounded
  BY DEF IInv, StoreInv, DirectoryBounded
<1>6. \A f \in files : f.path \in Calls \X Texts /\ f.mtime \in 1..requests
  BY BoundTypes DEF IInv, StoreInv, Files
<1> QED
  BY <1>3, <1>4, <1>5, <1>6 DEF TypeOK, IInv, StoreInv

(* The variables keep their types, and nothing is ever sent that is larger  *)
(* than the original (the write-back gate of compress_in_place), for every  *)
(* set of texts and every configuration.                                    *)
THEOREM CompressTypeCorrect == Spec => []TypeOK
<1>1. IInv => TypeOK
  BY IInvGives
<1> QED
  BY <1>1, InitIInv, NextIInv, PTL DEF Spec

(* ccr::attach: with the store enabled, a text product that lost content    *)
(* carries the path of its original, whatever file operations fail.         *)
THEOREM LossyHasPath == Spec => []LossyTextHasPath
<1>1. IInv => LossyTextHasPath
  BY IInvGives
<1> QED
  BY <1>1, InitIInv, NextIInv, PTL DEF Spec

(* enforce_limits before the write: the directory never holds more than one *)
(* file above its limit unless a file operation failed.                     *)
THEOREM DirectoryStaysBounded == Spec => []DirectoryBounded
<1>1. IInv => DirectoryBounded
  BY IInvGives
<1> QED
  BY <1>1, InitIInv, NextIInv, PTL DEF Spec

-----------------------------------------------------------------------------
(* Sums over finite sets.  MapThenSumSet adds in some order; a sum is       *)
(* counted as a set of units, w[x] pairs for each x, which knows no order.  *)

Units(w, S) == {u \in S \X Nat : u[2] \in 1..w[u[1]]}
One(s) == CHOOSE x \in s : TRUE
AddsUp(g, w, S) == g = [s \in SUBSET S |-> IF s = {} THEN 0 ELSE w[One(s)] + g[s \ {One(s)}]]

(* A set of subsets of a finite set has a member none of the others is in.  *)
LEMMA SmallestSubset ==
  ASSUME NEW S, IsFiniteSet(S), NEW T \in SUBSET (SUBSET S), T # {}
  PROVE  \E s \in T : \A r \in T : r \subseteq s => r = s
<1>1. \A r \in T : IsFiniteSet(r) /\ r \subseteq S
  BY FS_Subset
<1>2. T \subseteq FiniteSubsetsOf(S)
  BY <1>1 DEF FiniteSubsetsOf
<1>3. PICK s \in T : \A r \in T : ~(<<r, s>> \in StrictSubsetOrdering(S))
  BY <1>2, FS_StrictSubsetOrderingWellFounded, WFMin
<1>4. ASSUME NEW r \in T, r \subseteq s, r # s PROVE FALSE
  <2>1. <<r, s>> \in (SUBSET S) \X (SUBSET S)
    BY <1>1
  <2>2. <<r, s>> \in StrictSubsetOrdering(S)
    BY <1>4, <2>1 DEF StrictSubsetOrdering
  <2> QED
    BY <1>3, <2>2
<1> QED
  BY <1>4

(* The units of one element. *)
LEMMA UnitsOfOne ==
  ASSUME NEW x, NEW w, w[x] \in Nat
  PROVE  IsFiniteSet(Units(w, {x})) /\ Cardinality(Units(w, {x})) = w[x]
<1> DEFINE f == [i \in 1..w[x] |-> <<x, i>>]
<1>1. f \in Bijection(1..w[x], Units(w, {x}))
  <2>1. \A i \in 1..w[x] : f[i] \in Units(w, {x})
    BY DEF Units
  <2>2. \A u \in Units(w, {x}) : u = f[u[2]] /\ u[2] \in 1..w[x]
    BY DEF Units
  <2>3. f \in [1..w[x] -> Units(w, {x})]
    BY <2>1
  <2>4. f \in Injection(1..w[x], Units(w, {x}))
    BY <2>3 DEF Injection, IsInjective
  <2>5. f \in Surjection(1..w[x], Units(w, {x}))
    BY <2>2, <2>3 DEF Surjection
  <2> QED
    BY <2>4, <2>5 DEF Bijection
<1>2. ExistsBijection(1..w[x], Units(w, {x}))
  BY <1>1 DEF ExistsBijection
<1>3. IsFiniteSet(1..w[x]) /\ Cardinality(1..w[x]) = w[x]
  BY FS_Interval, SMTT(30)
<1> QED
  BY <1>2, <1>3, FS_Bijection

(* Taking one element away takes its units away. *)
LEMMA UnitsLess ==
  ASSUME NEW S, NEW w \in [S -> Nat], NEW s \in SUBSET S, NEW x \in s,
         IsFiniteSet(Units(w, s \ {x}))
  PROVE  /\ IsFiniteSet(Units(w, s))
         /\ Cardinality(Units(w, s)) = w[x] + Cardinality(Units(w, s \ {x}))
<1> DEFINE A == Units(w, {x})
           B == Units(w, s \ {x})
<1>1. IsFiniteSet(A) /\ Cardinality(A) = w[x] /\ w[x] \in Nat
  BY UnitsOfOne
<1>2. Units(w, s) = A \cup B /\ A \cap B = {}
  BY DEF Units
<1>3. IsFiniteSet(B) /\ Cardinality(B) \in Nat
  BY FS_CardinalityType
<1>4. IsFiniteSet(A \cup B) /\ Cardinality(A \cup B) = Cardinality(A) + Cardinality(B) - Cardinality(A \cap B)
  BY <1>1, <1>3, FS_Union
<1>5. Cardinality(A \cap B) = 0
  BY <1>2, FS_EmptySet
<1> HIDE DEF A, B
<1>6. IsFiniteSet(A \cup B) /\ Cardinality(A \cup B) = w[x] + Cardinality(B)
  BY <1>1, <1>3, <1>4, <1>5
<1> QED
  BY <1>2, <1>6 DEF B

(* The units of a finite set are finitely many. *)
LEMMA UnitsFinite ==
  ASSUME NEW S, IsFiniteSet(S), NEW w \in [S -> Nat], NEW s \in SUBSET S
  PROVE  IsFiniteSet(Units(w, s)) /\ Cardinality(Units(w, s)) \in Nat
<1> DEFINE T == {r \in SUBSET S : ~IsFiniteSet(Units(w, r))}
<1>1. ASSUME T # {} PROVE FALSE
  <2>0. T \in SUBSET (SUBSET S)
    OBVIOUS
  <2> HIDE DEF T
  <2>1. PICK r \in T : \A q \in T : q \subseteq r => q = r
    BY <1>1, <2>0, SmallestSubset
  <2> USE DEF T
  <2>2. r # {}
    <3>1. Units(w, {}) = {}
      BY DEF Units
    <3> QED
      BY <3>1, FS_EmptySet
  <2>3. PICK x : x \in r
    BY <2>2
  <2>4. r \ {x} \notin T /\ r \ {x} \in SUBSET S
    BY <2>1, <2>3
  <2>5. IsFiniteSet(Units(w, r \ {x}))
    BY <2>4
  <2> QED
    BY <2>1, <2>3, <2>5, UnitsLess
<1>2. IsFiniteSet(Units(w, s))
  BY <1>1
<1> QED
  BY <1>2, FS_CardinalityType

(* A function that adds up the weights one element after the other counts   *)
(* the units.                                                               *)
LEMMA AddingCounts ==
  ASSUME NEW S, IsFiniteSet(S), NEW w \in [S -> Nat],
         NEW g, AddsUp(g, w, S)
  PROVE  g[S] = Cardinality(Units(w, S))
<1> DEFINE T == {r \in SUBSET S : g[r] # Cardinality(Units(w, r))}
<1>1. ASSUME T # {} PROVE FALSE
  <2>0. T \in SUBSET (SUBSET S)
    OBVIOUS
  <2> HIDE DEF T
  <2>1. PICK r \in T : \A q \in T : q \subseteq r => q = r
    BY <1>1, <2>0, SmallestSubset
  <2> USE DEF T
  <2>2. r # {}
    <3>1. Units(w, {}) = {}
      BY DEF Units
    <3>2. g[{}] = 0
      BY DEF AddsUp
    <3> QED
      BY <3>1, <3>2, FS_EmptySet
  <2>3. One(r) \in r
    BY <2>2 DEF One
  <2>4. r \ {One(r)} \notin T /\ r \ {One(r)} \in SUBSET S
    BY <2>1, <2>3
  <2>5. g[r \ {One(r)}] = Cardinality(Units(w, r \ {One(r)}))
    BY <2>4
  <2>6. g[r] = w[One(r)] + g[r \ {One(r)}]
    BY <2>1, <2>2 DEF AddsUp
  <2>7. IsFiniteSet(Units(w, r \ {One(r)}))
    BY <2>4, UnitsFinite
  <2>8. Cardinality(Units(w, r)) = w[One(r)] + Cardinality(Units(w, r \ {One(r)}))
    BY <2>1, <2>3, <2>7, UnitsLess
  <2> QED
    BY <2>1, <2>5, <2>6, <2>8
<1> QED
  BY <1>1

(* There is such a function. *)
LEMMA AddingExists ==
  ASSUME NEW S, IsFiniteSet(S), NEW w \in [S -> Nat]
  PROVE  \E g : AddsUp(g, w, S)
<1> DEFINE g == [s \in SUBSET S |-> Cardinality(Units(w, s))]
<1>1. ASSUME NEW s \in SUBSET S
      PROVE  g[s] = IF s = {} THEN 0 ELSE w[One(s)] + g[s \ {One(s)}]
  <2>1. CASE s = {}
    <3>1. Units(w, s) = {}
      BY <2>1 DEF Units
    <3> QED
      BY <2>1, <3>1, FS_EmptySet
  <2>2. CASE s # {}
    <3>1. One(s) \in s
      BY <2>2 DEF One
    <3>2. s \ {One(s)} \in SUBSET S
      OBVIOUS
    <3>3. IsFiniteSet(Units(w, s \ {One(s)}))
      BY <3>2, UnitsFinite
    <3>4. Cardinality(Units(w, s)) = w[One(s)] + Cardinality(Units(w, s \ {One(s)}))
      BY <3>1, <3>3, UnitsLess
    <3> QED
      BY <2>2, <3>2, <3>4
  <2> QED
    BY <2>1, <2>2
<1> HIDE DEF g
<1>2. g = [s \in SUBSET S |-> g[s]]
  BY DEF g
<1>3. g = [s \in SUBSET S |-> IF s = {} THEN 0 ELSE w[One(s)] + g[s \ {One(s)}]]
  BY <1>1, <1>2
<1> QED
  BY <1>3 DEF AddsUp

(* Bytes(fs) and PathBytes(ps) as numbers of units.                         *)
FileSizes(fs) == [f \in fs |-> Size(f.path[2])]
PathSizes(ps) == [p \in ps |-> Size(p[2])]

(* The bytes of a set of files are what the fold over it adds up, in        *)
(* whatever order it takes them.                                            *)
LEMMA BytesCount ==
  ASSUME NEW fs, IsFiniteSet(fs), \A f \in fs : Size(f.path[2]) \in Nat
  PROVE  /\ Bytes(fs) = Cardinality(Units(FileSizes(fs), fs))
         /\ IsFiniteSet(Units(FileSizes(fs), fs))
         /\ Bytes(fs) \in Nat
<1> DEFINE w == FileSizes(fs)
           Sum(g) == [s \in SUBSET fs |-> IF s = {} THEN 0 ELSE Size(One(s).path[2]) + g[s \ {One(s)}]]
           iter == CHOOSE g : g = Sum(g)
<1>1. w \in [fs -> Nat]
  BY DEF FileSizes
<1>2. \A s \in SUBSET fs : s # {} => One(s) \in s
  BY DEF One
<1>3. \A s \in SUBSET fs : s # {} => w[One(s)] = Size(One(s).path[2])
  BY <1>2 DEF FileSizes
<1>4. \A g : Sum(g) = [s \in SUBSET fs |-> IF s = {} THEN 0 ELSE w[One(s)] + g[s \ {One(s)}]]
  BY <1>3
<1>5. \E g : g = Sum(g)
  <2> HIDE DEF w, Sum
  <2>1. PICK g : AddsUp(g, w, fs)
    BY <1>1, AddingExists
  <2>2. g = Sum(g)
    BY <1>4, <2>1 DEF AddsUp
  <2> QED
    BY <2>2
<1>6. iter = Sum(iter)
  BY <1>5
<1>7. AddsUp(iter, w, fs)
  BY <1>4, <1>6 DEF AddsUp
<1>8. iter[fs] = Cardinality(Units(w, fs))
  BY <1>1, <1>7, AddingCounts
<1>9. Bytes(fs) = iter[fs]
  BY DEF Bytes, MapThenSumSet, MapThenFoldSet, One
<1>10. IsFiniteSet(Units(w, fs)) /\ Cardinality(Units(w, fs)) \in Nat
  BY <1>1, UnitsFinite
<1> QED
  BY <1>8, <1>9, <1>10

(* The same for the bytes of a set of paths.                                *)
LEMMA PathBytesCount ==
  ASSUME NEW ps, IsFiniteSet(ps), \A p \in ps : Size(p[2]) \in Nat
  PROVE  /\ PathBytes(ps) = Cardinality(Units(PathSizes(ps), ps))
         /\ IsFiniteSet(Units(PathSizes(ps), ps))
         /\ PathBytes(ps) \in Nat
<1> DEFINE w == PathSizes(ps)
           Sum(g) == [s \in SUBSET ps |-> IF s = {} THEN 0 ELSE Size(One(s)[2]) + g[s \ {One(s)}]]
           iter == CHOOSE g : g = Sum(g)
<1>1. w \in [ps -> Nat]
  BY DEF PathSizes
<1>2. \A s \in SUBSET ps : s # {} => One(s) \in s
  BY DEF One
<1>3. \A s \in SUBSET ps : s # {} => w[One(s)] = Size(One(s)[2])
  BY <1>2 DEF PathSizes
<1>4. \A g : Sum(g) = [s \in SUBSET ps |-> IF s = {} THEN 0 ELSE w[One(s)] + g[s \ {One(s)}]]
  BY <1>3
<1>5. \E g : g = Sum(g)
  <2> HIDE DEF w, Sum
  <2>1. PICK g : AddsUp(g, w, ps)
    BY <1>1, AddingExists
  <2>2. g = Sum(g)
    BY <1>4, <2>1 DEF AddsUp
  <2> QED
    BY <2>2
<1>6. iter = Sum(iter)
  BY <1>5
<1>7. AddsUp(iter, w, ps)
  BY <1>4, <1>6 DEF AddsUp
<1>8. iter[ps] = Cardinality(Units(w, ps))
  BY <1>1, <1>7, AddingCounts
<1>9. PathBytes(ps) = iter[ps]
  BY DEF PathBytes, MapThenSumSet, MapThenFoldSet, One
<1>10. IsFiniteSet(Units(w, ps)) /\ Cardinality(Units(w, ps)) \in Nat
  BY <1>1, UnitsFinite
<1> QED
  BY <1>8, <1>9, <1>10

UniquePaths(fs) == \A f, g \in fs : f.path = g.path => f = g

(* A larger set of paths has at least as many bytes.                        *)
LEMMA PathBytesMonotone ==
  ASSUME NEW qs, IsFiniteSet(qs), \A q \in qs : Size(q[2]) \in Nat, NEW ps \in SUBSET qs
  PROVE  PathBytes(ps) \in Nat /\ PathBytes(qs) \in Nat /\ PathBytes(ps) <= PathBytes(qs)
<1>1. IsFiniteSet(ps)
  BY FS_Subset
<1>2. Units(PathSizes(ps), ps) \subseteq Units(PathSizes(qs), qs)
  BY DEF Units, PathSizes
<1>3. /\ PathBytes(ps) = Cardinality(Units(PathSizes(ps), ps)) /\ PathBytes(ps) \in Nat
      /\ PathBytes(qs) = Cardinality(Units(PathSizes(qs), qs)) /\ PathBytes(qs) \in Nat
      /\ IsFiniteSet(Units(PathSizes(qs), qs))
  BY <1>1, PathBytesCount
<1> QED
  BY <1>2, <1>3, FS_Subset

(* Files with distinct paths hold no more bytes than their paths, or any    *)
(* set that has them.                                                       *)
LEMMA BytesWithinPaths ==
  ASSUME NEW fs, IsFiniteSet(fs), UniquePaths(fs),
         NEW ps, IsFiniteSet(ps), \A p \in ps : Size(p[2]) \in Nat,
         \A f \in fs : f.path \in ps
  PROVE  /\ Bytes(fs) \in Nat /\ PathBytes(ps) \in Nat
         /\ Bytes(fs) <= PathBytes(ps)
         /\ Cardinality(fs) <= Cardinality(ps)
<1> DEFINE A == Units(FileSizes(fs), fs)
           B == Units(PathSizes(ps), ps)
           m == [u \in A |-> <<u[1].path, u[2]>>]
           k == [f \in fs |-> f.path]
<1>1. /\ Bytes(fs) = Cardinality(A) /\ Bytes(fs) \in Nat
      /\ PathBytes(ps) = Cardinality(B) /\ PathBytes(ps) \in Nat
      /\ IsFiniteSet(B)
  BY BytesCount, PathBytesCount
<1>2. \A u \in A : m[u] \in B
  BY DEF Units, FileSizes, PathSizes
<1>3. \A u, v \in A : m[u] = m[v] => u = v
  BY DEF Units, UniquePaths
<1>4. m \in Injection(A, B)
  BY <1>2, <1>3 DEF Injection, IsInjective
<1>5. Cardinality(A) <= Cardinality(B)
  BY <1>1, <1>4, FS_Injection
<1>6. k \in Injection(fs, ps)
  BY DEF Injection, IsInjective, UniquePaths
<1>7. Cardinality(fs) <= Cardinality(ps)
  BY <1>6, FS_Injection
<1> QED
  BY <1>1, <1>5, <1>7

-----------------------------------------------------------------------------
(* What a request sends, and the files it points to. *)

(* What compress_in_place makes of one output when no file operation fails. *)
FinalGate(item, product) == IF product.size <= Size(item.text) THEN product ELSE Original(item)

Stored(item, form, size) ==
  IF ~CcrEnabled THEN Segment(item, form, FALSE, TRUE, size)
  ELSE IF Size(item.text) > MaxFileBytes THEN Original(item)
  ELSE Segment(item, form, TRUE, TRUE, size + PointerSize)

Routed(item, hit) ==
  LET p == Profile[item.text]
  IN  IF IsToon(hit) THEN Segment(item, hit, FALSE, p.pre_lossy, p.new_size)
      ELSE IF DropsContent(hit) THEN Stored(item, hit, p.new_size)
      ELSE IF p.pre_lossy THEN Stored(item, "preprocessed", p.pre_size)
      ELSE Segment(item, "preprocessed", FALSE, FALSE, p.pre_size)

ProductWith(item, cmd) ==
  FinalGate(item, IF BelowItemMin(item.text) \/ ShouldProtect(item.text, cmd)
                  THEN Original(item) ELSE Routed(item, Hit(item.text, cmd)))

Product(item) == ProductWith(item, item.cmd)

DistinctCalls == \A i, j \in 1..Len(history) : history[i].call = history[j].call => i = j

ProductsOf(sq) ==
  /\ Len(sq) <= Len(history)
  /\ \A i \in 1..Len(sq) : sq[i] = Product(history[i])

(* With distinct ids each output has its own hint, and both the request     *)
(* that is being built and the last one sent are the products of the        *)
(* history: nothing else decides what is sent.                              *)
StableInv ==
  /\ \E S : lastOut \in Seq(S)
  /\ ~ReuseIds =>
       /\ DistinctCalls
       /\ faults = 0 /\ sending => ProductsOf(out)
       /\ faults = 0 => ProductsOf(lastOut)

(* The paths a request mentions are in its registry. *)
PointerInv == \A i \in 1..Len(out) : out[i].ptr => <<out[i].call, out[i].text>> \in registry

Fits(ps) == Cardinality(ps) <= MaxFiles + 1 /\ PathBytes(ps) <= MaxThreadBytes

(* A path has one file, a file of this request is in its registry, and the  *)
(* files of the registry are there as long as they fit.                     *)
PathInv ==
  /\ UniquePaths(files)
  /\ faults = 0 =>
       /\ \A f \in files : f.mtime = requests => f.path \in registry
       /\ Fits(registry) => \A p \in registry : \E f \in files : f.path = p /\ f.mtime = requests

RequestInv == StableInv /\ PointerInv /\ PathInv

-----------------------------------------------------------------------------
(* A path's text has a size, and there are finitely many paths.             *)
LEMMA RegistryFinite ==
  ASSUME NEW ps \in SUBSET (Calls \X Texts)
  PROVE  /\ IsFiniteSet(ps) /\ Cardinality(ps) \in Nat
         /\ \A p \in ps : Size(p[2]) \in Nat
<1>1. IsFiniteSet(Calls \X Texts)
  BY CompressAssumption, FS_Product DEF CompressAssumption
<1>2. IsFiniteSet(ps) /\ Cardinality(ps) \in Nat
  BY <1>1, FS_Subset, FS_CardinalityType
<1>3. \A p \in ps : p[2] \in Texts
  OBVIOUS
<1> QED
  BY <1>2, <1>3, ProfileTypes

(* Eviction before a write keeps this request's originals: were one of them *)
(* taken, the directory would hold nothing but originals of this request at *)
(* that moment, and those fit.                                              *)
LEMMA EvictsOlder ==
  ASSUME StoreInv, requests \in Nat, UniquePaths(files),
         \A f \in files : f.mtime = requests => f.path \in registry,
         Cardinality(registry) <= MaxFiles, PathBytes(registry) <= MaxThreadBytes,
         NEW gone \in Evictions(files, {}), NEW f \in files, f.mtime = requests
  PROVE  f \notin gone
<1> SUFFICES ASSUME f \in gone PROVE FALSE
  OBVIOUS
<1>1. gone \subseteq files /\ \A g \in gone, h \in files \ gone : g.mtime <= h.mtime
  BY DEF Evictions
<1>2. PICK last \in gone : /\ \A g \in gone : g.mtime <= last.mtime
                           /\ OverLimits(files \ (gone \ {last}))
  BY DEF Evictions
<1> DEFINE rest == files \ (gone \ {last})
<1>3. \A g \in files : g.mtime \in Nat /\ g.mtime <= requests
  BY BoundTypes DEF StoreInv, Files
<1>4. last.mtime = requests
  BY <1>1, <1>2, <1>3
<1>5. \A g \in rest : g \in files /\ g.mtime = requests
  BY <1>1, <1>2, <1>3, <1>4
<1>6. IsFiniteSet(rest) /\ UniquePaths(rest) /\ \A g \in rest : g.path \in registry
  BY <1>5, FS_Difference DEF StoreInv, UniquePaths
<1>7. IsFiniteSet(registry) /\ Cardinality(registry) \in Nat /\ \A p \in registry : Size(p[2]) \in Nat
  BY RegistryFinite DEF StoreInv
<1> HIDE DEF rest
<1>8. /\ Bytes(rest) \in Nat /\ PathBytes(registry) \in Nat
      /\ Bytes(rest) <= PathBytes(registry)
      /\ Cardinality(rest) <= Cardinality(registry) /\ Cardinality(rest) \in Nat
  BY <1>6, <1>7, BytesWithinPaths, FS_CardinalityType
<1>9. MaxFiles \in Nat /\ MaxThreadBytes \in Nat
  BY CompressAssumption DEF CompressAssumption
<1>10. ~OverLimits(rest)
  BY <1>7, <1>8, <1>9 DEF OverLimits
<1> QED
  BY <1>2, <1>10 DEF rest

(* A written file replaces the one of its path. *)
LEMMA ReplaceUnique ==
  ASSUME UniquePaths(files), NEW gone \in SUBSET files, NEW p
  PROVE  UniquePaths(files \ gone) /\ UniquePaths(Replace(files \ gone, p))
  BY DEF UniquePaths, Replace

(* A write adds its path to the registry, its file to the directory, and    *)
(* leaves the other files of the request in it.                             *)
LEMMA WrittenPaths ==
  ASSUME StoreInv, PathInv, requests \in Nat, requests' = requests,
         NEW c \in Calls, NEW t \in Texts, Written(c, t)
  PROVE  PathInv'
<1> DEFINE q == <<c, t>>
<1>1. PICK stuck \in SUBSET files :
        /\ faults' = faults + Cardinality(stuck)
        /\ \E gone \in Evictions(files, stuck) : files' = Replace(files \ gone, q)
  BY DEF Written
<1>2. PICK gone \in Evictions(files, stuck) : files' = Replace(files \ gone, q)
  BY <1>1
<1>3. gone \in SUBSET files
  BY DEF Evictions
<1>4. UniquePaths(files')
  BY <1>2, <1>3, ReplaceUnique DEF PathInv
<1>5. registry' = registry \cup {q} /\ q \notin registry /\ q \in Calls \X Texts
  BY DEF Written
<1>6. ASSUME faults' = 0
      PROVE  /\ \A f \in files' : f.mtime = requests => f.path \in registry'
             /\ Fits(registry') =>
                  \A p \in registry' : \E f \in files' : f.path = p /\ f.mtime = requests
  <2>1. IsFiniteSet(stuck) /\ Cardinality(stuck) \in Nat /\ faults \in Nat
    BY FS_Subset, FS_CardinalityType DEF StoreInv
  <2>2. faults = 0 /\ Cardinality(stuck) = 0
    BY <1>1, <1>6, <2>1
  <2>3. stuck = {}
    BY <2>1, <2>2, FS_EmptySet
  <2>4. \A f \in files : f.mtime = requests => f.path \in registry
    BY <2>2 DEF PathInv
  <2>5. \A f \in files' : f.mtime = requests => f.path \in registry'
    BY <1>2, <1>5, <2>4 DEF Replace
  <2>6. ASSUME Fits(registry'), NEW p \in registry'
        PROVE  \E f \in files' : f.path = p /\ f.mtime = requests
    <3>1. CASE p = q
      <4>1. [path |-> q, mtime |-> requests] \in files'
        BY <1>2 DEF Replace
      <4> QED
        BY <3>1, <4>1
    <3>2. CASE p # q
      <4>1. p \in registry /\ registry \subseteq Calls \X Texts
        BY <1>5, <3>2 DEF StoreInv
      <4>2. registry \cup {q} \subseteq Calls \X Texts
        BY <1>5, <4>1
      <4>3. /\ IsFiniteSet(registry) /\ Cardinality(registry) \in Nat
            /\ IsFiniteSet(registry \cup {q})
            /\ \A r \in registry \cup {q} : Size(r[2]) \in Nat
        BY <4>1, <4>2, RegistryFinite
      <4>4. Cardinality(registry \cup {q}) = Cardinality(registry) + 1
        BY <1>5, <4>3, FS_AddElement
      <4>5. /\ PathBytes(registry) \in Nat /\ PathBytes(registry \cup {q}) \in Nat
            /\ PathBytes(registry) <= PathBytes(registry \cup {q})
        BY <4>3, PathBytesMonotone
      <4>6. /\ Cardinality(registry \cup {q}) <= MaxFiles + 1
            /\ PathBytes(registry \cup {q}) <= MaxThreadBytes
        BY <1>5, <2>6 DEF Fits
      <4>7. MaxFiles \in Nat /\ MaxThreadBytes \in Nat
        BY CompressAssumption DEF CompressAssumption
      <4>8. Cardinality(registry) <= MaxFiles /\ PathBytes(registry) <= MaxThreadBytes
        BY <4>3, <4>4, <4>5, <4>6, <4>7
      <4>9. Fits(registry)
        BY <4>3, <4>7, <4>8 DEF Fits
      <4>10. PICK f \in files : f.path = p /\ f.mtime = requests
        BY <2>2, <4>1, <4>9 DEF PathInv
      <4>11. f \notin gone
        BY <1>2, <2>3, <2>4, <4>8, <4>10, EvictsOlder DEF PathInv
      <4>12. f \in files'
        BY <1>2, <3>2, <4>10, <4>11 DEF Replace
      <4> QED
        BY <4>10, <4>12
    <3> QED
      BY <3>1, <3>2
  <2> QED
    BY <2>5, <2>6
<1> QED
  BY <1>4, <1>6 DEF PathInv, UniquePaths, Fits

(* A failed write leaves a fault behind, and one file per path.             *)
LEMMA FailedPaths ==
  ASSUME StoreInv, PathInv, requests' = requests,
         NEW c \in Calls, NEW t \in Texts, PersistFails(c, t)
  PROVE  PathInv'
<1>1. faults' # 0
  BY BoundTypes DEF StoreInv, PersistFails
<1>2. UniquePaths(files')
  <2>1. CASE files' = files
    BY <2>1 DEF PathInv, UniquePaths
  <2>2. CASE \E gone \in Evictions(files, {}) :
               files' \in {files \ gone, Replace(files \ gone, <<c, t>>)}
    <3>1. PICK gone \in Evictions(files, {}) :
            files' \in {files \ gone, Replace(files \ gone, <<c, t>>)}
      BY <2>2
    <3>2. gone \in SUBSET files
      BY DEF Evictions
    <3> QED
      BY <3>1, <3>2, ReplaceUnique DEF PathInv
  <2> QED
    BY <2>1, <2>2 DEF PersistFails
<1> QED
  BY <1>1, <1>2 DEF PathInv, UniquePaths

(* What a segment does: it goes to the store or not, a path it mentions is  *)
(* registered, and without faults it is the product given.                  *)
Effect(item, product, x) ==
  /\ out' = Append(out, x)
  /\ x.ptr => <<x.call, x.text>> \in registry'
  /\ NoStore \/ Written(item.call, item.text) \/ PersistFails(item.call, item.text)
  /\ faults' = 0 => x = FinalGate(item, product)

(* The original is never larger than itself. *)
LEMMA GateKeepsOriginal ==
  ASSUME NEW item \in Items
  PROVE  FinalGate(item, Original(item)) = Original(item) /\ ~Original(item).ptr
  BY OriginalGood DEF FinalGate, Original, Segment

(* Segments that do not need the store. *)
LEMMA PlainEffect ==
  ASSUME NEW item \in Items, NEW form, NEW lost, NEW size, NoStore,
         WriteBack(item, Segment(item, form, FALSE, lost, size))
  PROVE  \E x : Effect(item, Segment(item, form, FALSE, lost, size), x)
<1> DEFINE s == Segment(item, form, FALSE, lost, size)
           x == FinalGate(item, s)
<1>1. out' = Append(out, x)
  BY DEF WriteBack, FinalGate
<1>2. ~s.ptr
  BY DEF Segment
<1>3. ~x.ptr
  BY <1>2, GateKeepsOriginal DEF FinalGate
<1> HIDE DEF x
<1>4. x = FinalGate(item, s)
  BY DEF x
<1>5. Effect(item, s, x)
  BY <1>1, <1>3, <1>4 DEF Effect
<1> QED
  BY <1>5

(* So does an output that is kept as it is.                                 *)
LEMMA OriginalEffect ==
  ASSUME NEW item \in Items, NoStore, WriteBack(item, Original(item))
  PROVE  \E x : Effect(item, Original(item), x)
  BY PlainEffect DEF Original

(* ccr::attach: what is attached depends on the output only, unless the     *)
(* write failed.                                                            *)
LEMMA AttachEffect ==
  ASSUME StoreInv, NEW item \in Items, NEW form, NEW size, Attach(item, form, size)
  PROVE  \E x : Effect(item, Stored(item, form, size), x)
<1> DEFINE c == item.call
           t == item.text
           attached == Segment(item, form, TRUE, TRUE, size + PointerSize)
           x == FinalGate(item, attached)
<1>0. t \in Texts /\ Size(t) \in Nat /\ MaxFileBytes \in Nat
  BY ProfileTypes, CompressAssumption DEF Items, CompressAssumption
<1>1. CASE /\ ~CcrEnabled /\ NoStore
           /\ WriteBack(item, Segment(item, form, FALSE, TRUE, size))
  BY <1>1, PlainEffect DEF Stored
<1>2. CASE /\ CcrEnabled /\ Size(t) > MaxFileBytes /\ NoStore
           /\ WriteBack(item, Original(item))
  BY <1>2, OriginalEffect DEF Stored
<1>3. CASE /\ CcrEnabled /\ Size(t) <= MaxFileBytes
           /\ Reused(c, t) \/ Written(c, t)
           /\ WriteBack(item, attached)
  <2>1. out' = Append(out, x)
    BY <1>3 DEF WriteBack, FinalGate
  <2>2. <<c, t>> \in registry'
    BY <1>3 DEF Reused, Written
  <2>3. attached.call = c /\ attached.text = t
    BY DEF Segment
  <2>4. x.ptr => <<x.call, x.text>> \in registry'
    BY <2>2, <2>3, GateKeepsOriginal DEF FinalGate
  <2>5. NoStore \/ Written(c, t)
    BY <1>3 DEF Reused, NoStore
  <2>6. Stored(item, form, size) = attached
    <3>1. ~(Size(item.text) > MaxFileBytes)
      BY <1>0, <1>3
    <3>2. CcrEnabled
      BY <1>3
    <3> QED
      BY <3>1, <3>2 DEF Stored
  <2> HIDE DEF x, attached
  <2>7. x = FinalGate(item, Stored(item, form, size))
    BY <2>6 DEF x
  <2>8. Effect(item, Stored(item, form, size), x)
    BY <2>1, <2>4, <2>5, <2>7 DEF Effect
  <2> QED
    BY <2>8
<1>4. CASE /\ PersistFails(c, t)
           /\ WriteBack(item, Original(item))
  <2>1. out' = Append(out, Original(item))
    BY <1>4 DEF WriteBack
  <2>2. faults' # 0
    BY <1>4, BoundTypes DEF StoreInv, PersistFails
  <2>3. Effect(item, Stored(item, form, size), Original(item))
    BY <1>4, <2>1, <2>2, GateKeepsOriginal DEF Effect
  <2> QED
    BY <2>3
<1> QED
  BY <1>1, <1>2, <1>3, <1>4 DEF Attach

(* compress_in_place as a whole.                                            *)
LEMMA CompressItemEffect ==
  ASSUME IInv, CompressItem
  PROVE  /\ Len(out) \in Nat /\ Len(out) + 1 \in 1..Len(history)
         /\ history[Len(out) + 1] \in Items
         /\ UNCHANGED <<history, sending, requests, lastOut>>
         /\ sending
         /\ LET item == history[Len(out) + 1]
                cmd == CmdIndex(item.call)
            IN  \E x : Effect(item, IF BelowItemMin(item.text) \/ ShouldProtect(item.text, cmd)
                                    THEN Original(item) ELSE Routed(item, Hit(item.text, cmd)), x)
<1> DEFINE item == history[Len(out) + 1]
           t == item.text
           cmd == CmdIndex(item.call)
           hit == Hit(t, cmd)
           new == Profile[t].new_size
           pre == Profile[t].pre_size
           pre_lossy == Profile[t].pre_lossy
           kept == BelowItemMin(t) \/ ShouldProtect(t, cmd)
<1>1. Len(out) \in Nat /\ Len(out) + 1 \in 1..Len(history)
  BY DEF IInv, OutInv, CompressItem
<1>2. item \in Items
  BY <1>1 DEF IInv
<1>3. UNCHANGED <<history, sending, requests, lastOut>> /\ sending
  BY DEF CompressItem
<1>4. \/ kept /\ NoStore /\ WriteBack(item, Original(item))
      \/ /\ ~kept /\ IsToon(hit) /\ NoStore
         /\ WriteBack(item, Segment(item, hit, FALSE, pre_lossy, new))
      \/ ~kept /\ DropsContent(hit) /\ Attach(item, hit, new)
      \/ ~kept /\ hit = "none" /\ pre_lossy /\ Attach(item, "preprocessed", pre)
      \/ /\ ~kept /\ hit = "none" /\ ~pre_lossy /\ NoStore
         /\ WriteBack(item, Segment(item, "preprocessed", FALSE, FALSE, pre))
  BY DEF CompressItem
<1> HIDE DEF item, hit, kept
<1>5. \E x : Effect(item, IF kept THEN Original(item) ELSE Routed(item, hit), x)
  <2>1. CASE kept /\ NoStore /\ WriteBack(item, Original(item))
    BY <1>2, <2>1, OriginalEffect
  <2>2. CASE /\ ~kept /\ IsToon(hit) /\ NoStore
             /\ WriteBack(item, Segment(item, hit, FALSE, pre_lossy, new))
    <3>1. Routed(item, hit) = Segment(item, hit, FALSE, pre_lossy, new)
      BY <2>2 DEF Routed
    <3>2. \E x : Effect(item, Segment(item, hit, FALSE, pre_lossy, new), x)
      BY <1>2, <2>2, PlainEffect
    <3> QED
      BY <2>2, <3>1, <3>2
  <2>3. CASE ~kept /\ DropsContent(hit) /\ Attach(item, hit, new)
    <3>1. Routed(item, hit) = Stored(item, hit, new)
      BY <2>3 DEF Routed, DropsContent, IsToon
    <3>2. \E x : Effect(item, Stored(item, hit, new), x)
      BY <1>2, <2>3, AttachEffect DEF IInv
    <3> QED
      BY <2>3, <3>1, <3>2
  <2>4. CASE ~kept /\ hit = "none" /\ pre_lossy /\ Attach(item, "preprocessed", pre)
    <3>1. Routed(item, hit) = Stored(item, "preprocessed", pre)
      BY <2>4 DEF Routed, DropsContent, IsToon
    <3>2. \E x : Effect(item, Stored(item, "preprocessed", pre), x)
      BY <1>2, <2>4, AttachEffect DEF IInv
    <3> QED
      BY <2>4, <3>1, <3>2
  <2>5. CASE /\ ~kept /\ hit = "none" /\ ~pre_lossy /\ NoStore
             /\ WriteBack(item, Segment(item, "preprocessed", FALSE, FALSE, pre))
    <3>1. Routed(item, hit) = Segment(item, "preprocessed", FALSE, FALSE, pre)
      BY <2>5 DEF Routed, DropsContent, IsToon
    <3>2. \E x : Effect(item, Segment(item, "preprocessed", FALSE, FALSE, pre), x)
      BY <1>2, <2>5, PlainEffect
    <3> QED
      BY <2>5, <3>1, <3>2
  <2> QED
    BY <1>4, <2>1, <2>2, <2>3, <2>4, <2>5
<1> QED
  BY <1>1, <1>2, <1>3, <1>5 DEF item, hit, kept

(* With distinct ids command::index gives an output the hint of its call.   *)
LEMMA OwnHint ==
  ASSUME DistinctCalls, NEW i \in 1..Len(history)
  PROVE  CmdIndex(history[i].call) = history[i].cmd
<1> DEFINE of == {j \in 1..Len(history) :
                   history[j].call = history[i].call /\ history[j].cmd # "none"}
<1>1. of = IF history[i].cmd = "none" THEN {} ELSE {i}
  BY DEF DistinctCalls
<1>2. of = {i} => Max(of) = i
  BY DEF Max
<1> QED
  BY <1>1, <1>2 DEF CmdIndex

(* The store's part of the invariant over one segment. *)
LEMMA SegmentPaths ==
  ASSUME IInv, PathInv, PointerInv, requests' = requests,
         NEW item \in Items, NEW product, NEW x, Effect(item, product, x)
  PROVE  PathInv' /\ PointerInv'
<1>0. item.call \in Calls /\ item.text \in Texts /\ requests \in Nat /\ StoreInv
  BY BoundTypes DEF Items, IInv
<1>1. PathInv'
  <2>1. CASE NoStore
    BY <2>1 DEF NoStore, PathInv, UniquePaths, Fits
  <2>2. CASE Written(item.call, item.text)
    BY <1>0, <2>2, WrittenPaths
  <2>3. CASE PersistFails(item.call, item.text)
    BY <1>0, <2>3, FailedPaths
  <2> QED
    BY <2>1, <2>2, <2>3 DEF Effect
<1>2. registry \subseteq registry'
  BY DEF Effect, NoStore, Written, PersistFails
<1>3. PICK S : out \in Seq(S)
  BY DEF IInv, OutInv
<1>4. out' = Append(out, x) /\ (x.ptr => <<x.call, x.text>> \in registry')
  BY DEF Effect
<1>5. /\ Len(out') = Len(out) + 1 /\ Len(out) \in Nat
      /\ \A i \in 1..Len(out) : out'[i] = out[i]
      /\ out'[Len(out) + 1] = x
  BY <1>3, <1>4
<1>6. PointerInv'
  <2> SUFFICES ASSUME NEW i \in 1..Len(out'), out'[i].ptr
               PROVE  <<out'[i].call, out'[i].text>> \in registry'
    BY DEF PointerInv
  <2>1. CASE i \in 1..Len(out)
    BY <1>2, <1>5, <2>1 DEF PointerInv
  <2>2. CASE i = Len(out) + 1
    BY <1>4, <1>5, <2>2
  <2> QED
    BY <1>5, <2>1, <2>2
<1> QED
  BY <1>1, <1>6

(* Faults are never taken back. *)
LEMMA FaultsGrow ==
  ASSUME StoreInv, NEW item, NEW product, NEW x, Effect(item, product, x), faults' = 0
  PROVE  faults = 0
<1>1. faults \in Nat
  BY BoundTypes DEF StoreInv
<1>2. CASE NoStore
  BY <1>2 DEF NoStore
<1>3. CASE Written(item.call, item.text)
  <2>1. PICK stuck \in SUBSET files : faults' = faults + Cardinality(stuck)
    BY <1>3 DEF Written
  <2>2. Cardinality(stuck) \in Nat
    BY FS_Subset, FS_CardinalityType DEF StoreInv
  <2> QED
    BY <1>1, <2>1, <2>2
<1>4. CASE PersistFails(item.call, item.text)
  BY <1>1, <1>4 DEF PersistFails
<1> QED
  BY <1>2, <1>3, <1>4 DEF Effect

(* Product looks at nothing but the output. *)
LEMMA SegmentStable ==
  ASSUME IInv, StableInv, CompressItem
  PROVE  StableInv'
<1> DEFINE n == Len(out) + 1
           item == history[n]
           cmd == CmdIndex(item.call)
           product == IF BelowItemMin(item.text) \/ ShouldProtect(item.text, cmd)
                      THEN Original(item) ELSE Routed(item, Hit(item.text, cmd))
<1>1. /\ Len(out) \in Nat /\ n \in 1..Len(history) /\ item \in Items
      /\ UNCHANGED <<history, sending, requests, lastOut>> /\ sending
      /\ \E x : Effect(item, product, x)
  BY CompressItemEffect
<1>2. PICK x : Effect(item, product, x)
  BY <1>1
<1>3. PICK S : out \in Seq(S)
  BY DEF IInv, OutInv
<1>4. out' = Append(out, x)
  BY <1>2 DEF Effect
<1>5. /\ Len(out') = n
      /\ \A i \in 1..Len(out) : out'[i] = out[i]
      /\ out'[n] = x
  BY <1>3, <1>4
<1>6. (\E T : lastOut \in Seq(T))'
  BY <1>1 DEF StableInv
<1>7. ASSUME ~ReuseIds PROVE DistinctCalls'
  BY <1>1, <1>7 DEF StableInv, DistinctCalls
<1>8. ASSUME ~ReuseIds, faults' = 0 PROVE faults = 0
  BY <1>2, <1>8, FaultsGrow DEF IInv
<1>9. ASSUME ~ReuseIds, faults' = 0 PROVE ProductsOf(lastOut)'
  <2>1. ProductsOf(lastOut)
    BY <1>8, <1>9 DEF StableInv
  <2>2. history' = history /\ lastOut' = lastOut
    BY <1>1
  <2> QED
    BY <2>1, <2>2 DEF ProductsOf
<1>10. ASSUME ~ReuseIds, faults' = 0 PROVE ProductsOf(out)'
  <2>1. ProductsOf(out)
    BY <1>1, <1>8, <1>10 DEF StableInv
  <2>2. cmd = item.cmd
    BY <1>1, <1>10, OwnHint DEF StableInv
  <2>3. x = FinalGate(item, product)
    BY <1>2, <1>10 DEF Effect
  <2>4. x = Product(history[n])
    BY <2>2, <2>3 DEF Product, ProductWith
  <2>5. history' = history
    BY <1>1
  <2>6. Len(out') <= Len(history) /\ \A i \in 1..Len(out') : out'[i] = Product(history[i])
    BY <1>1, <1>5, <2>1, <2>4 DEF ProductsOf
  <2> QED
    BY <2>5, <2>6 DEF ProductsOf
<1> QED
  BY <1>6, <1>7, <1>9, <1>10 DEF StableInv

-----------------------------------------------------------------------------
(* Nothing has been sent or stored initially.                               *)
LEMMA InitRequest == Init => RequestInv
<1> SUFFICES ASSUME Init PROVE RequestInv
  OBVIOUS
<1>1. lastOut \in Seq({}) /\ Len(history) = 0 /\ Len(out) = 0 /\ Len(lastOut) = 0
  BY DEF Init
<1>2. StableInv
  BY <1>1 DEF Init, StableInv, DistinctCalls, ProductsOf
<1>3. PathInv /\ PointerInv
  BY <1>1 DEF Init, PathInv, PointerInv, UniquePaths
<1> QED
  BY <1>2, <1>3 DEF RequestInv

(* The history and what was sent from it may only change between requests.  *)
LEMMA NextRequest == IInv /\ RequestInv /\ [Next]_vars => RequestInv'
<1> SUFFICES ASSUME IInv, RequestInv, [Next]_vars PROVE RequestInv'
  OBVIOUS
<1>0. StableInv /\ PathInv /\ PointerInv /\ history \in Seq(Items) /\ sending \in BOOLEAN
  BY DEF RequestInv, IInv
<1>1. ASSUME NEW c \in Calls, NEW t \in Texts, NEW cmd \in Hints, ToolOutput(c, t, cmd)
      PROVE  RequestInv'
  <2> DEFINE item == [call |-> c, text |-> t, cmd |-> cmd]
  <2>1. ~sending /\ sending' = sending /\ history' = Append(history, item) /\ lastOut' = lastOut /\ faults' = faults
    BY <1>1 DEF ToolOutput
  <2>2. /\ Len(history') = Len(history) + 1 /\ Len(history) \in Nat
        /\ \A i \in 1..Len(history) : history'[i] = history[i]
        /\ history'[Len(history) + 1] = item
    BY <1>0, <2>1
  <2>3. PathInv' /\ PointerInv'
    BY <1>0, <1>1 DEF ToolOutput, PathInv, PointerInv, UniquePaths, Fits
  <2>4. ASSUME ~ReuseIds PROVE DistinctCalls'
    <3>1. \A i \in 1..Len(history) : history[i].call # c
      BY <1>1, <2>4 DEF ToolOutput
    <3>2. DistinctCalls /\ item.call = c
      BY <1>0, <2>4 DEF StableInv
    <3> QED
      BY <2>2, <3>1, <3>2 DEF DistinctCalls
  <2>5. ASSUME ~ReuseIds, faults' = 0 PROVE ProductsOf(lastOut)'
    <3>1. ProductsOf(lastOut)
      BY <1>0, <2>1, <2>5 DEF StableInv
    <3>2. PICK S : lastOut \in Seq(S)
      BY <1>0 DEF StableInv
    <3>3. Len(lastOut) \in Nat
      BY <3>2
    <3>4. Len(lastOut) <= Len(history') /\ \A i \in 1..Len(lastOut) : lastOut[i] = Product(history'[i])
      BY <2>2, <3>1, <3>3 DEF ProductsOf
    <3> QED
      BY <2>1, <3>4 DEF ProductsOf
  <2>6. (\E S : lastOut \in Seq(S))'
    BY <1>0, <2>1 DEF StableInv
  <2> QED
    BY <2>1, <2>3, <2>4, <2>5, <2>6 DEF RequestInv, StableInv
<1>2. CASE DropOldest
  <2>1. ~sending /\ sending' = sending /\ history' = Tail(history) /\ history # <<>> /\ lastOut' = <<>> /\ faults' = faults
    BY <1>2 DEF DropOldest
  <2>2. /\ Len(history') = Len(history) - 1 /\ Len(history) \in Nat /\ Len(history) > 0
        /\ \A i \in 1..Len(history') : history'[i] = history[i + 1]
    BY <1>0, <2>1
  <2>3. PathInv' /\ PointerInv'
    BY <1>0, <1>2 DEF DropOldest, PathInv, PointerInv, UniquePaths, Fits
  <2>4. ASSUME ~ReuseIds PROVE DistinctCalls'
    BY <1>0, <2>2, <2>4 DEF StableInv, DistinctCalls
  <2>5. ProductsOf(lastOut)'
    BY <2>1, <2>2 DEF ProductsOf
  <2>6. lastOut' \in Seq({})
    BY <2>1
  <2> QED
    BY <2>1, <2>3, <2>4, <2>5, <2>6 DEF RequestInv, StableInv
<1>3. CASE StartRequest
  <2>1. out' = <<>> /\ registry' = {} /\ requests' = requests + 1 /\ UNCHANGED <<history, files, lastOut, faults>>
    BY <1>3 DEF StartRequest
  <2>2. PointerInv'
    BY <2>1 DEF PointerInv
  <2>3. \A f \in files : f.mtime # requests + 1
    BY DEF IInv, StoreInv, Files
  <2>4. PathInv'
    BY <1>0, <2>1, <2>3 DEF PathInv, UniquePaths
  <2>5. Len(out') = 0 /\ Len(history) \in Nat
    BY <1>0, <2>1
  <2>6. ProductsOf(out)'
    BY <2>1, <2>5 DEF ProductsOf
  <2>7. ASSUME ~ReuseIds PROVE DistinctCalls' /\ (faults' = 0 => ProductsOf(lastOut)')
    BY <1>0, <2>1, <2>7 DEF StableInv, DistinctCalls, ProductsOf
  <2>8. (\E S : lastOut \in Seq(S))'
    BY <1>0, <2>1 DEF StableInv
  <2> QED
    BY <2>2, <2>4, <2>6, <2>7, <2>8 DEF RequestInv, StableInv
<1>4. CASE CompressItem
  <2>1. StableInv'
    BY <1>0, <1>4, SegmentStable
  <2>2. PICK item, product, x : item \in Items /\ Effect(item, product, x)
    BY <1>4, CompressItemEffect
  <2>3. requests' = requests
    BY <1>4 DEF CompressItem
  <2> QED
    BY <1>0, <2>1, <2>2, <2>3, SegmentPaths DEF RequestInv
<1>5. CASE Sent
  <2>1. sending /\ lastOut' = out /\ ~sending' /\ UNCHANGED <<history, out, registry, files, requests, faults>>
    BY <1>5 DEF Sent
  <2>2. PathInv' /\ PointerInv'
    BY <1>0, <2>1 DEF PathInv, PointerInv, UniquePaths, Fits
  <2>3. (\E S : lastOut \in Seq(S))'
    BY <2>1 DEF IInv, OutInv
  <2>4. ASSUME ~ReuseIds PROVE DistinctCalls' /\ (faults' = 0 => ProductsOf(lastOut)')
    BY <1>0, <2>1, <2>4 DEF StableInv, DistinctCalls, ProductsOf
  <2> QED
    BY <2>1, <2>2, <2>3, <2>4 DEF RequestInv, StableInv
<1>6. CASE UNCHANGED vars
  <2>1. PathInv' /\ PointerInv'
    BY <1>0, <1>6 DEF vars, PathInv, PointerInv, UniquePaths, Fits
  <2>2. StableInv'
    BY <1>0, <1>6 DEF vars, StableInv, DistinctCalls, ProductsOf
  <2> QED
    BY <2>1, <2>2 DEF RequestInv
<1> QED
  BY <1>1, <1>2, <1>3, <1>4, <1>5, <1>6 DEF Next

(* Two requests agree because both are the products of one history, and a  *)
(* mentioned path resolves because it is registered and registered files   *)
(* are kept.                                                                *)
LEMMA RequestGives ==
  IInv /\ RequestInv => PointersResolve /\ (~ReuseIds => PrefixStable)
<1> SUFFICES ASSUME IInv, RequestInv PROVE PointersResolve /\ (~ReuseIds => PrefixStable)
  OBVIOUS
<1>1. PointersResolve
  <2> SUFFICES ASSUME faults = 0, Fits(registry), NEW q \in PointerPaths PROVE q \in Paths
    BY DEF PointersResolve, Fits
  <2>1. q \in registry
    BY DEF PointerPaths, RequestInv, PointerInv
  <2> QED
    BY <2>1 DEF Paths, RequestInv, PathInv
<1>2. ASSUME ~ReuseIds, Complete, faults = 0 PROVE IsPrefix(lastOut, out)
  <2>1. ProductsOf(out) /\ ProductsOf(lastOut) /\ Len(out) = Len(history)
    BY <1>2 DEF RequestInv, StableInv, Complete
  <2>2. PICK S, T : out \in Seq(S) /\ lastOut \in Seq(T)
    BY DEF RequestInv, StableInv, IInv, OutInv
  <2>3. Len(lastOut) \in Nat /\ Len(out) \in Nat /\ Len(lastOut) <= Len(out)
    BY <2>1, <2>2 DEF ProductsOf
  <2>4. \A i \in 1..Len(lastOut) : lastOut[i] = out[i]
    BY <2>1, <2>3 DEF ProductsOf
  <2>5. SubSeq(lastOut, 1, Len(lastOut)) = SubSeq(out, 1, Len(lastOut))
    BY <2>2, <2>3, <2>4
  <2> QED
    BY <2>3, <2>5 DEF IsPrefix
<1> QED
  BY <1>1, <1>2 DEF PrefixStable

(* With distinct call ids and no failed file operation, a request repeats   *)
(* what the last one sent of the same history, for every configuration of   *)
(* the gates, the router and the store (compress_in_place).                 *)
THEOREM RequestsRepeat == ~ReuseIds => (Spec => []PrefixStable)
<1> SUFFICES ASSUME ~ReuseIds PROVE Spec => []PrefixStable
  OBVIOUS
<1>1. IInv /\ RequestInv => PrefixStable
  BY RequestGives
<1> QED
  BY <1>1, InitIInv, NextIInv, InitRequest, NextRequest, PTL DEF Spec

(* Every path a request mentions is in the directory when it is sent, for   *)
(* every limit the originals of the request fit into (enforce_limits and    *)
(* try_persist).                                                            *)
THEOREM PointedFilesExist == Spec => []PointersResolve
<1>1. IInv /\ RequestInv => PointersResolve
  BY RequestGives
<1> QED
  BY <1>1, InitIInv, NextIInv, InitRequest, NextRequest, PTL DEF Spec
=============================================================================
