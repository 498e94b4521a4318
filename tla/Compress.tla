------------------------------ MODULE Compress ------------------------------
(***************************************************************************)
(* llm-compress (zmod/llm-compress/src): every request re-sends the whole  *)
(* history, and transform() rewrites the tool outputs in it one by one:    *)
(* size gate, error protection, preprocessing, the first compressor that   *)
(* claims the text, and, when content was dropped, the CCR store, which    *)
(* writes the original to the thread's directory and appends its path.     *)
(*                                                                         *)
(* A text is known by its profile: its size, whether it reports an error   *)
(* (a strong marker) or the word "fail", what preprocessing makes of it,   *)
(* whether that has three lines, which compressors claim it and how large  *)
(* their product is.  What the compressors do to the lines is not modelled *)
(* here.                                                                   *)
(***************************************************************************)
EXTENDS Integers, Sequences, SequencesExt, FiniteSets, FiniteSetsExt

CONSTANTS
  Calls,          \* call ids
  Texts,          \* tool outputs
  Profile,        \* [Texts -> [size, error, fails, pre_size, pre_lossy, lines3, claims,
                  \*           new_size]]
  Hints,          \* command hints a call may have, "none" if it cannot be parsed
  ReuseIds,       \* whether two calls may have the same id
  PerItemMin, ErrorMax,                  \* per_item_min_bytes, error_max_bytes
  CcrEnabled, MaxFiles, MaxThreadBytes, MaxFileBytes,
  PointerSize,    \* bytes the path placeholder adds
  MaxHistory, MaxRequests, MaxFaults     \* bounds of the model

Compressors == <<"json", "search", "diff", "tabular", "log", "truncate">>

ASSUME CompressAssumption ==
  /\ IsFiniteSet(Texts) /\ IsFiniteSet(Calls)
  /\ Hints \subseteq {"none", "other", "git_diff", "grep", "test_runner"}
  /\ Profile \in [Texts -> [size : Nat, error : BOOLEAN, fails : BOOLEAN, pre_size : Nat,
                            pre_lossy : BOOLEAN, lines3 : BOOLEAN,
                            claims : SUBSET ToSet(Compressors), new_size : Nat]]
  /\ ReuseIds \in BOOLEAN /\ CcrEnabled \in BOOLEAN
  /\ {PerItemMin, ErrorMax, MaxFiles, MaxThreadBytes, MaxFileBytes, PointerSize,
      MaxHistory, MaxRequests, MaxFaults} \subseteq Nat

VARIABLES
  history,   \* tool outputs of the thread: [call, text, cmd], cmd the hint of its call
  sending,   \* a request is being transformed
  out,       \* its outputs so far: [call, text, form, ptr, lost, size]
  registry,  \* CcrRegistry: <<call, text>> persisted by this request
  files,     \* the thread's directory: [path, mtime], path = <<call, text>>
  requests,  \* how many requests there have been; also the clock
  lastOut,   \* what the last request sent, <<>> after a rewrite of the history
  faults     \* file operations that failed

vars == <<history, sending, out, registry, files, requests, lastOut, faults>>

Size(t) == Profile[t].size
Bytes(fs) == MapThenSumSet(LAMBDA f : Size(f.path[2]), fs)

Init ==
  /\ history = <<>>
  /\ sending = FALSE
  /\ out = <<>>
  /\ registry = {}
  /\ files = {}
  /\ requests = 0
  /\ lastOut = <<>>
  /\ faults = 0

-----------------------------------------------------------------------------
(* The thread *)

ToolOutput(c, t, cmd) ==
  /\ ~sending
  /\ Len(history) < MaxHistory
  /\ ReuseIds \/ \A i \in 1..Len(history) : history[i].call # c
  /\ history' = Append(history, [call |-> c, text |-> t, cmd |-> cmd])
  /\ UNCHANGED <<sending, out, registry, files, requests, lastOut, faults>>

(* Context compaction drops the oldest outputs. *)
DropOldest ==
  /\ ~sending
  /\ history # <<>>
  /\ history' = Tail(history)
  /\ lastOut' = <<>>
  /\ UNCHANGED <<sending, out, registry, files, requests, faults>>

StartRequest ==
  /\ ~sending
  /\ requests < MaxRequests
  /\ sending' = TRUE
  /\ out' = <<>>
  /\ registry' = {}
  /\ requests' = requests + 1
  /\ UNCHANGED <<history, files, lastOut, faults>>

-----------------------------------------------------------------------------
(* Gates and routing *)

(* command::index: of two calls with the same id the later hint stays; a    *)
(* call whose arguments cannot be parsed leaves the index as it is.         *)
CmdIndex(c) ==
  LET of == {i \in 1..Len(history) : history[i].call = c /\ history[i].cmd # "none"}
  IN  IF of = {} THEN "none" ELSE history[Max(of)].cmd

(* Mutant: a gate on the size of all outputs instead of each one's own.     *)
BelowTotalMin(t) == FoldLeft(LAMBDA n, item : n + Size(item.text), 0, history) < 10

BelowItemMin(t) == Size(t) < PerItemMin

ShouldProtect(t, cmd) ==
  /\ ErrorMax # 0
  /\ Size(t) < ErrorMax
  /\ Profile[t].error \/ (cmd = "test_runner" /\ Profile[t].fails)

(* A matching hint moves one compressor to the front; the first one that    *)
(* claims the text compresses it, and "none" does when nobody claims it or  *)
(* nothing is saved.                                                        *)
Preferred(cmd) ==
  CASE cmd = "git_diff" -> "diff" [] cmd = "grep" -> "search" [] OTHER -> "none"

RouterOrder(cmd) ==
  IF Preferred(cmd) = "none" THEN Compressors
  ELSE <<Preferred(cmd)>> \o SelectSeq(Compressors, LAMBDA c : c # Preferred(cmd))

(* SearchCompressor::detect counts the lines of grep's output; every other  *)
(* claim is decided by the text alone.                                      *)
Claims(t, cmd) ==
  IF cmd # "grep" THEN Profile[t].claims
  ELSE (Profile[t].claims \ {"search"}) \cup (IF Profile[t].lines3 THEN {"search"} ELSE {})

Hit(t, cmd) ==
  LET claiming == SelectSeq(RouterOrder(cmd), LAMBDA c : c \in Claims(t, cmd))
  IN  IF claiming = <<>> \/ Profile[t].new_size >= Profile[t].pre_size THEN "none"
      ELSE Head(claiming)

IsToon(compressor) == compressor \in {"json", "tabular"}
DropsContent(compressor) == compressor \notin {"json", "tabular", "none"}

-----------------------------------------------------------------------------
(* The CCR store *)

(* Mutant: the limit on the number of files is not looked at.               *)
OverBytes(fs) == Bytes(fs) > MaxThreadBytes

OverLimits(fs) == Cardinality(fs) > MaxFiles \/ Bytes(fs) > MaxThreadBytes

(* Mutant: the newest files go first.                                       *)
EvictNewest(fs, stuck) ==
  {gone \in SUBSET (fs \ stuck) :
     /\ \A f \in gone, g \in fs \ (stuck \cup gone) : f.mtime >= g.mtime
     /\ gone = {} \/ \E last \in gone :
                       /\ \A f \in gone : f.mtime >= last.mtime
                       /\ OverLimits(fs \ (gone \ {last}))
     /\ ~OverLimits(fs \ gone) \/ gone = fs \ stuck}

(* enforce_limits removes files, oldest first, until the directory is       *)
(* within both limits; a file that cannot be removed (stuck) is passed      *)
(* over.  Files of one request may have equal mtimes; their order is that   *)
(* of the directory listing, hence any.                                     *)
Evictions(fs, stuck) ==
  {gone \in SUBSET (fs \ stuck) :
     /\ \A f \in gone, g \in fs \ (stuck \cup gone) : f.mtime <= g.mtime
     /\ gone = {} \/ \E last \in gone :
                       /\ \A f \in gone : f.mtime <= last.mtime
                       /\ OverLimits(fs \ (gone \ {last}))
     /\ ~OverLimits(fs \ gone) \/ gone = fs \ stuck}

Replace(fs, path) ==
  {f \in fs : f.path # path} \cup {[path |-> path, mtime |-> requests]}

(* try_persist: reuse what this request already wrote; else make room, then *)
(* write.                                                                   *)
Reused(c, t) ==
  /\ <<c, t>> \in registry
  /\ UNCHANGED <<registry, files, faults>>

Written(c, t) ==
  /\ <<c, t>> \notin registry
  /\ \E stuck \in SUBSET files :
       /\ faults' = faults + Cardinality(stuck)
       /\ faults' <= MaxFaults
       /\ \E gone \in Evictions(files, stuck) : files' = Replace(files \ gone, <<c, t>>)
  /\ registry' = registry \cup {<<c, t>>}

(* A directory that cannot be made, or a write that fails after making      *)
(* room; a failed write may leave a truncated file.                         *)
PersistFails(c, t) ==
  /\ <<c, t>> \notin registry
  /\ faults < MaxFaults
  /\ faults' = faults + 1
  /\ \/ files' = files
     \/ \E gone \in Evictions(files, {}) : files' \in {files \ gone, Replace(files \ gone, <<c, t>>)}
  /\ UNCHANGED registry

-----------------------------------------------------------------------------
(* compress_in_place *)

Segment(item, form, ptr, lost, size) ==
  [call |-> item.call, text |-> item.text, form |-> form, ptr |-> ptr, lost |-> lost,
   size |-> size]
Original(item) == Segment(item, "original", FALSE, FALSE, Size(item.text))

(* Mutant: the product is written back whatever its size.                   *)
WriteBackAlways(item, product) == out' = Append(out, product)

(* The final gate writes a product back only if it is not larger.  Its      *)
(* second condition, that a product of kind Json parses, is always met: no  *)
(* compressor makes one (json and tabular both make TOON).                  *)
WriteBack(item, product) ==
  out' = Append(out, IF product.size <= Size(item.text) THEN product ELSE Original(item))

NoStore == UNCHANGED <<registry, files, faults>>

(* Mutant: when the original cannot be written, the product is kept.        *)
AttachLossy(item, form, size) ==
  /\ CcrEnabled
  /\ \/ /\ Written(item.call, item.text)
        /\ WriteBack(item, Segment(item, form, TRUE, TRUE, size + PointerSize))
     \/ /\ PersistFails(item.call, item.text)
        /\ WriteBack(item, Segment(item, form, FALSE, TRUE, size))

(* ccr::attach: the product with the path, or the original.                 *)
Attach(item, form, size) ==
  LET c == item.call
      t == item.text
      attached == Segment(item, form, TRUE, TRUE, size + PointerSize)
  IN  \/ /\ ~CcrEnabled
         /\ NoStore
         /\ WriteBack(item, Segment(item, form, FALSE, TRUE, size))
      \/ /\ CcrEnabled /\ Size(t) > MaxFileBytes
         /\ NoStore
         /\ WriteBack(item, Original(item))
      \/ /\ CcrEnabled /\ Size(t) <= MaxFileBytes
         /\ Reused(c, t) \/ Written(c, t)
         /\ WriteBack(item, attached)
      \/ /\ CcrEnabled /\ Size(t) <= MaxFileBytes
         /\ PersistFails(c, t)
         /\ WriteBack(item, Original(item))

CompressItem ==
  /\ sending
  /\ Len(out) < Len(history)
  /\ LET item == history[Len(out) + 1]
         t == item.text
         cmd == CmdIndex(item.call)
         hit == Hit(t, cmd)
         pre == Profile[t].pre_size
         pre_lossy == Profile[t].pre_lossy
         new == Profile[t].new_size
     IN  \/ /\ BelowItemMin(t) \/ ShouldProtect(t, cmd)
            /\ NoStore
            /\ WriteBack(item, Original(item))
         \/ /\ ~BelowItemMin(t) /\ ~ShouldProtect(t, cmd)
            /\ \/ /\ IsToon(hit)
                  /\ NoStore
                  /\ WriteBack(item, Segment(item, hit, FALSE, pre_lossy, new))
               \/ /\ DropsContent(hit)
                  /\ Attach(item, hit, new)
               \/ /\ hit = "none" /\ pre_lossy
                  /\ Attach(item, "preprocessed", pre)
               \/ /\ hit = "none" /\ ~pre_lossy
                  /\ NoStore
                  /\ WriteBack(item, Segment(item, "preprocessed", FALSE, FALSE, pre))
  /\ UNCHANGED <<history, sending, requests, lastOut>>

Sent ==
  /\ sending
  /\ Len(out) = Len(history)
  /\ sending' = FALSE
  /\ lastOut' = out
  /\ UNCHANGED <<history, out, registry, files, requests, faults>>

Next ==
  \/ \E c \in Calls, t \in Texts, cmd \in Hints : ToolOutput(c, t, cmd)
  \/ DropOldest
  \/ StartRequest \/ CompressItem \/ Sent

Spec == Init /\ [][Next]_vars

-----------------------------------------------------------------------------
(* Types, and the final gate: no output is ever sent larger than it is.     *)
TypeOK ==
  /\ sending \in BOOLEAN
  /\ requests \in 0..MaxRequests
  /\ faults \in 0..MaxFaults
  /\ \A f \in files : f.path \in Calls \X Texts /\ f.mtime \in 1..requests
  /\ registry \subseteq Calls \X Texts
  /\ \A i \in 1..Len(out) : out[i].size <= Size(out[i].text)

Complete == sending /\ Len(out) = Len(history)

(* The prompt cache: until the history is rewritten, a request sends the    *)
(* outputs of the request before it unchanged ("a tool output yields        *)
(* identical bytes whether it is the tail or history"), with the hints,     *)
(* the router, the store and its evictions in between.  Stated for calls    *)
(* with distinct ids, and as long as no file operation failed.              *)
PrefixStable == Complete /\ faults = 0 => IsPrefix(lastOut, out)

PointerPaths == {<<out[i].call, out[i].text>> : i \in {i \in 1..Len(out) : out[i].ptr}}
Paths == {f.path : f \in files}
PathBytes(ps) == MapThenSumSet(LAMBDA p : Size(p[2]), ps)

(* Every path a request mentions exists when it is sent, as long as the     *)
(* originals of this one request fit into the directory (plus the one that  *)
(* is written after making room) and no file operation failed: eviction     *)
(* only ever takes originals of older requests first, and re-sending        *)
(* refreshes an original.                                                   *)
PointersResolve ==
  /\ Complete /\ faults = 0
  /\ Cardinality(registry) <= MaxFiles + 1
  /\ PathBytes(registry) <= MaxThreadBytes
  => PointerPaths \subseteq Paths

(* Without failed removals the directory holds at most one file more than   *)
(* its limit, because room is made before the write and not after it.       *)
DirectoryBounded == faults = 0 => Cardinality(files) <= MaxFiles + 1

(* ccr.rs, its core rule: a text product that lost content carries a path,  *)
(* or the original is sent; also when the directory cannot be written.      *)
LossyTextHasPath ==
  CcrEnabled => \A i \in 1..Len(out) : out[i].lost /\ ~IsToon(out[i].form) => out[i].ptr
=============================================================================
