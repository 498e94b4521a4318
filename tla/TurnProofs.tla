----------------------------- MODULE TurnProofs -----------------------------
(***************************************************************************)
(* Proofs about TurnLifecycle, for every set of turns, callers and inputs: *)
(* its types; the terminal events of a turn and the lifetime of its task;  *)
(* where the inputs are, so that none is held twice or lost.               *)
(***************************************************************************)
EXTENDS TurnLifecycle, SequenceTheorems, FiniteSetTheorems, TLAPS

-----------------------------------------------------------------------------
(* Type correctness.  There is one lemma per action; the lemmas about the  *)
(* record updates and the sequence of turn states come first.              *)

-----------------------------------------------------------------------------
(* The records and the queue of turn states. *)

LEMMA UnbornTaskType == UnbornTask \in Task /\ UnbornTask.ts = 0
  BY DEF UnbornTask, Task, Kinds

LEMMA IdleCallerType == IdleCaller \in Caller /\ IdleCaller.ts = 0
  BY DEF IdleCaller, Caller, Kinds

LEMMA MailIsInput == Mails \subseteq Inputs
  BY DEF Inputs

LEMMA EndedTaskType ==
    ASSUME task \in [Turns -> Task], NEW t \in Turns
    PROVE  /\ EndedTask(t) \in Task /\ EndedTask(t).ts = 0
           /\ EndedTask(t).pc = "done"
  <1>1. task[t] \in Task
    OBVIOUS
  <1>2. /\ task[t].cancelled \in BOOLEAN
        /\ task[t].ends \in Seq({"TurnComplete", "TurnAborted"})
    BY <1>1 DEF Task
  <1> QED BY <1>2, UnbornTaskType DEF EndedTask, Task

\* A value the task of a turn may take: what TaskTypes says of each.
GoodTask(r) ==
    /\ r \in Task
    /\ r.ts \in 0 .. Len(tstate)
    /\ r.pc = "finInput" => r.ts # 0

GoodCaller(r) ==
    /\ r \in Caller
    /\ r.ts \in 0 .. Len(tstate)
    /\ r.pc \in UsesTurnState => r.ts # 0
    /\ r.pc \in UsesVictim => r.victim # NoTask

\* Replacing the task of one turn keeps the tasks well typed.
LEMMA TaskUpdate ==
    ASSUME TaskTypes, NEW t \in Turns, NEW r \in Task,
           task' = [task EXCEPT ![t] = r],
           Len(tstate) \in Nat, Len(tstate)' \in Nat, Len(tstate) <= Len(tstate)',
           r.ts \in 0 .. Len(tstate)', r.pc = "finInput" => r.ts # 0
    PROVE  TaskTypes'
  <1>1. task' \in [Turns -> Task]
    BY DEF TaskTypes
  <1>2. ASSUME NEW u \in Turns
        PROVE  /\ task'[u].ts \in 0 .. Len(tstate)'
               /\ task'[u].pc = "finInput" => task'[u].ts # 0
    <2>1. /\ task[u].ts \in 0 .. Len(tstate)
          /\ task[u].pc = "finInput" => task[u].ts # 0
      BY DEF TaskTypes
    <2>2. task'[u] = IF u = t THEN r ELSE task[u]
      BY DEF TaskTypes
    <2> QED BY <2>1, <2>2
  <1> QED BY <1>1, <1>2 DEF TaskTypes

LEMMA CallerUpdate ==
    ASSUME CallerTypes, NEW c \in Callers, NEW r \in Caller,
           caller' = [caller EXCEPT ![c] = r],
           Len(tstate) \in Nat, Len(tstate)' \in Nat, Len(tstate) <= Len(tstate)',
           r.ts \in 0 .. Len(tstate)',
           r.pc \in UsesTurnState => r.ts # 0,
           r.pc \in UsesVictim => r.victim # NoTask
    PROVE  CallerTypes'
  <1>1. caller' \in [Callers -> Caller]
    BY DEF CallerTypes
  <1>2. ASSUME NEW u \in Callers
        PROVE  /\ caller'[u].ts \in 0 .. Len(tstate)'
               /\ caller'[u].pc \in UsesTurnState => caller'[u].ts # 0
               /\ caller'[u].pc \in UsesVictim => caller'[u].victim # NoTask
    <2>1. /\ caller[u].ts \in 0 .. Len(tstate)
          /\ caller[u].pc \in UsesTurnState => caller[u].ts # 0
          /\ caller[u].pc \in UsesVictim => caller[u].victim # NoTask
      BY DEF CallerTypes
    <2>2. caller'[u] = IF u = c THEN r ELSE caller[u]
      BY DEF CallerTypes
    <2> QED BY <2>1, <2>2
  <1> QED BY <1>1, <1>2 DEF CallerTypes

\* Tasks and callers stay well typed when only new turn states appear.
LEMMA TaskFrame ==
    ASSUME TaskTypes, UNCHANGED task,
           Len(tstate) \in Nat, Len(tstate)' \in Nat, Len(tstate) <= Len(tstate)'
    PROVE  TaskTypes'
  BY DEF TaskTypes

LEMMA CallerFrame ==
    ASSUME CallerTypes, UNCHANGED caller,
           Len(tstate) \in Nat, Len(tstate)' \in Nat, Len(tstate) <= Len(tstate)'
    PROVE  CallerTypes'
  BY DEF CallerTypes

\* A turn state whose input or phase is replaced in place.
LEMMA InputReplaced ==
    ASSUME NEW q \in Seq(TurnState), NEW k \in Nat, NEW b \in Seq(Inputs)
    PROVE  LET r == [q EXCEPT ![k].input = b]
           IN r \in Seq(TurnState) /\ Len(r) = Len(q)
  <1> DEFINE r == [q EXCEPT ![k].input = b]
  <1>1. ASSUME NEW x \in TurnState PROVE [x EXCEPT !.input = b] \in TurnState
    BY DEF TurnState
  <1>2. r = [j \in 1 .. Len(q) |-> IF j = k THEN [q[k] EXCEPT !.input = b] ELSE q[j]]
    BY SMTT(30)
  <1>3. \A j \in 1 .. Len(q) : q[j] \in TurnState
    OBVIOUS
  <1>4. r \in [1 .. Len(q) -> TurnState]
    BY <1>1, <1>2, <1>3
  <1> QED BY <1>2, <1>4

LEMMA PhaseReplaced ==
    ASSUME NEW q \in Seq(TurnState), NEW k \in Nat,
           NEW ph \in {"CurrentTurn", "NextTurn"}
    PROVE  LET r == [q EXCEPT ![k].phase = ph]
           IN r \in Seq(TurnState) /\ Len(r) = Len(q)
  <1> DEFINE r == [q EXCEPT ![k].phase = ph]
  <1>1. ASSUME NEW x \in TurnState PROVE [x EXCEPT !.phase = ph] \in TurnState
    BY DEF TurnState
  <1>2. r = [j \in 1 .. Len(q) |-> IF j = k THEN [q[k] EXCEPT !.phase = ph] ELSE q[j]]
    OBVIOUS
  <1>3. \A j \in 1 .. Len(q) : q[j] \in TurnState
    OBVIOUS
  <1>4. r \in [1 .. Len(q) -> TurnState]
    BY <1>1, <1>2, <1>3
  <1> QED BY <1>2, <1>4

LEMMA TurnStateFields ==
    ASSUME NEW q \in Seq(TurnState), NEW k \in 1 .. Len(q)
    PROVE  q[k] \in TurnState /\ q[k].input \in Seq(Inputs)
  <1>1. q[k] \in TurnState
    OBVIOUS
  <1> QED BY <1>1 DEF TurnState

\* The take of the active turn's input.
LEMMA TurnPendingType ==
    ASSUME QueueTypes
    PROVE  /\ TurnPending \in Seq(Inputs)
           /\ TurnPendingTaken \in Seq(TurnState)
           /\ Len(TurnPendingTaken) = Len(tstate)
  <1>1. active.state \in 0 .. Len(tstate) /\ tstate \in Seq(TurnState)
    BY DEF QueueTypes
  <1>2. <<>> \in Seq(Inputs)
    OBVIOUS
  <1>3. CASE active.state = 0
    BY <1>1, <1>2, <1>3 DEF TurnPending, TurnPendingTaken
  <1>4. CASE active.state # 0
    <2>1. active.state \in 1 .. Len(tstate) /\ active.state \in Nat
      BY <1>1, <1>4
    <2>2. tstate[active.state].input \in Seq(Inputs)
      BY <1>1, <2>1, TurnStateFields
    <2> QED BY <1>1, <1>2, <1>4, <2>1, <2>2, InputReplaced DEF TurnPending, TurnPendingTaken
  <1> QED BY <1>3, <1>4

LEMMA LenNat == ASSUME QueueTypes PROVE Len(tstate) \in Nat
  BY DEF QueueTypes

LEMMA TaskHasType ==
    ASSUME TaskTypes, NEW t \in Turns
    PROVE  /\ task[t] \in Task
           /\ task[t].buf \in Seq(Inputs)
           /\ task[t].ends \in Seq({"TurnComplete", "TurnAborted"})
           /\ GoodTask(task[t])
  <1>1. task[t] \in Task
    BY DEF TaskTypes
  <1> QED BY <1>1 DEF GoodTask, TaskTypes, Task

LEMMA CallerHasType ==
    ASSUME CallerTypes, NEW c \in Callers
    PROVE  /\ caller[c] \in Caller
           /\ caller[c].input \in Seq(Inputs)
           /\ caller[c].buf \in Seq(Inputs)
           /\ caller[c].turn \in Turns \cup {NoTask}
           /\ caller[c].victim \in Turns \cup {NoTask}
           /\ GoodCaller(caller[c])
  <1>1. caller[c] \in Caller
    BY DEF CallerTypes
  <1> QED BY <1>1 DEF GoodCaller, CallerTypes, Caller

-----------------------------------------------------------------------------
(* Type correctness of the steps of a task. *)

\* A step that changes nothing but the task of turn t.
LEMMA TaskStepType ==
    ASSUME TypeOK, NEW t \in Turns, NEW r, GoodTask(r),
           task' = [task EXCEPT ![t] = r],
           QueuesUnchanged, TaskOnly, Recorded
    PROVE  TypeOK'
  <1>1. /\ Len(tstate) \in Nat /\ Len(tstate)' \in Nat
        /\ Len(tstate) <= Len(tstate)'
        /\ r \in Task /\ r.ts \in 0 .. Len(tstate)'
        /\ r.pc = "finInput" => r.ts # 0
    BY LenNat DEF GoodTask, TypeOK, QueuesUnchanged
  <1>2. TaskTypes'
    BY <1>1, TaskUpdate DEF TypeOK
  <1>3. CallerTypes'
    BY <1>1, CallerFrame DEF TypeOK, TaskOnly
  <1>4. QueueTypes' /\ LedgerTypes'
    BY DEF TypeOK, QueueTypes, LedgerTypes, QueuesUnchanged, TaskOnly, Recorded
  <1> QED BY <1>2, <1>3, <1>4 DEF TypeOK

LEMMA BeginTurnType ==
    ASSUME TypeOK, NEW t \in Turns, BeginTurn(t)
    PROVE  TypeOK'
  <1> DEFINE r == [task[t] EXCEPT !.pc = "recordInput"]
  <1>1. task' = [task EXCEPT ![t] = r]
    BY DEF BeginTurn
  <1>2. GoodTask(task[t])
    BY TaskHasType DEF GoodTask, TypeOK
  <1>3. GoodTask(r)
    BY <1>2 DEF GoodTask, Task
  <1> QED BY <1>1, <1>3, TaskStepType DEF BeginTurn

LEMMA GiveUpType ==
    ASSUME TypeOK, NEW t \in Turns, GiveUp(t)
    PROVE  TypeOK'
  <1> DEFINE r == [task[t] EXCEPT !.pc = "exit", !.buf = <<>>, !.failed = TRUE]
             q == [task[t] EXCEPT !.pc = "exitCheck", !.buf = <<>>]
  <1>1. GoodTask(task[t]) /\ <<>> \in Seq(Inputs)
    BY TaskHasType DEF GoodTask, TypeOK
  <1>2. GoodTask(r)
    BY <1>1 DEF GoodTask, Task
  <1>3. GoodTask(q)
    BY <1>1 DEF GoodTask, Task
  <1>4. task' = [task EXCEPT ![t] = r] \/ task' = [task EXCEPT ![t] = q]
    BY DEF GiveUp
  <1> QED BY <1>2, <1>3, <1>4, TaskStepType DEF GiveUp

LEMMA RecordDoneType ==
    ASSUME TypeOK, NEW t \in Turns, RecordDone(t)
    PROVE  TypeOK'
  <1> DEFINE r(pc) == [task[t] EXCEPT !.hook = "none", !.pc = pc]
             Next3 == {"exitCheck", "drain", "sample", "finEvent"}
  <1>1. GoodTask(task[t])
    BY TaskHasType DEF GoodTask, TypeOK
  <1>2. ASSUME NEW pc \in Next3 PROVE GoodTask(r(pc))
    BY <1>1 DEF GoodTask, Task
  <1>3. ASSUME NEW pc \in Next3, task' = [task EXCEPT ![t] = r(pc)] PROVE TypeOK'
    BY <1>2, <1>3, TaskStepType DEF RecordDone
  <1>4. CASE task[t].hook = "blocked"
    <2>1. \/ task' = [task EXCEPT ![t] = r("exitCheck")]
          \/ task' = [task EXCEPT ![t] = r("finEvent")]
      BY <1>4 DEF RecordDone
    <2> QED BY <2>1, <1>3
  <1>5. CASE task[t].hook # "blocked"
    <2>1. \/ task' = [task EXCEPT ![t] = r("drain")]
          \/ task' = [task EXCEPT ![t] = r("sample")]
          \/ task' = [task EXCEPT ![t] = r("finEvent")]
      BY <1>5 DEF RecordDone
    <2> QED BY <2>1, <1>3
  <1> QED BY <1>4, <1>5

LEMMA SampleFollowUpType ==
    ASSUME TypeOK, NEW t \in Turns, SampleFollowUp(t)
    PROVE  TypeOK'
  <1> DEFINE r == [task[t] EXCEPT !.pc = "drain", !.canDrain = TRUE]
  <1>1. task' = [task EXCEPT ![t] = r]
    BY DEF SampleFollowUp
  <1>2. GoodTask(task[t])
    BY TaskHasType DEF GoodTask, TypeOK
  <1>3. GoodTask(r)
    BY <1>2 DEF GoodTask, Task
  <1> QED BY <1>1, <1>3, TaskStepType DEF SampleFollowUp

LEMMA SampleCompactType ==
    ASSUME TypeOK, NEW t \in Turns, SampleCompact(t)
    PROVE  TypeOK'
  <1> DEFINE r(b) == [task[t] EXCEPT !.pc = "drain", !.canDrain = ~b]
  <1>1. PICK b \in BOOLEAN : task' = [task EXCEPT ![t] = r(b)]
    BY DEF SampleCompact
  <1>2. GoodTask(task[t])
    BY TaskHasType DEF GoodTask, TypeOK
  <1>3. GoodTask(r(b))
    BY <1>2 DEF GoodTask, Task
  <1> QED BY <1>1, <1>3, TaskStepType DEF SampleCompact

LEMMA SampleStopType ==
    ASSUME TypeOK, NEW t \in Turns, SampleStop(t)
    PROVE  TypeOK'
  <1> DEFINE pc == IF task[t].kind = "Regular" THEN "exitCheck" ELSE "exit"
             r == [task[t] EXCEPT !.pc = pc]
  <1>1. task' = [task EXCEPT ![t] = r]
    BY DEF SampleStop
  <1>2. GoodTask(task[t])
    BY TaskHasType DEF GoodTask, TypeOK
  <1>3. pc \in {"exitCheck", "exit"}
    OBVIOUS
  <1>4. GoodTask(r)
    <2> HIDE DEF pc
    <2> QED BY <1>2, <1>3 DEF GoodTask, Task
  <1> QED BY <1>1, <1>4, TaskStepType DEF SampleStop

LEMMA SampleErrorType ==
    ASSUME TypeOK, NEW t \in Turns, SampleError(t)
    PROVE  TypeOK'
  <1> DEFINE r == [task[t] EXCEPT !.pc = "exit", !.failed = TRUE]
             q == [task[t] EXCEPT !.pc = "exitCheck"]
  <1>1. GoodTask(task[t])
    BY TaskHasType DEF GoodTask, TypeOK
  <1>2. GoodTask(r)
    BY <1>1 DEF GoodTask, Task
  <1>3. GoodTask(q)
    BY <1>1 DEF GoodTask, Task
  <1>4. task' = [task EXCEPT ![t] = r] \/ task' = [task EXCEPT ![t] = q]
    BY DEF SampleError
  <1> QED BY <1>2, <1>3, <1>4, TaskStepType DEF SampleError

LEMMA ExitCheckType ==
    ASSUME TypeOK, NEW t \in Turns, ExitCheck(t)
    PROVE  TypeOK'
  <1> DEFINE pc == IF HasPendingInput THEN "begin" ELSE "exit"
             r == [task[t] EXCEPT !.canDrain = TRUE, !.pc = pc]
  <1>1. task' = [task EXCEPT ![t] = r]
    BY DEF ExitCheck
  <1>2. GoodTask(task[t])
    BY TaskHasType DEF GoodTask, TypeOK
  <1>3. pc \in {"begin", "exit"}
    OBVIOUS
  <1>4. GoodTask(r)
    <2> HIDE DEF pc
    <2> QED BY <1>2, <1>3 DEF GoodTask, Task
  <1> QED BY <1>1, <1>4, TaskStepType DEF ExitCheck

LEMMA CheckCancelledType ==
    ASSUME TypeOK, NEW t \in Turns, CheckCancelled(t)
    PROVE  TypeOK'
  <1> DEFINE r == [task[t] EXCEPT !.pc = "finTake"]
  <1>1. GoodTask(task[t])
    BY TaskHasType DEF GoodTask, TypeOK
  <1>2. GoodTask(r)
    BY <1>1 DEF GoodTask, Task
  <1>3. GoodTask(EndedTask(t))
    BY <1>1, EndedTaskType, LenNat DEF GoodTask, TypeOK, TaskTypes
  <1>4. task' = [task EXCEPT ![t] = r] \/ task' = [task EXCEPT ![t] = EndedTask(t)]
    BY DEF CheckCancelled
  <1> QED BY <1>2, <1>3, <1>4, TaskStepType DEF CheckCancelled

LEMMA FinishEventType ==
    ASSUME TypeOK, NEW t \in Turns, FinishEvent(t)
    PROVE  TypeOK'
  <1> DEFINE e == IF task[t].failed THEN "TurnAborted" ELSE "TurnComplete"
             q == Append(task[t].ends, e)
             r == [task[t] EXCEPT !.pc = "finClear", !.ends = q]
  <1>1. task' = [task EXCEPT ![t] = r]
    BY DEF FinishEvent
  <1>2. /\ GoodTask(task[t])
        /\ task[t].ends \in Seq({"TurnComplete", "TurnAborted"})
    BY TaskHasType DEF GoodTask, TypeOK
  <1>3. q \in Seq({"TurnComplete", "TurnAborted"})
    BY <1>2
  <1>4. GoodTask(r)
    <2> HIDE DEF q
    <2> QED BY <1>2, <1>3 DEF GoodTask, Task
  <1> QED BY <1>1, <1>4, TaskStepType DEF FinishEvent

\* The remaining steps of a task also change a queue or the conversation.
LEMMA RecordOneType ==
    ASSUME TypeOK, NEW t \in Turns, RecordOne(t)
    PROVE  TypeOK'
  <1> DEFINE i == Head(task[t].buf)
             rest == Tail(task[t].buf)
             r(h) == [task[t] EXCEPT !.buf = rest, !.hook = h]
  <1>1. /\ GoodTask(task[t])
        /\ task[t].buf \in Seq(Inputs) /\ task[t].buf # <<>>
    BY TaskHasType DEF GoodTask, TypeOK, RecordOne
  <1>2. i \in Inputs /\ rest \in Seq(Inputs)
    BY <1>1
  <1>3. ASSUME NEW h \in {"none", "blocked", "accepted"}
        PROVE  GoodTask(r(h))
    <2> HIDE DEF rest
    <2> QED BY <1>1, <1>2 DEF GoodTask, Task
  <1>4. task[t].hook \in {"none", "blocked", "accepted"}
    BY <1>1 DEF GoodTask, Task
  <1>5. PICK h \in {"none", "blocked", "accepted"} : task' = [task EXCEPT ![t] = r(h)]
    <2>1. CASE task' = [task EXCEPT ![t].buf = rest,
                          ![t].hook = IF i \in UserInputs THEN "accepted" ELSE @]
      <3>1. CASE i \in UserInputs
        <4>1. task' = [task EXCEPT ![t] = r("accepted")]
          BY <2>1, <3>1
        <4> QED BY <4>1
      <3>2. CASE i \notin UserInputs
        <4>1. task' = [task EXCEPT ![t] = r(task[t].hook)]
          BY <2>1, <3>2
        <4> QED BY <4>1, <1>4
      <3> QED BY <3>1, <3>2
    <2>2. CASE task' = [task EXCEPT ![t].buf = rest,
                          ![t].hook = IF @ = "accepted" THEN @ ELSE "blocked"]
      <3>1. CASE task[t].hook = "accepted"
        <4>1. task' = [task EXCEPT ![t] = r("accepted")]
          BY <2>2, <3>1
        <4> QED BY <4>1
      <3>2. CASE task[t].hook # "accepted"
        <4>1. task' = [task EXCEPT ![t] = r("blocked")]
          BY <2>2, <3>2
        <4> QED BY <4>1
      <3> QED BY <3>1, <3>2
    <2> QED BY <2>1, <2>2 DEF RecordOne
  <1>6. /\ Len(tstate) \in Nat /\ Len(tstate)' \in Nat
        /\ Len(tstate) <= Len(tstate)'
        /\ r(h) \in Task /\ r(h).ts \in 0 .. Len(tstate)'
        /\ r(h).pc = "finInput" => r(h).ts # 0
    <2> HIDE DEF r
    <2> QED BY <1>3, LenNat DEF GoodTask, TypeOK, RecordOne, QueuesUnchanged
  <1>7. TaskTypes'
    <2> HIDE DEF r
    <2> QED BY <1>3, <1>5, <1>6, TaskUpdate DEF TypeOK
  <1>8. CallerTypes'
    BY <1>6, CallerFrame DEF TypeOK, RecordOne, TaskOnly
  <1>9. QueueTypes'
    BY DEF TypeOK, QueueTypes, RecordOne, QueuesUnchanged
  <1>10. LedgerTypes'
    <2> HIDE DEF i
    <2>1. \/ history' = Append(history, i) /\ blocked' = blocked
          \/ i \in UserInputs /\ blocked' = blocked \cup {i} /\ history' = history
      BY DEF RecordOne, i
    <2>2. i \in Inputs /\ history \in Seq(Inputs) /\ blocked \subseteq UserInputs
      BY <1>2 DEF TypeOK, LedgerTypes
    <2>3. history' \in Seq(Inputs)
      BY <2>1, <2>2
    <2>4. blocked' \subseteq UserInputs
      BY <2>1, <2>2
    <2> QED BY <2>3, <2>4 DEF TypeOK, LedgerTypes, RecordOne, TaskOnly
  <1> QED BY <1>7, <1>8, <1>9, <1>10 DEF TypeOK

\* A step of t that leaves active_turn, the callers and the ledgers alone and
\* changes turn states in place.
LEMMA DrainStepType ==
    ASSUME TypeOK, NEW t \in Turns, NEW r, GoodTask(r),
           task' = [task EXCEPT ![t] = r],
           tstate' \in Seq(TurnState), Len(tstate)' = Len(tstate),
           mailbox' \in Seq(Mails),
           UNCHANGED active, TaskOnly, Recorded
    PROVE  TypeOK'
  <1>1. /\ Len(tstate) \in Nat /\ Len(tstate)' \in Nat
        /\ Len(tstate) <= Len(tstate)'
        /\ r \in Task /\ r.ts \in 0 .. Len(tstate)'
        /\ r.pc = "finInput" => r.ts # 0
    BY LenNat DEF GoodTask, TypeOK
  <1>2. TaskTypes'
    BY <1>1, TaskUpdate DEF TypeOK
  <1>3. CallerTypes'
    BY <1>1, CallerFrame DEF TypeOK, TaskOnly
  <1>4. QueueTypes'
    BY DEF TypeOK, QueueTypes
  <1>5. LedgerTypes'
    BY DEF TypeOK, LedgerTypes, TaskOnly, Recorded
  <1> QED BY <1>2, <1>3, <1>4, <1>5 DEF TypeOK

LEMMA DrainType ==
    ASSUME TypeOK, NEW t \in Turns, Drain(t)
    PROVE  TypeOK'
  <1> DEFINE pc == IF AcceptsMailboxDelivery THEN "drainMail" ELSE "recordPending"
             r == [task[t] EXCEPT !.buf = TurnPending, !.pc = pc]
             q == [task[t] EXCEPT !.pc = "recordPending"]
  <1>1. GoodTask(task[t])
    BY TaskHasType DEF GoodTask, TypeOK
  <1>2. pc \in {"drainMail", "recordPending"}
    OBVIOUS
  <1>3. /\ TurnPending \in Seq(Inputs) /\ TurnPendingTaken \in Seq(TurnState)
        /\ Len(TurnPendingTaken) = Len(tstate)
        /\ tstate \in Seq(TurnState) /\ mailbox \in Seq(Mails)
    BY TurnPendingType DEF TypeOK, QueueTypes
  <1>4. GoodTask(r)
    <2> HIDE DEF pc
    <2> QED BY <1>1, <1>2, <1>3 DEF GoodTask, Task
  <1>5. GoodTask(q)
    BY <1>1 DEF GoodTask, Task
  <1>6. \/ task' = [task EXCEPT ![t] = r] /\ tstate' = TurnPendingTaken
        \/ task' = [task EXCEPT ![t] = q] /\ tstate' = tstate
    BY DEF Drain
  <1>7. UNCHANGED <<active, mailbox>> /\ TaskOnly /\ Recorded
    BY DEF Drain
  <1> HIDE DEF r, q
  <1> QED BY <1>3, <1>4, <1>5, <1>6, <1>7, DrainStepType

LEMMA DrainMailType ==
    ASSUME TypeOK, NEW t \in Turns, DrainMail(t)
    PROVE  TypeOK'
  <1> DEFINE b == task[t].buf \o mailbox
             r == [task[t] EXCEPT !.buf = b, !.pc = "recordPending"]
  <1>1. /\ GoodTask(task[t])
        /\ task[t].buf \in Seq(Inputs)
    BY TaskHasType DEF GoodTask, TypeOK
  <1>2. mailbox \in Seq(Mails) /\ tstate \in Seq(TurnState)
    BY DEF TypeOK, QueueTypes
  <1>3. mailbox \in Seq(Inputs)
    BY <1>2, MailIsInput
  <1>4. b \in Seq(Inputs)
    BY <1>1, <1>3
  <1>5. GoodTask(r)
    <2> HIDE DEF b
    <2> QED BY <1>1, <1>4 DEF GoodTask, Task
  <1>6. task' = [task EXCEPT ![t] = r]
    BY DEF DrainMail
  <1>7. /\ UNCHANGED <<active, tstate>> /\ TaskOnly /\ Recorded
        /\ mailbox' \in Seq(Mails)
    BY DEF DrainMail
  <1> HIDE DEF r
  <1> QED BY <1>2, <1>5, <1>6, <1>7, DrainStepType

LEMMA DeliveryPhaseType ==
    ASSUME TypeOK, NEW t \in Turns,
           DeferMailboxDelivery(t) \/ AcceptMailboxDelivery(t)
    PROVE  TypeOK'
  <1>1. /\ UNCHANGED <<active, mailbox, task>> /\ TaskOnly /\ Recorded
        /\ active.state \in Nat /\ tstate \in Seq(TurnState)
    BY DEF TypeOK, QueueTypes, DeferMailboxDelivery, AcceptMailboxDelivery
  <1>2. \/ tstate' = [tstate EXCEPT ![active.state].phase = "NextTurn"]
        \/ tstate' = [tstate EXCEPT ![active.state].phase = "CurrentTurn"]
    BY DEF DeferMailboxDelivery, AcceptMailboxDelivery
  <1>3. tstate' \in Seq(TurnState) /\ Len(tstate)' = Len(tstate)
    BY <1>1, <1>2, PhaseReplaced
  <1>4. /\ Len(tstate) \in Nat /\ Len(tstate)' \in Nat
        /\ Len(tstate) <= Len(tstate)'
    BY <1>3, LenNat DEF TypeOK
  <1>5. TaskTypes' /\ CallerTypes'
    BY <1>1, <1>4, TaskFrame, CallerFrame DEF TypeOK, TaskOnly
  <1>6. QueueTypes'
    BY <1>1, <1>3 DEF TypeOK, QueueTypes
  <1>7. LedgerTypes'
    BY <1>1 DEF TypeOK, LedgerTypes, TaskOnly, Recorded
  <1> QED BY <1>5, <1>6, <1>7 DEF TypeOK

\* A step of t that changes active_turn and its own task.
LEMMA FinishStepType ==
    ASSUME TypeOK, NEW t \in Turns, NEW r, GoodTask(r),
           task' = [task EXCEPT ![t] = r],
           active' \in [task : Turns \cup {NoTask}, state : 0 .. Len(tstate)],
           active'.task # NoTask => active'.state # 0,
           UNCHANGED <<tstate, mailbox>>, TaskOnly, Recorded
    PROVE  TypeOK'
  <1>1. /\ Len(tstate) \in Nat /\ Len(tstate)' \in Nat
        /\ Len(tstate) <= Len(tstate)'
        /\ r \in Task /\ r.ts \in 0 .. Len(tstate)'
        /\ r.pc = "finInput" => r.ts # 0
    BY LenNat DEF GoodTask, TypeOK
  <1>2. TaskTypes'
    BY <1>1, TaskUpdate DEF TypeOK
  <1>3. CallerTypes'
    BY <1>1, CallerFrame DEF TypeOK, TaskOnly
  <1>4. QueueTypes'
    BY DEF TypeOK, QueueTypes
  <1>5. LedgerTypes'
    BY DEF TypeOK, LedgerTypes, TaskOnly, Recorded
  <1> QED BY <1>2, <1>3, <1>4, <1>5 DEF TypeOK

LEMMA NoTurnType ==
    ASSUME QueueTypes
    PROVE  /\ NoTurn \in [task : Turns \cup {NoTask}, state : 0 .. Len(tstate)]
           /\ NoTurn.task = NoTask /\ NoTurn.state = 0
  BY LenNat DEF NoTurn

LEMMA ActiveType ==
    ASSUME QueueTypes
    PROVE  /\ active \in [task : Turns \cup {NoTask}, state : 0 .. Len(tstate)]
           /\ active.task \in Turns \cup {NoTask}
           /\ active.state \in 0 .. Len(tstate) /\ active.state \in Nat
           /\ active.task # NoTask => active.state # 0
           /\ tstate \in Seq(TurnState) /\ mailbox \in Seq(Mails)
  BY LenNat DEF QueueTypes

LEMMA FinishTakeType ==
    ASSUME TypeOK, NEW t \in Turns, FinishTake(t)
    PROVE  TypeOK'
  <1> DEFINE r == [task[t] EXCEPT !.pc = "finInput", !.ts = active.state]
  <1>1. GoodTask(task[t])
    BY TaskHasType DEF GoodTask, TypeOK
  <1>2. /\ active \in [task : Turns \cup {NoTask}, state : 0 .. Len(tstate)]
        /\ active.state \in 0 .. Len(tstate) /\ active.state \in Nat
        /\ active.task # NoTask => active.state # 0
    BY ActiveType DEF TypeOK
  <1>3. active.task # NoTask => GoodTask(r)
    BY <1>1, <1>2 DEF GoodTask, Task
  <1>4. GoodTask(EndedTask(t))
    BY EndedTaskType, LenNat DEF GoodTask, TypeOK, TaskTypes
  <1>5. UNCHANGED <<tstate, mailbox>> /\ TaskOnly /\ Recorded
    BY DEF FinishTake
  <1>6. CASE active.task = NoTask
    <2>1. task' = [task EXCEPT ![t] = EndedTask(t)] /\ active' = active
      BY <1>6 DEF FinishTake
    <2> QED BY <1>2, <1>4, <1>5, <2>1, FinishStepType
  <1>7. CASE active.task # NoTask
    <2>1. task' = [task EXCEPT ![t] = r] /\ active' = [active EXCEPT !.task = NoTask]
      BY <1>7 DEF FinishTake
    <2>2. /\ active' \in [task : Turns \cup {NoTask}, state : 0 .. Len(tstate)]
          /\ active'.task # NoTask => active'.state # 0
      BY <1>2, <2>1
    <2> HIDE DEF r
    <2> QED BY <1>3, <1>5, <1>7, <2>1, <2>2, FinishStepType
  <1> QED BY <1>6, <1>7

LEMMA FinishClearType ==
    ASSUME TypeOK, NEW t \in Turns, FinishClear(t)
    PROVE  TypeOK'
  <1>1. GoodTask(EndedTask(t))
    BY EndedTaskType, LenNat DEF GoodTask, TypeOK, TaskTypes
  <1>2. /\ active' \in [task : Turns \cup {NoTask}, state : 0 .. Len(tstate)]
        /\ active'.task # NoTask => active'.state # 0
    BY ActiveType, NoTurnType DEF TypeOK, FinishClear
  <1>3. /\ UNCHANGED <<tstate, mailbox>> /\ TaskOnly /\ Recorded
        /\ task' = [task EXCEPT ![t] = EndedTask(t)]
    BY DEF FinishClear
  <1> QED BY <1>1, <1>2, <1>3, FinishStepType

LEMMA FinishInputType ==
    ASSUME TypeOK, NEW t \in Turns, FinishInput(t)
    PROVE  TypeOK'
  <1> DEFINE b == tstate[task[t].ts].input
             r == [task[t] EXCEPT !.pc = "finRecord", !.buf = b]
  <1>1. GoodTask(task[t])
    BY TaskHasType DEF TypeOK
  <1>2. tstate \in Seq(TurnState) /\ mailbox \in Seq(Mails) /\ Len(tstate) \in Nat
    BY ActiveType, LenNat DEF TypeOK
  <1>3. task[t].ts \in 1 .. Len(tstate) /\ task[t].ts \in Nat
    BY <1>1, <1>2 DEF GoodTask, FinishInput, Runs
  <1>4. b \in Seq(Inputs)
    BY <1>2, <1>3, TurnStateFields
  <1>5. GoodTask(r)
    <2> HIDE DEF b
    <2> QED BY <1>1, <1>4 DEF GoodTask, Task
  <1>6. task' = [task EXCEPT ![t] = r]
    BY DEF FinishInput
  <1>7. <<>> \in Seq(Inputs)
    OBVIOUS
  <1>8. /\ tstate' = [tstate EXCEPT ![task[t].ts].input = <<>>]
        /\ UNCHANGED <<active, mailbox>> /\ TaskOnly /\ Recorded
    BY DEF FinishInput
  <1>9. tstate' \in Seq(TurnState) /\ Len(tstate)' = Len(tstate)
    BY <1>2, <1>3, <1>7, <1>8, InputReplaced
  <1> HIDE DEF r
  <1> QED BY <1>2, <1>5, <1>6, <1>8, <1>9, DrainStepType

LEMMA TaskStepTypeOK ==
    ASSUME TypeOK, NEW t \in Turns, TaskStep(t)
    PROVE  TypeOK'
  BY BeginTurnType, GiveUpType, RecordOneType, RecordDoneType, DrainType, DrainMailType, DeliveryPhaseType,
     SampleFollowUpType, SampleCompactType, SampleStopType, SampleErrorType,
     ExitCheckType, CheckCancelledType, FinishTakeType, FinishInputType,
     FinishEventType, FinishClearType DEF TaskStep

-----------------------------------------------------------------------------
(* Type correctness of the steps of a call. *)

\* A step of caller c, given what it does to the queues and to the tasks.
LEMMA CallStepType ==
    ASSUME TypeOK, NEW c \in Callers, NEW r \in Caller,
           caller' = [caller EXCEPT ![c] = r],
           r.ts \in 0 .. Len(tstate)',
           r.pc \in UsesTurnState => r.ts # 0,
           r.pc \in UsesVictim => r.victim # NoTask,
           QueueTypes', Len(tstate) <= Len(tstate)', TaskTypes',
           returned' \subseteq Inputs, overwrote' \in BOOLEAN, CallerOnly
    PROVE  TypeOK'
  <1>1. Len(tstate) \in Nat /\ Len(tstate)' \in Nat
    BY LenNat DEF TypeOK, QueueTypes
  <1>2. CallerTypes'
    BY <1>1, CallerUpdate DEF TypeOK
  <1>3. LedgerTypes'
    BY DEF TypeOK, LedgerTypes, CallerOnly
  <1> QED BY <1>2, <1>3 DEF TypeOK

\* The same when the record only mentions turn states that existed before.
LEMMA OldStateStepType ==
    ASSUME TypeOK, NEW c \in Callers, NEW r, GoodCaller(r),
           caller' = [caller EXCEPT ![c] = r],
           QueueTypes', Len(tstate) <= Len(tstate)', TaskTypes',
           returned' \subseteq Inputs, overwrote' \in BOOLEAN, CallerOnly
    PROVE  TypeOK'
  <1>1. Len(tstate) \in Nat /\ Len(tstate)' \in Nat
    BY LenNat DEF TypeOK, QueueTypes
  <1>2. /\ r \in Caller /\ r.ts \in 0 .. Len(tstate)'
        /\ r.pc \in UsesTurnState => r.ts # 0
        /\ r.pc \in UsesVictim => r.victim # NoTask
    BY <1>1 DEF GoodCaller
  <1> QED BY <1>2, CallStepType

CallerPcs == {"idle", "abortTake", "abortWait", "abortEmit", "abortClear",
              "maybeCheck", "maybeReserve", "startDrain", "startMail",
              "startInsert", "startExtend", "startSpawn", "tryReserve",
              "tryRecheck", "tryClear", "tryStill", "tryExtend"}

LEMMA GotoType ==
    ASSUME CallerTypes, NEW c \in Callers, NEW pc \in CallerPcs,
           pc \in UsesTurnState => caller[c].ts # 0,
           pc \in UsesVictim => caller[c].victim # NoTask
    PROVE  GoodCaller([caller[c] EXCEPT !.pc = pc])
  <1>1. GoodCaller(caller[c])
    BY CallerHasType
  <1> QED BY <1>1 DEF GoodCaller, Caller, CallerPcs

LEMMA ReturnType ==
    ASSUME QueueTypes
    PROVE  GoodCaller(IdleCaller)
  <1>1. IdleCaller.pc = "idle"
    BY DEF IdleCaller
  <1> QED BY <1>1, IdleCallerType, LenNat DEF GoodCaller, UsesTurnState, UsesVictim

\* What holds of a step that leaves the queues, or the tasks, alone.
LEMMA QueueFrame ==
    ASSUME QueueTypes, QueuesUnchanged
    PROVE  QueueTypes' /\ Len(tstate) <= Len(tstate)' /\ Len(tstate)' = Len(tstate)
  BY LenNat DEF QueueTypes, QueuesUnchanged

LEMMA TaskFrame2 ==
    ASSUME TypeOK, UNCHANGED task, QueueTypes', Len(tstate) <= Len(tstate)'
    PROVE  TaskTypes'
  <1>1. Len(tstate) \in Nat /\ Len(tstate)' \in Nat
    BY LenNat DEF TypeOK, QueueTypes
  <1> QED BY <1>1, TaskFrame DEF TypeOK

LEMMA LedgerHas ==
    ASSUME TypeOK
    PROVE  returned \subseteq Inputs /\ overwrote \in BOOLEAN
  BY DEF TypeOK, LedgerTypes

LEMMA MaybeCheckType ==
    ASSUME TypeOK, NEW c \in Callers, MaybeCheck(c)
    PROVE  TypeOK'
  <1>1. QueueTypes' /\ Len(tstate) <= Len(tstate)'
    BY QueueFrame DEF TypeOK, MaybeCheck
  <1>2. TaskTypes' /\ returned' \subseteq Inputs /\ overwrote' \in BOOLEAN
    BY <1>1, TaskFrame2, LedgerHas DEF MaybeCheck
  <1>3. GoodCaller([caller[c] EXCEPT !.pc = "maybeReserve"])
    BY GotoType DEF TypeOK, CallerPcs, UsesTurnState, UsesVictim
  <1>4. GoodCaller(IdleCaller)
    BY ReturnType DEF TypeOK
  <1>5. \/ caller' = [caller EXCEPT ![c] = [caller[c] EXCEPT !.pc = "maybeReserve"]]
        \/ caller' = [caller EXCEPT ![c] = IdleCaller]
    BY DEF MaybeCheck, Goto, Return
  <1>6. CallerOnly
    BY DEF MaybeCheck
  <1> QED BY <1>1, <1>2, <1>3, <1>4, <1>5, <1>6, OldStateStepType

\* ActiveTurn::default() stored in active_turn.
LEMMA InsertActiveTurnType ==
    ASSUME TypeOK, InsertActiveTurn, UNCHANGED mailbox
    PROVE  /\ QueueTypes' /\ Len(tstate) <= Len(tstate)'
           /\ Len(tstate)' = Len(tstate) + 1 /\ Len(tstate)' \in Nat
           /\ active'.state = Len(tstate) + 1 /\ active'.task = NoTask
  <1>1. DefaultTurnState \in TurnState
    BY DEF DefaultTurnState, TurnState
  <1>2. tstate \in Seq(TurnState) /\ mailbox \in Seq(Mails) /\ Len(tstate) \in Nat
    BY LenNat DEF TypeOK, QueueTypes
  <1>3. tstate' \in Seq(TurnState) /\ Len(tstate)' = Len(tstate) + 1
    BY <1>1, <1>2 DEF InsertActiveTurn
  <1>4. active' = [task |-> NoTask, state |-> Len(tstate) + 1]
    BY DEF InsertActiveTurn
  <1>5. /\ active' \in [task : Turns \cup {NoTask}, state : 0 .. Len(tstate)']
        /\ active'.task = NoTask /\ active'.state = Len(tstate) + 1
    BY <1>2, <1>3, <1>4
  <1> QED BY <1>2, <1>3, <1>5 DEF QueueTypes

LEMMA MaybeReserveType ==
    ASSUME TypeOK, NEW c \in Callers, MaybeReserve(c)
    PROVE  TypeOK'
  <1>1. CallerOnly /\ UNCHANGED <<mailbox, task, returned, overwrote>>
    BY DEF MaybeReserve
  <1>2. CASE active.state # 0
    <2>1. QueueTypes' /\ Len(tstate) <= Len(tstate)'
      BY <1>1, <1>2, QueueFrame DEF TypeOK, MaybeReserve, QueuesUnchanged
    <2>2. TaskTypes' /\ returned' \subseteq Inputs /\ overwrote' \in BOOLEAN
      BY <1>1, <2>1, TaskFrame2, LedgerHas
    <2>3. GoodCaller(IdleCaller) /\ caller' = [caller EXCEPT ![c] = IdleCaller]
      BY <1>2, ReturnType DEF TypeOK, MaybeReserve, Return
    <2> QED BY <1>1, <2>1, <2>2, <2>3, OldStateStepType
  <1>3. CASE active.state = 0
    <2>1. QueueTypes' /\ Len(tstate) <= Len(tstate)'
      BY <1>1, <1>3, InsertActiveTurnType DEF MaybeReserve
    <2>2. TaskTypes' /\ returned' \subseteq Inputs /\ overwrote' \in BOOLEAN
      BY <1>1, <2>1, TaskFrame2, LedgerHas
    <2>3. GoodCaller([caller[c] EXCEPT !.pc = "startDrain"])
      BY GotoType DEF TypeOK, CallerPcs, UsesTurnState, UsesVictim
    <2>4. caller' = [caller EXCEPT ![c] = [caller[c] EXCEPT !.pc = "startDrain"]]
      BY <1>3 DEF MaybeReserve, Goto
    <2> QED BY <1>1, <2>1, <2>2, <2>3, <2>4, OldStateStepType
  <1> QED BY <1>2, <1>3

\* Taking the turn: the victim is a task of some turn.
LEMMA TakeAndCancelType ==
    ASSUME TypeOK, active.task # NoTask, UNCHANGED tstate,
           task' = [task EXCEPT ![active.task].cancelled = TRUE]
    PROVE  active.task \in Turns /\ TaskTypes'
  <1> DEFINE t == active.task
             r == [task[t] EXCEPT !.cancelled = TRUE]
  <1>1. t \in Turns
    BY ActiveType DEF TypeOK
  <1>2. GoodTask(task[t])
    BY <1>1, TaskHasType DEF TypeOK
  <1>3. GoodTask(r)
    BY <1>2 DEF GoodTask, Task
  <1>4. task' = [task EXCEPT ![t] = r]
    OBVIOUS
  <1>5. /\ Len(tstate) \in Nat /\ Len(tstate)' \in Nat /\ Len(tstate) <= Len(tstate)'
        /\ r \in Task /\ r.ts \in 0 .. Len(tstate)' /\ (r.pc = "finInput" => r.ts # 0)
    <2> HIDE DEF r
    <2> QED BY <1>3, LenNat DEF GoodTask, TypeOK
  <1> HIDE DEF r, t
  <1>6. TaskTypes'
    BY <1>1, <1>4, <1>5, TaskUpdate DEF TypeOK
  <1> QED BY <1>1, <1>6 DEF t

LEMMA NoTurnQueues ==
    ASSUME TypeOK, active' = NoTurn, UNCHANGED <<tstate, mailbox>>
    PROVE  QueueTypes' /\ Len(tstate) <= Len(tstate)'
  <1>1. QueueTypes
    BY DEF TypeOK
  <1>2. NoTurn \in [task : Turns \cup {NoTask}, state : 0 .. Len(tstate)]
    BY <1>1, NoTurnType
  <1> QED BY <1>1, <1>2, NoTurnType, LenNat DEF QueueTypes

LEMMA AbortTakeType ==
    ASSUME TypeOK, NEW c \in Callers, AbortTake(c)
    PROVE  TypeOK'
  <1>1. CallerOnly /\ UNCHANGED <<tstate, mailbox, returned, overwrote>>
    BY DEF AbortTake
  <1>2. active' = NoTurn
    BY DEF AbortTake, TakeAndCancel
  <1>3. QueueTypes' /\ Len(tstate) <= Len(tstate)'
    BY <1>1, <1>2, NoTurnQueues
  <1>4. returned' \subseteq Inputs /\ overwrote' \in BOOLEAN
    BY <1>1, LedgerHas
  <1>5. CASE active.task # NoTask
    <2> DEFINE r == [caller[c] EXCEPT !.pc = "abortWait", !.ts = active.state,
                                      !.victim = active.task]
    <2>1. task' = [task EXCEPT ![active.task].cancelled = TRUE]
      BY <1>5 DEF AbortTake, TakeAndCancel
    <2>2. active.task \in Turns /\ TaskTypes'
      BY <1>1, <1>5, <2>1, TakeAndCancelType
    <2>3. caller' = [caller EXCEPT ![c] = r]
      BY <1>5 DEF AbortTake, TakeAndCancel
    <2>4. GoodCaller(caller[c])
      BY CallerHasType DEF TypeOK
    <2>5. active.state \in 0 .. Len(tstate) /\ active.state # 0 /\ active.state \in Nat
      BY <1>5, ActiveType DEF TypeOK
    <2>6. GoodCaller(r)
      BY <1>5, <2>2, <2>4, <2>5 DEF GoodCaller, Caller
    <2> HIDE DEF r
    <2> QED BY <1>1, <1>3, <1>4, <2>2, <2>3, <2>6, OldStateStepType
  <1>6. CASE active.task = NoTask
    <2>1. task' = task
      BY <1>6 DEF AbortTake
    <2>2. TaskTypes'
      BY <1>3, <2>1, TaskFrame2
    <2>3. GoodCaller([caller[c] EXCEPT !.pc = "startDrain"])
      BY GotoType DEF TypeOK, CallerPcs, UsesTurnState, UsesVictim
    <2>4. GoodCaller(IdleCaller)
      BY ReturnType DEF TypeOK
    <2>5. \/ caller' = [caller EXCEPT ![c] = [caller[c] EXCEPT !.pc = "startDrain"]]
          \/ caller' = [caller EXCEPT ![c] = IdleCaller]
      BY <1>6 DEF AbortTake, Goto, Return
    <2> QED BY <1>1, <1>3, <1>4, <2>2, <2>3, <2>4, <2>5, OldStateStepType
  <1> QED BY <1>5, <1>6

LEMMA AbortKillType ==
    ASSUME TypeOK, NEW c \in Callers, AbortKill(c)
    PROVE  TypeOK'
  <1> DEFINE v == caller[c].victim
  <1>1. /\ GoodCaller(caller[c]) /\ caller[c].pc = "abortWait"
        /\ v \in Turns \cup {NoTask}
    BY CallerHasType DEF TypeOK, AbortKill, At
  <1>2. caller[c].ts # 0 /\ v # NoTask /\ v \in Turns
    BY <1>1 DEF GoodCaller, UsesTurnState, UsesVictim
  <1>3. QueueTypes' /\ Len(tstate) <= Len(tstate)'
    BY QueueFrame DEF TypeOK, AbortKill, QueuesUnchanged
  <1>4. EndedTask(v) \in Task /\ EndedTask(v).ts = 0 /\ EndedTask(v).pc = "done"
    BY <1>2, EndedTaskType DEF TypeOK, TaskTypes
  <1>5. task' = [task EXCEPT ![v] = EndedTask(v)]
    BY DEF AbortKill
  <1>6. Len(tstate) \in Nat /\ Len(tstate)' \in Nat
    BY <1>3, LenNat DEF TypeOK, QueueTypes
  <1>7. TaskTypes'
    <2>1. PICK r \in Task : r = EndedTask(v)
      BY <1>4
    <2>2. r.ts \in 0 .. Len(tstate)' /\ (r.pc = "finInput" => r.ts # 0)
      BY <1>4, <1>6, <2>1
    <2> HIDE DEF v
    <2> QED BY <1>2, <1>3, <1>5, <1>6, <2>1, <2>2, TaskUpdate DEF TypeOK
  <1>8. GoodCaller([caller[c] EXCEPT !.pc = "abortEmit"])
    BY <1>2, GotoType DEF TypeOK, CallerPcs
  <1>9. /\ caller' = [caller EXCEPT ![c] = [caller[c] EXCEPT !.pc = "abortEmit"]]
        /\ CallerOnly /\ returned' \subseteq Inputs /\ overwrote' \in BOOLEAN
    BY LedgerHas DEF AbortKill, Goto
  <1> QED BY <1>3, <1>7, <1>8, <1>9, OldStateStepType

LEMMA AbortEmitType ==
    ASSUME TypeOK, NEW c \in Callers, AbortEmit(c)
    PROVE  TypeOK'
  <1> DEFINE v == caller[c].victim
             e == Append(task[v].ends, "TurnAborted")
             r == [task[v] EXCEPT !.ends = e]
  <1>1. /\ GoodCaller(caller[c]) /\ caller[c].pc = "abortEmit"
        /\ v \in Turns \cup {NoTask}
    BY CallerHasType DEF TypeOK, AbortEmit, At
  <1>2. caller[c].ts # 0 /\ v # NoTask /\ v \in Turns
    BY <1>1 DEF GoodCaller, UsesTurnState, UsesVictim
  <1>3. QueueTypes' /\ Len(tstate) <= Len(tstate)' /\ Len(tstate)' = Len(tstate)
    BY QueueFrame DEF TypeOK, AbortEmit, QueuesUnchanged
  <1>4. GoodTask(task[v]) /\ task[v].ends \in Seq({"TurnComplete", "TurnAborted"})
    <2> HIDE DEF v
    <2> QED BY <1>2, TaskHasType DEF TypeOK
  <1>5. e \in Seq({"TurnComplete", "TurnAborted"})
    <2> HIDE DEF v
    <2> QED BY <1>4
  <1>6. GoodTask(r)
    <2> HIDE DEF v, e
    <2> QED BY <1>4, <1>5 DEF GoodTask, Task
  <1>7. task' = [task EXCEPT ![v] = r]
    BY DEF AbortEmit
  <1>8. Len(tstate) \in Nat /\ Len(tstate)' \in Nat
    BY <1>3, LenNat DEF TypeOK, QueueTypes
  <1>9. TaskTypes'
    <2> HIDE DEF r, v
    <2>1. r \in Task /\ r.ts \in 0 .. Len(tstate)' /\ (r.pc = "finInput" => r.ts # 0)
      BY <1>3, <1>6 DEF GoodTask
    <2> QED BY <1>2, <1>3, <1>7, <1>8, <2>1, TaskUpdate DEF TypeOK
  <1>10. GoodCaller([caller[c] EXCEPT !.pc = "abortClear"])
    BY <1>2, GotoType DEF TypeOK, CallerPcs, UsesVictim
  <1>11. /\ caller' = [caller EXCEPT ![c] = [caller[c] EXCEPT !.pc = "abortClear"]]
         /\ CallerOnly /\ returned' \subseteq Inputs /\ overwrote' \in BOOLEAN
    BY LedgerHas DEF AbortEmit, Goto
  <1> QED BY <1>3, <1>9, <1>10, <1>11, OldStateStepType

\* A turn state whose input is replaced, whatever the caller does besides.
LEMMA InputStepType ==
    ASSUME TypeOK, NEW k \in Nat, NEW b \in Seq(Inputs),
           tstate' = [tstate EXCEPT ![k].input = b],
           UNCHANGED <<active, mailbox>>
    PROVE  QueueTypes' /\ Len(tstate) <= Len(tstate)'
  <1>1. tstate \in Seq(TurnState) /\ Len(tstate) \in Nat
    BY LenNat DEF TypeOK, QueueTypes
  <1>2. tstate' \in Seq(TurnState) /\ Len(tstate)' = Len(tstate)
    BY <1>1, InputReplaced
  <1> QED BY <1>1, <1>2 DEF TypeOK, QueueTypes

LEMMA AbortClearType ==
    ASSUME TypeOK, NEW c \in Callers, AbortClear(c)
    PROVE  TypeOK'
  <1> DEFINE pc == IF caller[c].reason = "Interrupted" THEN "maybeCheck" ELSE "startDrain"
             r == [caller[c] EXCEPT !.ts = 0, !.victim = NoTask, !.pc = pc]
  <1>1. GoodCaller(caller[c]) /\ caller[c].ts \in Nat
    BY CallerHasType, LenNat DEF TypeOK, GoodCaller
  <1>2. <<>> \in Seq(Inputs)
    OBVIOUS
  <1>3. QueueTypes' /\ Len(tstate) <= Len(tstate)'
    BY <1>1, <1>2, InputStepType DEF AbortClear
  <1>4. TaskTypes' /\ returned' \subseteq Inputs /\ overwrote' \in BOOLEAN
    BY <1>3, TaskFrame2, LedgerHas DEF AbortClear
  <1>5. pc \in {"maybeCheck", "startDrain"}
    OBVIOUS
  <1>6. GoodCaller(r)
    <2> HIDE DEF pc
    <2>1. r \in Caller /\ r.ts = 0 /\ r.pc = pc
      BY <1>1, <1>5 DEF GoodCaller, Caller
    <2>2. pc \notin UsesTurnState /\ pc \notin UsesVictim
      BY <1>5 DEF UsesTurnState, UsesVictim
    <2>3. Len(tstate) \in Nat
      BY LenNat DEF TypeOK
    <2> HIDE DEF r
    <2> QED BY <2>1, <2>2, <2>3 DEF GoodCaller
  <1>7. caller' = [caller EXCEPT ![c] = r] /\ CallerOnly
    BY DEF AbortClear
  <1> HIDE DEF r
  <1> QED BY <1>3, <1>4, <1>6, <1>7, OldStateStepType

LEMMA StartDrainType ==
    ASSUME TypeOK, NEW c \in Callers, StartDrain(c)
    PROVE  TypeOK'
  <1> DEFINE pc == IF AcceptsMailboxDelivery THEN "startMail" ELSE "startInsert"
             r == [caller[c] EXCEPT !.buf = TurnPending, !.pc = pc]
  <1>1. GoodCaller(caller[c])
    BY CallerHasType DEF TypeOK
  <1>2. /\ TurnPending \in Seq(Inputs) /\ TurnPendingTaken \in Seq(TurnState)
        /\ Len(TurnPendingTaken) = Len(tstate) /\ Len(tstate) \in Nat
    BY TurnPendingType, LenNat DEF TypeOK
  <1>3. /\ tstate' = TurnPendingTaken /\ CallerOnly
        /\ UNCHANGED <<active, mailbox, task, returned, overwrote>>
        /\ caller' = [caller EXCEPT ![c] = r]
    BY DEF StartDrain
  <1>4. QueueTypes' /\ Len(tstate) <= Len(tstate)'
    BY <1>2, <1>3 DEF TypeOK, QueueTypes
  <1>5. TaskTypes' /\ returned' \subseteq Inputs /\ overwrote' \in BOOLEAN
    BY <1>3, <1>4, TaskFrame2, LedgerHas
  <1>6. pc \in {"startMail", "startInsert"}
    OBVIOUS
  <1>7. GoodCaller(r)
    <2> HIDE DEF pc
    <2>1. r \in Caller /\ r.ts = caller[c].ts /\ r.pc = pc
      BY <1>1, <1>2, <1>6 DEF GoodCaller, Caller
    <2>2. pc \notin UsesTurnState /\ pc \notin UsesVictim
      BY <1>6 DEF UsesTurnState, UsesVictim
    <2> HIDE DEF r
    <2> QED BY <1>1, <2>1, <2>2 DEF GoodCaller
  <1> HIDE DEF r
  <1> QED BY <1>3, <1>4, <1>5, <1>7, OldStateStepType

LEMMA StartMailType ==
    ASSUME TypeOK, NEW c \in Callers, StartMail(c)
    PROVE  TypeOK'
  <1> DEFINE b == caller[c].buf \o mailbox
             r == [caller[c] EXCEPT !.buf = b, !.pc = "startInsert"]
  <1>1. GoodCaller(caller[c]) /\ caller[c].buf \in Seq(Inputs)
    BY CallerHasType DEF TypeOK
  <1>2. mailbox \in Seq(Inputs)
    BY MailIsInput DEF TypeOK, QueueTypes
  <1>3. b \in Seq(Inputs)
    BY <1>1, <1>2
  <1>4. /\ mailbox' = <<>> /\ CallerOnly
        /\ UNCHANGED <<active, tstate, task, returned, overwrote>>
        /\ caller' = [caller EXCEPT ![c] = r]
    BY DEF StartMail
  <1>5. QueueTypes' /\ Len(tstate) <= Len(tstate)'
    <2>1. mailbox' \in Seq(Mails)
      BY <1>4
    <2> QED BY <1>4, <2>1, LenNat DEF TypeOK, QueueTypes
  <1>6. TaskTypes' /\ returned' \subseteq Inputs /\ overwrote' \in BOOLEAN
    BY <1>4, <1>5, TaskFrame2, LedgerHas
  <1>7. GoodCaller(r)
    <2> HIDE DEF b
    <2>1. r \in Caller /\ r.ts = caller[c].ts /\ r.pc = "startInsert"
      BY <1>1, <1>3 DEF GoodCaller, Caller
    <2> HIDE DEF r
    <2> QED BY <1>1, <2>1 DEF GoodCaller, UsesTurnState, UsesVictim
  <1> HIDE DEF r
  <1> QED BY <1>4, <1>5, <1>6, <1>7, OldStateStepType

\* A caller that remembers the turn state k, which may be a new one.
LEMMA RememberStateType ==
    ASSUME TypeOK, NEW c \in Callers, NEW k \in Nat, NEW pc \in {"startExtend", "tryRecheck"},
           k \in 1 .. Len(tstate)',
           caller' = [caller EXCEPT ![c] = [caller[c] EXCEPT !.pc = pc, !.ts = k]],
           QueueTypes', Len(tstate) <= Len(tstate)', UNCHANGED <<task, returned>>,
           overwrote' \in BOOLEAN, CallerOnly
    PROVE  TypeOK'
  <1> DEFINE r == [caller[c] EXCEPT !.pc = pc, !.ts = k]
  <1>1. GoodCaller(caller[c])
    BY CallerHasType DEF TypeOK
  <1>2. r \in Caller /\ r.ts = k /\ r.pc = pc
    BY <1>1 DEF GoodCaller, Caller
  <1>3. Len(tstate)' \in Nat
    BY DEF QueueTypes
  <1>4. TaskTypes' /\ returned' \subseteq Inputs
    BY TaskFrame2, LedgerHas
  <1>5. /\ r.ts \in 0 .. Len(tstate)' /\ r.ts # 0
        /\ r.pc \notin UsesVictim
    <2> HIDE DEF r
    <2> QED BY <1>2, <1>3 DEF UsesVictim
  <1>6. caller' = [caller EXCEPT ![c] = r]
    OBVIOUS
  <1> HIDE DEF r
  <1> QED BY <1>2, <1>4, <1>5, <1>6, CallStepType

LEMMA StartInsertType ==
    ASSUME TypeOK, NEW c \in Callers, StartInsert(c)
    PROVE  TypeOK'
  <1>1. /\ CallerOnly /\ UNCHANGED <<mailbox, task, returned>>
        /\ caller' = [caller EXCEPT ![c] = [caller[c] EXCEPT !.pc = "startExtend",
                                                             !.ts = active'.state]]
    BY DEF StartInsert
  <1>2. overwrote' \in BOOLEAN
    BY LedgerHas DEF StartInsert
  <1>3. /\ QueueTypes' /\ Len(tstate) <= Len(tstate)'
        /\ active'.state \in 1 .. Len(tstate)' /\ active'.state \in Nat
    <2>1. CASE active.state = 0
      <3>1. InsertActiveTurn
        BY <2>1 DEF StartInsert
      <3> QED BY <1>1, <3>1, InsertActiveTurnType
    <2>2. CASE active.state # 0
      <3>1. UNCHANGED <<active, tstate>>
        BY <2>2 DEF StartInsert
      <3>2. QueueTypes' /\ Len(tstate) <= Len(tstate)' /\ Len(tstate)' = Len(tstate)
        BY <1>1, <3>1, QueueFrame DEF TypeOK, QueuesUnchanged
      <3>3. active.state \in 1 .. Len(tstate) /\ active.state \in Nat
        BY <2>2, ActiveType DEF TypeOK
      <3> QED BY <3>1, <3>2, <3>3
    <2> QED BY <2>1, <2>2
  <1> QED BY <1>1, <1>2, <1>3, RememberStateType

\* Both places that append to the turn state a caller holds.
LEMMA ExtendType ==
    ASSUME TypeOK, NEW c \in Callers, caller[c].pc \in UsesTurnState,
           NEW b \in Seq(Inputs),
           tstate' = [tstate EXCEPT ![caller[c].ts].input = @ \o b],
           UNCHANGED <<active, mailbox>>
    PROVE  QueueTypes' /\ Len(tstate) <= Len(tstate)'
  <1> DEFINE k == caller[c].ts
             q == tstate[k].input
  <1>1. tstate \in Seq(TurnState) /\ Len(tstate) \in Nat
    BY LenNat DEF TypeOK, QueueTypes
  <1>2. k \in 1 .. Len(tstate) /\ k \in Nat
    BY <1>1, CallerHasType DEF TypeOK, GoodCaller
  <1>3. q \in Seq(Inputs)
    <2> HIDE DEF k
    <2> QED BY <1>1, <1>2, TurnStateFields
  <1>4. q \o b \in Seq(Inputs)
    <2> HIDE DEF q
    <2> QED BY <1>3
  <1>5. tstate' = [tstate EXCEPT ![k].input = q \o b]
    OBVIOUS
  <1> HIDE DEF k, q
  <1> QED BY <1>2, <1>4, <1>5, InputStepType

LEMMA StartExtendType ==
    ASSUME TypeOK, NEW c \in Callers, StartExtend(c)
    PROVE  TypeOK'
  <1> DEFINE e == <<>>
             r == [caller[c] EXCEPT !.pc = "startSpawn", !.buf = e]
  <1>1. GoodCaller(caller[c]) /\ caller[c].buf \in Seq(Inputs)
    BY CallerHasType DEF TypeOK
  <1>2. /\ tstate' = [tstate EXCEPT ![caller[c].ts].input = @ \o caller[c].buf]
        /\ UNCHANGED <<active, mailbox, task, returned, overwrote>> /\ CallerOnly
        /\ caller' = [caller EXCEPT ![c] = r]
        /\ caller[c].pc \in UsesTurnState
    BY DEF StartExtend, At, UsesTurnState
  <1>3. QueueTypes' /\ Len(tstate) <= Len(tstate)'
    BY <1>1, <1>2, ExtendType
  <1>4. TaskTypes' /\ returned' \subseteq Inputs /\ overwrote' \in BOOLEAN
    BY <1>2, <1>3, TaskFrame2, LedgerHas
  <1>5. GoodCaller(r)
    <2>0. e \in Seq(Inputs)
      OBVIOUS
    <2> HIDE DEF e
    <2>1. r \in Caller /\ r.ts = caller[c].ts /\ r.pc = "startSpawn"
      BY <1>1, <2>0 DEF GoodCaller, Caller
    <2> HIDE DEF r
    <2> QED BY <1>1, <2>1 DEF GoodCaller, UsesTurnState, UsesVictim
  <1> HIDE DEF r
  <1> QED BY <1>2, <1>3, <1>4, <1>5, OldStateStepType

LEMMA SpawnedTaskType ==
    ASSUME CallerTypes, NEW c \in Callers
    PROVE  /\ SpawnedTask(c) \in Task
           /\ SpawnedTask(c).ts = 0 /\ SpawnedTask(c).cancelled = FALSE
           /\ SpawnedTask(c).ends = <<>>
           /\ SpawnedTask(c).pc \in {"begin", "sample"}
  <1> DEFINE pc == IF caller[c].kind = "Regular" THEN "begin" ELSE "sample"
             d == caller[c].input = <<>>
  <1>1. /\ caller[c].kind \in Kinds /\ caller[c].input \in Seq(Inputs)
    BY CallerHasType DEF GoodCaller, Caller
  <1>2. pc \in {"begin", "sample"} /\ d \in BOOLEAN
    OBVIOUS
  <1>3. SpawnedTask(c) = [UnbornTask EXCEPT !.pc = pc, !.kind = caller[c].kind,
                            !.buf = caller[c].input, !.canDrain = d]
    BY DEF SpawnedTask
  <1>4. UnbornTask.cancelled = FALSE /\ UnbornTask.ends = <<>>
    BY DEF UnbornTask
  <1> HIDE DEF pc, d
  <1> QED BY <1>1, <1>2, <1>3, <1>4, UnbornTaskType DEF Task, Kinds

LEMMA StartSpawnType ==
    ASSUME TypeOK, NEW c \in Callers, StartSpawn(c)
    PROVE  TypeOK'
  <1>1. /\ CallerOnly /\ UNCHANGED <<mailbox, returned>>
        /\ caller' = [caller EXCEPT ![c] = IdleCaller]
    BY DEF StartSpawn, Return
  <1>2. /\ tstate \in Seq(TurnState) /\ Len(tstate) \in Nat
        /\ mailbox \in Seq(Mails)
        /\ active \in [task : Turns \cup {NoTask}, state : 0 .. Len(tstate)]
        /\ caller[c].turn \in Turns \cup {NoTask}
    BY LenNat, CallerHasType DEF TypeOK, QueueTypes
  <1>3. QueueTypes' /\ Len(tstate) <= Len(tstate)'
    <2>1. CASE active.state = 0
      <3>1. DefaultTurnState \in TurnState
        BY DEF DefaultTurnState, TurnState
      <3>2. /\ tstate' = Append(tstate, DefaultTurnState)
            /\ active' = [task |-> caller[c].turn, state |-> Len(tstate) + 1]
        BY <2>1 DEF StartSpawn
      <3>3. tstate' \in Seq(TurnState) /\ Len(tstate)' = Len(tstate) + 1
        BY <1>2, <3>1, <3>2
      <3>4. /\ active' \in [task : Turns \cup {NoTask}, state : 0 .. Len(tstate)']
            /\ active'.state # 0
        BY <1>2, <3>2, <3>3
      <3> QED BY <1>1, <1>2, <3>3, <3>4 DEF QueueTypes
    <2>2. CASE active.state # 0
      <3>1. tstate' = tstate /\ active' = [active EXCEPT !.task = caller[c].turn]
        BY <2>2 DEF StartSpawn
      <3>2. /\ active' \in [task : Turns \cup {NoTask}, state : 0 .. Len(tstate)]
            /\ active'.state # 0
        BY <1>2, <2>2, <3>1
      <3> QED BY <1>1, <1>2, <3>1, <3>2 DEF QueueTypes
    <2> QED BY <2>1, <2>2
  <1>4. TaskTypes'
    <2>1. task' = [t \in Turns |-> IF t = caller[c].turn THEN SpawnedTask(c)
                                   ELSE IF t = active.task THEN EndedTask(t)
                                   ELSE task[t]]
      BY DEF StartSpawn
    <2>2. Len(tstate)' \in Nat
      BY <1>3 DEF QueueTypes
    <2>3. ASSUME NEW t \in Turns
          PROVE  /\ task'[t] \in Task /\ task'[t].ts \in 0 .. Len(tstate)'
                 /\ task'[t].pc = "finInput" => task'[t].ts # 0
      <3>1. task'[t] \in {SpawnedTask(c), EndedTask(t), task[t]}
        BY <2>1
      <3>2. /\ SpawnedTask(c) \in Task /\ SpawnedTask(c).ts = 0
            /\ SpawnedTask(c).pc # "finInput"
        BY SpawnedTaskType DEF TypeOK
      <3>3. EndedTask(t) \in Task /\ EndedTask(t).ts = 0 /\ EndedTask(t).pc # "finInput"
        BY EndedTaskType DEF TypeOK, TaskTypes
      <3>4. /\ task[t] \in Task /\ task[t].ts \in 0 .. Len(tstate)
            /\ task[t].pc = "finInput" => task[t].ts # 0
        BY TaskHasType DEF TypeOK, GoodTask
      <3> QED BY <1>2, <1>3, <2>2, <3>1, <3>2, <3>3, <3>4
    <2>4. task' \in [Turns -> Task]
      BY <2>1, <2>3
    <2> QED BY <2>3, <2>4 DEF TaskTypes
  <1>5. GoodCaller(IdleCaller)
    BY ReturnType DEF TypeOK
  <1>6. returned' \subseteq Inputs /\ overwrote' \in BOOLEAN
    BY <1>1, LedgerHas DEF StartSpawn
  <1> QED BY <1>1, <1>3, <1>4, <1>5, <1>6, OldStateStepType

\* What GiveBack returns are inputs.
LEMMA GiveBackType ==
    ASSUME TypeOK, NEW c \in Callers, GiveBack(c)
    PROVE  returned' \subseteq Inputs
  <1>1. caller[c].input \in Seq(Inputs) /\ returned \subseteq Inputs
    BY CallerHasType, LedgerHas DEF TypeOK
  <1>2. ToSet(caller[c].input) \subseteq Inputs
    BY <1>1 DEF ToSet
  <1> QED BY <1>1, <1>2 DEF GiveBack

LEMMA TryReserveType ==
    ASSUME TypeOK, NEW c \in Callers, TryReserve(c)
    PROVE  TypeOK'
  <1>1. CallerOnly /\ UNCHANGED <<mailbox, task, overwrote>> /\ overwrote' \in BOOLEAN
    BY LedgerHas DEF TryReserve
  <1>2. CASE active.state # 0
    <2>1. QueueTypes' /\ Len(tstate) <= Len(tstate)'
      BY <1>1, <1>2, QueueFrame DEF TypeOK, TryReserve, QueuesUnchanged
    <2>2. TaskTypes'
      BY <1>1, <2>1, TaskFrame2
    <2>3. GoodCaller(IdleCaller) /\ caller' = [caller EXCEPT ![c] = IdleCaller]
      BY <1>2, ReturnType DEF TypeOK, TryReserve, Return
    <2>4. returned' \subseteq Inputs
      BY <1>2, GiveBackType DEF TryReserve
    <2> QED BY <1>1, <2>1, <2>2, <2>3, <2>4, OldStateStepType
  <1>3. CASE active.state = 0
    <2>1. InsertActiveTurn /\ returned' = returned
      BY <1>3 DEF TryReserve
    <2>2. /\ QueueTypes' /\ Len(tstate) <= Len(tstate)'
          /\ Len(tstate) + 1 \in 1 .. Len(tstate)' /\ Len(tstate) + 1 \in Nat
      <3>1. /\ QueueTypes' /\ Len(tstate) <= Len(tstate)'
            /\ Len(tstate)' = Len(tstate) + 1 /\ Len(tstate)' \in Nat
            /\ Len(tstate) \in Nat
        BY <1>1, <2>1, InsertActiveTurnType, LenNat DEF TypeOK
      <3> QED BY <3>1
    <2>3. caller' = [caller EXCEPT ![c] = [caller[c] EXCEPT !.pc = "tryRecheck",
                                                          !.ts = Len(tstate) + 1]]
      BY <1>3 DEF TryReserve
    <2> QED BY <1>1, <2>1, <2>2, <2>3, RememberStateType
  <1> QED BY <1>2, <1>3

LEMMA TryRecheckType ==
    ASSUME TypeOK, NEW c \in Callers, TryRecheck(c)
    PROVE  TypeOK'
  <1>1. /\ QueuesUnchanged /\ UNCHANGED <<task, returned, overwrote>> /\ CallerOnly
        /\ caller[c].pc = "tryRecheck"
    BY DEF TryRecheck, At
  <1>2. QueueTypes' /\ Len(tstate) <= Len(tstate)'
    BY <1>1, QueueFrame DEF TypeOK
  <1>3. TaskTypes' /\ returned' \subseteq Inputs /\ overwrote' \in BOOLEAN
    BY <1>1, <1>2, TaskFrame2, LedgerHas
  <1>4. caller[c].ts # 0
    BY <1>1, CallerHasType DEF TypeOK, GoodCaller, UsesTurnState
  <1>5. ASSUME NEW pc \in {"tryStill", "tryClear"}
        PROVE  GoodCaller([caller[c] EXCEPT !.pc = pc])
    BY <1>4, GotoType DEF TypeOK, CallerPcs, UsesVictim
  <1>6. PICK pc \in {"tryStill", "tryClear"} :
           caller' = [caller EXCEPT ![c] = [caller[c] EXCEPT !.pc = pc]]
    BY DEF TryRecheck, Goto
  <1> QED BY <1>1, <1>2, <1>3, <1>5, <1>6, OldStateStepType

LEMMA TryClearType ==
    ASSUME TypeOK, NEW c \in Callers, TryClear(c)
    PROVE  TypeOK'
  <1> DEFINE r == [IdleCaller EXCEPT !.pc = "maybeCheck", !.turn = caller[c].turn]
  <1>1. /\ UNCHANGED <<tstate, mailbox, task, overwrote>> /\ CallerOnly
        /\ caller' = [caller EXCEPT ![c] = r]
    BY DEF TryClear
  <1>2. QueueTypes' /\ Len(tstate) <= Len(tstate)'
    <2>1. active' = NoTurn \/ active' = active
      BY DEF TryClear
    <2> QED BY <1>1, <2>1, NoTurnQueues, QueueFrame DEF TypeOK, QueuesUnchanged
  <1>3. TaskTypes' /\ returned' \subseteq Inputs /\ overwrote' \in BOOLEAN
    BY <1>1, <1>2, TaskFrame2, LedgerHas, GiveBackType DEF TryClear
  <1>4. GoodCaller(r)
    <2>1. caller[c].turn \in Turns \cup {NoTask}
      BY CallerHasType DEF TypeOK
    <2>2. r \in Caller /\ r.ts = 0 /\ r.pc = "maybeCheck"
      BY <2>1, IdleCallerType DEF Caller
    <2>3. Len(tstate) \in Nat
      BY LenNat DEF TypeOK
    <2> HIDE DEF r
    <2> QED BY <2>2, <2>3 DEF GoodCaller, UsesTurnState, UsesVictim
  <1> HIDE DEF r
  <1> QED BY <1>1, <1>2, <1>3, <1>4, OldStateStepType

LEMMA TryStillType ==
    ASSUME TypeOK, NEW c \in Callers, TryStill(c)
    PROVE  TypeOK'
  <1>1. /\ QueuesUnchanged /\ UNCHANGED <<task, overwrote>> /\ CallerOnly
        /\ caller[c].pc = "tryStill"
    BY DEF TryStill, At
  <1>2. QueueTypes' /\ Len(tstate) <= Len(tstate)'
    BY <1>1, QueueFrame DEF TypeOK
  <1>3. TaskTypes' /\ returned' \subseteq Inputs /\ overwrote' \in BOOLEAN
    BY <1>1, <1>2, TaskFrame2, LedgerHas, GiveBackType DEF TryStill
  <1>4. caller[c].ts # 0
    BY <1>1, CallerHasType DEF TypeOK, GoodCaller, UsesTurnState
  <1>5. GoodCaller([caller[c] EXCEPT !.pc = "tryExtend"])
    BY <1>4, GotoType DEF TypeOK, CallerPcs, UsesVictim
  <1>6. GoodCaller(IdleCaller)
    BY ReturnType DEF TypeOK
  <1>7. \/ caller' = [caller EXCEPT ![c] = [caller[c] EXCEPT !.pc = "tryExtend"]]
        \/ caller' = [caller EXCEPT ![c] = IdleCaller]
    BY DEF TryStill, Goto, Return
  <1> QED BY <1>1, <1>2, <1>3, <1>5, <1>6, <1>7, OldStateStepType

LEMMA TryExtendType ==
    ASSUME TypeOK, NEW c \in Callers, TryExtend(c)
    PROVE  TypeOK'
  <1> DEFINE e == <<>>
             r == [caller[c] EXCEPT !.pc = "startDrain", !.input = e]
  <1>1. GoodCaller(caller[c]) /\ caller[c].input \in Seq(Inputs)
    BY CallerHasType DEF TypeOK
  <1>2. /\ tstate' = [tstate EXCEPT ![caller[c].ts].input = @ \o caller[c].input]
        /\ UNCHANGED <<active, mailbox, task, returned, overwrote>> /\ CallerOnly
        /\ caller' = [caller EXCEPT ![c] = r]
        /\ caller[c].pc \in UsesTurnState
    BY DEF TryExtend, At, UsesTurnState
  <1>3. QueueTypes' /\ Len(tstate) <= Len(tstate)'
    BY <1>1, <1>2, ExtendType
  <1>4. TaskTypes' /\ returned' \subseteq Inputs /\ overwrote' \in BOOLEAN
    BY <1>2, <1>3, TaskFrame2, LedgerHas
  <1>5. GoodCaller(r)
    <2>0. e \in Seq(Inputs)
      OBVIOUS
    <2> HIDE DEF e
    <2>1. r \in Caller /\ r.ts = caller[c].ts /\ r.pc = "startDrain"
      BY <1>1, <2>0 DEF GoodCaller, Caller
    <2> HIDE DEF r
    <2> QED BY <1>1, <2>1 DEF GoodCaller, UsesTurnState, UsesVictim
  <1> HIDE DEF r
  <1> QED BY <1>2, <1>3, <1>4, <1>5, OldStateStepType

LEMMA CallStepTypeOK ==
    ASSUME TypeOK, NEW c \in Callers, CallStep(c)
    PROVE  TypeOK'
  BY AbortTakeType, AbortKillType, AbortEmitType, AbortClearType,
     MaybeCheckType, MaybeReserveType, StartDrainType, StartMailType,
     StartInsertType, StartExtendType, StartSpawnType, TryReserveType,
     TryRecheckType, TryClearType, TryStillType, TryExtendType DEF CallStep

-----------------------------------------------------------------------------
(* Type correctness of submissions and of calls from outside the loop. *)

\* Starting a call: the caller's record becomes r.
LEMMA NewCallType ==
    ASSUME TypeOK, NEW c \in Callers, NEW r, GoodCaller(r),
           caller' = [caller EXCEPT ![c] = r] \/ caller' = caller,
           QueueTypes', Len(tstate) <= Len(tstate)', TaskTypes', LedgerTypes'
    PROVE  TypeOK'
  <1>1. Len(tstate) \in Nat /\ Len(tstate)' \in Nat
    BY LenNat DEF TypeOK, QueueTypes
  <1>2. /\ r \in Caller /\ r.ts \in 0 .. Len(tstate)'
        /\ r.pc \in UsesTurnState => r.ts # 0
        /\ r.pc \in UsesVictim => r.victim # NoTask
    BY <1>1 DEF GoodCaller
  <1>3. CallerTypes'
    BY <1>1, <1>2, CallerUpdate, CallerFrame DEF TypeOK
  <1> QED BY <1>3 DEF TypeOK

\* Calls that hold neither a turn state nor a task yet.
LEMMA InputCallType ==
    ASSUME TypeOK,
           NEW t \in Turns, NEW b \in Seq(Inputs),
           NEW pc \in {"abortTake", "tryReserve"}
    PROVE  GoodCaller([IdleCaller EXCEPT !.pc = pc, !.turn = t, !.input = b])
  <1> DEFINE r == [IdleCaller EXCEPT !.pc = pc, !.turn = t, !.input = b]
  <1>1. r \in Caller /\ r.ts = 0 /\ r.pc \in {"abortTake", "tryReserve"}
    BY IdleCallerType DEF Caller, Kinds
  <1>2. Len(tstate) \in Nat
    BY LenNat DEF TypeOK
  <1> HIDE DEF r
  <1>3. GoodCaller(r)
    BY <1>1, <1>2 DEF GoodCaller, UsesTurnState, UsesVictim
  <1> QED BY <1>3 DEF r

LEMMA CompactCallType ==
    ASSUME TypeOK, NEW t \in Turns, NEW k \in Kinds
    PROVE  GoodCaller([IdleCaller EXCEPT !.pc = "abortTake", !.turn = t, !.kind = k])
  <1> DEFINE r == [IdleCaller EXCEPT !.pc = "abortTake", !.turn = t, !.kind = k]
  <1>1. r \in Caller /\ r.ts = 0 /\ r.pc \in {"abortTake"}
    BY IdleCallerType DEF Caller, Kinds
  <1>2. Len(tstate) \in Nat
    BY LenNat DEF TypeOK
  <1> HIDE DEF r
  <1>3. GoodCaller(r)
    BY <1>1, <1>2 DEF GoodCaller, UsesTurnState, UsesVictim
  <1> QED BY <1>3 DEF r

LEMMA InterruptCallType ==
    ASSUME TypeOK, NEW t \in Turns
    PROVE  GoodCaller([IdleCaller EXCEPT !.pc = "abortTake", !.turn = t,
                                         !.reason = "Interrupted"])
  <1> DEFINE r == [IdleCaller EXCEPT !.pc = "abortTake", !.turn = t,
                                         !.reason = "Interrupted"]
  <1>1. r \in Caller /\ r.ts = 0 /\ r.pc \in {"abortTake"}
    BY IdleCallerType DEF Caller, Kinds
  <1>2. Len(tstate) \in Nat
    BY LenNat DEF TypeOK
  <1> HIDE DEF r
  <1>3. GoodCaller(r)
    BY <1>1, <1>2 DEF GoodCaller, UsesTurnState, UsesVictim
  <1> QED BY <1>3 DEF r

LEMMA MailCallType ==
    ASSUME TypeOK, NEW t \in Turns
    PROVE  GoodCaller([IdleCaller EXCEPT !.pc = "maybeCheck", !.turn = t])
  <1> DEFINE r == [IdleCaller EXCEPT !.pc = "maybeCheck", !.turn = t]
  <1>1. r \in Caller /\ r.ts = 0 /\ r.pc \in {"maybeCheck"}
    BY IdleCallerType DEF Caller, Kinds
  <1>2. Len(tstate) \in Nat
    BY LenNat DEF TypeOK
  <1> HIDE DEF r
  <1>3. GoodCaller(r)
    BY <1>1, <1>2 DEF GoodCaller, UsesTurnState, UsesVictim
  <1> QED BY <1>3 DEF r

LEMMA SteerAcceptsType ==
    ASSUME TypeOK, NEW i \in UserInputs, NEW x, SteerAccepts(i, x),
           UNCHANGED <<active, mailbox>>
    PROVE  /\ QueueTypes' /\ Len(tstate) <= Len(tstate)'
           /\ steered' \in [UserInputs -> Turns \cup {NoTask}]
           /\ returned' \subseteq Inputs
  <1> DEFINE k == active.state
             q == Append(tstate[k].input, i)
             v == [input |-> q, phase |-> "CurrentTurn"]
  <1>1. /\ tstate \in Seq(TurnState) /\ Len(tstate) \in Nat
        /\ k \in 1 .. Len(tstate) /\ active.task \in Turns \cup {NoTask}
    BY ActiveType, LenNat DEF TypeOK, SteerAccepts
  <1>2. tstate[k].input \in Seq(Inputs)
    <2> HIDE DEF k
    <2> QED BY <1>1, TurnStateFields
  <1>3. q \in Seq(Inputs)
    <2>1. i \in Inputs
      BY DEF Inputs
    <2> QED BY <1>2, <2>1
  <1>4. v \in TurnState
    <2> HIDE DEF q
    <2> QED BY <1>3 DEF TurnState
  <1>5. tstate' = [tstate EXCEPT ![k] = v]
    BY DEF SteerAccepts
  <1>6. tstate' \in Seq(TurnState) /\ Len(tstate)' = Len(tstate)
    <2> HIDE DEF v, k
    <2> QED BY <1>1, <1>4, <1>5
  <1>7. QueueTypes' /\ Len(tstate) <= Len(tstate)'
    BY <1>1, <1>6 DEF TypeOK, QueueTypes
  <1>8. steered' \in [UserInputs -> Turns \cup {NoTask}]
    BY <1>1 DEF SteerAccepts, TypeOK, LedgerTypes
  <1>9. returned' \subseteq Inputs
    BY LedgerHas DEF SteerAccepts
  <1> QED BY <1>7, <1>8, <1>9

\* A refusal hands the input back and leaves the turn alone.
LEMMA ReturnedType ==
    ASSUME TypeOK, NEW i \in Inputs, returned' = returned \cup {i},
           UNCHANGED <<active, mailbox, tstate, steered>>
    PROVE  /\ QueueTypes' /\ Len(tstate) <= Len(tstate)'
           /\ steered' \in [UserInputs -> Turns \cup {NoTask}]
           /\ returned' \subseteq Inputs
  <1>1. QueueTypes' /\ Len(tstate) <= Len(tstate)'
    BY QueueFrame DEF TypeOK, QueuesUnchanged
  <1> QED BY <1>1 DEF TypeOK, LedgerTypes

LEMMA SteerInputType ==
    ASSUME TypeOK, NEW c \in Callers, SteerInput(c)
    PROVE  TypeOK'
  <1>1. PICK i \in UserInputs, x \in Turns \cup {NoTask} :
          /\ Offer(i)
          /\ \/ SteerAccepts(i, x)
             \/ SteerRejects(i, x)
             \/ /\ active.task = NoTask
                /\ returned' = returned \cup {i}
                /\ UNCHANGED <<tstate, steered>>
    BY DEF SteerInput
  <1>2. UNCHANGED <<active, mailbox, task, caller, history, blocked, aborts,
                    compacts, overwrote>>
    BY DEF SteerInput
  <1>3. i \in Inputs
    BY DEF Inputs
  <1>4. /\ QueueTypes' /\ Len(tstate) <= Len(tstate)'
        /\ steered' \in [UserInputs -> Turns \cup {NoTask}]
        /\ returned' \subseteq Inputs
    <2>1. CASE SteerAccepts(i, x)
      BY <1>2, <2>1, SteerAcceptsType
    <2>2. CASE SteerRejects(i, x)
      BY <1>2, <1>3, <2>2, ReturnedType DEF SteerRejects
    <2>3. CASE returned' = returned \cup {i} /\ UNCHANGED <<tstate, steered>>
      BY <1>2, <1>3, <2>3, ReturnedType
    <2> QED BY <1>1, <2>1, <2>2, <2>3
  <1>5. TaskTypes'
    BY <1>2, <1>4, TaskFrame2
  <1>6. LedgerTypes'
    BY <1>1, <1>2, <1>4 DEF TypeOK, LedgerTypes, Offer
  <1>7. GoodCaller(IdleCaller)
    BY ReturnType DEF TypeOK
  <1> QED BY <1>2, <1>4, <1>5, <1>6, <1>7, NewCallType

LEMMA InjectNoNewTurnType ==
    ASSUME TypeOK, NEW c \in Callers, InjectNoNewTurn(c)
    PROVE  TypeOK'
  <1>1. PICK i \in ResponseItems :
          /\ Offer(i)
          /\ IF active.state # 0
             THEN /\ tstate' = [tstate EXCEPT ![active.state].input = Append(@, i)]
                  /\ history' = history
             ELSE /\ history' = Append(history, i)
                  /\ tstate' = tstate
    BY DEF InjectNoNewTurn
  <1>2. UNCHANGED <<active, mailbox, task, caller, blocked, returned, steered,
                    aborts, compacts, overwrote>>
    BY DEF InjectNoNewTurn
  <1>3. i \in Inputs
    BY DEF Inputs
  <1>4. QueueTypes' /\ Len(tstate) <= Len(tstate)' /\ history' \in Seq(Inputs)
    <2>0. history \in Seq(Inputs)
      BY DEF TypeOK, LedgerTypes
    <2>1. CASE active.state = 0
      <3>1. history' = Append(history, i) /\ tstate' = tstate
        BY <1>1, <2>1
      <3>2. QueueTypes' /\ Len(tstate) <= Len(tstate)'
        BY <1>2, <3>1, QueueFrame DEF TypeOK, QueuesUnchanged
      <3>3. history' \in Seq(Inputs)
        BY <1>3, <2>0, <3>1
      <3> QED BY <3>2, <3>3
    <2>2. CASE active.state # 0
      <3> DEFINE k == active.state
                 q == tstate[k].input
                 b == Append(q, i)
      <3>1. tstate' = [tstate EXCEPT ![k].input = b] /\ history' = history
        BY <1>1, <2>2
      <3>2. k \in 1 .. Len(tstate) /\ k \in Nat /\ tstate \in Seq(TurnState)
        BY <2>2, ActiveType DEF TypeOK
      <3>3. q \in Seq(Inputs)
        <4> HIDE DEF k
        <4> QED BY <3>2, TurnStateFields
      <3>4. b \in Seq(Inputs)
        <4> HIDE DEF q
        <4> QED BY <1>3, <3>3
      <3> HIDE DEF k, b
      <3> QED BY <1>2, <2>0, <3>1, <3>2, <3>4, InputStepType
    <2> QED BY <2>1, <2>2
  <1>5. TaskTypes'
    BY <1>2, <1>4, TaskFrame2
  <1>6. LedgerTypes'
    BY <1>1, <1>2, <1>4 DEF TypeOK, LedgerTypes, Offer
  <1>7. GoodCaller(IdleCaller)
    BY ReturnType DEF TypeOK
  <1> QED BY <1>2, <1>4, <1>5, <1>6, <1>7, NewCallType

LEMMA AbortTurnIfActiveType ==
    ASSUME TypeOK, NEW c \in Callers, AbortTurnIfActive(c)
    PROVE  TypeOK'
  <1>1. /\ active.task # NoTask /\ aborts < MaxAborts /\ aborts' = aborts + 1
        /\ UNCHANGED <<tstate, mailbox, history, blocked, returned, unsent, steered,
                       compacts, overwrote>>
    BY DEF AbortTurnIfActive
  <1>2. PICK t \in FreshTurns :
          /\ active' = NoTurn
          /\ task' = [task EXCEPT ![active.task].cancelled = TRUE]
          /\ caller' = [caller EXCEPT ![c] =
               [IdleCaller EXCEPT !.pc = "abortWait", !.turn = t,
                                  !.ts = active.state, !.victim = active.task,
                                  !.reason = "Interrupted"]]
    BY DEF AbortTurnIfActive
  <1>3. QueueTypes' /\ Len(tstate) <= Len(tstate)'
    BY <1>1, <1>2, NoTurnQueues
  <1>4. active.task \in Turns /\ TaskTypes'
    BY <1>1, <1>2, TakeAndCancelType
  <1>5. LedgerTypes'
    <2>1. aborts' \in 0 .. MaxAborts
      BY <1>1, ConstantsAssumption DEF TypeOK, LedgerTypes, ConstantsAssumption
    <2> QED BY <1>1, <2>1 DEF TypeOK, LedgerTypes
  <1> DEFINE r == [IdleCaller EXCEPT !.pc = "abortWait", !.turn = t,
                                     !.ts = active.state, !.victim = active.task,
                                     !.reason = "Interrupted"]
  <1>6. GoodCaller(r)
    <2>1. active.state \in 0 .. Len(tstate) /\ active.state # 0 /\ active.state \in Nat
      BY <1>1, ActiveType DEF TypeOK
    <2>2. t \in Turns
      BY DEF FreshTurns
    <2>3. /\ r \in Caller /\ r.ts = active.state /\ r.pc = "abortWait"
          /\ r.victim = active.task
      BY <1>4, <2>1, <2>2, IdleCallerType DEF Caller
    <2> HIDE DEF r
    <2> QED BY <1>1, <2>1, <2>3 DEF GoodCaller
  <1>7. caller' = [caller EXCEPT ![c] = r]
    BY <1>2
  <1> HIDE DEF r
  <1> QED BY <1>3, <1>4, <1>5, <1>6, <1>7, NewCallType

LEMMA TryStartTurnIfIdleType ==
    ASSUME TypeOK, NEW c \in Callers, TryStartTurnIfIdle(c)
    PROVE  TypeOK'
  <1>1. /\ QueuesUnchanged
        /\ UNCHANGED <<task, history, blocked, steered, aborts, compacts, overwrote>>
    BY DEF TryStartTurnIfIdle
  <1>2. PICK i \in ResponseItems, t \in FreshTurns :
          /\ Offer(i)
          /\ \/ /\ caller' = [caller EXCEPT ![c] =
                     [IdleCaller EXCEPT !.pc = "tryReserve", !.turn = t, !.input = <<i>>]]
                /\ returned' = returned
             \/ returned' = returned \cup {i} /\ caller' = caller
    BY DEF TryStartTurnIfIdle
  <1>3. i \in Inputs /\ t \in Turns
    BY DEF Inputs, FreshTurns
  <1>4. QueueTypes' /\ Len(tstate) <= Len(tstate)'
    BY <1>1, QueueFrame DEF TypeOK
  <1>5. TaskTypes'
    BY <1>1, <1>4, TaskFrame2
  <1>6. LedgerTypes'
    BY <1>1, <1>2, <1>3 DEF TypeOK, LedgerTypes, Offer
  <1>7. <<i>> \in Seq(Inputs)
    BY <1>3
  <1>8. GoodCaller([IdleCaller EXCEPT !.pc = "tryReserve", !.turn = t, !.input = <<i>>])
    BY <1>3, <1>7, InputCallType
  <1> QED BY <1>2, <1>4, <1>5, <1>6, <1>8, NewCallType

LEMMA UserInputOrTurnType ==
    ASSUME TypeOK, UserInputOrTurn
    PROVE  TypeOK'
  <1>1. /\ UNCHANGED <<mailbox, aborts, compacts>> /\ SubmissionOnly
    BY DEF UserInputOrTurn
  <1>2. PICK i \in UserInputs, t \in FreshTurns :
          /\ Offer(i)
          /\ \/ (SteerAccepts(i, NoTask) \/ SteerRejects(i, NoTask)) /\ caller' = caller
             \/ /\ caller' = [caller EXCEPT ![Loop] =
                     [IdleCaller EXCEPT !.pc = "abortTake", !.turn = t, !.input = <<i>>]]
                /\ UNCHANGED <<tstate, returned, steered>>
    BY DEF UserInputOrTurn
  <1>3. i \in Inputs /\ t \in Turns /\ Loop \in Callers
    BY DEF Inputs, FreshTurns, Callers
  <1>4. /\ QueueTypes' /\ Len(tstate) <= Len(tstate)'
        /\ steered' \in [UserInputs -> Turns \cup {NoTask}]
        /\ returned' \subseteq Inputs
    <2>1. CASE SteerAccepts(i, NoTask)
      BY <1>1, <2>1, SteerAcceptsType DEF SubmissionOnly
    <2>2. CASE SteerRejects(i, NoTask)
      BY <1>1, <1>3, <2>2, ReturnedType DEF SteerRejects, SubmissionOnly
    <2>3. CASE UNCHANGED <<tstate, returned, steered>>
      <3>1. QueueTypes' /\ Len(tstate) <= Len(tstate)'
        BY <1>1, <2>3, QueueFrame DEF TypeOK, QueuesUnchanged, SubmissionOnly
      <3> QED BY <2>3, <3>1 DEF TypeOK, LedgerTypes
    <2> QED BY <1>2, <2>1, <2>2, <2>3
  <1>5. TaskTypes'
    BY <1>1, <1>4, TaskFrame2 DEF SubmissionOnly
  <1>6. LedgerTypes'
    BY <1>1, <1>2, <1>4 DEF TypeOK, LedgerTypes, Offer, SubmissionOnly
  <1>7. <<i>> \in Seq(Inputs)
    BY <1>3
  <1>8. GoodCaller([IdleCaller EXCEPT !.pc = "abortTake", !.turn = t, !.input = <<i>>])
    BY <1>3, <1>7, InputCallType
  <1> QED BY <1>2, <1>3, <1>4, <1>5, <1>6, <1>8, NewCallType

LEMMA CompactType ==
    ASSUME TypeOK, Compact \/ RunUserShellCommand
    PROVE  TypeOK'
  <1>1. /\ compacts < MaxCompacts /\ compacts' = compacts + 1
        /\ UNCHANGED <<tstate, mailbox, returned, unsent, steered, aborts>>
        /\ SubmissionOnly
    BY DEF Compact, RunUserShellCommand
  <1>2. PICK t \in FreshTurns, k \in {"Compact", "Shell"} : caller' = [caller EXCEPT ![Loop] =
          [IdleCaller EXCEPT !.pc = "abortTake", !.turn = t, !.kind = k]]
    BY DEF Compact, RunUserShellCommand
  <1>3. t \in Turns /\ Loop \in Callers /\ k \in Kinds
    BY DEF FreshTurns, Callers, Kinds
  <1>4. QueueTypes' /\ Len(tstate) <= Len(tstate)'
    BY <1>1, QueueFrame DEF TypeOK, QueuesUnchanged, SubmissionOnly
  <1>5. TaskTypes'
    BY <1>1, <1>4, TaskFrame2 DEF SubmissionOnly
  <1>6. LedgerTypes'
    <2>1. compacts' \in 0 .. MaxCompacts
      BY <1>1, ConstantsAssumption DEF TypeOK, LedgerTypes, ConstantsAssumption
    <2> QED BY <1>1, <2>1 DEF TypeOK, LedgerTypes, SubmissionOnly
  <1> QED BY <1>2, <1>3, <1>4, <1>5, <1>6, CompactCallType, NewCallType

LEMMA InterruptType ==
    ASSUME TypeOK, Interrupt
    PROVE  TypeOK'
  <1>1. /\ aborts < MaxAborts /\ aborts' = aborts + 1
        /\ UNCHANGED <<tstate, mailbox, returned, unsent, steered, compacts>>
        /\ SubmissionOnly
    BY DEF Interrupt
  <1>2. PICK t \in FreshTurns : caller' = [caller EXCEPT ![Loop] =
          [IdleCaller EXCEPT !.pc = "abortTake", !.turn = t, !.reason = "Interrupted"]]
    BY DEF Interrupt
  <1>3. t \in Turns /\ Loop \in Callers
    BY DEF FreshTurns, Callers
  <1>4. QueueTypes' /\ Len(tstate) <= Len(tstate)'
    BY <1>1, QueueFrame DEF TypeOK, QueuesUnchanged, SubmissionOnly
  <1>5. TaskTypes'
    BY <1>1, <1>4, TaskFrame2 DEF SubmissionOnly
  <1>6. LedgerTypes'
    <2>1. aborts' \in 0 .. MaxAborts
      BY <1>1, ConstantsAssumption DEF TypeOK, LedgerTypes, ConstantsAssumption
    <2> QED BY <1>1, <2>1 DEF TypeOK, LedgerTypes, SubmissionOnly
  <1> QED BY <1>2, <1>3, <1>4, <1>5, <1>6, InterruptCallType, NewCallType

LEMMA InterAgentCommunicationType ==
    ASSUME TypeOK, InterAgentCommunication
    PROVE  TypeOK'
  <1>1. /\ UNCHANGED <<tstate, returned, steered, aborts, compacts>>
        /\ SubmissionOnly
    BY DEF InterAgentCommunication
  <1>2. PICK m \in Mails, t \in FreshTurns :
          /\ Offer(m)
          /\ mailbox' = Append(mailbox, m)
          /\ \/ caller' = [caller EXCEPT ![Loop] =
                              [IdleCaller EXCEPT !.pc = "maybeCheck", !.turn = t]]
             \/ caller' = caller
    BY DEF InterAgentCommunication
  <1>3. m \in Inputs /\ t \in Turns /\ Loop \in Callers
    BY DEF Inputs, FreshTurns, Callers
  <1>4. QueueTypes' /\ Len(tstate) <= Len(tstate)'
    <2>1. mailbox' \in Seq(Mails)
      BY <1>2 DEF TypeOK, QueueTypes
    <2> QED BY <1>1, <2>1, LenNat DEF TypeOK, QueueTypes, SubmissionOnly
  <1>5. TaskTypes'
    BY <1>1, <1>4, TaskFrame2 DEF SubmissionOnly
  <1>6. LedgerTypes'
    BY <1>1, <1>2 DEF TypeOK, LedgerTypes, Offer, SubmissionOnly
  <1> QED BY <1>2, <1>3, <1>4, <1>5, <1>6, MailCallType, NewCallType

-----------------------------------------------------------------------------

LEMMA InitTypeOK == Init => TypeOK
  <1> SUFFICES ASSUME Init PROVE TypeOK
    OBVIOUS
  <1>1. QueueTypes
    <2>1. tstate = <<>> /\ Len(tstate) = 0 /\ tstate \in Seq(TurnState)
      BY DEF Init
    <2>2. mailbox \in Seq(Mails)
      BY DEF Init
    <2>3. active = [task |-> NoTask, state |-> 0]
      BY DEF Init, NoTurn
    <2> QED BY <2>1, <2>2, <2>3 DEF QueueTypes
  <1>2. TaskTypes
    <2>1. task = [t \in Turns |-> UnbornTask] /\ Len(tstate) = 0
      BY DEF Init
    <2>2. UnbornTask.pc = "unborn"
      BY DEF UnbornTask
    <2> QED BY <2>1, <2>2, UnbornTaskType DEF TaskTypes
  <1>3. CallerTypes
    <2>1. caller = [c \in Callers |-> IdleCaller] /\ Len(tstate) = 0
      BY DEF Init
    <2>2. IdleCaller.pc = "idle"
      BY DEF IdleCaller
    <2> QED BY <2>1, <2>2, IdleCallerType DEF CallerTypes, UsesTurnState, UsesVictim
  <1>4. LedgerTypes
    <2>1. history \in Seq(Inputs)
      BY DEF Init
    <2>2. aborts \in 0 .. MaxAborts /\ compacts \in 0 .. MaxCompacts
      BY ConstantsAssumption DEF Init, ConstantsAssumption
    <2>3. steered \in [UserInputs -> Turns \cup {NoTask}] /\ overwrote \in BOOLEAN
      BY DEF Init
    <2>4. /\ blocked \subseteq UserInputs /\ returned \subseteq Inputs
          /\ unsent \subseteq Inputs
      BY DEF Init
    <2> QED BY <2>1, <2>2, <2>3, <2>4 DEF LedgerTypes
  <1> QED BY <1>1, <1>2, <1>3, <1>4 DEF TypeOK

LEMMA NextTypeOK == TypeOK /\ [Next]_vars => TypeOK'
  <1> SUFFICES ASSUME TypeOK, [Next]_vars PROVE TypeOK'
    OBVIOUS
  <1>1. CASE Submission
    BY <1>1, UserInputOrTurnType, CompactType, InterruptType,
       InterAgentCommunicationType DEF Submission
  <1>2. ASSUME NEW c \in Callers, CallStep(c) PROVE TypeOK'
    BY <1>2, CallStepTypeOK
  <1>3. ASSUME NEW c \in Callers, Offered(c) PROVE TypeOK'
    BY <1>3, SteerInputType, InjectNoNewTurnType, AbortTurnIfActiveType,
       TryStartTurnIfIdleType DEF Offered
  <1>4. ASSUME NEW t \in Turns, TaskStep(t) PROVE TypeOK'
    BY <1>4, TaskStepTypeOK
  <1>5. CASE UNCHANGED vars
    <2>1. QueueTypes' /\ Len(tstate) <= Len(tstate)'
      BY <1>5, QueueFrame DEF vars, TypeOK, QueuesUnchanged
    <2>2. TaskTypes'
      BY <1>5, <2>1, TaskFrame2 DEF vars
    <2>3. CallerTypes' /\ LedgerTypes'
      BY <1>5 DEF vars, TypeOK, CallerTypes, LedgerTypes
    <2> QED BY <2>1, <2>2, <2>3 DEF TypeOK
  <1> QED BY <1>1, <1>2, <1>3, <1>4, <1>5 DEF Next

\* Every reachable state of the session is well typed: no task or caller
\* ever uses a TurnState that was not allocated, and no aborting caller is
\* without a task to abort, whoever starts and aborts turns.
THEOREM TypeCorrect == Spec => []TypeOK
  BY InitTypeOK, NextTypeOK, PTL DEF Spec

-----------------------------------------------------------------------------
(* The safety properties of one turn and of active_turn. *)

-----------------------------------------------------------------------------
(* What a step does to the fields that the invariants below speak of.      *)

\* A step of the task of turn t, seen through the fields that the invariants
\* below speak of: its pc, its token, its terminal events and active_turn.
TaskView(t) ==
    /\ UNCHANGED <<caller, overwrote>>
    /\ \A u \in Turns : u # t => task'[u] = task[u]
    /\ task'[t].cancelled = task[t].cancelled
    /\ \/ /\ task[t].pc \in Working /\ task'[t].pc \in Working
          /\ active' = active /\ task'[t].ends = task[t].ends
       \/ /\ task[t].pc \in {"finInput", "finRecord"}
          /\ task'[t].pc \in {"finRecord", "finEvent"}
          /\ active' = active /\ task'[t].ends = task[t].ends
       \/ /\ task[t].pc = "exit" /\ task[t].cancelled /\ task'[t].pc = "done"
          /\ active' = active /\ task'[t].ends = task[t].ends
       \/ /\ task[t].pc = "finTake" /\ active.task = NoTask /\ task'[t].pc = "done"
          /\ active' = active /\ task'[t].ends = task[t].ends
       \/ /\ task[t].pc = "finTake" /\ active.task # NoTask /\ task'[t].pc = "finInput"
          /\ active'.task = NoTask /\ task'[t].ends = task[t].ends
       \/ /\ task[t].pc = "finEvent" /\ task'[t].pc = "finClear"
          /\ active' = active /\ Len(task'[t].ends) = Len(task[t].ends) + 1
       \/ /\ task[t].pc = "finClear" /\ task'[t].pc = "done"
          /\ active'.task = active.task /\ task'[t].ends = task[t].ends

\* The task of one turn is replaced by r.
LEMMA TaskReplaced ==
    ASSUME TaskTypes, NEW t \in Turns, NEW r, task' = [task EXCEPT ![t] = r]
    PROVE  task'[t] = r /\ \A u \in Turns : u # t => task'[u] = task[u]
  BY DEF TaskTypes

LEMMA EndedTaskView ==
    ASSUME TaskTypes, NEW t \in Turns
    PROVE  /\ EndedTask(t).pc = "done"
           /\ EndedTask(t).cancelled = task[t].cancelled
           /\ EndedTask(t).ends = task[t].ends
  BY UnbornTaskType DEF EndedTask, Task

LEMMA TaskEnds ==
    ASSUME TaskTypes, NEW t \in Turns, task' = [task EXCEPT ![t] = EndedTask(t)]
    PROVE  /\ task'[t].pc = "done" /\ task'[t].cancelled = task[t].cancelled
           /\ task'[t].ends = task[t].ends
           /\ \A u \in Turns : u # t => task'[u] = task[u]
  <1>1. task'[t] = EndedTask(t) /\ \A u \in Turns : u # t => task'[u] = task[u]
    BY DEF TaskTypes
  <1> QED BY <1>1, EndedTaskView

LEMMA TaskKeeps ==
    ASSUME TaskTypes, NEW t \in Turns
    PROVE  /\ \A b, h : /\ [task[t] EXCEPT !.buf = b, !.hook = h].pc = task[t].pc
                       /\ [task[t] EXCEPT !.buf = b, !.hook = h].cancelled = task[t].cancelled
                       /\ [task[t] EXCEPT !.buf = b, !.hook = h].ends = task[t].ends
  BY TaskHasType DEF Task

LEMMA RecordOneView ==
    ASSUME TypeOK, NEW t \in Turns, RecordOne(t)
    PROVE  TaskView(t)
  <1>1. PICK b, h : task' = [task EXCEPT ![t] = [task[t] EXCEPT !.buf = b, !.hook = h]]
    <2> DEFINE i == Head(task[t].buf)
               rest == Tail(task[t].buf)
               h1 == IF i \in UserInputs THEN "accepted" ELSE task[t].hook
               h2 == IF task[t].hook = "accepted" THEN task[t].hook ELSE "blocked"
    <2>1. \/ task' = [task EXCEPT ![t] = [task[t] EXCEPT !.buf = rest, !.hook = h1]]
          \/ task' = [task EXCEPT ![t] = [task[t] EXCEPT !.buf = rest, !.hook = h2]]
      BY DEF RecordOne
    <2> HIDE DEF i, rest, h1, h2
    <2> QED BY <2>1
  <1>2. /\ task'[t].pc = task[t].pc /\ task'[t].cancelled = task[t].cancelled
        /\ task'[t].ends = task[t].ends
        /\ \A u \in Turns : u # t => task'[u] = task[u]
    BY <1>1, TaskReplaced, TaskKeeps DEF TypeOK
  <1>3. task[t].pc \in {"recordInput", "recordPending", "finRecord"}
    BY DEF RecordOne, Runs
  <1>4. UNCHANGED <<caller, overwrote, active>>
    BY DEF RecordOne, QueuesUnchanged, TaskOnly
  <1> QED BY <1>2, <1>3, <1>4 DEF TaskView, Working

LEMMA RecordDoneView ==
    ASSUME TypeOK, NEW t \in Turns, RecordDone(t)
    PROVE  TaskView(t)
  <1> DEFINE r(pc) == [task[t] EXCEPT !.hook = "none", !.pc = pc]
  <1>1. ASSUME NEW pc
        PROVE  r(pc).pc = pc /\ r(pc).cancelled = task[t].cancelled /\ r(pc).ends = task[t].ends
    BY TaskHasType DEF TypeOK, Task
  <1>2. \/ /\ task[t].pc \in {"recordInput", "recordPending"}
           /\ \/ task' = [task EXCEPT ![t] = r("exitCheck")]
              \/ task' = [task EXCEPT ![t] = r("drain")]
              \/ task' = [task EXCEPT ![t] = r("sample")]
        \/ task[t].pc = "finRecord" /\ task' = [task EXCEPT ![t] = r("finEvent")]
    BY DEF RecordDone, Runs
  <1>3. UNCHANGED <<caller, overwrote, active>>
    BY DEF RecordDone, QueuesUnchanged, TaskOnly
  <1> HIDE DEF r
  <1>4. ASSUME NEW pc, task' = [task EXCEPT ![t] = r(pc)]
        PROVE  /\ task'[t].pc = pc /\ task'[t].cancelled = task[t].cancelled
               /\ task'[t].ends = task[t].ends
               /\ \A u \in Turns : u # t => task'[u] = task[u]
    <2>1. PICK x : x = r(pc)
      OBVIOUS
    <2>2. task'[t] = x /\ \A u \in Turns : u # t => task'[u] = task[u]
      BY <1>4, <2>1, TaskReplaced DEF TypeOK
    <2> QED BY <1>1, <2>1, <2>2
  <1>5. CASE task[t].pc \in {"recordInput", "recordPending"}
    <2>1. /\ task'[t].pc \in {"exitCheck", "drain", "sample"}
          /\ task'[t].cancelled = task[t].cancelled
          /\ task'[t].ends = task[t].ends
          /\ \A u \in Turns : u # t => task'[u] = task[u]
      BY <1>2, <1>4, <1>5
    <2> QED BY <1>3, <1>5, <2>1 DEF TaskView, Working
  <1>6. CASE task[t].pc = "finRecord"
    <2>1. /\ task'[t].pc = "finEvent"
          /\ task'[t].cancelled = task[t].cancelled
          /\ task'[t].ends = task[t].ends
          /\ \A u \in Turns : u # t => task'[u] = task[u]
      BY <1>2, <1>4, <1>6
    <2> QED BY <1>3, <1>6, <2>1 DEF TaskView
  <1> QED BY <1>2, <1>5, <1>6

\* A step that only moves a working task to another working state.
LEMMA WorkView ==
    ASSUME TypeOK, NEW t \in Turns, NEW r,
           task' = [task EXCEPT ![t] = r], task[t].pc \in Working, r.pc \in Working,
           r.cancelled = task[t].cancelled, r.ends = task[t].ends,
           UNCHANGED active, TaskOnly
    PROVE  TaskView(t)
  BY TaskReplaced DEF TypeOK, TaskView, TaskOnly

LEMMA DrainView ==
    ASSUME TypeOK, NEW t \in Turns, Drain(t)
    PROVE  TaskView(t)
  <1> DEFINE pc == IF AcceptsMailboxDelivery THEN "drainMail" ELSE "recordPending"
             r == [task[t] EXCEPT !.buf = TurnPending, !.pc = pc]
             q == [task[t] EXCEPT !.pc = "recordPending"]
  <1>1. task' = [task EXCEPT ![t] = r] \/ task' = [task EXCEPT ![t] = q]
    BY DEF Drain
  <1>2. task[t].pc \in Working /\ pc \in Working
    BY DEF Drain, Runs, Working
  <1>3. r.pc \in Working /\ r.cancelled = task[t].cancelled /\ r.ends = task[t].ends
    <2> HIDE DEF pc
    <2> QED BY <1>2, TaskHasType DEF TypeOK, Task
  <1>4. q.pc \in Working /\ q.cancelled = task[t].cancelled /\ q.ends = task[t].ends
    BY TaskHasType DEF TypeOK, Task, Working
  <1> HIDE DEF r, q
  <1> QED BY <1>1, <1>2, <1>3, <1>4, WorkView DEF Drain

LEMMA DrainMailView ==
    ASSUME TypeOK, NEW t \in Turns, DrainMail(t)
    PROVE  TaskView(t)
  <1> DEFINE b == task[t].buf \o mailbox
             r == [task[t] EXCEPT !.buf = b, !.pc = "recordPending"]
  <1>1. task' = [task EXCEPT ![t] = r]
    BY DEF DrainMail
  <1>2. r.pc \in Working /\ r.cancelled = task[t].cancelled /\ r.ends = task[t].ends
    <2> HIDE DEF b
    <2> QED BY TaskHasType DEF TypeOK, Task, Working
  <1>3. task[t].pc \in Working
    BY DEF DrainMail, Runs, Working
  <1> HIDE DEF r
  <1> QED BY <1>1, <1>2, <1>3, WorkView DEF DrainMail

LEMMA DeliveryPhaseView ==
    ASSUME TypeOK, NEW t \in Turns,
           DeferMailboxDelivery(t) \/ AcceptMailboxDelivery(t)
    PROVE  TaskView(t)
  BY DEF DeferMailboxDelivery, AcceptMailboxDelivery, Runs, TaskView, TaskOnly, Working

LEMMA SampleView ==
    ASSUME TypeOK, NEW t \in Turns,
           SampleFollowUp(t) \/ SampleCompact(t) \/ SampleStop(t) \/ SampleError(t)
    PROVE  TaskView(t)
  <1>1. task[t].pc \in Working /\ UNCHANGED active /\ TaskOnly
    BY DEF SampleFollowUp, SampleCompact, SampleStop, SampleError, Runs, Working,
       QueuesUnchanged
  <1>2. CASE SampleFollowUp(t)
    <2> DEFINE r == [task[t] EXCEPT !.pc = "drain", !.canDrain = TRUE]
    <2>1. task' = [task EXCEPT ![t] = r]
      BY <1>2 DEF SampleFollowUp
    <2>2. r.pc \in Working /\ r.cancelled = task[t].cancelled /\ r.ends = task[t].ends
      BY TaskHasType DEF TypeOK, Task, Working
    <2> HIDE DEF r
    <2> QED BY <1>1, <2>1, <2>2, WorkView
  <1>3. CASE SampleCompact(t)
    <2> DEFINE r(b) == [task[t] EXCEPT !.pc = "drain", !.canDrain = ~b]
    <2>1. PICK b \in BOOLEAN : task' = [task EXCEPT ![t] = r(b)]
      BY <1>3 DEF SampleCompact
    <2>2. r(b).pc \in Working /\ r(b).cancelled = task[t].cancelled /\ r(b).ends = task[t].ends
      BY TaskHasType DEF TypeOK, Task, Working
    <2> HIDE DEF r
    <2> QED BY <1>1, <2>1, <2>2, WorkView
  <1>4. CASE SampleStop(t)
    <2> DEFINE pc == IF task[t].kind = "Regular" THEN "exitCheck" ELSE "exit"
               r == [task[t] EXCEPT !.pc = pc]
    <2>1. task' = [task EXCEPT ![t] = r]
      BY <1>4 DEF SampleStop
    <2>2. pc \in Working
      BY DEF Working
    <2>3. r.pc \in Working /\ r.cancelled = task[t].cancelled /\ r.ends = task[t].ends
      <3> HIDE DEF pc
      <3> QED BY <2>2, TaskHasType DEF TypeOK, Task
    <2> HIDE DEF r
    <2> QED BY <1>1, <2>1, <2>3, WorkView
  <1>5. CASE SampleError(t)
    <2> DEFINE r == [task[t] EXCEPT !.pc = "exit", !.failed = TRUE]
               q == [task[t] EXCEPT !.pc = "exitCheck"]
    <2>1. task' = [task EXCEPT ![t] = r] \/ task' = [task EXCEPT ![t] = q]
      BY <1>5 DEF SampleError
    <2>2. r.pc \in Working /\ r.cancelled = task[t].cancelled /\ r.ends = task[t].ends
      BY TaskHasType DEF TypeOK, Task, Working
    <2>3. q.pc \in Working /\ q.cancelled = task[t].cancelled /\ q.ends = task[t].ends
      BY TaskHasType DEF TypeOK, Task, Working
    <2> HIDE DEF r, q
    <2> QED BY <1>1, <2>1, <2>2, <2>3, WorkView
  <1> QED BY <1>2, <1>3, <1>4, <1>5

LEMMA BeginView ==
    ASSUME TypeOK, NEW t \in Turns, BeginTurn(t) \/ GiveUp(t)
    PROVE  TaskView(t)
  <1>1. task[t].pc \in Working /\ UNCHANGED active /\ TaskOnly
    BY DEF BeginTurn, GiveUp, Runs, Working, QueuesUnchanged
  <1> DEFINE r == [task[t] EXCEPT !.pc = "recordInput"]
             q == [task[t] EXCEPT !.pc = "exitCheck", !.buf = <<>>]
             p == [task[t] EXCEPT !.pc = "exit", !.buf = <<>>, !.failed = TRUE]
  <1>2. \/ task' = [task EXCEPT ![t] = r] \/ task' = [task EXCEPT ![t] = q]
        \/ task' = [task EXCEPT ![t] = p]
    BY DEF BeginTurn, GiveUp
  <1>3. r.pc \in Working /\ r.cancelled = task[t].cancelled /\ r.ends = task[t].ends
    BY TaskHasType DEF TypeOK, Task, Working
  <1>4. q.pc \in Working /\ q.cancelled = task[t].cancelled /\ q.ends = task[t].ends
    BY TaskHasType DEF TypeOK, Task, Working
  <1>5. p.pc \in Working /\ p.cancelled = task[t].cancelled /\ p.ends = task[t].ends
    BY TaskHasType DEF TypeOK, Task, Working
  <1> HIDE DEF r, q, p
  <1> QED BY <1>1, <1>2, <1>3, <1>4, <1>5, WorkView

LEMMA ExitCheckView ==
    ASSUME TypeOK, NEW t \in Turns, ExitCheck(t)
    PROVE  TaskView(t)
  <1> DEFINE pc == IF HasPendingInput THEN "begin" ELSE "exit"
             r == [task[t] EXCEPT !.canDrain = TRUE, !.pc = pc]
  <1>1. task' = [task EXCEPT ![t] = r]
    BY DEF ExitCheck
  <1>2. pc \in Working /\ task[t].pc \in Working
    BY DEF Working, ExitCheck, Runs
  <1>3. r.pc \in Working /\ r.cancelled = task[t].cancelled /\ r.ends = task[t].ends
    <2> HIDE DEF pc
    <2> QED BY <1>2, TaskHasType DEF TypeOK, Task
  <1> HIDE DEF r
  <1> QED BY <1>1, <1>2, <1>3, WorkView DEF ExitCheck, QueuesUnchanged

LEMMA CheckCancelledView ==
    ASSUME TypeOK, NEW t \in Turns, CheckCancelled(t)
    PROVE  TaskView(t)
  <1> DEFINE r == [task[t] EXCEPT !.pc = "finTake"]
  <1>1. task[t].pc = "exit" /\ UNCHANGED active /\ TaskOnly
    BY DEF CheckCancelled, Runs, QueuesUnchanged
  <1>2. CASE task[t].cancelled
    <2>1. task' = [task EXCEPT ![t] = EndedTask(t)]
      BY <1>2 DEF CheckCancelled
    <2> QED BY <1>1, <1>2, <2>1, TaskEnds DEF TypeOK, TaskView, TaskOnly
  <1>3. CASE ~task[t].cancelled
    <2>1. task' = [task EXCEPT ![t] = r]
      BY <1>3 DEF CheckCancelled
    <2>2. r.pc \in Working /\ r.cancelled = task[t].cancelled /\ r.ends = task[t].ends
      BY TaskHasType DEF TypeOK, Task, Working
    <2>3. task[t].pc \in Working
      BY <1>1 DEF Working
    <2> HIDE DEF r
    <2> QED BY <1>1, <2>1, <2>2, <2>3, WorkView
  <1> QED BY <1>2, <1>3

LEMMA FinishView ==
    ASSUME TypeOK, NEW t \in Turns,
           FinishTake(t) \/ FinishInput(t) \/ FinishEvent(t) \/ FinishClear(t)
    PROVE  TaskView(t)
  <1>1. CASE FinishTake(t)
    <2> DEFINE r == [task[t] EXCEPT !.pc = "finInput", !.ts = active.state]
    <2>1. task[t].pc = "finTake" /\ TaskOnly
      BY <1>1 DEF FinishTake, Runs
    <2>2. CASE active.task = NoTask
      <3>1. task' = [task EXCEPT ![t] = EndedTask(t)] /\ active' = active
        BY <1>1, <2>2 DEF FinishTake
      <3> QED BY <2>1, <2>2, <3>1, TaskEnds DEF TypeOK, TaskView, TaskOnly
    <2>3. CASE active.task # NoTask
      <3>1. task' = [task EXCEPT ![t] = r] /\ active' = [active EXCEPT !.task = NoTask]
        BY <1>1, <2>3 DEF FinishTake
      <3>2. r.pc = "finInput" /\ r.cancelled = task[t].cancelled /\ r.ends = task[t].ends
        BY TaskHasType DEF TypeOK, Task
      <3>3. active'.task = NoTask
        BY <3>1, ActiveType DEF TypeOK
      <3> HIDE DEF r
      <3>4. task'[t] = r /\ \A u \in Turns : u # t => task'[u] = task[u]
        BY <3>1, TaskReplaced DEF TypeOK
      <3> QED BY <2>1, <2>3, <3>2, <3>3, <3>4 DEF TaskView, TaskOnly
    <2> QED BY <2>2, <2>3
  <1>2. CASE FinishInput(t)
    <2> DEFINE b == tstate[task[t].ts].input
               r == [task[t] EXCEPT !.pc = "finRecord", !.buf = b]
    <2>1. task' = [task EXCEPT ![t] = r] /\ task[t].pc = "finInput" /\ TaskOnly /\ active' = active
      BY <1>2 DEF FinishInput, Runs
    <2>2. r.pc = "finRecord" /\ r.cancelled = task[t].cancelled /\ r.ends = task[t].ends
      <3> HIDE DEF b
      <3> QED BY TaskHasType DEF TypeOK, Task
    <2> HIDE DEF r
    <2> QED BY <2>1, <2>2, TaskReplaced DEF TypeOK, TaskView, TaskOnly
  <1>3. CASE FinishEvent(t)
    <2> DEFINE e == IF task[t].failed THEN "TurnAborted" ELSE "TurnComplete"
               q == Append(task[t].ends, e)
               r == [task[t] EXCEPT !.pc = "finClear", !.ends = q]
    <2>1. task' = [task EXCEPT ![t] = r] /\ task[t].pc = "finEvent" /\ TaskOnly /\ active' = active
      BY <1>3 DEF FinishEvent, Runs, QueuesUnchanged
    <2>2. Len(q) = Len(task[t].ends) + 1
      <3>1. e \in {"TurnComplete", "TurnAborted"}
        OBVIOUS
      <3> HIDE DEF e
      <3> QED BY <3>1, TaskHasType DEF TypeOK
    <2>3. r.pc = "finClear" /\ r.cancelled = task[t].cancelled /\ r.ends = q
      <3> HIDE DEF q
      <3> QED BY TaskHasType DEF TypeOK, Task
    <2> HIDE DEF r, q
    <2>4. task'[t] = r /\ \A u \in Turns : u # t => task'[u] = task[u]
      BY <2>1, TaskReplaced DEF TypeOK
    <2>5. /\ task'[t].pc = "finClear" /\ task'[t].cancelled = task[t].cancelled
          /\ Len(task'[t].ends) = Len(task[t].ends) + 1
      BY <2>2, <2>3, <2>4
    <2> QED BY <2>1, <2>4, <2>5 DEF TaskView, TaskOnly
  <1>4. CASE FinishClear(t)
    <2>1. /\ task' = [task EXCEPT ![t] = EndedTask(t)] /\ task[t].pc = "finClear" /\ TaskOnly
          /\ active' = IF active.task = NoTask /\ active.state = task[t].ts THEN NoTurn ELSE active
      BY <1>4 DEF FinishClear, Runs
    <2>2. active'.task = active.task
      BY <2>1, NoTurnType DEF TypeOK
    <2> QED BY <2>1, <2>2, TaskEnds DEF TypeOK, TaskView, TaskOnly
  <1> QED BY <1>1, <1>2, <1>3, <1>4

LEMMA TaskStepView ==
    ASSUME TypeOK, NEW t \in Turns, TaskStep(t)
    PROVE  TaskView(t)
  BY BeginView, RecordOneView, RecordDoneView, DrainView, DrainMailView, DeliveryPhaseView,
     SampleView, ExitCheckView, CheckCancelledView, FinishView DEF TaskStep

\* A step of caller c, seen the same way.
OthersSame(v) == \A u \in Turns : u # v => task'[u] = task[u]

Takes(c) ==
    /\ active.task # NoTask /\ active'.task = NoTask
    /\ OthersSame(active.task)
    /\ task'[active.task].cancelled
    /\ task'[active.task].pc = task[active.task].pc
    /\ task'[active.task].ends = task[active.task].ends
    /\ caller'[c].pc = "abortWait" /\ caller'[c].victim = active.task
    /\ overwrote' = overwrote

Kills(c) ==
    /\ caller[c].pc = "abortWait" /\ caller'[c].pc = "abortEmit"
    /\ caller'[c].victim = caller[c].victim /\ caller'[c].turn = caller[c].turn
    /\ OthersSame(caller[c].victim)
    /\ task'[caller[c].victim].pc = "done"
    /\ task'[caller[c].victim].cancelled = task[caller[c].victim].cancelled
    /\ task'[caller[c].victim].ends = task[caller[c].victim].ends
    /\ active' = active /\ overwrote' = overwrote

Emits(c) ==
    /\ caller[c].pc = "abortEmit" /\ caller'[c].pc = "abortClear"
    /\ caller'[c].turn = caller[c].turn
    /\ OthersSame(caller[c].victim)
    /\ task'[caller[c].victim].pc = task[caller[c].victim].pc
    /\ task'[caller[c].victim].cancelled = task[caller[c].victim].cancelled
    /\ Len(task'[caller[c].victim].ends) = Len(task[caller[c].victim].ends) + 1
    /\ active' = active /\ overwrote' = overwrote

OwnsTurn == {"abortWait", "abortEmit", "abortClear", "startDrain", "startMail",
             "startInsert", "startExtend", "startSpawn"}

TryPcs == {"tryReserve", "tryRecheck", "tryClear", "tryStill", "tryExtend"}

\* Steps that touch no task.
GoesOn(c) ==
    /\ caller[c].pc \notin UsesVictim \cup {"idle"}
    /\ task' = task /\ active'.task = active.task
    /\ caller'[c].pc \notin UsesVictim
    /\ IF caller'[c].pc = "idle" THEN caller'[c].turn = NoTask
                                 ELSE caller'[c].turn = caller[c].turn
    /\ caller'[c].pc \in OwnsTurn =>
          \/ caller[c].pc \in OwnsTurn \cup TryPcs
          \/ active'.task = NoTask
    /\ caller'[c].pc \in TryPcs => caller[c].pc \in TryPcs
    /\ overwrote' # overwrote => caller[c].pc \in OwnsTurn /\ active.task # NoTask

Spawns(c) ==
    /\ caller[c].pc = "startSpawn" /\ caller'[c].pc = "idle" /\ caller'[c].turn = NoTask
    /\ active'.task = caller[c].turn
    /\ \A u \in Turns : u \notin {caller[c].turn, active.task} => task'[u] = task[u]
    /\ active.task \in Turns \ {caller[c].turn} =>
          /\ task'[active.task].pc = "done"
          /\ task'[active.task].cancelled = task[active.task].cancelled
          /\ task'[active.task].ends = task[active.task].ends
    /\ caller[c].turn \in Turns =>
          /\ task'[caller[c].turn].pc \in Working
          /\ ~task'[caller[c].turn].cancelled
          /\ task'[caller[c].turn].ends = <<>>
    /\ overwrote' # overwrote => active.task # NoTask

CallView(c) ==
    /\ \A d \in Callers : d # c => caller'[d] = caller[d]
    /\ \/ caller[c].pc = "abortTake" /\ Takes(c) /\ caller'[c].turn = caller[c].turn
       \/ Kills(c) \/ Emits(c) \/ GoesOn(c) \/ Spawns(c)

\* The record of one caller is replaced by r.
LEMMA CallerReplaced ==
    ASSUME CallerTypes, NEW c \in Callers, NEW r, caller' = [caller EXCEPT ![c] = r]
    PROVE  caller'[c] = r /\ \A d \in Callers : d # c => caller'[d] = caller[d]
  BY DEF CallerTypes

LEMMA IdleCallerView == IdleCaller.pc = "idle" /\ IdleCaller.turn = NoTask
  BY DEF IdleCaller

LEMMA GotoView ==
    ASSUME CallerTypes, NEW c \in Callers, NEW pc, Goto(c, pc)
    PROVE  /\ caller'[c].pc = pc /\ caller'[c].turn = caller[c].turn
           /\ caller'[c].victim = caller[c].victim
           /\ \A d \in Callers : d # c => caller'[d] = caller[d]
  <1> DEFINE r == [caller[c] EXCEPT !.pc = pc]
  <1>1. caller' = [caller EXCEPT ![c] = r]
    BY DEF Goto
  <1>2. r.pc = pc /\ r.turn = caller[c].turn /\ r.victim = caller[c].victim
    BY CallerHasType DEF Caller
  <1> HIDE DEF r
  <1>3. caller'[c] = r /\ \A d \in Callers : d # c => caller'[d] = caller[d]
    BY <1>1, CallerReplaced
  <1> QED BY <1>2, <1>3

LEMMA ReturnView ==
    ASSUME CallerTypes, NEW c \in Callers, Return(c)
    PROVE  /\ caller'[c].pc = "idle" /\ caller'[c].turn = NoTask
           /\ \A d \in Callers : d # c => caller'[d] = caller[d]
  BY CallerReplaced, IdleCallerView DEF Return

\* Cancelling the active task.
LEMMA CancelView ==
    ASSUME TypeOK, active.task # NoTask,
           task' = [task EXCEPT ![active.task].cancelled = TRUE]
    PROVE  /\ OthersSame(active.task)
           /\ task'[active.task].cancelled
           /\ task'[active.task].pc = task[active.task].pc
           /\ task'[active.task].ends = task[active.task].ends
  <1> DEFINE t == active.task
             r == [task[t] EXCEPT !.cancelled = TRUE]
  <1>1. t \in Turns
    BY ActiveType DEF TypeOK
  <1>2. r.cancelled /\ r.pc = task[t].pc /\ r.ends = task[t].ends
    BY <1>1, TaskHasType DEF TypeOK, Task
  <1>3. task' = [task EXCEPT ![t] = r]
    OBVIOUS
  <1> HIDE DEF r, t
  <1>4. task'[t] = r /\ \A u \in Turns : u # t => task'[u] = task[u]
    BY <1>1, <1>3, TaskReplaced DEF TypeOK
  <1> QED BY <1>2, <1>4 DEF t, OthersSame

LEMMA AbortTakeView ==
    ASSUME TypeOK, NEW c \in Callers, AbortTake(c)
    PROVE  CallView(c)
  <1>1. /\ caller[c].pc = "abortTake" /\ active' = NoTurn /\ overwrote' = overwrote
        /\ active'.task = NoTask
    BY NoTurnType DEF TypeOK, AbortTake, TakeAndCancel, At
  <1>2. CASE active.task # NoTask
    <2> DEFINE r == [caller[c] EXCEPT !.pc = "abortWait", !.ts = active.state,
                                      !.victim = active.task]
    <2>1. /\ task' = [task EXCEPT ![active.task].cancelled = TRUE]
          /\ caller' = [caller EXCEPT ![c] = r]
      BY <1>2 DEF AbortTake, TakeAndCancel
    <2>2. r.pc = "abortWait" /\ r.victim = active.task /\ r.turn = caller[c].turn
      BY CallerHasType DEF TypeOK, Caller
    <2> HIDE DEF r
    <2>3. caller'[c] = r /\ \A d \in Callers : d # c => caller'[d] = caller[d]
      BY <2>1, CallerReplaced DEF TypeOK
    <2>4. Takes(c)
      BY <1>1, <1>2, <2>1, <2>2, <2>3, CancelView DEF Takes
    <2> QED BY <1>1, <2>2, <2>3, <2>4 DEF CallView
  <1>3. CASE active.task = NoTask
    <2>1. task' = task /\ (Return(c) \/ Goto(c, "startDrain"))
      BY <1>3 DEF AbortTake
    <2>2. /\ \/ caller'[c].pc = "idle" /\ caller'[c].turn = NoTask
             \/ caller'[c].pc = "startDrain" /\ caller'[c].turn = caller[c].turn
          /\ \A d \in Callers : d # c => caller'[d] = caller[d]
      BY <2>1, ReturnView, GotoView DEF TypeOK
    <2>3. GoesOn(c)
      BY <1>1, <1>3, <2>1, <2>2 DEF GoesOn, UsesVictim, OwnsTurn, TryPcs
    <2> QED BY <2>2, <2>3 DEF CallView
  <1> QED BY <1>2, <1>3

LEMMA AbortKillView ==
    ASSUME TypeOK, NEW c \in Callers, AbortKill(c)
    PROVE  CallView(c)
  <1> DEFINE v == caller[c].victim
  <1>1. v \in Turns
    BY CallerHasType DEF TypeOK, GoodCaller, AbortKill, At, UsesVictim
  <1>2. /\ caller[c].pc = "abortWait" /\ active' = active /\ overwrote' = overwrote
        /\ task' = [task EXCEPT ![v] = EndedTask(v)]
        /\ Goto(c, "abortEmit")
    BY DEF AbortKill, At
  <1>3. /\ task'[v].pc = "done" /\ task'[v].cancelled = task[v].cancelled
        /\ task'[v].ends = task[v].ends /\ OthersSame(v)
    <2> HIDE DEF v
    <2> QED BY <1>1, <1>2, TaskEnds DEF TypeOK, OthersSame
  <1>4. /\ caller'[c].pc = "abortEmit" /\ caller'[c].turn = caller[c].turn
        /\ caller'[c].victim = v
        /\ \A d \in Callers : d # c => caller'[d] = caller[d]
    BY <1>2, GotoView DEF TypeOK
  <1>5. Kills(c)
    BY <1>2, <1>3, <1>4 DEF Kills
  <1> QED BY <1>4, <1>5 DEF CallView

LEMMA AbortEmitView ==
    ASSUME TypeOK, NEW c \in Callers, AbortEmit(c)
    PROVE  CallView(c)
  <1> DEFINE v == caller[c].victim
             e == Append(task[v].ends, "TurnAborted")
             r == [task[v] EXCEPT !.ends = e]
  <1>1. v \in Turns
    BY CallerHasType DEF TypeOK, GoodCaller, AbortEmit, At, UsesVictim
  <1>2. /\ caller[c].pc = "abortEmit" /\ active' = active /\ overwrote' = overwrote
        /\ task' = [task EXCEPT ![v] = r]
        /\ Goto(c, "abortClear")
    BY DEF AbortEmit, At
  <1>3. Len(e) = Len(task[v].ends) + 1
    <2>1. task[v].ends \in Seq({"TurnComplete", "TurnAborted"})
      <3> HIDE DEF v
      <3> QED BY <1>1, TaskHasType DEF TypeOK
    <2> HIDE DEF v
    <2> QED BY <2>1
  <1>4. r.pc = task[v].pc /\ r.cancelled = task[v].cancelled /\ r.ends = e
    <2> HIDE DEF v, e
    <2> QED BY <1>1, TaskHasType DEF TypeOK, Task
  <1>5. task'[v] = r /\ OthersSame(v)
    <2> HIDE DEF v, r
    <2> QED BY <1>1, <1>2, TaskReplaced DEF TypeOK, OthersSame
  <1>6. /\ caller'[c].pc = "abortClear" /\ caller'[c].turn = caller[c].turn
        /\ \A d \in Callers : d # c => caller'[d] = caller[d]
    BY <1>2, GotoView DEF TypeOK
  <1>7. Emits(c)
    <2> HIDE DEF r, e
    <2> QED BY <1>2, <1>3, <1>4, <1>5, <1>6 DEF Emits
  <1> QED BY <1>6, <1>7 DEF CallView

\* Steps of a call that change its record but no task.
LEMMA GoesOnView ==
    ASSUME TypeOK, NEW c \in Callers, NEW r,
           caller' = [caller EXCEPT ![c] = r], r.turn = caller[c].turn,
           r.pc \notin UsesVictim \cup {"idle"},
           r.pc \in OwnsTurn => \/ caller[c].pc \in OwnsTurn \cup TryPcs
                               \/ active'.task = NoTask,
           r.pc \in TryPcs => caller[c].pc \in TryPcs,
           caller[c].pc \notin UsesVictim \cup {"idle"},
           task' = task, active'.task = active.task,
           overwrote' # overwrote => caller[c].pc \in OwnsTurn /\ active.task # NoTask
    PROVE  CallView(c)
  <1>1. caller'[c] = r /\ \A d \in Callers : d # c => caller'[d] = caller[d]
    BY CallerReplaced DEF TypeOK
  <1>2. GoesOn(c)
    BY <1>1 DEF GoesOn
  <1> QED BY <1>1, <1>2 DEF CallView

\* Steps of a call that leave it where Goto or Return lead.
LEMMA GoToView ==
    ASSUME TypeOK, NEW c \in Callers, NEW pc, Goto(c, pc) \/ Return(c),
           pc \notin UsesVictim \cup {"idle"},
           pc \in OwnsTurn => \/ caller[c].pc \in OwnsTurn \cup TryPcs
                             \/ active'.task = NoTask,
           pc \in TryPcs => caller[c].pc \in TryPcs,
           caller[c].pc \notin UsesVictim \cup {"idle"},
           task' = task, active'.task = active.task,
           overwrote' = overwrote
    PROVE  CallView(c)
  <1>1. CASE Goto(c, pc)
    <2>1. GoesOn(c)
      BY <1>1, GotoView DEF TypeOK, GoesOn
    <2> QED BY <1>1, <2>1, GotoView DEF TypeOK, CallView
  <1>2. CASE Return(c)
    <2>1. GoesOn(c)
      BY <1>2, ReturnView DEF TypeOK, GoesOn, UsesVictim, OwnsTurn, TryPcs
    <2> QED BY <1>2, <2>1, ReturnView DEF TypeOK, CallView
  <1> QED BY <1>1, <1>2

LEMMA AbortClearView ==
    ASSUME TypeOK, NEW c \in Callers, AbortClear(c)
    PROVE  CallView(c)
  <1> DEFINE pc == IF caller[c].reason = "Interrupted" THEN "maybeCheck" ELSE "startDrain"
             r == [caller[c] EXCEPT !.ts = 0, !.victim = NoTask, !.pc = pc]
  <1>1. /\ caller' = [caller EXCEPT ![c] = r] /\ caller[c].pc = "abortClear"
        /\ UNCHANGED <<active, task, overwrote>>
    BY DEF AbortClear, At
  <1>2. pc \in {"maybeCheck", "startDrain"}
    OBVIOUS
  <1>3. r.turn = caller[c].turn /\ r.pc = pc
    <2> HIDE DEF pc
    <2> QED BY CallerHasType DEF TypeOK, Caller
  <1> HIDE DEF r, pc
  <1> QED BY <1>1, <1>2, <1>3, GoesOnView DEF UsesVictim, OwnsTurn, TryPcs

LEMMA MaybeCheckView ==
    ASSUME TypeOK, NEW c \in Callers, MaybeCheck(c)
    PROVE  CallView(c)
  <1>1. /\ Goto(c, "maybeReserve") \/ Return(c)
        /\ caller[c].pc = "maybeCheck" /\ UNCHANGED <<active, task, overwrote>>
    BY DEF MaybeCheck, At, QueuesUnchanged
  <1> QED BY <1>1, GoToView DEF UsesVictim, OwnsTurn, TryPcs

LEMMA MaybeReserveView ==
    ASSUME TypeOK, NEW c \in Callers, MaybeReserve(c)
    PROVE  CallView(c)
  <1>1. /\ caller[c].pc = "maybeReserve" /\ UNCHANGED <<mailbox, task, overwrote>>
        /\ \/ Return(c) /\ UNCHANGED <<active, tstate>>
           \/ Goto(c, "startDrain") /\ InsertActiveTurn /\ active.state = 0
    BY DEF MaybeReserve, At
  <1>2. CASE Return(c) /\ UNCHANGED <<active, tstate>>
    <2>1. GoesOn(c)
      BY <1>1, <1>2, ReturnView DEF TypeOK, GoesOn, UsesVictim, OwnsTurn, TryPcs
    <2> QED BY <1>2, <2>1, ReturnView DEF TypeOK, CallView
  <1>3. CASE Goto(c, "startDrain") /\ InsertActiveTurn /\ active.state = 0
    <2>1. active'.task = NoTask /\ active.task = NoTask
      BY <1>1, <1>3, InsertActiveTurnType, ActiveType DEF TypeOK
    <2> QED BY <1>1, <1>3, <2>1, GoToView DEF UsesVictim, OwnsTurn, TryPcs
  <1> QED BY <1>1, <1>2, <1>3

LEMMA StartDrainView ==
    ASSUME TypeOK, NEW c \in Callers, StartDrain(c)
    PROVE  CallView(c)
  <1> DEFINE pc == IF AcceptsMailboxDelivery THEN "startMail" ELSE "startInsert"
             r == [caller[c] EXCEPT !.buf = TurnPending, !.pc = pc]
  <1>1. /\ caller' = [caller EXCEPT ![c] = r] /\ caller[c].pc = "startDrain"
        /\ UNCHANGED <<active, task, overwrote>>
    BY DEF StartDrain, At
  <1>2. pc \in {"startMail", "startInsert"}
    OBVIOUS
  <1>3. r.turn = caller[c].turn /\ r.pc = pc
    <2> HIDE DEF pc
    <2> QED BY CallerHasType DEF TypeOK, Caller
  <1> HIDE DEF r, pc
  <1> QED BY <1>1, <1>2, <1>3, GoesOnView DEF UsesVictim, OwnsTurn, TryPcs

LEMMA StartMailView ==
    ASSUME TypeOK, NEW c \in Callers, StartMail(c)
    PROVE  CallView(c)
  <1> DEFINE b == caller[c].buf \o mailbox
             r == [caller[c] EXCEPT !.buf = b, !.pc = "startInsert"]
  <1>1. /\ caller' = [caller EXCEPT ![c] = r] /\ caller[c].pc = "startMail"
        /\ UNCHANGED <<active, task, overwrote>>
    BY DEF StartMail, At
  <1>2. r.turn = caller[c].turn /\ r.pc = "startInsert"
    <2> HIDE DEF b
    <2> QED BY CallerHasType DEF TypeOK, Caller
  <1> HIDE DEF r
  <1> QED BY <1>1, <1>2, GoesOnView DEF UsesVictim, OwnsTurn, TryPcs

LEMMA StartInsertView ==
    ASSUME TypeOK, NEW c \in Callers, StartInsert(c)
    PROVE  CallView(c)
  <1> DEFINE k == active'.state
             r == [caller[c] EXCEPT !.pc = "startExtend", !.ts = k]
  <1>1. /\ caller' = [caller EXCEPT ![c] = r] /\ caller[c].pc = "startInsert"
        /\ UNCHANGED <<mailbox, task>>
        /\ overwrote' = (overwrote \/ active.task # NoTask)
    BY DEF StartInsert, At
  <1>2. active'.task = active.task
    <2>1. CASE active.state = 0
      BY <1>1, <2>1, InsertActiveTurnType, ActiveType DEF StartInsert, TypeOK
    <2>2. CASE active.state # 0
      BY <2>2 DEF StartInsert
    <2> QED BY <2>1, <2>2
  <1>3. overwrote' # overwrote => active.task # NoTask
    BY <1>1, LedgerHas
  <1>4. r.turn = caller[c].turn /\ r.pc = "startExtend"
    <2> HIDE DEF k
    <2> QED BY CallerHasType DEF TypeOK, Caller
  <1> HIDE DEF r
  <1> QED BY <1>1, <1>2, <1>3, <1>4, GoesOnView DEF UsesVictim, OwnsTurn, TryPcs

LEMMA StartExtendView ==
    ASSUME TypeOK, NEW c \in Callers, StartExtend(c)
    PROVE  CallView(c)
  <1> DEFINE e == <<>>
             r == [caller[c] EXCEPT !.pc = "startSpawn", !.buf = e]
  <1>1. /\ caller' = [caller EXCEPT ![c] = r] /\ caller[c].pc = "startExtend"
        /\ UNCHANGED <<active, task, overwrote>>
    BY DEF StartExtend, At
  <1>2. r.turn = caller[c].turn /\ r.pc = "startSpawn"
    <2> HIDE DEF e
    <2> QED BY CallerHasType DEF TypeOK, Caller
  <1> HIDE DEF r
  <1> QED BY <1>1, <1>2, GoesOnView DEF UsesVictim, OwnsTurn, TryPcs

LEMMA TryReserveView ==
    ASSUME TypeOK, NEW c \in Callers, TryReserve(c)
    PROVE  CallView(c)
  <1> DEFINE k == Len(tstate) + 1
             r == [caller[c] EXCEPT !.pc = "tryRecheck", !.ts = k]
  <1>1. /\ caller[c].pc = "tryReserve" /\ UNCHANGED <<mailbox, task, overwrote>>
        /\ \/ Return(c) /\ UNCHANGED <<active, tstate>>
           \/ /\ InsertActiveTurn /\ active.state = 0
              /\ caller' = [caller EXCEPT ![c] = r]
    BY DEF TryReserve, At
  <1>2. CASE Return(c) /\ UNCHANGED <<active, tstate>>
    <2>1. GoesOn(c)
      BY <1>1, <1>2, ReturnView DEF TypeOK, GoesOn, UsesVictim, OwnsTurn, TryPcs
    <2> QED BY <1>2, <2>1, ReturnView DEF TypeOK, CallView
  <1>3. CASE InsertActiveTurn /\ active.state = 0 /\ caller' = [caller EXCEPT ![c] = r]
    <2>1. active'.task = NoTask /\ active.task = NoTask
      BY <1>1, <1>3, InsertActiveTurnType, ActiveType DEF TypeOK
    <2>2. r.turn = caller[c].turn /\ r.pc = "tryRecheck"
      <3> HIDE DEF k
      <3> QED BY CallerHasType DEF TypeOK, Caller
    <2> HIDE DEF r
    <2> QED BY <1>1, <1>3, <2>1, <2>2, GoesOnView DEF UsesVictim, OwnsTurn, TryPcs
  <1> QED BY <1>1, <1>2, <1>3

LEMMA TryRecheckView ==
    ASSUME TypeOK, NEW c \in Callers, TryRecheck(c)
    PROVE  CallView(c)
  <1>1. /\ Goto(c, "tryStill") \/ Goto(c, "tryClear")
        /\ caller[c].pc = "tryRecheck" /\ UNCHANGED <<active, task, overwrote>>
    BY DEF TryRecheck, At, QueuesUnchanged
  <1> QED BY <1>1, GoToView DEF UsesVictim, OwnsTurn, TryPcs

LEMMA TryClearView ==
    ASSUME TypeOK, NEW c \in Callers, TryClear(c)
    PROVE  CallView(c)
  <1> DEFINE r == [IdleCaller EXCEPT !.pc = "maybeCheck", !.turn = caller[c].turn]
  <1>1. /\ caller' = [caller EXCEPT ![c] = r] /\ caller[c].pc = "tryClear"
        /\ UNCHANGED <<task, overwrote>>
    BY DEF TryClear, At
  <1>2. active'.task = active.task
    BY NoTurnType DEF TryClear, TypeOK
  <1>3. r.turn = caller[c].turn /\ r.pc = "maybeCheck"
    BY IdleCallerType DEF Caller
  <1> HIDE DEF r
  <1> QED BY <1>1, <1>2, <1>3, GoesOnView DEF UsesVictim, OwnsTurn, TryPcs

LEMMA TryStillView ==
    ASSUME TypeOK, NEW c \in Callers, TryStill(c)
    PROVE  CallView(c)
  <1>1. /\ Goto(c, "tryExtend") \/ Return(c)
        /\ caller[c].pc = "tryStill" /\ UNCHANGED <<active, task, overwrote>>
    BY DEF TryStill, At, QueuesUnchanged
  <1> QED BY <1>1, GoToView DEF UsesVictim, OwnsTurn, TryPcs

LEMMA TryExtendView ==
    ASSUME TypeOK, NEW c \in Callers, TryExtend(c)
    PROVE  CallView(c)
  <1> DEFINE e == <<>>
             r == [caller[c] EXCEPT !.pc = "startDrain", !.input = e]
  <1>1. /\ caller' = [caller EXCEPT ![c] = r] /\ caller[c].pc = "tryExtend"
        /\ UNCHANGED <<active, task, overwrote>>
    BY DEF TryExtend, At
  <1>2. r.turn = caller[c].turn /\ r.pc = "startDrain"
    <2> HIDE DEF e
    <2> QED BY CallerHasType DEF TypeOK, Caller
  <1> HIDE DEF r
  <1> QED BY <1>1, <1>2, GoesOnView DEF UsesVictim, OwnsTurn, TryPcs

LEMMA StartSpawnView ==
    ASSUME TypeOK, NEW c \in Callers, StartSpawn(c)
    PROVE  CallView(c)
  <1> DEFINE n == caller[c].turn
             a == active.task
  <1>1. /\ caller[c].pc = "startSpawn" /\ Return(c)
        /\ task' = [t \in Turns |-> IF t = n THEN SpawnedTask(c)
                                    ELSE IF t = a THEN EndedTask(t)
                                    ELSE task[t]]
        /\ overwrote' = (overwrote \/ a # NoTask)
    BY DEF StartSpawn, At
  <1>2. active'.task = n
    <2>1. CASE active.state = 0
      BY <2>1 DEF StartSpawn
    <2>2. CASE active.state # 0
      <3>1. active' = [active EXCEPT !.task = n]
        BY <2>2 DEF StartSpawn
      <3> QED BY <3>1, ActiveType DEF TypeOK
    <2> QED BY <2>1, <2>2
  <1>3. \A u \in Turns : u \notin {n, a} => task'[u] = task[u]
    BY <1>1
  <1>4. a \in Turns \ {n} => /\ task'[a].pc = "done"
                             /\ task'[a].cancelled = task[a].cancelled
                             /\ task'[a].ends = task[a].ends
    <2> SUFFICES ASSUME a \in Turns \ {n}
                 PROVE  /\ task'[a].pc = "done"
                        /\ task'[a].cancelled = task[a].cancelled
                        /\ task'[a].ends = task[a].ends
      OBVIOUS
    <2>1. task'[a] = EndedTask(a)
      BY <1>1
    <2> HIDE DEF a
    <2> QED BY <2>1, EndedTaskView DEF TypeOK
  <1>5. n \in Turns => /\ task'[n].pc \in Working /\ ~task'[n].cancelled
                       /\ task'[n].ends = <<>>
    <2> SUFFICES ASSUME n \in Turns
                 PROVE  /\ task'[n].pc \in Working /\ ~task'[n].cancelled
                        /\ task'[n].ends = <<>>
      OBVIOUS
    <2>1. task'[n] = SpawnedTask(c)
      BY <1>1
    <2> HIDE DEF n
    <2> QED BY <2>1, SpawnedTaskType DEF TypeOK, Working
  <1>6. overwrote' # overwrote => a # NoTask
    BY <1>1, LedgerHas
  <1>7. /\ caller'[c].pc = "idle" /\ caller'[c].turn = NoTask
        /\ \A d \in Callers : d # c => caller'[d] = caller[d]
    BY <1>1, ReturnView DEF TypeOK
  <1>8. Spawns(c)
    BY <1>1, <1>2, <1>3, <1>4, <1>5, <1>6, <1>7 DEF Spawns
  <1> QED BY <1>7, <1>8 DEF CallView

LEMMA CallStepView ==
    ASSUME TypeOK, NEW c \in Callers, CallStep(c)
    PROVE  CallView(c)
  BY AbortTakeView, AbortKillView, AbortEmitView, AbortClearView,
     MaybeCheckView, MaybeReserveView, StartDrainView, StartMailView,
     StartInsertView, StartExtendView, StartSpawnView, TryReserveView,
     TryRecheckView, TryClearView, TryStillView, TryExtendView DEF CallStep

\* Submissions and offers: nothing visible here, a new call, or an abort by
\* the guardian.
Begins(c) ==
    /\ caller[c].pc = "idle" /\ task' = task /\ active' = active
    /\ caller'[c].turn \in FreshTurns
    /\ \/ c = Loop /\ caller'[c].pc \in {"abortTake", "maybeCheck"}
       \/ c \in Starters /\ caller'[c].pc = "tryReserve"
    /\ overwrote' = overwrote

OfferView(c) ==
    \/ UNCHANGED <<caller, task, active, overwrote>>
    \/ /\ \A d \in Callers : d # c => caller'[d] = caller[d]
       /\ \/ Begins(c)
          \/ /\ c \in Starters /\ caller[c].pc = "idle"
             /\ Takes(c) /\ caller'[c].turn \in FreshTurns

LEMMA BeginsView ==
    ASSUME TypeOK, NEW c \in Callers, NEW r, caller' = [caller EXCEPT ![c] = r],
           caller[c].pc = "idle", task' = task, active' = active, overwrote' = overwrote,
           r.turn \in FreshTurns,
           \/ c = Loop /\ r.pc \in {"abortTake", "maybeCheck"}
           \/ c \in Starters /\ r.pc = "tryReserve"
    PROVE  OfferView(c)
  <1>1. caller'[c] = r /\ \A d \in Callers : d # c => caller'[d] = caller[d]
    BY CallerReplaced DEF TypeOK
  <1>2. Begins(c)
    BY <1>1 DEF Begins
  <1> QED BY <1>1, <1>2 DEF OfferView

LEMMA SubmissionView ==
    ASSUME TypeOK, Submission
    PROVE  OfferView(Loop)
  <1>1. /\ caller[Loop].pc = "idle" /\ task' = task /\ active' = active
        /\ overwrote' = overwrote /\ Loop \in Callers
    BY DEF Submission, UserInputOrTurn, Compact, RunUserShellCommand, Interrupt,
       InterAgentCommunication, SubmissionOnly, Idle, Callers
  <1>2. CASE UserInputOrTurn
    <2>1. PICK i \in UserInputs, t \in FreshTurns :
            \/ caller' = caller
            \/ caller' = [caller EXCEPT ![Loop] =
                  [IdleCaller EXCEPT !.pc = "abortTake", !.turn = t, !.input = <<i>>]]
      BY <1>2 DEF UserInputOrTurn
    <2> DEFINE b == <<i>>
               r == [IdleCaller EXCEPT !.pc = "abortTake", !.turn = t, !.input = b]
    <2>2. r.pc = "abortTake" /\ r.turn = t
      <3> HIDE DEF b
      <3> QED BY IdleCallerType DEF Caller
    <2>3. caller' = caller \/ caller' = [caller EXCEPT ![Loop] = r]
      BY <2>1
    <2> HIDE DEF r
    <2>4. CASE caller' = caller
      BY <1>1, <2>4 DEF OfferView
    <2>5. CASE caller' = [caller EXCEPT ![Loop] = r]
      BY <1>1, <2>2, <2>5, BeginsView
    <2> QED BY <2>3, <2>4, <2>5
  <1>3. CASE Compact \/ RunUserShellCommand
    <2>1. PICK t \in FreshTurns, k \in {"Compact", "Shell"} : caller' = [caller EXCEPT ![Loop] =
            [IdleCaller EXCEPT !.pc = "abortTake", !.turn = t, !.kind = k]]
      BY <1>3 DEF Compact, RunUserShellCommand
    <2> DEFINE r == [IdleCaller EXCEPT !.pc = "abortTake", !.turn = t, !.kind = k]
    <2>2. r.pc = "abortTake" /\ r.turn = t
      BY IdleCallerType DEF Caller
    <2>3. caller' = [caller EXCEPT ![Loop] = r]
      BY <2>1
    <2> HIDE DEF r
    <2> QED BY <1>1, <2>2, <2>3, BeginsView
  <1>4. CASE Interrupt
    <2>1. PICK t \in FreshTurns : caller' = [caller EXCEPT ![Loop] =
            [IdleCaller EXCEPT !.pc = "abortTake", !.turn = t, !.reason = "Interrupted"]]
      BY <1>4 DEF Interrupt
    <2> DEFINE r == [IdleCaller EXCEPT !.pc = "abortTake", !.turn = t,
                                       !.reason = "Interrupted"]
    <2>2. r.pc = "abortTake" /\ r.turn = t
      BY IdleCallerType DEF Caller
    <2>3. caller' = [caller EXCEPT ![Loop] = r]
      BY <2>1
    <2> HIDE DEF r
    <2> QED BY <1>1, <2>2, <2>3, BeginsView
  <1>5. CASE InterAgentCommunication
    <2>1. PICK t \in FreshTurns :
            \/ caller' = caller
            \/ caller' = [caller EXCEPT ![Loop] =
                  [IdleCaller EXCEPT !.pc = "maybeCheck", !.turn = t]]
      BY <1>5 DEF InterAgentCommunication
    <2> DEFINE r == [IdleCaller EXCEPT !.pc = "maybeCheck", !.turn = t]
    <2>2. r.pc = "maybeCheck" /\ r.turn = t
      BY IdleCallerType DEF Caller
    <2>3. caller' = caller \/ caller' = [caller EXCEPT ![Loop] = r]
      BY <2>1
    <2> HIDE DEF r
    <2>4. CASE caller' = caller
      BY <1>1, <2>4 DEF OfferView
    <2>5. CASE caller' = [caller EXCEPT ![Loop] = r]
      BY <1>1, <2>2, <2>5, BeginsView
    <2> QED BY <2>3, <2>4, <2>5
  <1> QED BY <1>2, <1>3, <1>4, <1>5 DEF Submission

LEMMA OfferedView ==
    ASSUME TypeOK, NEW c \in Callers, Offered(c)
    PROVE  OfferView(c)
  <1>1. CASE SteerInput(c)
    BY <1>1 DEF SteerInput, OfferView
  <1>2. CASE InjectNoNewTurn(c)
    BY <1>2 DEF InjectNoNewTurn, OfferView
  <1>3. CASE AbortTurnIfActive(c)
    <2>1. /\ c \in Starters /\ caller[c].pc = "idle" /\ active.task # NoTask
          /\ overwrote' = overwrote
      BY <1>3 DEF AbortTurnIfActive, Idle
    <2>2. PICK t \in FreshTurns :
            /\ active' = NoTurn
            /\ task' = [task EXCEPT ![active.task].cancelled = TRUE]
            /\ caller' = [caller EXCEPT ![c] =
                 [IdleCaller EXCEPT !.pc = "abortWait", !.turn = t,
                                    !.ts = active.state, !.victim = active.task,
                                    !.reason = "Interrupted"]]
      BY <1>3 DEF AbortTurnIfActive
    <2> DEFINE r == [IdleCaller EXCEPT !.pc = "abortWait", !.turn = t,
                                       !.ts = active.state, !.victim = active.task,
                                       !.reason = "Interrupted"]
    <2>3. r.pc = "abortWait" /\ r.turn = t /\ r.victim = active.task
      BY IdleCallerType DEF Caller
    <2>4. caller' = [caller EXCEPT ![c] = r]
      BY <2>2
    <2> HIDE DEF r
    <2>5. caller'[c] = r /\ \A d \in Callers : d # c => caller'[d] = caller[d]
      BY <2>4, CallerReplaced DEF TypeOK
    <2>6. active'.task = NoTask
      BY <2>2, NoTurnType DEF TypeOK
    <2>7. Takes(c)
      BY <2>1, <2>2, <2>3, <2>5, <2>6, CancelView DEF Takes
    <2> QED BY <2>1, <2>3, <2>5, <2>7 DEF OfferView
  <1>4. CASE TryStartTurnIfIdle(c)
    <2>1. /\ c \in Starters /\ caller[c].pc = "idle"
          /\ task' = task /\ active' = active /\ overwrote' = overwrote
      BY <1>4 DEF TryStartTurnIfIdle, Idle, QueuesUnchanged
    <2>2. PICK i \in ResponseItems, t \in FreshTurns :
            \/ caller' = [caller EXCEPT ![c] =
                  [IdleCaller EXCEPT !.pc = "tryReserve", !.turn = t, !.input = <<i>>]]
            \/ caller' = caller
      BY <1>4 DEF TryStartTurnIfIdle
    <2> DEFINE b == <<i>>
               r == [IdleCaller EXCEPT !.pc = "tryReserve", !.turn = t, !.input = b]
    <2>3. r.pc = "tryReserve" /\ r.turn = t
      <3> HIDE DEF b
      <3> QED BY IdleCallerType DEF Caller
    <2>4. caller' = caller \/ caller' = [caller EXCEPT ![c] = r]
      BY <2>2
    <2> HIDE DEF r
    <2>5. CASE caller' = caller
      BY <2>1, <2>5 DEF OfferView
    <2>6. CASE caller' = [caller EXCEPT ![c] = r]
      BY <2>1, <2>3, <2>6, BeginsView
    <2> QED BY <2>4, <2>5, <2>6
  <1> QED BY <1>1, <1>2, <1>3, <1>4 DEF Offered

-----------------------------------------------------------------------------
(* The active task is live, whoever starts and aborts turns.               *)
(*                                                                         *)
(* Inductive strengthening: a call in progress owns a turn context that no *)
(* task runs yet and no other call owns, so that a start never overwrites  *)
(* the record of a task; and the task an aborting caller is about to kill  *)
(* was cancelled before, so that it is not the active one.                 *)

TurnsReserved ==
    /\ \A c \in Callers :
          IF caller[c].pc = "idle" THEN caller[c].turn = NoTask
          ELSE caller[c].turn \in Turns /\ task[caller[c].turn].pc = "unborn"
    /\ \A c, d \in Callers :
          caller[c].turn = caller[d].turn => c = d \/ caller[c].turn = NoTask

VictimsCancelled ==
    \A c \in Callers :
        caller[c].pc \in UsesVictim =>
            /\ task[caller[c].victim].cancelled
            /\ task[caller[c].victim].pc # "unborn"

LiveInv == TypeOK /\ ActiveTaskIsLive /\ TurnsReserved /\ VictimsCancelled

\* The victim of a caller about to kill it, or to report its end.
LEMMA VictimIsTurn ==
    ASSUME TypeOK, NEW c \in Callers, caller[c].pc \in UsesVictim
    PROVE  caller[c].victim \in Turns
  BY CallerHasType DEF TypeOK, GoodCaller

LEMMA TurnIsTurn ==
    ASSUME TurnsReserved, NEW c \in Callers, caller[c].pc # "idle"
    PROVE  caller[c].turn \in Turns /\ task[caller[c].turn].pc = "unborn"
  BY DEF TurnsReserved

LEMMA LiveTaskStep ==
    ASSUME LiveInv, TypeOK', NEW t \in Turns, TaskView(t)
    PROVE  LiveInv'
  <1>1. /\ task[t].pc # "unborn" /\ task'[t].pc # "unborn"
        /\ active'.task \in {active.task, NoTask}
    BY DEF TaskView, Working
  <1>2. active.task \in Turns \cup {NoTask}
    BY ActiveType DEF LiveInv, TypeOK
  <1>3. active'.task = t /\ t # NoTask => task'[t].pc \in Working
    BY <1>1 DEF LiveInv, ActiveTaskIsLive, Live, TaskView, Working
  <1>4. ActiveTaskIsLive'
    BY <1>1, <1>2, <1>3 DEF LiveInv, ActiveTaskIsLive, Live, TaskView
  <1>5. TurnsReserved'
    BY <1>1 DEF LiveInv, TurnsReserved, TaskView
  <1>6. VictimsCancelled'
    BY <1>1, VictimIsTurn DEF LiveInv, VictimsCancelled, TaskView
  <1> QED BY <1>4, <1>5, <1>6 DEF LiveInv

LEMMA LiveCallStep ==
    ASSUME LiveInv, TypeOK', NEW c \in Callers, CallView(c)
    PROVE  LiveInv'
  <1>0. active.task \in Turns \cup {NoTask} /\ NoTask \notin Turns
    BY ActiveType, ConstantsAssumption DEF LiveInv, TypeOK, ConstantsAssumption
  <1>1. CASE caller[c].pc = "abortTake" /\ Takes(c) /\ caller'[c].turn = caller[c].turn
    <2>1. ActiveTaskIsLive'
      BY <1>1 DEF ActiveTaskIsLive, Takes
    <2>2. active.task \in Turns /\ task[active.task].pc # "unborn"
      BY <1>0, <1>1 DEF Takes, LiveInv, ActiveTaskIsLive, Live, Working
    <2>3. \A u \in Turns : task'[u].pc = task[u].pc
      BY <1>1 DEF Takes, OthersSame
    <2>4. TurnsReserved'
      BY <1>1, <2>3 DEF Takes, LiveInv, TurnsReserved, CallView
    <2>5. VictimsCancelled'
      BY <1>1, <2>2, <2>3, VictimIsTurn DEF Takes, LiveInv, VictimsCancelled, CallView, OthersSame
    <2> QED BY <2>1, <2>4, <2>5 DEF LiveInv
  <1>2. CASE Kills(c)
    <2>1. caller[c].victim \in Turns /\ task[caller[c].victim].cancelled
      BY <1>2, VictimIsTurn DEF Kills, LiveInv, VictimsCancelled, UsesVictim
    <2>2. active.task # caller[c].victim
      BY <1>0, <2>1 DEF LiveInv, ActiveTaskIsLive, Live
    <2>3. ActiveTaskIsLive'
      BY <1>0, <1>2, <2>2 DEF LiveInv, ActiveTaskIsLive, Live, Kills, OthersSame
    <2>4. TurnsReserved'
      <3>1. task[caller[c].victim].pc # "unborn"
        BY <1>2 DEF Kills, LiveInv, VictimsCancelled, UsesVictim
      <3>2. \A u \in Turns : task[u].pc = "unborn" => task'[u].pc = "unborn"
        BY <1>2, <3>1 DEF Kills, OthersSame
      <3> QED BY <1>2, <3>2 DEF Kills, LiveInv, TurnsReserved, CallView
    <2>5. VictimsCancelled'
      <3>1. \A u \in Turns : /\ task[u].cancelled => task'[u].cancelled
                             /\ task[u].pc # "unborn" => task'[u].pc # "unborn"
        BY <1>2 DEF Kills, OthersSame
      <3> QED BY <1>2, <3>1, VictimIsTurn DEF Kills, LiveInv, VictimsCancelled, CallView, UsesVictim
    <2> QED BY <2>3, <2>4, <2>5 DEF LiveInv
  <1>3. CASE Emits(c)
    <2>1. \A u \in Turns : /\ task'[u].cancelled = task[u].cancelled
                           /\ task'[u].pc = task[u].pc
      BY <1>3 DEF Emits, OthersSame
    <2>2. ActiveTaskIsLive'
      BY <1>0, <1>3, <2>1 DEF LiveInv, ActiveTaskIsLive, Live, Emits
    <2>3. TurnsReserved'
      BY <1>3, <2>1 DEF Emits, LiveInv, TurnsReserved, CallView
    <2>4. VictimsCancelled'
      BY <1>3, <2>1, VictimIsTurn DEF Emits, LiveInv, VictimsCancelled, CallView, UsesVictim
    <2> QED BY <2>2, <2>3, <2>4 DEF LiveInv
  <1>4. CASE GoesOn(c)
    <2>1. ActiveTaskIsLive'
      BY <1>4 DEF LiveInv, ActiveTaskIsLive, Live, GoesOn
    <2>2. TurnsReserved'
      BY <1>4 DEF GoesOn, LiveInv, TurnsReserved, CallView
    <2>3. VictimsCancelled'
      BY <1>4 DEF GoesOn, LiveInv, VictimsCancelled, CallView
    <2> QED BY <2>1, <2>2, <2>3 DEF LiveInv
  <1>5. CASE Spawns(c)
    <2>1. caller[c].turn \in Turns /\ task[caller[c].turn].pc = "unborn"
      BY <1>5, TurnIsTurn DEF Spawns, LiveInv
    <2>2. active.task # caller[c].turn
      BY <1>0, <2>1 DEF LiveInv, ActiveTaskIsLive, Live, Working
    <2>3. ActiveTaskIsLive'
      BY <1>5, <2>1 DEF Spawns, ActiveTaskIsLive, Live
    <2>4. \A u \in Turns : u # caller[c].turn =>
             /\ task[u].cancelled => task'[u].cancelled
             /\ task[u].pc = "unborn" => task'[u].pc = "unborn"
             /\ task[u].pc # "unborn" => task'[u].pc # "unborn"
      <3>1. active.task # NoTask => task[active.task].pc # "unborn"
        BY DEF LiveInv, ActiveTaskIsLive, Live, Working
      <3> QED BY <1>0, <1>5, <2>2, <3>1 DEF Spawns
    <2>5. \A d \in Callers : d # c /\ caller[d].pc # "idle" => caller[d].turn # caller[c].turn
      BY <1>0, <2>1 DEF LiveInv, TurnsReserved
    <2>6. TurnsReserved'
      BY <1>5, <2>4, <2>5 DEF Spawns, LiveInv, TurnsReserved, CallView
    <2>7. VictimsCancelled'
      <3> SUFFICES ASSUME NEW d \in Callers, caller'[d].pc \in UsesVictim
                   PROVE  /\ task'[caller'[d].victim].cancelled
                          /\ task'[caller'[d].victim].pc # "unborn"
        BY DEF VictimsCancelled
      <3>1. d # c /\ caller'[d] = caller[d]
        BY <1>5 DEF Spawns, CallView, UsesVictim
      <3>2. /\ caller[d].victim \in Turns /\ task[caller[d].victim].cancelled
            /\ task[caller[d].victim].pc # "unborn"
        BY <3>1, VictimIsTurn DEF LiveInv, VictimsCancelled
      <3>3. caller[d].victim # caller[c].turn
        BY <2>1, <3>2
      <3> QED BY <2>4, <3>1, <3>2, <3>3
    <2> QED BY <2>3, <2>6, <2>7 DEF LiveInv
  <1> QED BY <1>1, <1>2, <1>3, <1>4, <1>5 DEF CallView

LEMMA LiveOfferStep ==
    ASSUME LiveInv, TypeOK', NEW c \in Callers, OfferView(c)
    PROVE  LiveInv'
  <1>0. active.task \in Turns \cup {NoTask} /\ NoTask \notin Turns
    BY ActiveType, ConstantsAssumption DEF LiveInv, TypeOK, ConstantsAssumption
  <1>1. CASE UNCHANGED <<caller, task, active, overwrote>>
    BY <1>1 DEF LiveInv, ActiveTaskIsLive, Live, TurnsReserved, VictimsCancelled
  <1>2. CASE Begins(c) /\ \A d \in Callers : d # c => caller'[d] = caller[d]
    <2>1. ActiveTaskIsLive'
      BY <1>2 DEF LiveInv, ActiveTaskIsLive, Live, Begins
    <2>2. TurnsReserved'
      BY <1>0, <1>2 DEF LiveInv, TurnsReserved, Begins, FreshTurns
    <2>3. VictimsCancelled'
      BY <1>2 DEF LiveInv, VictimsCancelled, Begins, UsesVictim
    <2> QED BY <2>1, <2>2, <2>3 DEF LiveInv
  <1>3. CASE /\ \A d \in Callers : d # c => caller'[d] = caller[d]
             /\ Takes(c) /\ caller'[c].turn \in FreshTurns
    <2>1. ActiveTaskIsLive'
      BY <1>3 DEF ActiveTaskIsLive, Takes
    <2>2. active.task \in Turns /\ task[active.task].pc # "unborn"
      BY <1>0, <1>3 DEF Takes, LiveInv, ActiveTaskIsLive, Live, Working
    <2>3. \A u \in Turns : task'[u].pc = task[u].pc
      BY <1>3 DEF Takes, OthersSame
    <2>4. TurnsReserved'
      BY <1>0, <1>3, <2>3 DEF Takes, LiveInv, TurnsReserved, FreshTurns
    <2>5. VictimsCancelled'
      BY <1>3, <2>2, <2>3, VictimIsTurn DEF Takes, LiveInv, VictimsCancelled, OthersSame
    <2> QED BY <2>1, <2>4, <2>5 DEF LiveInv
  <1> QED BY <1>1, <1>2, <1>3 DEF OfferView

LEMMA InitLive == Init => LiveInv
  <1> SUFFICES ASSUME Init PROVE LiveInv
    OBVIOUS
  <1>1. TypeOK
    BY InitTypeOK
  <1>2. ActiveTaskIsLive
    BY DEF Init, NoTurn, ActiveTaskIsLive
  <1>3. \A c \in Callers : caller[c].pc = "idle" /\ caller[c].turn = NoTask
    BY IdleCallerView DEF Init
  <1>4. TurnsReserved /\ VictimsCancelled
    BY <1>3 DEF TurnsReserved, VictimsCancelled, UsesVictim
  <1> QED BY <1>1, <1>2, <1>4 DEF LiveInv

LEMMA NextLive == LiveInv /\ [Next]_vars => LiveInv'
  <1> SUFFICES ASSUME LiveInv, [Next]_vars PROVE LiveInv'
    OBVIOUS
  <1>1. TypeOK /\ TypeOK'
    BY NextTypeOK DEF LiveInv
  <1>2. CASE Submission
    BY <1>1, <1>2, SubmissionView, LiveOfferStep DEF Callers
  <1>3. ASSUME NEW c \in Callers, CallStep(c) PROVE LiveInv'
    BY <1>1, <1>3, CallStepView, LiveCallStep
  <1>4. ASSUME NEW c \in Callers, Offered(c) PROVE LiveInv'
    BY <1>1, <1>4, OfferedView, LiveOfferStep
  <1>5. ASSUME NEW t \in Turns, TaskStep(t) PROVE LiveInv'
    BY <1>1, <1>5, TaskStepView, LiveTaskStep
  <1>6. CASE UNCHANGED vars
    BY <1>1, <1>6 DEF vars, LiveInv, ActiveTaskIsLive, Live, TurnsReserved, VictimsCancelled
  <1> QED BY <1>2, <1>3, <1>4, <1>5, <1>6 DEF Next

\* The task named by active_turn is still working on its turn and was neither
\* cancelled nor aborted, however the loop, background callers that start and
\* abort turns, and the tasks themselves interleave: an abort always takes the
\* task out of active_turn before it kills it.
THEOREM ActiveTaskLive == Spec => []ActiveTaskIsLive
  <1>1. LiveInv => ActiveTaskIsLive
    BY DEF LiveInv
  <1> QED BY <1>1, InitLive, NextLive, PTL DEF Spec

-----------------------------------------------------------------------------
(* Sessions in which only the submission loop starts and aborts turns.     *)
(*                                                                         *)
(* Inductive strengthening: from the moment the loop has taken the active  *)
(* turn until it has stored the next task there is no active task; a task  *)
(* that was cancelled but still works is the one the loop waits for; and a *)
(* turn has no terminal event before its task reaches finEvent or the loop *)
(* reaches abortEmit for it.                                               *)

Silent == {"unborn", "finInput", "finRecord", "finEvent"} \cup Working

SerialInv ==
    /\ Starters = {}
    /\ LiveInv /\ LiveTaskIsActive /\ StartFindsNoTask
    /\ \A c \in Background : caller[c].pc = "idle"
    /\ caller[Loop].pc \notin TryPcs
    /\ caller[Loop].pc \in OwnsTurn => active.task = NoTask
    /\ \A t \in Turns :
          /\ task[t].cancelled /\ task[t].pc \in Working =>
                caller[Loop].pc = "abortWait" /\ caller[Loop].victim = t
          /\ task[t].pc \in Finishing => ~task[t].cancelled
          /\ task[t].pc \in Silent => Len(task[t].ends) = 0
          /\ Len(task[t].ends) \in 0 .. 1
    /\ caller[Loop].pc \in UsesVictim => Len(task[caller[Loop].victim].ends) = 0
    /\ caller[Loop].pc = "abortEmit" => task[caller[Loop].victim].pc = "done"

LEMMA SerialTaskStep ==
    ASSUME SerialInv, LiveInv', NEW t \in Turns, TaskView(t)
    PROVE  SerialInv'
  <1>0. active.task \in Turns \cup {NoTask} /\ NoTask \notin Turns /\ t # NoTask
    BY ActiveType, ConstantsAssumption DEF SerialInv, LiveInv, TypeOK, ConstantsAssumption
  <1>1. caller' = caller /\ overwrote' = overwrote
    BY DEF TaskView
  <1>2. active.task # active'.task =>
           task[t].pc = "finTake" /\ task'[t].pc = "finInput" /\ active'.task = NoTask
    BY DEF TaskView
  \* A task that takes the active turn is the active task itself.
  <1>3. active.task # active'.task => active.task = t /\ ~task[t].cancelled
    <2> SUFFICES ASSUME active.task # active'.task
                 PROVE  active.task = t /\ ~task[t].cancelled
      OBVIOUS
    <2>1. task[t].pc \in Working
      BY <1>2 DEF Working
    <2>2. task[t].cancelled => caller[Loop].pc = "abortWait"
      BY <2>1 DEF SerialInv
    <2>3. caller[Loop].pc # "abortWait"
      BY <1>2 DEF SerialInv, OwnsTurn
    <2>4. ~task[t].cancelled
      BY <2>2, <2>3
    <2> QED BY <2>1, <2>4 DEF SerialInv, LiveTaskIsActive, Live
  <1>4. LiveTaskIsActive'
    <2> SUFFICES ASSUME NEW u \in Turns, task'[u].pc \in Working, ~task'[u].cancelled
                 PROVE  active'.task = u
      BY DEF LiveTaskIsActive, Live
    <2>1. task[u].pc \in Working /\ ~task[u].cancelled
      BY DEF TaskView, Working
    <2>2. active.task = u
      BY <2>1 DEF SerialInv, LiveTaskIsActive, Live
    <2>3. active.task = active'.task
      BY <1>2, <1>3, <2>2 DEF Working
    <2> QED BY <2>2, <2>3
  <1>5. StartFindsNoTask'
    BY <1>1 DEF SerialInv, StartFindsNoTask
  <1>6. caller'[Loop].pc \in OwnsTurn => active'.task = NoTask
    BY <1>1, <1>2 DEF SerialInv
  <1>7. ASSUME NEW u \in Turns
        PROVE  /\ task'[u].cancelled /\ task'[u].pc \in Working =>
                     caller[Loop].pc = "abortWait" /\ caller[Loop].victim = u
               /\ task'[u].pc \in Finishing => ~task'[u].cancelled
               /\ task'[u].pc \in Silent => Len(task'[u].ends) = 0
               /\ Len(task'[u].ends) \in 0 .. 1
    <2>1. /\ task[u].cancelled /\ task[u].pc \in Working =>
                caller[Loop].pc = "abortWait" /\ caller[Loop].victim = u
          /\ task[u].pc \in Finishing => ~task[u].cancelled
          /\ task[u].pc \in Silent => Len(task[u].ends) = 0
          /\ Len(task[u].ends) \in 0 .. 1
      BY DEF SerialInv
    <2>2. CASE u # t
      BY <2>1, <2>2 DEF TaskView
    <2>3. CASE u = t
      <3>1. /\ task'[t].cancelled /\ task'[t].pc \in Working =>
                  caller[Loop].pc = "abortWait" /\ caller[Loop].victim = t
            /\ task'[t].pc \in Finishing => ~task'[t].cancelled
        <4>1. task'[t].cancelled /\ task'[t].pc \in Working => task[t].pc \in Working
          BY DEF TaskView, Working
        <4>2. task'[t].cancelled = task[t].cancelled
          BY DEF TaskView
        <4>3. task'[t].pc \in Finishing =>
                task[t].pc \in Finishing \/ active.task # active'.task
          BY DEF TaskView, Working, Finishing
        <4> QED BY <1>3, <2>1, <2>3, <4>1, <4>2, <4>3
      <3>2. /\ task'[t].pc \in Silent => Len(task'[t].ends) = 0
            /\ Len(task'[t].ends) \in 0 .. 1
        <4>1. CASE task[t].pc = "finEvent"
          <5>1. Len(task[t].ends) = 0
            BY <2>1, <2>3, <4>1 DEF Silent
          <5>2. task'[t].pc = "finClear" /\ Len(task'[t].ends) = Len(task[t].ends) + 1
            BY <4>1 DEF TaskView, Working
          <5> QED BY <5>1, <5>2 DEF Silent, Working
        <4>2. CASE task[t].pc # "finEvent"
          <5>1. task'[t].ends = task[t].ends
            BY <4>2 DEF TaskView
          <5>2. task'[t].pc \in Silent => task[t].pc \in Silent
            BY <4>2 DEF TaskView, Silent, Working
          <5> QED BY <2>1, <2>3, <5>1, <5>2
        <4> QED BY <4>1, <4>2
      <3> QED BY <2>3, <3>1, <3>2
    <2> QED BY <2>2, <2>3
  <1>8. caller[Loop].pc \in UsesVictim => Len(task'[caller[Loop].victim].ends) = 0
    <2> SUFFICES ASSUME caller[Loop].pc \in UsesVictim
                 PROVE  Len(task'[caller[Loop].victim].ends) = 0
      OBVIOUS
    <2>1. caller[Loop].victim \in Turns
      BY VictimIsTurn DEF SerialInv, LiveInv, Callers
    <2>2. task[caller[Loop].victim].cancelled
      BY DEF SerialInv, LiveInv, VictimsCancelled, Callers
    <2>3. Len(task[caller[Loop].victim].ends) = 0
      BY DEF SerialInv
    <2>4. CASE caller[Loop].victim # t
      BY <2>1, <2>3, <2>4 DEF TaskView
    <2>5. CASE caller[Loop].victim = t
      <3>1. task[t].pc # "finEvent"
        BY <2>2, <2>5 DEF SerialInv, Finishing
      <3> QED BY <2>3, <2>5, <3>1 DEF TaskView
    <2> QED BY <2>4, <2>5
  <1>9. caller[Loop].pc = "abortEmit" => task'[caller[Loop].victim].pc = "done"
    <2> SUFFICES ASSUME caller[Loop].pc = "abortEmit"
                 PROVE  task'[caller[Loop].victim].pc = "done"
      OBVIOUS
    <2>1. caller[Loop].victim \in Turns
      BY VictimIsTurn DEF SerialInv, LiveInv, Callers, UsesVictim
    <2>2. task[caller[Loop].victim].pc = "done"
      BY DEF SerialInv
    <2>3. caller[Loop].victim # t
      BY <2>2 DEF TaskView, Working
    <2> QED BY <2>1, <2>2, <2>3 DEF TaskView
  <1> QED BY <1>1, <1>4, <1>5, <1>6, <1>7, <1>8, <1>9 DEF SerialInv

LEMMA LoopIsCaller == Loop \in Callers /\ Background \subseteq Callers /\ Loop \notin Background
  BY ConstantsAssumption DEF Callers, ConstantsAssumption

LEMMA SerialCallStep ==
    ASSUME SerialInv, LiveInv', NEW c \in Callers, CallView(c)
    PROVE  SerialInv'
  <1>0. active.task \in Turns \cup {NoTask} /\ NoTask \notin Turns
    BY ActiveType, ConstantsAssumption DEF SerialInv, LiveInv, TypeOK, ConstantsAssumption
  <1>1. caller[c].pc # "idle"
    BY DEF CallView, Kills, Emits, GoesOn, Spawns
  <1>2. c = Loop
    BY <1>1 DEF SerialInv, Callers
  <1>3. \A d \in Background : caller'[d].pc = "idle"
    BY <1>2, LoopIsCaller DEF SerialInv, CallView
  <1>4. LiveInv /\ LiveTaskIsActive /\ StartFindsNoTask /\ caller[Loop].pc \notin TryPcs
    BY DEF SerialInv
  <1>5. ASSUME NEW u \in Turns
        PROVE  /\ task[u].cancelled /\ task[u].pc \in Working =>
                     caller[Loop].pc = "abortWait" /\ caller[Loop].victim = u
               /\ task[u].pc \in Finishing => ~task[u].cancelled
               /\ task[u].pc \in Silent => Len(task[u].ends) = 0
               /\ Len(task[u].ends) \in 0 .. 1
    BY DEF SerialInv
  <1>6. CASE caller[Loop].pc = "abortTake" /\ Takes(Loop)
    <2> DEFINE v == active.task
    <2>1. /\ v \in Turns /\ v # NoTask /\ task[v].pc \in Working /\ ~task[v].cancelled
      BY <1>0, <1>4, <1>6 DEF Takes, LiveInv, ActiveTaskIsLive, Live
    <2>2. /\ active'.task = NoTask /\ overwrote' = overwrote
          /\ caller'[Loop].pc = "abortWait" /\ caller'[Loop].victim = v
          /\ task'[v].cancelled /\ task'[v].pc = task[v].pc /\ task'[v].ends = task[v].ends
          /\ \A u \in Turns : u # v => task'[u] = task[u]
      BY <1>6 DEF Takes, OthersSame
    <2>3. ASSUME NEW u \in Turns, u # v, task[u].pc \in Working PROVE FALSE
      <3>1. task[u].cancelled => caller[Loop].pc = "abortWait"
        BY <1>5, <2>3
      <3>2. ~task[u].cancelled
        BY <1>6, <3>1
      <3> QED BY <1>4, <2>3, <3>2 DEF LiveTaskIsActive, Live
    <2>4. LiveTaskIsActive'
      <3> SUFFICES ASSUME NEW u \in Turns, task'[u].pc \in Working, ~task'[u].cancelled
                   PROVE  FALSE
        BY DEF LiveTaskIsActive, Live
      <3> QED BY <2>2, <2>3
    <2>5. ASSUME NEW u \in Turns
          PROVE  /\ task'[u].cancelled /\ task'[u].pc \in Working =>
                       caller'[Loop].pc = "abortWait" /\ caller'[Loop].victim = u
                 /\ task'[u].pc \in Finishing => ~task'[u].cancelled
                 /\ task'[u].pc \in Silent => Len(task'[u].ends) = 0
                 /\ Len(task'[u].ends) \in 0 .. 1
      <3>1. task[v].pc \notin Finishing /\ task[v].pc \in Silent
        BY <2>1 DEF Working, Finishing, Silent
      <3> HIDE DEF v
      <3> QED BY <1>5, <2>1, <2>2, <2>3, <3>1
    <2>6. Len(task'[v].ends) = 0
      BY <1>5, <2>1, <2>2 DEF Silent
    <2>7. StartFindsNoTask'
      BY <1>4, <2>2 DEF StartFindsNoTask
    <2> HIDE DEF v
    <2> QED BY <1>3, <2>2, <2>4, <2>5, <2>6, <2>7 DEF SerialInv, TryPcs
  <1>7. CASE Kills(Loop)
    <2> DEFINE v == caller[Loop].victim
    <2>1. v \in Turns
      BY <1>4, <1>7, LoopIsCaller, VictimIsTurn DEF LiveInv, Kills, UsesVictim
    <2>2. /\ active' = active /\ overwrote' = overwrote /\ active.task = NoTask
          /\ caller'[Loop].pc = "abortEmit" /\ caller'[Loop].victim = v
          /\ task'[v].pc = "done" /\ task'[v].ends = task[v].ends
          /\ \A u \in Turns : u # v => task'[u] = task[u]
          /\ Len(task[v].ends) = 0
      BY <1>7 DEF Kills, OthersSame, SerialInv, OwnsTurn, UsesVictim
    <2>3. LiveTaskIsActive'
      BY <1>4, <2>2 DEF LiveTaskIsActive, Live, Working
    <2>4. ASSUME NEW u \in Turns
          PROVE  /\ task'[u].cancelled /\ task'[u].pc \in Working => FALSE
                 /\ task'[u].pc \in Finishing => ~task'[u].cancelled
                 /\ task'[u].pc \in Silent => Len(task'[u].ends) = 0
                 /\ Len(task'[u].ends) \in 0 .. 1
      <3>1. CASE u = v
        BY <2>2, <3>1 DEF Working, Finishing, Silent
      <3>2. CASE u # v
        BY <1>5, <2>2, <3>2
      <3> QED BY <3>1, <3>2
    <2>5. StartFindsNoTask'
      BY <1>4, <2>2 DEF StartFindsNoTask
    <2> HIDE DEF v
    <2> QED BY <1>3, <2>1, <2>2, <2>3, <2>4, <2>5 DEF SerialInv, TryPcs
  <1>8. CASE Emits(Loop)
    <2> DEFINE v == caller[Loop].victim
    <2>1. v \in Turns
      BY <1>4, <1>8, LoopIsCaller, VictimIsTurn DEF LiveInv, Emits, UsesVictim
    <2>2. /\ active' = active /\ overwrote' = overwrote /\ active.task = NoTask
          /\ caller'[Loop].pc = "abortClear" /\ caller[Loop].pc = "abortEmit"
          /\ task[v].pc = "done" /\ task'[v].pc = "done"
          /\ task'[v].cancelled = task[v].cancelled
          /\ Len(task[v].ends) = 0 /\ Len(task'[v].ends) = Len(task[v].ends) + 1
          /\ \A u \in Turns : u # v => task'[u] = task[u]
      BY <1>8 DEF Emits, OthersSame, SerialInv, OwnsTurn, UsesVictim
    <2>3. LiveTaskIsActive'
      BY <1>4, <2>2 DEF LiveTaskIsActive, Live, Working
    <2>4. ASSUME NEW u \in Turns
          PROVE  /\ task'[u].cancelled /\ task'[u].pc \in Working => FALSE
                 /\ task'[u].pc \in Finishing => ~task'[u].cancelled
                 /\ task'[u].pc \in Silent => Len(task'[u].ends) = 0
                 /\ Len(task'[u].ends) \in 0 .. 1
      <3>1. CASE u = v
        <4>1. Len(task'[v].ends) = 1
          BY <2>2
        <4> QED BY <2>2, <3>1, <4>1 DEF Working, Finishing, Silent
      <3>2. CASE u # v
        BY <1>5, <2>2, <3>2
      <3> QED BY <3>1, <3>2
    <2>5. StartFindsNoTask'
      BY <1>4, <2>2 DEF StartFindsNoTask
    <2> HIDE DEF v
    <2> QED BY <1>3, <2>2, <2>3, <2>4, <2>5 DEF SerialInv, TryPcs, UsesVictim
  <1>9. CASE GoesOn(Loop)
    <2>1. /\ task' = task /\ active'.task = active.task
          /\ caller[Loop].pc \notin UsesVictim
          /\ caller'[Loop].pc \notin UsesVictim /\ caller'[Loop].pc \notin TryPcs
      BY <1>4, <1>9 DEF GoesOn
    <2>2. caller'[Loop].pc \in OwnsTurn => active'.task = NoTask
      BY <1>4, <1>9, <2>1 DEF GoesOn, SerialInv
    <2>3. overwrote' = overwrote
      BY <1>9 DEF GoesOn, SerialInv
    <2>4. LiveTaskIsActive' /\ StartFindsNoTask'
      BY <1>4, <2>1, <2>3 DEF LiveTaskIsActive, Live, StartFindsNoTask
    <2>5. ASSUME NEW u \in Turns
          PROVE  /\ task'[u].cancelled /\ task'[u].pc \in Working => FALSE
                 /\ task'[u].pc \in Finishing => ~task'[u].cancelled
                 /\ task'[u].pc \in Silent => Len(task'[u].ends) = 0
                 /\ Len(task'[u].ends) \in 0 .. 1
      BY <1>5, <2>1 DEF UsesVictim
    <2> QED BY <1>3, <2>1, <2>2, <2>4, <2>5 DEF SerialInv, UsesVictim
  <1>10. CASE Spawns(Loop)
    <2> DEFINE n == caller[Loop].turn
    <2>1. n \in Turns /\ active.task = NoTask
      BY <1>4, <1>10, LoopIsCaller, TurnIsTurn DEF Spawns, LiveInv, SerialInv, OwnsTurn
    <2>2. /\ active'.task = n /\ overwrote' = overwrote /\ caller'[Loop].pc = "idle"
          /\ task'[n].pc \in Working /\ ~task'[n].cancelled /\ task'[n].ends = <<>>
          /\ \A u \in Turns : u # n => task'[u] = task[u]
          /\ caller[Loop].pc = "startSpawn"
      BY <1>0, <1>10, <2>1 DEF Spawns
    <2>3. LiveTaskIsActive'
      BY <1>4, <2>1, <2>2, <1>0 DEF LiveTaskIsActive, Live
    <2>4. Len(task'[n].ends) = 0
      BY <2>2
    <2>5. ASSUME NEW u \in Turns
          PROVE  /\ task'[u].cancelled /\ task'[u].pc \in Working => FALSE
                 /\ task'[u].pc \in Finishing => ~task'[u].cancelled
                 /\ task'[u].pc \in Silent => Len(task'[u].ends) = 0
                 /\ Len(task'[u].ends) \in 0 .. 1
      <3> HIDE DEF n
      <3>1. CASE u = n
        BY <2>2, <2>4, <3>1
      <3>2. CASE u # n
        BY <1>5, <2>2, <3>2
      <3> QED BY <3>1, <3>2
    <2>6. StartFindsNoTask'
      BY <1>4, <2>2 DEF StartFindsNoTask
    <2> HIDE DEF n
    <2> QED BY <1>3, <2>2, <2>3, <2>5, <2>6 DEF SerialInv, TryPcs, OwnsTurn, UsesVictim
  <1> QED BY <1>2, <1>6, <1>7, <1>8, <1>9, <1>10 DEF CallView

LEMMA SerialOfferStep ==
    ASSUME SerialInv, LiveInv', NEW c \in Callers, OfferView(c)
    PROVE  SerialInv'
  <1>1. CASE UNCHANGED <<caller, task, active, overwrote>>
    BY <1>1 DEF SerialInv, LiveTaskIsActive, Live, StartFindsNoTask
  <1>2. CASE Begins(c) /\ \A d \in Callers : d # c => caller'[d] = caller[d]
    <2>1. /\ c = Loop /\ caller[Loop].pc = "idle" /\ task' = task /\ active' = active
          /\ caller'[Loop].pc \in {"abortTake", "maybeCheck"} /\ overwrote' = overwrote
      BY <1>2 DEF Begins, SerialInv
    <2>2. \A d \in Background : caller'[d].pc = "idle"
      BY <1>2, <2>1, LoopIsCaller DEF SerialInv
    <2>3. LiveTaskIsActive' /\ StartFindsNoTask'
      BY <2>1 DEF SerialInv, LiveTaskIsActive, Live, StartFindsNoTask
    <2>4. /\ caller'[Loop].pc \notin TryPcs /\ caller'[Loop].pc \notin OwnsTurn
          /\ caller'[Loop].pc \notin UsesVictim
      BY <2>1 DEF TryPcs, OwnsTurn, UsesVictim
    <2>5. ASSUME NEW u \in Turns
          PROVE  /\ task'[u].cancelled /\ task'[u].pc \in Working => FALSE
                 /\ task'[u].pc \in Finishing => ~task'[u].cancelled
                 /\ task'[u].pc \in Silent => Len(task'[u].ends) = 0
                 /\ Len(task'[u].ends) \in 0 .. 1
      BY <2>1 DEF SerialInv
    <2> QED BY <2>2, <2>3, <2>4, <2>5 DEF SerialInv, UsesVictim
  <1>3. c \notin Starters
    BY DEF SerialInv
  <1> QED BY <1>1, <1>2, <1>3 DEF OfferView

LEMMA InitSerial == Init /\ Starters = {} => SerialInv
  <1> SUFFICES ASSUME Init, Starters = {} PROVE SerialInv
    OBVIOUS
  <1>1. LiveInv
    BY InitLive
  <1>2. active.task = NoTask /\ ~overwrote
    BY DEF Init, NoTurn
  <1>3. \A c \in Callers : caller[c].pc = "idle"
    BY IdleCallerView DEF Init
  <1>4. \A t \in Turns : task[t].pc = "unborn" /\ ~task[t].cancelled /\ task[t].ends = <<>>
    BY DEF Init, UnbornTask
  <1>5. \A t \in Turns : Len(task[t].ends) = 0
    BY <1>4
  <1>6. LiveTaskIsActive /\ StartFindsNoTask
    BY <1>2, <1>4 DEF LiveTaskIsActive, Live, Working, StartFindsNoTask
  <1>7. \A t \in Turns : task[t].pc \notin Working /\ task[t].pc \notin Finishing
    BY <1>4 DEF Working, Finishing
  <1>8. caller[Loop].pc = "idle" /\ \A c \in Background : caller[c].pc = "idle"
    BY <1>3, LoopIsCaller
  <1> QED BY <1>1, <1>5, <1>6, <1>7, <1>8 DEF SerialInv, TryPcs, OwnsTurn, UsesVictim

LEMMA NextSerial == SerialInv /\ [Next]_vars => SerialInv'
  <1> SUFFICES ASSUME SerialInv, [Next]_vars PROVE SerialInv'
    OBVIOUS
  <1>1. TypeOK /\ LiveInv'
    BY NextLive DEF SerialInv, LiveInv
  <1>2. CASE Submission
    BY <1>1, <1>2, SubmissionView, SerialOfferStep, LoopIsCaller
  <1>3. ASSUME NEW c \in Callers, CallStep(c) PROVE SerialInv'
    BY <1>1, <1>3, CallStepView, SerialCallStep
  <1>4. ASSUME NEW c \in Callers, Offered(c) PROVE SerialInv'
    BY <1>1, <1>4, OfferedView, SerialOfferStep
  <1>5. ASSUME NEW t \in Turns, TaskStep(t) PROVE SerialInv'
    BY <1>1, <1>5, TaskStepView, SerialTaskStep
  <1>6. CASE UNCHANGED vars
    BY <1>1, <1>6 DEF vars, SerialInv, LiveTaskIsActive, Live, StartFindsNoTask
  <1> QED BY <1>2, <1>3, <1>4, <1>5, <1>6 DEF Next

\* As long as only the submission loop starts and aborts turns, every task
\* that still works on a turn and was not cancelled is the active one: no
\* interrupt and no steered input can miss a running turn.
THEOREM LoopTaskActive == Spec /\ Starters = {} => []LiveTaskIsActive
  <1>1. SerialInv => LiveTaskIsActive
    BY DEF SerialInv
  <1> QED BY <1>1, InitSerial, NextSerial, PTL DEF Spec

\* In those sessions start_task never finds a task in the turn it is about to
\* fill: neither debug_assert!(turn.task.is_none()) can fail.
THEOREM LoopNeverOverwrites == Spec /\ Starters = {} => []StartFindsNoTask
  <1>1. SerialInv => StartFindsNoTask
    BY DEF SerialInv
  <1> QED BY <1>1, InitSerial, NextSerial, PTL DEF Spec

\* In those sessions a turn gets at most one TurnComplete or TurnAborted, in
\* every interleaving of on_task_finished with handle_task_abort, its timeout
\* and the kill of a task that ignores its token.
THEOREM LoopOneTerminal == Spec /\ Starters = {} => []OneTerminalEvent
  <1>1. SerialInv => OneTerminalEvent
    <2> SUFFICES ASSUME SerialInv, NEW t \in Turns PROVE Len(task[t].ends) <= 1
      BY DEF OneTerminalEvent
    <2> DEFINE k == Len(task[t].ends)
    <2>1. k \in 0 .. 1
      BY DEF SerialInv
    <2> HIDE DEF k
    <2>2. k <= 1
      BY <2>1
    <2> QED BY <2>2 DEF k
  <1> QED BY <1>1, InitSerial, NextSerial, PTL DEF Spec

-----------------------------------------------------------------------------
(* Where the inputs are. *)

-----------------------------------------------------------------------------
(* No input is held twice.  Every place an input can be in is a box that   *)
(* holds a sequence; the model moves inputs from one box to another, drops *)
(* them, or puts one that nobody has offered yet into a box.               *)

BMail    == [in |-> "mailbox", at |-> 0]
BHist    == [in |-> "history", at |-> 0]
BTurn(s) == [in |-> "turn", at |-> s]
BTask(t) == [in |-> "task", at |-> t]
BBuf(c)  == [in |-> "buf", at |-> c]
BIn(c)   == [in |-> "input", at |-> c]

Boxes == {BMail, BHist} \cup {BTurn(s) : s \in Nat} \cup {BTask(t) : t \in Turns}
            \cup {BBuf(c) : c \in Callers} \cup {BIn(c) : c \in Callers}

InputOf(q, s) == IF s \in DOMAIN q THEN q[s].input ELSE <<>>

Filled(m, h, q, k, c) ==
    [b \in Boxes |-> CASE b.in = "mailbox" -> m
                       [] b.in = "history" -> h
                       [] b.in = "turn"    -> InputOf(q, b.at)
                       [] b.in = "task"    -> k[b.at].buf
                       [] b.in = "buf"     -> c[b.at].buf
                       [] b.in = "input"   -> c[b.at].input]

Holdings == [Boxes -> Seq(Inputs)]

Contents == Filled(mailbox, history, tstate, task, caller)

\* No two places in the boxes f hold the same input, and none holds one of U.
Single(f, U) ==
    \A b, d \in DOMAIN f : \A j \in DOMAIN f[b], k \in DOMAIN f[d] :
        /\ f[b][j] \notin U
        /\ f[b][j] = f[d][k] => b = d /\ j = k

SingleInv == TypeOK /\ Single(Contents, unsent)

\* The places of a sequence after an append.
LEMMA AppendPlaces ==
    ASSUME NEW S, NEW q \in Seq(S), NEW e \in S
    PROVE  /\ Len(Append(q, e)) = Len(q) + 1
           /\ \A k \in DOMAIN Append(q, e) :
                 \/ k \in DOMAIN q /\ Append(q, e)[k] = q[k]
                 \/ k = Len(q) + 1 /\ Append(q, e)[k] = e
  <1>1. /\ Len(q) \in Nat /\ DOMAIN q = 1..Len(q) /\ DOMAIN Append(q, e) = 1..(Len(q) + 1)
        /\ Len(Append(q, e)) = Len(q) + 1 /\ Append(q, e)[Len(q) + 1] = e
        /\ \A k \in 1..Len(q) : Append(q, e)[k] = q[k]
    OBVIOUS
  <1>2. ASSUME NEW k \in DOMAIN Append(q, e)
        PROVE  \/ k \in DOMAIN q /\ Append(q, e)[k] = q[k]
               \/ k = Len(q) + 1 /\ Append(q, e)[k] = e
    <2>1. CASE k = Len(q) + 1
      BY <1>1, <2>1
    <2>2. CASE k # Len(q) + 1
      <3>1. k \in 1..Len(q)
        BY <1>1, <2>2
      <3> QED BY <1>1, <3>1
    <2> QED BY <2>1, <2>2
  <1> QED BY <1>1, <1>2

\* Boxes are kept or emptied.
LEMMA SingleDrop ==
    ASSUME NEW f, NEW g, NEW U, NEW V, DOMAIN g = DOMAIN f, V \subseteq U, Single(f, U),
           \A b \in DOMAIN f : g[b] \in {f[b], <<>>}
    PROVE  Single(g, V)
  BY DEF Single

\* A box is emptied into another one.
LEMMA SingleMove ==
    ASSUME NEW f \in Holdings, NEW g \in Holdings,
           NEW U, Single(f, U), NEW x \in Boxes, NEW y \in Boxes, x # y,
           g[x] = <<>>, g[y] \in {f[x], f[y] \o f[x]},
           \A b \in Boxes \ {x, y} : g[b] \in {f[b], <<>>}
    PROVE  Single(g, U)
  <1> DEFINE shift == IF g[y] = f[x] THEN 0 ELSE Len(f[y])
  <1>0. /\ DOMAIN f = Boxes /\ DOMAIN g = Boxes
        /\ \A b, d \in Boxes : \A j \in DOMAIN f[b], k \in DOMAIN f[d] :
             f[b][j] \notin U /\ (f[b][j] = f[d][k] => b = d /\ j = k)
    BY DEF Single, Holdings
  <1>1. \A b \in Boxes : f[b] \in Seq(Inputs) /\ Len(f[b]) \in Nat /\ DOMAIN f[b] = 1..Len(f[b])
    BY DEF Holdings
  <1>2. \A k \in DOMAIN g[y] :
          \/ k \in DOMAIN f[y] /\ g[y][k] = f[y][k] /\ k <= shift
          \/ k > shift /\ k - shift \in DOMAIN f[x] /\ g[y][k] = f[x][k - shift]
    <2>1. CASE g[y] = f[x]
      BY <1>1, <2>1
    <2>2. CASE g[y] # f[x]
      <3> DEFINE p == f[y]
                 q == f[x]
      <3>1. g[y] = p \o q /\ p \in Seq(Inputs) /\ q \in Seq(Inputs) /\ shift = Len(p)
        BY <1>1, <2>2
      <3> HIDE DEF p, q, shift
      <3>2. /\ Len(p) \in Nat /\ Len(q) \in Nat /\ DOMAIN p = 1..Len(p) /\ DOMAIN q = 1..Len(q)
            /\ DOMAIN (p \o q) = 1..(Len(p) + Len(q))
            /\ \A k \in 1..(Len(p) + Len(q)) :
                 (p \o q)[k] = IF k <= Len(p) THEN p[k] ELSE q[k - Len(p)]
        BY <3>1
      <3>3. \A k \in DOMAIN g[y] :
              \/ k \in DOMAIN p /\ g[y][k] = p[k] /\ k <= shift
              \/ k > shift /\ k - shift \in DOMAIN q /\ g[y][k] = q[k - shift]
        <4> SUFFICES ASSUME NEW k \in DOMAIN g[y]
                     PROVE  \/ k \in DOMAIN p /\ g[y][k] = p[k] /\ k <= shift
                            \/ k > shift /\ k - shift \in DOMAIN q /\ g[y][k] = q[k - shift]
          OBVIOUS
        <4>1. /\ k \in 1..(Len(p) + Len(q))
              /\ g[y][k] = IF k <= Len(p) THEN p[k] ELSE q[k - Len(p)]
          BY <3>1, <3>2
        <4>2. CASE k <= Len(p)
          BY <3>1, <3>2, <4>1, <4>2
        <4>3. CASE ~(k <= Len(p))
          BY <3>1, <3>2, <4>1, <4>3
        <4> QED BY <4>2, <4>3
      <3> QED BY <3>3 DEF p, q
    <2> QED BY <2>1, <2>2
  <1>3. shift \in Nat
    BY <1>1
  <1> HIDE DEF shift
  \* The k-th input of box b was there before, or is a moved one.
  <1> DEFINE Stayed(b, k) == k \in DOMAIN f[b] /\ g[b][k] = f[b][k] /\ (b = y => k <= shift)
             Moved(b, k) == b = y /\ k > shift /\ k - shift \in DOMAIN f[x]
                            /\ g[b][k] = f[x][k - shift]
  <1>4. ASSUME NEW b \in Boxes, NEW k \in DOMAIN g[b]
        PROVE  (Stayed(b, k) \/ Moved(b, k)) /\ b # x /\ k \in Nat
    <2>0. g[b] \in Seq(Inputs)
      BY DEF Holdings
    <2>1. b # x /\ k \in Nat
      BY <2>0
    <2>2. CASE b = y
      BY <1>2, <2>2, <2>1
    <2>3. CASE b # y
      BY <2>1, <2>3
    <2> QED BY <2>1, <2>2, <2>3
  <1>5. ASSUME NEW b \in Boxes, NEW d \in Boxes, NEW j \in DOMAIN g[b], NEW k \in DOMAIN g[d]
        PROVE  g[b][j] \notin U /\ (g[b][j] = g[d][k] => b = d /\ j = k)
    <2>1. /\ Stayed(b, j) \/ Moved(b, j)
          /\ Stayed(d, k) \/ Moved(d, k)
          /\ b # x /\ d # x /\ j \in Nat /\ k \in Nat
      BY <1>4
    <2>2. g[b][j] \notin U
      BY <1>0, <2>1
    <2>3. CASE Stayed(b, j) /\ Stayed(d, k)
      BY <1>0, <2>2, <2>3
    <2>4. CASE Stayed(b, j) /\ Moved(d, k)
      BY <1>0, <2>1, <2>2, <2>4
    <2>5. CASE Moved(b, j) /\ Stayed(d, k)
      BY <1>0, <2>1, <2>2, <2>5
    <2>6. CASE Moved(b, j) /\ Moved(d, k)
      <3>1. g[b][j] = g[d][k] => j - shift = k - shift
        <4> DEFINE jj == j - shift
                   kk == k - shift
        <4>1. jj \in DOMAIN f[x] /\ kk \in DOMAIN f[x] /\ g[b][j] = f[x][jj] /\ g[d][k] = f[x][kk]
          BY <2>6
        <4> HIDE DEF jj, kk
        <4>2. \A m, n \in DOMAIN f[x] : f[x][m] = f[x][n] => m = n
          BY <1>0
        <4>3. g[b][j] = g[d][k] => jj = kk
          BY <4>1, <4>2
        <4> QED BY <4>3 DEF jj, kk
      <3> QED BY <1>3, <2>1, <2>2, <2>6, <3>1
    <2> QED BY <2>1, <2>3, <2>4, <2>5, <2>6
  <1> QED BY <1>0, <1>5 DEF Single

\* One input that nobody has offered yet goes into a box.
LEMMA SingleOffer ==
    ASSUME NEW f \in Holdings, NEW g \in Holdings,
           NEW U, Single(f, U), NEW y \in Boxes, NEW i \in U, i \in Inputs,
           g[y] \in {<<i>>, Append(f[y], i)},
           \A b \in Boxes \ {y} : g[b] \in {f[b], <<>>}
    PROVE  Single(g, U \ {i})
  <1>0. /\ DOMAIN f = Boxes /\ DOMAIN g = Boxes
        /\ \A b, d \in Boxes : \A j \in DOMAIN f[b], k \in DOMAIN f[d] :
             f[b][j] \notin U /\ (f[b][j] = f[d][k] => b = d /\ j = k)
    BY DEF Single, Holdings
  <1>1. \A b \in Boxes : f[b] \in Seq(Inputs) /\ Len(f[b]) \in Nat /\ DOMAIN f[b] = 1..Len(f[b])
    BY DEF Holdings
  <1>2. \A b \in Boxes : \A k \in DOMAIN g[b] :
          \/ k \in DOMAIN f[b] /\ g[b][k] = f[b][k]
          \/ b = y /\ k = Len(g[y]) /\ g[b][k] = i
    <2>1. CASE g[y] = <<i>>
      BY <1>1, <2>1
    <2>2. CASE g[y] = Append(f[y], i)
      <3>1. \A k \in DOMAIN g[y] : \/ k \in DOMAIN f[y] /\ g[y][k] = f[y][k]
                                   \/ k = Len(g[y]) /\ g[y][k] = i
        BY <1>1, <2>2, AppendPlaces
      <3> QED BY <3>1
    <2> QED BY <2>1, <2>2
  <1> QED BY <1>0, <1>2 DEF Single

\* The first input of a box is taken out, and dropped or put into another box.
LEMMA SingleTake ==
    ASSUME NEW f \in Holdings, NEW g \in Holdings,
           NEW U, Single(f, U), NEW x \in Boxes, NEW y \in Boxes, x # y, f[x] # <<>>,
           g[x] = Tail(f[x]), g[y] \in {f[y], Append(f[y], Head(f[x]))},
           \A b \in Boxes \ {x, y} : g[b] = f[b]
    PROVE  Single(g, U)
  <1>0. /\ DOMAIN f = Boxes /\ DOMAIN g = Boxes
        /\ \A b, d \in Boxes : \A j \in DOMAIN f[b], k \in DOMAIN f[d] :
             f[b][j] \notin U /\ (f[b][j] = f[d][k] => b = d /\ j = k)
    BY DEF Single, Holdings
  <1>1. \A b \in Boxes : f[b] \in Seq(Inputs) /\ Len(f[b]) \in Nat /\ DOMAIN f[b] = 1..Len(f[b])
    BY DEF Holdings
  <1>2. \A k \in DOMAIN g[x] : k \in Nat /\ k + 1 \in DOMAIN f[x] /\ g[x][k] = f[x][k + 1]
    BY <1>1
  <1>3. 1 \in DOMAIN f[x] /\ Head(f[x]) = f[x][1]
    BY <1>1
  <1>4. \A k \in DOMAIN g[y] : \/ k \in DOMAIN f[y] /\ g[y][k] = f[y][k]
                               \/ k = Len(f[y]) + 1 /\ g[y][k] = f[x][1]
    <2>1. CASE g[y] = f[y]
      BY <2>1
    <2>2. CASE g[y] = Append(f[y], Head(f[x]))
      <3>1. Head(f[x]) \in Inputs
        BY <1>1, <1>3
      <3> QED BY <1>1, <1>3, <2>2, <3>1, AppendPlaces
    <2> QED BY <2>1, <2>2
  <1>5. Len(f[y]) + 1 \notin DOMAIN f[y]
    BY <1>1
  \* The k-th input of box b was there before, or is the one taken out.
  <1> DEFINE Stayed(b, k) == b # x /\ k \in DOMAIN f[b] /\ g[b][k] = f[b][k]
             Moved(b, k) == b = y /\ k = Len(f[y]) + 1 /\ g[b][k] = f[x][1]
             Left(b, k) == b = x /\ k + 1 \in DOMAIN f[x] /\ g[b][k] = f[x][k + 1]
  <1>6. ASSUME NEW b \in Boxes, NEW k \in DOMAIN g[b]
        PROVE  (Stayed(b, k) \/ Moved(b, k) \/ Left(b, k)) /\ k \in Nat /\ k + 1 # 1
    <2>0. g[b] \in Seq(Inputs)
      BY DEF Holdings
    <2>1. k \in Nat /\ k + 1 # 1
      BY <2>0
    <2>2. CASE b = x
      BY <1>2, <2>1, <2>2
    <2>3. CASE b = y
      BY <1>4, <2>1, <2>3
    <2>4. CASE b # x /\ b # y
      BY <2>1, <2>4
    <2> QED BY <2>2, <2>3, <2>4
  <1>7. ASSUME NEW b \in Boxes, NEW d \in Boxes, NEW j \in DOMAIN g[b], NEW k \in DOMAIN g[d]
        PROVE  g[b][j] \notin U /\ (g[b][j] = g[d][k] => b = d /\ j = k)
    <2>1. /\ Stayed(b, j) \/ Moved(b, j) \/ Left(b, j)
          /\ Stayed(d, k) \/ Moved(d, k) \/ Left(d, k)
          /\ j \in Nat /\ k \in Nat /\ j + 1 # 1 /\ k + 1 # 1
      BY <1>6
    <2>2. g[b][j] \notin U
      BY <1>0, <1>3, <2>1
    <2>3. CASE Stayed(b, j) /\ Stayed(d, k)
      BY <1>0, <2>2, <2>3
    <2>4. CASE Stayed(b, j) /\ ~Stayed(d, k)
      BY <1>0, <1>3, <2>1, <2>2, <2>4
    <2>5. CASE ~Stayed(b, j) /\ Stayed(d, k)
      BY <1>0, <1>3, <2>1, <2>2, <2>5
    <2>6. CASE Moved(b, j) /\ Moved(d, k)
      BY <2>2, <2>6
    <2>7. CASE Left(b, j) /\ Left(d, k)
      <3>1. g[b][j] = g[d][k] => j + 1 = k + 1
        BY <1>0, <2>7
      <3> QED BY <2>1, <2>2, <2>7, <3>1
    <2>8. CASE Left(b, j) /\ Moved(d, k)
      BY <1>0, <1>3, <2>1, <2>2, <2>8
    <2>9. CASE Moved(b, j) /\ Left(d, k)
      BY <1>0, <1>3, <2>1, <2>2, <2>9
    <2> QED BY <2>1, <2>3, <2>4, <2>5, <2>6, <2>7, <2>8, <2>9
  <1> QED BY <1>0, <1>7 DEF Single
-----------------------------------------------------------------------------
(* The boxes of a state. *)

LEMMA FilledIs ==
    ASSUME NEW m, NEW h, NEW q, NEW k, NEW c
    PROVE  /\ DOMAIN Filled(m, h, q, k, c) = Boxes
           /\ Filled(m, h, q, k, c)[BMail] = m
           /\ Filled(m, h, q, k, c)[BHist] = h
           /\ \A s \in Nat : Filled(m, h, q, k, c)[BTurn(s)] = InputOf(q, s)
           /\ \A t \in Turns : Filled(m, h, q, k, c)[BTask(t)] = k[t].buf
           /\ \A d \in Callers : Filled(m, h, q, k, c)[BBuf(d)] = c[d].buf
           /\ \A d \in Callers : Filled(m, h, q, k, c)[BIn(d)] = c[d].input
  <1>1. /\ BMail \in Boxes /\ BHist \in Boxes /\ \A s \in Nat : BTurn(s) \in Boxes
        /\ \A t \in Turns : BTask(t) \in Boxes
        /\ \A d \in Callers : BBuf(d) \in Boxes /\ BIn(d) \in Boxes
    BY DEF Boxes
  <1>2. /\ BMail.in = "mailbox" /\ BHist.in = "history"
        /\ \A s : BTurn(s).in = "turn" /\ BTurn(s).at = s
        /\ \A t : BTask(t).in = "task" /\ BTask(t).at = t
        /\ \A d : BBuf(d).in = "buf" /\ BBuf(d).at = d
        /\ \A d : BIn(d).in = "input" /\ BIn(d).at = d
    BY DEF BMail, BHist, BTurn, BTask, BBuf, BIn
  <1> QED BY <1>1, <1>2 DEF Filled

\* The boxes are as many as their names.
LEMMA BoxesDiffer ==
    /\ BMail # BHist
    /\ \A s : BTurn(s) # BMail /\ BTurn(s) # BHist
    /\ \A t : BTask(t) # BMail /\ BTask(t) # BHist
    /\ \A c : BBuf(c) # BMail /\ BBuf(c) # BHist
    /\ \A c : BIn(c) # BMail /\ BIn(c) # BHist
    /\ \A s, t : BTurn(s) # BTask(t) /\ BTurn(s) # BBuf(t) /\ BTurn(s) # BIn(t)
    /\ \A s, t : BTask(s) # BBuf(t) /\ BTask(s) # BIn(t) /\ BBuf(s) # BIn(t)
    /\ \A s, t : (BTurn(s) = BTurn(t) => s = t) /\ (BTask(s) = BTask(t) => s = t)
    /\ \A s, t : (BBuf(s) = BBuf(t) => s = t) /\ (BIn(s) = BIn(t) => s = t)
  BY DEF BMail, BHist, BTurn, BTask, BBuf, BIn

LEMMA BoxCases ==
    ASSUME NEW b \in Boxes
    PROVE  \/ b = BMail \/ b = BHist
           \/ \E s \in Nat : b = BTurn(s)
           \/ \E t \in Turns : b = BTask(t)
           \/ \E c \in Callers : b = BBuf(c) \/ b = BIn(c)
  BY DEF Boxes

\* What the boxes hold are inputs.
LEMMA ContentsType ==
    ASSUME NEW m \in Seq(Inputs), NEW h \in Seq(Inputs), NEW q \in Seq(TurnState),
           NEW k \in [Turns -> Task], NEW c \in [Callers -> Caller]
    PROVE  Filled(m, h, q, k, c) \in [Boxes -> Seq(Inputs)]
  <1> DEFINE f == Filled(m, h, q, k, c)
  <1>1. ASSUME NEW b \in Boxes PROVE f[b] \in Seq(Inputs)
    <2>1. \A s \in Nat : InputOf(q, s) \in Seq(Inputs)
      <3>1. \A s \in DOMAIN q : q[s] \in TurnState
        OBVIOUS
      <3>2. <<>> \in Seq(Inputs)
        OBVIOUS
      <3> QED BY <3>1, <3>2 DEF InputOf, TurnState
    <2>2. \A t \in Turns : k[t].buf \in Seq(Inputs)
      BY DEF Task
    <2>3. \A d \in Callers : c[d].buf \in Seq(Inputs) /\ c[d].input \in Seq(Inputs)
      BY DEF Caller
    <2>4. /\ f[BMail] = m /\ f[BHist] = h
          /\ \A s \in Nat : f[BTurn(s)] = InputOf(q, s)
          /\ \A t \in Turns : f[BTask(t)] = k[t].buf
          /\ \A d \in Callers : f[BBuf(d)] = c[d].buf /\ f[BIn(d)] = c[d].input
      BY FilledIs
    <2> HIDE DEF f
    <2> QED BY <2>1, <2>2, <2>3, <2>4, BoxCases
  <1>2. f = [b \in Boxes |-> f[b]]
    <2> DEFINE Held(b) == CASE b.in = "mailbox" -> m
                            [] b.in = "history" -> h
                            [] b.in = "turn"    -> InputOf(q, b.at)
                            [] b.in = "task"    -> k[b.at].buf
                            [] b.in = "buf"     -> c[b.at].buf
                            [] b.in = "input"   -> c[b.at].input
    <2>1. f = [b \in Boxes |-> Held(b)]
      BY DEF Filled
    <2> HIDE DEF f, Held
    <2> QED BY <2>1
  <1> HIDE DEF f
  <1>3. f \in [Boxes -> Seq(Inputs)]
    BY <1>1, <1>2
  <1> QED BY <1>3 DEF f

LEMMA TypesOfContents == TypeOK => Contents \in Holdings
  <1> SUFFICES ASSUME TypeOK PROVE Contents \in Holdings
    OBVIOUS
  <1>1. mailbox \in Seq(Inputs)
    <2>1. Mails \subseteq Inputs /\ mailbox \in Seq(Mails)
      BY DEF Inputs, TypeOK, QueueTypes
    <2> QED BY <2>1
  <1> QED
    BY <1>1, ContentsType
       DEF Holdings, Contents, TypeOK, QueueTypes, TaskTypes, CallerTypes, LedgerTypes

LEMMA TypesOfContentsNext == TypeOK' => Contents' \in Holdings
  <1> SUFFICES ASSUME TypeOK' PROVE Contents' \in Holdings
    OBVIOUS
  <1>1. mailbox' \in Seq(Inputs)
    <2>1. Mails \subseteq Inputs /\ mailbox' \in Seq(Mails)
      BY DEF Inputs, TypeOK, QueueTypes
    <2> QED BY <2>1
  <1> QED
    BY <1>1, ContentsType
       DEF Holdings, Contents, TypeOK, QueueTypes, TaskTypes, CallerTypes, LedgerTypes

\* Every box outside X is kept or emptied.
Leaves(X) == \A b \in Boxes \ X : Contents'[b] \in {Contents[b], <<>>}

TasksKeep(X) == \A t \in Turns : BTask(t) \in X \/ task'[t].buf \in {task[t].buf, <<>>}

CallersKeep(X) ==
    \A c \in Callers : /\ BBuf(c) \in X \/ caller'[c].buf \in {caller[c].buf, <<>>}
                       /\ BIn(c) \in X \/ caller'[c].input \in {caller[c].input, <<>>}

TurnsKeep(X) ==
    \A s \in Nat : BTurn(s) \in X \/ InputOf(tstate', s) \in {InputOf(tstate, s), <<>>}

LEMMA LeavesOthers ==
    ASSUME NEW X, BMail \in X \/ mailbox' \in {mailbox, <<>>},
           BHist \in X \/ history' = history, TurnsKeep(X), TasksKeep(X), CallersKeep(X)
    PROVE  Leaves(X)
  <1> SUFFICES ASSUME NEW b \in Boxes, b \notin X
               PROVE  Contents'[b] \in {Contents[b], <<>>}
    BY DEF Leaves
  <1>1. CASE b = BMail
    BY <1>1, FilledIs DEF Contents
  <1>2. CASE b = BHist
    BY <1>2, FilledIs DEF Contents
  <1>3. ASSUME NEW s \in Nat, b = BTurn(s) PROVE Contents'[b] \in {Contents[b], <<>>}
    BY <1>3, FilledIs DEF Contents, TurnsKeep
  <1>4. ASSUME NEW t \in Turns, b = BTask(t) PROVE Contents'[b] \in {Contents[b], <<>>}
    BY <1>4, FilledIs DEF Contents, TasksKeep
  <1>5. ASSUME NEW c \in Callers, b = BBuf(c) \/ b = BIn(c)
        PROVE  Contents'[b] \in {Contents[b], <<>>}
    BY <1>5, FilledIs DEF Contents, CallersKeep
  <1> QED BY <1>1, <1>2, <1>3, <1>4, <1>5, BoxCases

\* Nothing is put into a box.
LEMMA SingleQuiet ==
    ASSUME SingleInv, TypeOK', Leaves({}), unsent' \subseteq unsent
    PROVE  SingleInv'
  <1>1. DOMAIN Contents = Boxes /\ DOMAIN Contents' = Boxes
    BY FilledIs DEF Contents
  <1> QED BY <1>1, SingleDrop DEF SingleInv, Leaves

-----------------------------------------------------------------------------
(* What the steps leave in the boxes. *)

LEMMA KeepsMore ==
    ASSUME NEW X
    PROVE  /\ TurnsKeep({}) => TurnsKeep(X)
           /\ TasksKeep({}) => TasksKeep(X)
           /\ CallersKeep({}) => CallersKeep(X)
  BY DEF TurnsKeep, TasksKeep, CallersKeep

LEMMA TurnsSame ==
    ASSUME UNCHANGED tstate
    PROVE  TurnsKeep({})
  BY DEF TurnsKeep

\* A new TurnState is empty.
LEMMA TurnsNew ==
    ASSUME TypeOK, tstate' = Append(tstate, DefaultTurnState)
    PROVE  TurnsKeep({})
  <1>1. tstate \in Seq(TurnState) /\ DefaultTurnState \in TurnState /\ DefaultTurnState.input = <<>>
    <2>1. <<>> \in Seq(Inputs)
      OBVIOUS
    <2> QED BY <2>1 DEF TypeOK, QueueTypes, DefaultTurnState, TurnState
  <1>2. ASSUME NEW s \in DOMAIN tstate' PROVE tstate'[s].input \in {InputOf(tstate, s), <<>>}
    BY <1>1, <1>2, AppendPlaces DEF InputOf
  <1> QED BY <1>2 DEF TurnsKeep, InputOf

\* Emptying a TurnState, and replacing its input.
LEMMA TurnsReplace ==
    ASSUME TypeOK, NEW k \in DOMAIN tstate, NEW q,
           tstate' = [tstate EXCEPT ![k].input = q]
    PROVE  /\ InputOf(tstate', k) = q /\ InputOf(tstate, k) = tstate[k].input
           /\ TurnsKeep({BTurn(k)})
  <1>1. /\ DOMAIN tstate' = DOMAIN tstate /\ tstate'[k].input = q
        /\ \A s \in DOMAIN tstate : s # k => tstate'[s] = tstate[s]
    <2>1. tstate[k] \in TurnState
      BY DEF TypeOK, QueueTypes
    <2> QED BY <2>1 DEF TurnState
  <1> QED BY <1>1 DEF InputOf, TurnsKeep

LEMMA TurnsClear ==
    ASSUME TypeOK, NEW k \in DOMAIN tstate,
           tstate' = [tstate EXCEPT ![k].input = <<>>]
    PROVE  TurnsKeep({})
  <1>1. /\ DOMAIN tstate' = DOMAIN tstate /\ tstate'[k].input = <<>>
        /\ \A s \in DOMAIN tstate : s # k => tstate'[s] = tstate[s]
    <2>1. tstate[k] \in TurnState
      BY DEF TypeOK, QueueTypes
    <2> QED BY <2>1 DEF TurnState
  <1> QED BY <1>1 DEF InputOf, TurnsKeep

LEMMA TurnsPhase ==
    ASSUME TypeOK, NEW k, NEW ph, tstate' = [tstate EXCEPT ![k].phase = ph]
    PROVE  TurnsKeep({})
  <1>1. \A s \in DOMAIN tstate : tstate[s] \in TurnState
    BY DEF TypeOK, QueueTypes
  <1>2. DOMAIN tstate' = DOMAIN tstate /\ \A s \in DOMAIN tstate : tstate'[s].input = tstate[s].input
    BY <1>1 DEF TurnState
  <1> QED BY <1>2 DEF InputOf, TurnsKeep

\* The state of the active turn is allocated.
LEMMA ActiveState ==
    ASSUME TypeOK, active.state # 0
    PROVE  active.state \in DOMAIN tstate /\ active.state \in Nat
  BY ActiveType, LenNat DEF TypeOK

LEMMA PendingTaken ==
    ASSUME TypeOK, tstate' = TurnPendingTaken
    PROVE  TurnsKeep({})
  <1>1. CASE active.state = 0
    BY <1>1, TurnsSame DEF TurnPendingTaken
  <1>2. CASE active.state # 0
    BY <1>2, ActiveState, TurnsClear DEF TurnPendingTaken
  <1> QED BY <1>1, <1>2

\* Tasks and callers that end hold nothing.
LEMMA EmptyRecords ==
    /\ \A t : EndedTask(t).buf = <<>>
    /\ IdleCaller.buf = <<>> /\ IdleCaller.input = <<>>
  BY DEF EndedTask, UnbornTask, IdleCaller

\* The task of t changes, and its buffer is kept or emptied.
LEMMA TaskQuiet ==
    ASSUME TypeOK, NEW t \in Turns, NEW r, task' = [task EXCEPT ![t] = r],
           r.buf \in {task[t].buf, <<>>}
    PROVE  TasksKeep({})
  BY TaskReplaced DEF TypeOK, TasksKeep

\* The same for the call of c.
LEMMA CallQuiet ==
    ASSUME TypeOK, NEW c \in Callers, NEW r, caller' = [caller EXCEPT ![c] = r],
           r.buf \in {caller[c].buf, <<>>}, r.input \in {caller[c].input, <<>>}
    PROVE  CallersKeep({})
  BY DEF TypeOK, CallerTypes, CallersKeep

LEMMA TasksSame == UNCHANGED task => TasksKeep({})
  BY DEF TasksKeep

LEMMA CallersSame == UNCHANGED caller => CallersKeep({})
  BY DEF CallersKeep

\* Steps of a task that put nothing into its buffer.
LEMMA TaskStepQuiet ==
    ASSUME SingleInv, TypeOK', NEW t \in Turns,
           \/ BeginTurn(t) \/ GiveUp(t)
           \/ RecordDone(t) \/ DeferMailboxDelivery(t) \/ AcceptMailboxDelivery(t)
           \/ SampleFollowUp(t) \/ SampleCompact(t) \/ SampleStop(t) \/ SampleError(t)
           \/ ExitCheck(t) \/ CheckCancelled(t)
           \/ FinishTake(t) \/ FinishEvent(t) \/ FinishClear(t)
           \/ (Drain(t) /\ ~task[t].canDrain)
    PROVE  SingleInv'
  <1>1. TypeOK
    BY DEF SingleInv
  <1>2. UNCHANGED <<mailbox, history, caller, unsent>>
    BY DEF BeginTurn, GiveUp, RecordDone, DeferMailboxDelivery, AcceptMailboxDelivery, SampleFollowUp,
           SampleCompact, SampleStop, SampleError, ExitCheck, CheckCancelled, FinishTake,
           FinishEvent, FinishClear, Drain, QueuesUnchanged, TaskOnly, Recorded
  <1>3. TurnsKeep({})
    <2>1. CASE DeferMailboxDelivery(t) \/ AcceptMailboxDelivery(t)
      <3>1. \E ph : tstate' = [tstate EXCEPT ![active.state].phase = ph]
        BY <2>1 DEF DeferMailboxDelivery, AcceptMailboxDelivery
      <3> QED BY <1>1, <3>1, TurnsPhase
    <2>2. CASE ~(DeferMailboxDelivery(t) \/ AcceptMailboxDelivery(t))
      <3>1. UNCHANGED tstate
        BY <2>2 DEF BeginTurn, GiveUp, RecordDone, SampleFollowUp, SampleCompact, SampleStop, SampleError,
                    ExitCheck, CheckCancelled, FinishTake, FinishEvent, FinishClear, Drain,
                    QueuesUnchanged
      <3> QED BY <3>1, TurnsSame
    <2> QED BY <2>1, <2>2
  <1>4. TasksKeep({})
    <2>1. task[t] \in Task
      BY <1>1, TaskHasType DEF TypeOK
    <2>2. CASE UNCHANGED task
      BY <2>2, TasksSame
    <2>3. ASSUME NEW r, task' = [task EXCEPT ![t] = r], r.buf \in {task[t].buf, <<>>}
          PROVE  TasksKeep({})
      BY <1>1, <2>3, TaskQuiet
    <2>4. CASE RecordDone(t)
      <3>1. \E pc : task' = [task EXCEPT ![t] = [task[t] EXCEPT !.hook = "none", !.pc = pc]]
        BY <2>4 DEF RecordDone
      <3>2. \A pc : [task[t] EXCEPT !.hook = "none", !.pc = pc].buf = task[t].buf
        BY <2>1 DEF Task
      <3> QED BY <2>3, <3>1, <3>2
    <2>5. CASE SampleFollowUp(t) \/ SampleCompact(t) \/ ExitCheck(t)
      <3>1. ASSUME NEW pc, NEW d,
                   task' = [task EXCEPT ![t] = [task[t] EXCEPT !.pc = pc, !.canDrain = d]]
            PROVE  TasksKeep({})
        <4>1. [task[t] EXCEPT !.pc = pc, !.canDrain = d].buf = task[t].buf
          BY <2>1 DEF Task
        <4> QED BY <2>3, <3>1, <4>1
      <3>2. CASE SampleFollowUp(t)
        BY <3>1, <3>2 DEF SampleFollowUp
      <3>3. CASE SampleCompact(t)
        <4>1. PICK n \in BOOLEAN : task' = [task EXCEPT ![t] =
                                     [task[t] EXCEPT !.pc = "drain", !.canDrain = ~n]]
          BY <3>3 DEF SampleCompact
        <4> QED BY <3>1, <4>1
      <3>4. CASE ExitCheck(t)
        <4>1. task' = [task EXCEPT ![t] = [task[t] EXCEPT
                         !.pc = IF HasPendingInput THEN "begin" ELSE "exit", !.canDrain = TRUE]]
          BY <2>1, <3>4 DEF ExitCheck, Task
        <4> QED BY <3>1, <4>1
      <3> QED BY <2>5, <3>2, <3>3, <3>4
    <2>6. CASE SampleStop(t) \/ SampleError(t) \/ (Drain(t) /\ ~task[t].canDrain)
      <3>1. ASSUME NEW pc, task' = [task EXCEPT ![t] = [task[t] EXCEPT !.pc = pc]]
            PROVE  TasksKeep({})
        <4>1. [task[t] EXCEPT !.pc = pc].buf = task[t].buf
          BY <2>1 DEF Task
        <4> QED BY <2>3, <3>1, <4>1
      <3>2. CASE SampleStop(t)
        BY <3>1, <3>2 DEF SampleStop
      <3>3. CASE SampleError(t)
        <4>1. \/ task' = [task EXCEPT ![t] = [task[t] EXCEPT !.pc = "exitCheck"]]
              \/ task' = [task EXCEPT ![t] = [task[t] EXCEPT !.pc = "exit", !.failed = TRUE]]
          BY <3>3 DEF SampleError
        <4>2. [task[t] EXCEPT !.pc = "exit", !.failed = TRUE].buf = task[t].buf
          BY <2>1 DEF Task
        <4> QED BY <2>3, <3>1, <4>1, <4>2
      <3>4. CASE Drain(t) /\ ~task[t].canDrain
        BY <3>1, <3>4 DEF Drain
      <3> QED BY <2>6, <3>2, <3>3, <3>4
    <2>7. CASE CheckCancelled(t)
      <3>1. \/ task' = [task EXCEPT ![t] = EndedTask(t)]
            \/ task' = [task EXCEPT ![t] = [task[t] EXCEPT !.pc = "finTake"]]
        BY <2>7 DEF CheckCancelled
      <3>2. [task[t] EXCEPT !.pc = "finTake"].buf = task[t].buf
        BY <2>1 DEF Task
      <3> QED BY <2>3, <3>1, <3>2, EmptyRecords
    <2>8. CASE FinishTake(t)
      <3>1. \/ task' = [task EXCEPT ![t] = EndedTask(t)]
            \/ task' = [task EXCEPT ![t] = [task[t] EXCEPT !.pc = "finInput", !.ts = active.state]]
        BY <2>8 DEF FinishTake
      <3>2. [task[t] EXCEPT !.pc = "finInput", !.ts = active.state].buf = task[t].buf
        BY <2>1 DEF Task
      <3> QED BY <2>3, <3>1, <3>2, EmptyRecords
    <2>9. CASE FinishEvent(t)
      <3>1. \E e : task' = [task EXCEPT ![t] = [task[t] EXCEPT !.pc = "finClear", !.ends = e]]
        BY <2>9 DEF FinishEvent
      <3>2. \A e : [task[t] EXCEPT !.pc = "finClear", !.ends = e].buf = task[t].buf
        BY <2>1 DEF Task
      <3> QED BY <2>3, <3>1, <3>2
    <2>10. CASE FinishClear(t)
      <3>1. task' = [task EXCEPT ![t] = EndedTask(t)]
        BY <2>10 DEF FinishClear
      <3> QED BY <2>3, <3>1, EmptyRecords
    <2>11. CASE DeferMailboxDelivery(t) \/ AcceptMailboxDelivery(t)
      BY <2>2, <2>11 DEF DeferMailboxDelivery, AcceptMailboxDelivery
    <2>12. CASE BeginTurn(t) \/ GiveUp(t)
      <3>1. \/ task' = [task EXCEPT ![t] = [task[t] EXCEPT !.pc = "recordInput"]]
            \/ task' = [task EXCEPT ![t] = [task[t] EXCEPT !.pc = "exitCheck", !.buf = <<>>]]
            \/ task' = [task EXCEPT ![t] = [task[t] EXCEPT !.pc = "exit", !.buf = <<>>, !.failed = TRUE]]
        BY <2>12 DEF BeginTurn, GiveUp
      <3>2. /\ [task[t] EXCEPT !.pc = "recordInput"].buf = task[t].buf
            /\ [task[t] EXCEPT !.pc = "exitCheck", !.buf = <<>>].buf = <<>>
            /\ [task[t] EXCEPT !.pc = "exit", !.buf = <<>>, !.failed = TRUE].buf = <<>>
        BY <2>1 DEF Task
      <3> QED BY <2>3, <3>1, <3>2
    <2> QED BY <2>4, <2>5, <2>6, <2>7, <2>8, <2>9, <2>10, <2>11, <2>12
  <1> QED BY <1>2, <1>3, <1>4, CallersSame, LeavesOthers, SingleQuiet

\* What leaves a box for another one, or for the history.
LEMMA MoveKeepsSingle ==
    ASSUME SingleInv, TypeOK', NEW x \in Boxes, NEW y \in Boxes, x # y, UNCHANGED unsent,
           Contents'[x] = <<>>, Contents'[y] \in {Contents[x], Contents[y] \o Contents[x]},
           Leaves({x, y})
    PROVE  SingleInv'
  <1>1. Contents \in Holdings /\ Contents' \in Holdings
    BY TypesOfContents, TypesOfContentsNext DEF SingleInv
  <1>2. Single(Contents', unsent)
    <2> DEFINE f == Contents
               g == Contents'
    <2>1. Single(f, unsent) /\ f \in Holdings /\ g \in Holdings
      BY <1>1 DEF SingleInv
    <2>2. /\ g[x] = <<>> /\ g[y] \in {f[x], f[y] \o f[x]}
          /\ \A b \in Boxes \ {x, y} : g[b] \in {f[b], <<>>}
      BY DEF Leaves
    <2> HIDE DEF f, g
    <2>3. Single(g, unsent)
      BY <2>1, <2>2, SingleMove
    <2> QED BY <2>3 DEF g
  <1> QED BY <1>2 DEF SingleInv

\* Which boxes there are.
LEMMA BoxesExist ==
    /\ BMail \in Boxes /\ BHist \in Boxes
    /\ \A s \in Nat : BTurn(s) \in Boxes
    /\ \A t \in Turns : BTask(t) \in Boxes
    /\ \A c \in Callers : BBuf(c) \in Boxes /\ BIn(c) \in Boxes
  BY DEF Boxes

\* What the boxes hold before and after a step.
LEMMA ContentsAre ==
    /\ Contents[BMail] = mailbox /\ Contents'[BMail] = mailbox'
    /\ Contents[BHist] = history /\ Contents'[BHist] = history'
    /\ \A s \in Nat : /\ Contents[BTurn(s)] = InputOf(tstate, s)
                      /\ Contents'[BTurn(s)] = InputOf(tstate', s)
    /\ \A t \in Turns : Contents[BTask(t)] = task[t].buf /\ Contents'[BTask(t)] = task'[t].buf
    /\ \A c \in Callers : /\ Contents[BBuf(c)] = caller[c].buf
                          /\ Contents'[BBuf(c)] = caller'[c].buf
                          /\ Contents[BIn(c)] = caller[c].input
                          /\ Contents'[BIn(c)] = caller'[c].input
  BY FilledIs DEF Contents

\* Drain, FinishInput: the input of a TurnState becomes the buffer of a task.
LEMMA TurnToTask ==
    ASSUME SingleInv, TypeOK', NEW t \in Turns, NEW k \in DOMAIN tstate, NEW pc,
           task' = [task EXCEPT ![t] = [task[t] EXCEPT !.buf = tstate[k].input, !.pc = pc]],
           tstate' = [tstate EXCEPT ![k].input = <<>>],
           UNCHANGED <<mailbox, history, caller, unsent>>
    PROVE  SingleInv'
  <1>1. TypeOK
    BY DEF SingleInv
  <1>2. k \in Nat
    BY <1>1 DEF TypeOK, QueueTypes
  <1>3. InputOf(tstate', k) = <<>> /\ InputOf(tstate, k) = tstate[k].input /\ TurnsKeep({BTurn(k)})
    BY <1>1, TurnsReplace
  <1>4. task'[t].buf = tstate[k].input /\ \A u \in Turns : u # t => task'[u] = task[u]
    BY <1>1, TaskHasType DEF TypeOK, TaskTypes, Task
  <1> DEFINE X == {BTurn(k), BTask(t)}
  <1>5. TurnsKeep(X) /\ TasksKeep(X) /\ CallersKeep(X)
    BY <1>3, <1>4 DEF TurnsKeep, TasksKeep, CallersKeep
  <1>6. Leaves(X)
    BY <1>5, LeavesOthers
  <1>7. /\ BTurn(k) \in Boxes /\ BTask(t) \in Boxes /\ BTurn(k) # BTask(t)
        /\ Contents'[BTurn(k)] = <<>> /\ Contents'[BTask(t)] = Contents[BTurn(k)]
    BY <1>2, <1>3, <1>4, BoxesExist, BoxesDiffer, ContentsAre
  <1> QED BY <1>6, <1>7, MoveKeepsSingle

LEMMA DrainSingle ==
    ASSUME SingleInv, TypeOK', NEW t \in Turns, Drain(t), task[t].canDrain
    PROVE  SingleInv'
  <1>1. TypeOK /\ UNCHANGED <<mailbox, history, caller, unsent>>
    BY DEF SingleInv, Drain, TaskOnly, Recorded
  <1>2. PICK pc : task' = [task EXCEPT ![t] = [task[t] EXCEPT !.buf = TurnPending, !.pc = pc]]
    BY DEF Drain
  <1>3. tstate' = TurnPendingTaken
    BY DEF Drain
  <1>4. CASE active.state = 0
    <2>1. task'[t].buf = <<>> /\ \A u \in Turns : u # t => task'[u] = task[u]
      BY <1>1, <1>2, <1>4, TaskHasType DEF TurnPending, TypeOK, TaskTypes, Task
    <2>2. TasksKeep({})
      BY <2>1 DEF TasksKeep
    <2> QED BY <1>1, <1>3, <2>2, PendingTaken, CallersSame, LeavesOthers, SingleQuiet
  <1>5. CASE active.state # 0
    <2>1. active.state \in DOMAIN tstate
      BY <1>1, <1>5, ActiveState
    <2> QED BY <1>1, <1>2, <1>3, <1>5, <2>1, TurnToTask DEF TurnPending, TurnPendingTaken
  <1> QED BY <1>4, <1>5

LEMMA FinishInputSingle ==
    ASSUME SingleInv, TypeOK', NEW t \in Turns, FinishInput(t)
    PROVE  SingleInv'
  <1>1. TypeOK /\ UNCHANGED <<mailbox, history, caller, unsent>>
    BY DEF SingleInv, FinishInput, TaskOnly, Recorded
  <1>2. task[t].ts \in DOMAIN tstate
    BY <1>1, LenNat DEF TypeOK, TaskTypes, QueueTypes, FinishInput, Runs
  <1>3. task' = [task EXCEPT ![t] = [task[t] EXCEPT !.buf = tstate[task[t].ts].input,
                                                    !.pc = "finRecord"]]
    <2>1. task[t] \in Task
      BY <1>1, TaskHasType DEF TypeOK
    <2>2. task' = [task EXCEPT ![t] = [task[t] EXCEPT !.pc = "finRecord",
                                                      !.buf = tstate[task[t].ts].input]]
      BY DEF FinishInput
    <2>3. [task[t] EXCEPT !.pc = "finRecord", !.buf = tstate[task[t].ts].input]
            = [task[t] EXCEPT !.buf = tstate[task[t].ts].input, !.pc = "finRecord"]
      BY <2>1 DEF Task
    <2> QED BY <2>2, <2>3
  <1>4. tstate' = [tstate EXCEPT ![task[t].ts].input = <<>>]
    BY DEF FinishInput
  <1> QED BY <1>1, <1>2, <1>3, <1>4, TurnToTask

\* The mailbox is emptied into the buffer of a task.
LEMMA DrainMailSingle ==
    ASSUME SingleInv, TypeOK', NEW t \in Turns, DrainMail(t)
    PROVE  SingleInv'
  <1>1. TypeOK /\ UNCHANGED <<tstate, history, caller, unsent>> /\ mailbox' = <<>>
    BY DEF SingleInv, DrainMail, TaskOnly, Recorded
  <1>2. task'[t].buf = task[t].buf \o mailbox /\ \A u \in Turns : u # t => task'[u] = task[u]
    BY <1>1, TaskHasType DEF DrainMail, TypeOK, TaskTypes, Task
  <1> DEFINE X == {BMail, BTask(t)}
  <1>3. TurnsKeep(X) /\ TasksKeep(X) /\ CallersKeep(X)
    BY <1>1, <1>2 DEF TurnsKeep, TasksKeep, CallersKeep
  <1>4. Leaves(X)
    BY <1>1, <1>3, LeavesOthers
  <1>5. /\ BMail \in Boxes /\ BTask(t) \in Boxes /\ BMail # BTask(t)
        /\ Contents'[BMail] = <<>> /\ Contents'[BTask(t)] = Contents[BTask(t)] \o Contents[BMail]
    BY <1>1, <1>2, BoxesExist, BoxesDiffer, ContentsAre
  <1> QED BY <1>1, <1>4, <1>5, MoveKeepsSingle

\* The first input of the batch is recorded or refused.
LEMMA RecordOneSingle ==
    ASSUME SingleInv, TypeOK', NEW t \in Turns, RecordOne(t)
    PROVE  SingleInv'
  <1>1. TypeOK /\ UNCHANGED <<tstate, mailbox, caller, unsent>> /\ task[t].buf # <<>>
    BY DEF SingleInv, RecordOne, QueuesUnchanged, TaskOnly
  <1>2. history' \in {history, Append(history, Head(task[t].buf))}
    BY DEF RecordOne
  <1>3. task'[t].buf = Tail(task[t].buf) /\ \A u \in Turns : u # t => task'[u] = task[u]
    <2>1. task[t] \in Task /\ task \in [Turns -> Task]
      BY <1>1, TaskHasType DEF TypeOK, TaskTypes
    <2>2. \E h : task' = [task EXCEPT ![t] = [task[t] EXCEPT !.buf = Tail(task[t].buf), !.hook = h]]
      BY Zenon DEF RecordOne
    <2>3. \A h : [task[t] EXCEPT !.buf = Tail(task[t].buf), !.hook = h].buf = Tail(task[t].buf)
      BY <2>1 DEF Task
    <2> QED BY <2>1, <2>2, <2>3
  <1> DEFINE f == Contents
             g == Contents'
             x == BTask(t)
             y == BHist
  <1>4. f \in Holdings /\ g \in Holdings /\ Single(f, unsent)
    BY TypesOfContents, TypesOfContentsNext DEF SingleInv
  <1>5. /\ x \in Boxes /\ y \in Boxes /\ x # y
        /\ f[x] = task[t].buf /\ g[x] = Tail(f[x])
        /\ g[y] \in {f[y], Append(f[y], Head(f[x]))}
    BY <1>2, <1>3, BoxesExist, BoxesDiffer, ContentsAre
  <1>6. ASSUME NEW b \in Boxes, b \notin {x, y} PROVE g[b] = f[b]
    <2>1. CASE b = BMail
      BY <1>1, <2>1, ContentsAre
    <2>2. ASSUME NEW s \in Nat, b = BTurn(s) PROVE g[b] = f[b]
      BY <1>1, <2>2, ContentsAre
    <2>3. ASSUME NEW u \in Turns, b = BTask(u) PROVE g[b] = f[b]
      BY <1>3, <1>6, <2>3, ContentsAre
    <2>4. ASSUME NEW c \in Callers, b = BBuf(c) \/ b = BIn(c) PROVE g[b] = f[b]
      BY <1>1, <2>4, ContentsAre
    <2> QED BY <1>6, <2>1, <2>2, <2>3, <2>4, BoxCases
  <1>7. f[x] # <<>>
    BY <1>1, <1>5
  <1> HIDE DEF f, g, x, y
  <1>8. Single(g, unsent)
    BY <1>4, <1>5, <1>6, <1>7, SingleTake
  <1> QED BY <1>1, <1>8 DEF g, SingleInv

LEMMA TaskStepSingle ==
    ASSUME SingleInv, TypeOK', NEW t \in Turns, TaskStep(t)
    PROVE  SingleInv'
  BY TaskStepQuiet, DrainSingle, DrainMailSingle, RecordOneSingle, FinishInputSingle DEF TaskStep

\* Steps of a call that put nothing into a box.
LEMMA CallStepQuiet ==
    ASSUME SingleInv, TypeOK', NEW c \in Callers,
           \/ AbortTake(c) \/ AbortKill(c) \/ AbortEmit(c) \/ AbortClear(c)
           \/ MaybeCheck(c) \/ MaybeReserve(c) \/ StartInsert(c)
           \/ TryReserve(c) \/ TryRecheck(c) \/ TryClear(c) \/ TryStill(c)
    PROVE  SingleInv'
  <1>1. TypeOK
    BY DEF SingleInv
  <1>2. UNCHANGED <<mailbox, history, unsent>>
    BY DEF AbortTake, AbortKill, AbortEmit, AbortClear, MaybeCheck, MaybeReserve, StartInsert,
           TryReserve, TryRecheck, TryClear, TryStill, QueuesUnchanged, CallerOnly
  <1>3. TurnsKeep({})
    <2>1. CASE AbortClear(c)
      <3>1. caller[c].ts \in DOMAIN tstate
        BY <1>1, <2>1, LenNat DEF AbortClear, At, TypeOK, CallerTypes, QueueTypes, UsesTurnState
      <3> QED BY <1>1, <2>1, <3>1, TurnsClear DEF AbortClear
    <2>2. CASE ~AbortClear(c)
      <3>1. UNCHANGED tstate \/ tstate' = Append(tstate, DefaultTurnState)
        BY <2>2 DEF AbortTake, AbortKill, AbortEmit, MaybeCheck, MaybeReserve, StartInsert,
             TryReserve, TryRecheck, TryClear, TryStill, QueuesUnchanged, InsertActiveTurn
      <3> QED BY <1>1, <3>1, TurnsSame, TurnsNew
    <2> QED BY <2>1, <2>2
  <1>4. TasksKeep({})
    <2>1. CASE AbortTake(c)
      <3>1. UNCHANGED task \/ (active.task \in Turns /\ task' = [task EXCEPT ![active.task] =
                                     [task[active.task] EXCEPT !.cancelled = TRUE]])
        BY <1>1, <2>1, ActiveType DEF AbortTake, TakeAndCancel, TypeOK
      <3>2. \A t \in Turns : [task[t] EXCEPT !.cancelled = TRUE].buf = task[t].buf
        BY <1>1 DEF TypeOK, TaskTypes, Task
      <3> QED BY <1>1, <3>1, <3>2, TasksSame, TaskQuiet
    <2>2. CASE AbortKill(c)
      <3>1. caller[c].victim \in Turns
        BY <1>1, <2>2 DEF AbortKill, At, TypeOK, CallerTypes, UsesVictim, Caller
      <3> QED BY <1>1, <2>2, <3>1, EmptyRecords, TaskQuiet DEF AbortKill
    <2>3. CASE AbortEmit(c)
      <3>1. caller[c].victim \in Turns
        BY <1>1, <2>3 DEF AbortEmit, At, TypeOK, CallerTypes, UsesVictim, Caller
      <3>2. \E e : task' = [task EXCEPT ![caller[c].victim] = [task[caller[c].victim] EXCEPT !.ends = e]]
        BY <2>3 DEF AbortEmit
      <3>3. \A t \in Turns : \A e : [task[t] EXCEPT !.ends = e].buf = task[t].buf
        BY <1>1 DEF TypeOK, TaskTypes, Task
      <3> QED BY <1>1, <3>1, <3>2, <3>3, TaskQuiet
    <2>4. CASE ~AbortTake(c) /\ ~AbortKill(c) /\ ~AbortEmit(c)
      <3>1. UNCHANGED task
        BY <2>4 DEF AbortClear, MaybeCheck, MaybeReserve, StartInsert, TryReserve, TryRecheck,
                    TryClear, TryStill
      <3> QED BY <3>1, TasksSame
    <2> QED BY <2>1, <2>2, <2>3, <2>4
  <1>5. CallersKeep({})
    <2>1. caller[c] \in Caller
      BY <1>1 DEF TypeOK, CallerTypes
    <2>2. ASSUME NEW r, caller' = [caller EXCEPT ![c] = r], r.buf \in {caller[c].buf, <<>>},
                 r.input \in {caller[c].input, <<>>}
          PROVE  CallersKeep({})
      BY <1>1, <2>2, CallQuiet
    <2>3. ASSUME NEW pc, Goto(c, pc) PROVE CallersKeep({})
      <3>1. caller' = [caller EXCEPT ![c] = [caller[c] EXCEPT !.pc = pc]]
        BY <2>3 DEF Goto
      <3>2. /\ [caller[c] EXCEPT !.pc = pc].buf = caller[c].buf
            /\ [caller[c] EXCEPT !.pc = pc].input = caller[c].input
        BY <2>1 DEF Caller
      <3> QED BY <2>2, <3>1, <3>2
    <2>4. ASSUME Return(c) PROVE CallersKeep({})
      BY <2>2, <2>4, EmptyRecords DEF Return
    <2>5. ASSUME NEW pc, NEW ts, NEW v,
                 caller' = [caller EXCEPT ![c] = [caller[c] EXCEPT !.pc = pc, !.ts = ts, !.victim = v]]
          PROVE  CallersKeep({})
      <3>1. /\ [caller[c] EXCEPT !.pc = pc, !.ts = ts, !.victim = v].buf = caller[c].buf
            /\ [caller[c] EXCEPT !.pc = pc, !.ts = ts, !.victim = v].input = caller[c].input
        BY <2>1 DEF Caller
      <3> QED BY <2>2, <2>5, <3>1
    <2>6. ASSUME NEW pc, NEW ts,
                 caller' = [caller EXCEPT ![c] = [caller[c] EXCEPT !.pc = pc, !.ts = ts]]
          PROVE  CallersKeep({})
      <3>1. /\ [caller[c] EXCEPT !.pc = pc, !.ts = ts].buf = caller[c].buf
            /\ [caller[c] EXCEPT !.pc = pc, !.ts = ts].input = caller[c].input
        BY <2>1 DEF Caller
      <3> QED BY <2>2, <2>6, <3>1
    <2>7. CASE AbortTake(c)
      <3>1. \/ Return(c) \/ Goto(c, "startDrain")
            \/ caller' = [caller EXCEPT ![c] = [caller[c] EXCEPT !.pc = "abortWait",
                             !.ts = active.state, !.victim = active.task]]
        BY <2>7 DEF AbortTake, TakeAndCancel
      <3> QED BY <2>3, <2>4, <2>5, <3>1
    <2>8. CASE AbortKill(c) \/ AbortEmit(c) \/ MaybeCheck(c) \/ MaybeReserve(c) \/ TryRecheck(c)
                 \/ TryStill(c)
      BY <2>3, <2>4, <2>8 DEF AbortKill, AbortEmit, MaybeCheck, MaybeReserve, TryRecheck, TryStill
    <2>9. CASE AbortClear(c)
      <3>1. PICK pc : caller' = [caller EXCEPT ![c] =
                         [caller[c] EXCEPT !.ts = 0, !.victim = NoTask, !.pc = pc]]
        BY <2>9 DEF AbortClear
      <3>2. [caller[c] EXCEPT !.ts = 0, !.victim = NoTask, !.pc = pc]
              = [caller[c] EXCEPT !.pc = pc, !.ts = 0, !.victim = NoTask]
        BY <2>1 DEF Caller
      <3>3. caller' = [caller EXCEPT ![c] = [caller[c] EXCEPT !.pc = pc, !.ts = 0, !.victim = NoTask]]
        BY <3>1, <3>2
      <3> QED BY <2>5, <3>3
    <2>10. CASE StartInsert(c) \/ TryReserve(c)
      <3>1. \/ Return(c)
            \/ caller' = [caller EXCEPT ![c] = [caller[c] EXCEPT !.pc = "startExtend",
                                                                !.ts = active'.state]]
            \/ caller' = [caller EXCEPT ![c] = [caller[c] EXCEPT !.pc = "tryRecheck",
                                                                !.ts = Len(tstate) + 1]]
        BY <2>10 DEF StartInsert, TryReserve
      <3> QED BY <2>4, <2>6, <3>1
    <2>11. CASE TryClear(c)
      <3>1. caller' = [caller EXCEPT ![c] =
                         [IdleCaller EXCEPT !.pc = "maybeCheck", !.turn = caller[c].turn]]
        BY <2>11 DEF TryClear
      <3>2. /\ [IdleCaller EXCEPT !.pc = "maybeCheck", !.turn = caller[c].turn].buf = <<>>
            /\ [IdleCaller EXCEPT !.pc = "maybeCheck", !.turn = caller[c].turn].input = <<>>
        BY DEF IdleCaller
      <3> QED BY <2>2, <3>1, <3>2
    <2> QED BY <2>7, <2>8, <2>9, <2>10, <2>11
  <1> QED BY <1>2, <1>3, <1>4, <1>5, LeavesOthers, SingleQuiet

\* The input of the active turn becomes what start_task has pending.
LEMMA StartDrainSingle ==
    ASSUME SingleInv, TypeOK', NEW c \in Callers, StartDrain(c)
    PROVE  SingleInv'
  <1>1. TypeOK /\ UNCHANGED <<mailbox, history, task, unsent>> /\ tstate' = TurnPendingTaken
    BY DEF SingleInv, StartDrain, CallerOnly
  <1>2. /\ caller'[c].buf = TurnPending /\ caller'[c].input = caller[c].input
        /\ \A d \in Callers : d # c => caller'[d] = caller[d]
    BY <1>1 DEF StartDrain, TypeOK, CallerTypes, Caller
  <1>3. CASE active.state = 0
    <2>1. CallersKeep({})
      BY <1>2, <1>3 DEF CallersKeep, TurnPending
    <2> QED BY <1>1, <2>1, PendingTaken, TasksSame, LeavesOthers, SingleQuiet
  <1>4. CASE active.state # 0
    <2> DEFINE k == active.state
               X == {BTurn(k), BBuf(c)}
    <2>1. k \in DOMAIN tstate /\ k \in Nat
      BY <1>1, <1>4, ActiveState
    <2>2. InputOf(tstate', k) = <<>> /\ InputOf(tstate, k) = tstate[k].input /\ TurnsKeep({BTurn(k)})
      BY <1>1, <1>4, <2>1, TurnsReplace DEF TurnPendingTaken
    <2>3. TurnsKeep(X) /\ TasksKeep(X) /\ CallersKeep(X)
      BY <1>1, <1>2, <2>2 DEF TurnsKeep, TasksKeep, CallersKeep
    <2>4. Leaves(X)
      BY <1>1, <2>3, LeavesOthers
    <2>5. /\ BTurn(k) \in Boxes /\ BBuf(c) \in Boxes /\ BTurn(k) # BBuf(c)
          /\ Contents'[BTurn(k)] = <<>> /\ Contents'[BBuf(c)] = Contents[BTurn(k)]
      BY <1>2, <1>4, <2>1, <2>2, BoxesExist, BoxesDiffer, ContentsAre DEF TurnPending
    <2> QED BY <1>1, <2>4, <2>5, MoveKeepsSingle
  <1> QED BY <1>3, <1>4

LEMMA StartMailSingle ==
    ASSUME SingleInv, TypeOK', NEW c \in Callers, StartMail(c)
    PROVE  SingleInv'
  <1>1. TypeOK /\ UNCHANGED <<tstate, history, task, unsent>> /\ mailbox' = <<>>
    BY DEF SingleInv, StartMail, CallerOnly
  <1>2. /\ caller'[c].buf = caller[c].buf \o mailbox /\ caller'[c].input = caller[c].input
        /\ \A d \in Callers : d # c => caller'[d] = caller[d]
    BY <1>1 DEF StartMail, TypeOK, CallerTypes, Caller
  <1> DEFINE X == {BMail, BBuf(c)}
  <1>3. TurnsKeep(X) /\ TasksKeep(X) /\ CallersKeep(X)
    BY <1>1, <1>2 DEF TurnsKeep, TasksKeep, CallersKeep
  <1>4. Leaves(X)
    BY <1>1, <1>3, LeavesOthers
  <1>5. /\ BMail \in Boxes /\ BBuf(c) \in Boxes /\ BMail # BBuf(c)
        /\ Contents'[BMail] = <<>> /\ Contents'[BBuf(c)] = Contents[BBuf(c)] \o Contents[BMail]
    BY <1>1, <1>2, BoxesExist, BoxesDiffer, ContentsAre
  <1> QED BY <1>1, <1>4, <1>5, MoveKeepsSingle

\* StartExtend, TryExtend: what a call holds goes to its TurnState.
LEMMA ExtendSingle ==
    ASSUME SingleInv, TypeOK', NEW c \in Callers, StartExtend(c) \/ TryExtend(c)
    PROVE  SingleInv'
  <1>1. TypeOK /\ UNCHANGED <<mailbox, history, task, unsent>>
    BY DEF SingleInv, StartExtend, TryExtend, CallerOnly
  <1> DEFINE k == caller[c].ts
  <1>2. k \in DOMAIN tstate /\ k \in Nat
    BY <1>1, LenNat DEF StartExtend, TryExtend, At, TypeOK, CallerTypes, QueueTypes, UsesTurnState
  <1>3. ASSUME NEW x \in {BBuf(c), BIn(c)}, Contents'[x] = <<>>,
               tstate' = [tstate EXCEPT ![k].input = tstate[k].input \o Contents[x]],
               CallersKeep({x})
        PROVE  SingleInv'
    <2> DEFINE X == {x, BTurn(k)}
    <2>1. /\ InputOf(tstate', k) = tstate[k].input \o Contents[x]
          /\ InputOf(tstate, k) = tstate[k].input /\ TurnsKeep({BTurn(k)})
      BY <1>1, <1>2, <1>3, TurnsReplace
    <2>2. TurnsKeep(X) /\ TasksKeep(X) /\ CallersKeep(X)
      BY <1>1, <1>3, <2>1 DEF TurnsKeep, TasksKeep, CallersKeep
    <2>3. Leaves(X)
      BY <1>1, <2>2, LeavesOthers
    <2>4. /\ x \in Boxes /\ BTurn(k) \in Boxes /\ x # BTurn(k)
          /\ Contents'[BTurn(k)] = Contents[BTurn(k)] \o Contents[x]
      <3>1. Contents[BTurn(k)] = tstate[k].input
        BY <1>2, <2>1, ContentsAre
      <3>2. Contents'[BTurn(k)] = tstate[k].input \o Contents[x]
        BY <1>2, <2>1, ContentsAre
      <3> QED BY <1>2, <1>3, <3>1, <3>2, BoxesExist, BoxesDiffer
    <2> QED BY <1>1, <1>3, <2>3, <2>4, MoveKeepsSingle
  <1>4. CASE StartExtend(c)
    <2>1. /\ caller'[c].buf = <<>> /\ caller'[c].input = caller[c].input
          /\ \A d \in Callers : d # c => caller'[d] = caller[d]
      BY <1>1, <1>4 DEF StartExtend, TypeOK, CallerTypes, Caller
    <2>2. CallersKeep({BBuf(c)})
      BY <2>1 DEF CallersKeep
    <2>3. tstate' = [tstate EXCEPT ![k].input = tstate[k].input \o Contents[BBuf(c)]]
      BY <1>4, ContentsAre DEF StartExtend
    <2> QED BY <1>3, <2>1, <2>2, <2>3, ContentsAre
  <1>5. CASE TryExtend(c)
    <2>1. /\ caller'[c].buf = caller[c].buf /\ caller'[c].input = <<>>
          /\ \A d \in Callers : d # c => caller'[d] = caller[d]
      BY <1>1, <1>5 DEF TryExtend, TypeOK, CallerTypes, Caller
    <2>2. CallersKeep({BIn(c)})
      BY <2>1 DEF CallersKeep
    <2>3. tstate' = [tstate EXCEPT ![k].input = tstate[k].input \o Contents[BIn(c)]]
      BY <1>5, ContentsAre DEF TryExtend
    <2> QED BY <1>3, <2>1, <2>2, <2>3, ContentsAre
  <1> QED BY <1>4, <1>5

\* start_task hands the input it was given to the task that it spawns.
LEMMA StartSpawnSingle ==
    ASSUME SingleInv, TypeOK', NEW c \in Callers, StartSpawn(c)
    PROVE  SingleInv'
  <1>1. TypeOK /\ UNCHANGED <<mailbox, history, unsent>>
    BY DEF SingleInv, StartSpawn, CallerOnly
  <1>2. TurnsKeep({})
    <2>1. UNCHANGED tstate \/ tstate' = Append(tstate, DefaultTurnState)
      BY DEF StartSpawn
    <2> QED BY <1>1, <2>1, TurnsSame, TurnsNew
  <1>3. /\ caller'[c].buf = <<>> /\ caller'[c].input = <<>>
        /\ \A d \in Callers : d # c => caller'[d] = caller[d]
    BY <1>1, EmptyRecords DEF StartSpawn, Return, TypeOK, CallerTypes
  <1>4. CallersKeep({})
    BY <1>3 DEF CallersKeep
  <1>5. \A t \in Turns : t # caller[c].turn => task'[t].buf \in {task[t].buf, <<>>}
    BY EmptyRecords DEF StartSpawn
  <1>6. CASE caller[c].turn \notin Turns
    <2>1. TasksKeep({})
      BY <1>5, <1>6 DEF TasksKeep
    <2> QED BY <1>1, <1>2, <1>4, <2>1, LeavesOthers, SingleQuiet
  <1>7. CASE caller[c].turn \in Turns
    <2> DEFINE u == caller[c].turn
               X == {BIn(c), BTask(u)}
    <2>1. task'[u].buf = caller[c].input
      BY <1>7 DEF StartSpawn, SpawnedTask, UnbornTask
    <2>2. TurnsKeep(X) /\ CallersKeep(X)
      BY <1>2, <1>4, KeepsMore
    <2>3. TasksKeep(X)
      BY <1>5 DEF TasksKeep
    <2>4. Leaves(X)
      BY <1>1, <2>2, <2>3, LeavesOthers
    <2>5. /\ BIn(c) \in Boxes /\ BTask(u) \in Boxes /\ BIn(c) # BTask(u)
          /\ Contents'[BIn(c)] = <<>> /\ Contents'[BTask(u)] = Contents[BIn(c)]
      BY <1>3, <1>7, <2>1, BoxesExist, BoxesDiffer, ContentsAre
    <2> QED BY <1>1, <2>4, <2>5, MoveKeepsSingle
  <1> QED BY <1>6, <1>7

LEMMA CallStepSingle ==
    ASSUME SingleInv, TypeOK', NEW c \in Callers, CallStep(c)
    PROVE  SingleInv'
  BY CallStepQuiet, StartDrainSingle, StartMailSingle, ExtendSingle, StartSpawnSingle DEF CallStep

\* An input that nobody had offered goes into a box.
LEMMA OfferKeepsSingle ==
    ASSUME SingleInv, TypeOK', NEW y \in Boxes, NEW i \in Inputs, Offer(i),
           Contents'[y] \in {<<i>>, Append(Contents[y], i)}, Leaves({y})
    PROVE  SingleInv'
  <1> DEFINE f == Contents
             g == Contents'
  <1>1. Single(f, unsent) /\ f \in Holdings /\ g \in Holdings
    BY TypesOfContents, TypesOfContentsNext DEF SingleInv
  <1>2. /\ g[y] \in {<<i>>, Append(f[y], i)} /\ i \in unsent /\ unsent' = unsent \ {i}
        /\ \A b \in Boxes \ {y} : g[b] \in {f[b], <<>>}
    BY DEF Leaves, Offer
  <1> HIDE DEF f, g
  <1>3. Single(g, unsent \ {i})
    BY <1>1, <1>2, SingleOffer
  <1> QED BY <1>2, <1>3 DEF g, SingleInv

\* An offered input that no box receives.
LEMMA RefuseKeepsSingle ==
    ASSUME SingleInv, TypeOK', NEW i \in Inputs, Offer(i), CallersKeep({}),
           UNCHANGED <<mailbox, history, tstate, task>>
    PROVE  SingleInv'
  <1>1. Leaves({})
    BY TurnsSame, TasksSame, LeavesOthers
  <1> QED BY <1>1, SingleQuiet DEF Offer

\* The active turn takes an input.
LEMMA OfferToTurn ==
    ASSUME SingleInv, TypeOK', NEW i \in Inputs, Offer(i), active.state # 0, NEW r,
           tstate' = [tstate EXCEPT ![active.state] = r],
           r.input = Append(tstate[active.state].input, i),
           UNCHANGED <<mailbox, history, task, caller>>
    PROVE  SingleInv'
  <1> DEFINE k == active.state
  <1>1. TypeOK /\ k \in DOMAIN tstate /\ k \in Nat
    BY ActiveState DEF SingleInv
  <1>2. /\ DOMAIN tstate' = DOMAIN tstate /\ tstate'[k].input = Append(tstate[k].input, i)
        /\ \A s \in DOMAIN tstate : s # k => tstate'[s] = tstate[s]
    BY <1>1 DEF TypeOK, QueueTypes
  <1>3. TurnsKeep({BTurn(k)})
    BY <1>2 DEF TurnsKeep, InputOf
  <1>4. TasksKeep({BTurn(k)}) /\ CallersKeep({BTurn(k)})
    BY TasksSame, CallersSame, KeepsMore
  <1>5. Leaves({BTurn(k)})
    BY <1>3, <1>4, LeavesOthers
  <1>6. BTurn(k) \in Boxes /\ Contents'[BTurn(k)] = Append(Contents[BTurn(k)], i)
    BY <1>1, <1>2, BoxesExist, ContentsAre DEF InputOf
  <1> QED BY <1>5, <1>6, OfferKeepsSingle

LEMMA SteerSingle ==
    ASSUME SingleInv, TypeOK', NEW i \in UserInputs, Offer(i), NEW e,
           SteerAccepts(i, e) \/ SteerRejects(i, e),
           UNCHANGED <<mailbox, history, task, caller>>
    PROVE  SingleInv'
  <1>1. i \in Inputs
    BY DEF Inputs
  <1>2. CASE SteerAccepts(i, e)
    <2> DEFINE r == [input |-> Append(tstate[active.state].input, i), phase |-> "CurrentTurn"]
    <2>1. active.state # 0
      BY <1>2 DEF SteerAccepts, SingleInv, TypeOK, QueueTypes
    <2>2. tstate' = [tstate EXCEPT ![active.state] = r] /\ r.input = Append(tstate[active.state].input, i)
      BY <1>2 DEF SteerAccepts
    <2> HIDE DEF r
    <2> QED BY <1>1, <2>1, <2>2, OfferToTurn
  <1>3. CASE SteerRejects(i, e)
    BY <1>1, <1>3, CallersSame, RefuseKeepsSingle DEF SteerRejects
  <1> QED BY <1>2, <1>3

LEMMA SteerInputSingle ==
    ASSUME SingleInv, TypeOK', NEW c \in Callers, SteerInput(c)
    PROVE  SingleInv'
  <1>1. PICK i \in UserInputs, e \in Turns \cup {NoTask} :
          /\ Offer(i)
          /\ \/ SteerAccepts(i, e) \/ SteerRejects(i, e)
             \/ UNCHANGED tstate
    BY DEF SteerInput
  <1>2. UNCHANGED <<mailbox, history, task, caller>> /\ i \in Inputs
    BY DEF SteerInput, Inputs
  <1> QED BY <1>1, <1>2, SteerSingle, CallersSame, RefuseKeepsSingle

LEMMA InjectSingle ==
    ASSUME SingleInv, TypeOK', NEW c \in Callers, InjectNoNewTurn(c)
    PROVE  SingleInv'
  <1>1. PICK i \in ResponseItems :
          /\ Offer(i)
          /\ \/ active.state # 0 /\ history' = history
                /\ tstate' = [tstate EXCEPT ![active.state].input = Append(@, i)]
             \/ history' = Append(history, i) /\ tstate' = tstate
    BY DEF InjectNoNewTurn
  <1>2. UNCHANGED <<mailbox, task, caller>> /\ i \in Inputs
    BY DEF InjectNoNewTurn, Inputs
  <1>3. CASE tstate' = tstate /\ history' = Append(history, i)
    <2>1. TurnsKeep({BHist}) /\ TasksKeep({BHist}) /\ CallersKeep({BHist})
      BY <1>2, <1>3, TurnsSame, TasksSame, CallersSame, KeepsMore
    <2>2. Leaves({BHist})
      BY <1>2, <2>1, LeavesOthers
    <2>3. BHist \in Boxes /\ Contents'[BHist] = Append(Contents[BHist], i)
      BY <1>3, BoxesExist, ContentsAre
    <2> QED BY <1>1, <1>2, <2>2, <2>3, OfferKeepsSingle
  <1>4. CASE active.state # 0 /\ history' = history
               /\ tstate' = [tstate EXCEPT ![active.state].input = Append(@, i)]
    <2> DEFINE r == [tstate[active.state] EXCEPT !.input = Append(tstate[active.state].input, i)]
    <2>1. tstate' = [tstate EXCEPT ![active.state] = r]
      BY <1>4
    <2>2. tstate[active.state] \in TurnState
      BY <1>4, ActiveState DEF SingleInv, TypeOK, QueueTypes
    <2>3. r.input = Append(tstate[active.state].input, i)
      BY <2>2 DEF TurnState
    <2> HIDE DEF r
    <2> QED BY <1>1, <1>2, <1>4, <2>1, <2>3, OfferToTurn
  <1> QED BY <1>1, <1>3, <1>4

\* A call starts with an input of its own.
LEMMA OfferToCall ==
    ASSUME SingleInv, TypeOK', NEW c \in Callers, NEW i \in Inputs, Offer(i), NEW r,
           caller' = [caller EXCEPT ![c] = r], r.input = <<i>>, r.buf = <<>>,
           UNCHANGED <<mailbox, history, tstate, task>>
    PROVE  SingleInv'
  <1>1. caller'[c] = r /\ \A d \in Callers : d # c => caller'[d] = caller[d]
    BY DEF SingleInv, TypeOK, CallerTypes
  <1>2. CallersKeep({BIn(c)})
    BY <1>1 DEF CallersKeep
  <1>3. TurnsKeep({BIn(c)}) /\ TasksKeep({BIn(c)})
    BY TurnsSame, TasksSame, KeepsMore
  <1>4. Leaves({BIn(c)})
    BY <1>2, <1>3, LeavesOthers
  <1>5. BIn(c) \in Boxes /\ Contents'[BIn(c)] = <<i>>
    BY <1>1, BoxesExist, ContentsAre
  <1> QED BY <1>4, <1>5, OfferKeepsSingle

LEMMA UserInputSingle ==
    ASSUME SingleInv, TypeOK', UserInputOrTurn
    PROVE  SingleInv'
  <1>1. PICK i \in UserInputs, t \in FreshTurns :
          /\ Offer(i)
          /\ \/ (SteerAccepts(i, NoTask) \/ SteerRejects(i, NoTask)) /\ caller' = caller
             \/ /\ caller' = [caller EXCEPT ![Loop] =
                     [IdleCaller EXCEPT !.pc = "abortTake", !.turn = t, !.input = <<i>>]]
                /\ UNCHANGED tstate
    BY DEF UserInputOrTurn
  <1>2. UNCHANGED <<mailbox, history, task>> /\ i \in Inputs /\ Loop \in Callers
    BY DEF UserInputOrTurn, SubmissionOnly, Inputs, Callers
  <1> DEFINE r == [IdleCaller EXCEPT !.pc = "abortTake", !.turn = t, !.input = <<i>>]
  <1>3. r.input = <<i>> /\ r.buf = <<>>
    BY DEF IdleCaller
  <1>4. CASE caller' = [caller EXCEPT ![Loop] = r] /\ UNCHANGED tstate
    <2> HIDE DEF r
    <2> QED BY <1>1, <1>2, <1>3, <1>4, OfferToCall
  <1>5. CASE (SteerAccepts(i, NoTask) \/ SteerRejects(i, NoTask)) /\ caller' = caller
    BY <1>1, <1>2, <1>5, SteerSingle
  <1> QED BY <1>1, <1>4, <1>5

LEMMA TryStartSingle ==
    ASSUME SingleInv, TypeOK', NEW c \in Callers, TryStartTurnIfIdle(c)
    PROVE  SingleInv'
  <1>1. PICK i \in ResponseItems, t \in FreshTurns :
          /\ Offer(i)
          /\ \/ caller' = [caller EXCEPT ![c] =
                     [IdleCaller EXCEPT !.pc = "tryReserve", !.turn = t, !.input = <<i>>]]
             \/ caller' = caller
    BY DEF TryStartTurnIfIdle
  <1>2. UNCHANGED <<mailbox, history, tstate, task>> /\ i \in Inputs
    BY DEF TryStartTurnIfIdle, QueuesUnchanged, Inputs
  <1> DEFINE r == [IdleCaller EXCEPT !.pc = "tryReserve", !.turn = t, !.input = <<i>>]
  <1>3. r.input = <<i>> /\ r.buf = <<>>
    BY DEF IdleCaller
  <1>4. CASE caller' = [caller EXCEPT ![c] = r]
    <2> HIDE DEF r
    <2> QED BY <1>1, <1>2, <1>3, <1>4, OfferToCall
  <1>5. CASE caller' = caller
    BY <1>1, <1>2, <1>5, CallersSame, RefuseKeepsSingle
  <1> QED BY <1>1, <1>4, <1>5

LEMMA MailSingle ==
    ASSUME SingleInv, TypeOK', InterAgentCommunication
    PROVE  SingleInv'
  <1>1. PICK m \in Mails, t \in FreshTurns :
          /\ Offer(m) /\ mailbox' = Append(mailbox, m)
          /\ \/ caller' = [caller EXCEPT ![Loop] =
                     [IdleCaller EXCEPT !.pc = "maybeCheck", !.turn = t]]
             \/ caller' = caller
    BY DEF InterAgentCommunication
  <1>2. /\ UNCHANGED <<history, tstate, task>> /\ m \in Inputs /\ Loop \in Callers /\ TypeOK
    BY DEF InterAgentCommunication, SubmissionOnly, Inputs, Callers, SingleInv
  <1>3. CallersKeep({})
    <2> DEFINE r == [IdleCaller EXCEPT !.pc = "maybeCheck", !.turn = t]
    <2>1. r.buf = <<>> /\ r.input = <<>>
      BY DEF IdleCaller
    <2>2. caller' = [caller EXCEPT ![Loop] = r] \/ caller' = caller
      BY <1>1
    <2> HIDE DEF r
    <2> QED BY <1>2, <2>1, <2>2, CallQuiet, CallersSame
  <1>4. TurnsKeep({BMail}) /\ TasksKeep({BMail}) /\ CallersKeep({BMail})
    BY <1>2, <1>3, TurnsSame, TasksSame, KeepsMore
  <1>5. Leaves({BMail})
    BY <1>2, <1>4, LeavesOthers
  <1>6. BMail \in Boxes /\ Contents'[BMail] = Append(Contents[BMail], m)
    BY <1>1, BoxesExist, ContentsAre
  <1> QED BY <1>1, <1>2, <1>5, <1>6, OfferKeepsSingle

\* Compact, a shell command, Interrupt and abort_turn_if_active carry no input.
LEMMA AbortsSingle ==
    ASSUME SingleInv, TypeOK', NEW c \in Callers,
           (c = Loop /\ (Compact \/ RunUserShellCommand \/ Interrupt)) \/ AbortTurnIfActive(c)
    PROVE  SingleInv'
  <1>1. TypeOK /\ UNCHANGED <<mailbox, history, tstate, unsent>>
    BY DEF SingleInv, Compact, RunUserShellCommand, Interrupt, AbortTurnIfActive, SubmissionOnly
  <1>2. CallersKeep({})
    <2>1. ASSUME NEW r, caller' = [caller EXCEPT ![c] = r], r.buf = <<>>, r.input = <<>>
          PROVE  CallersKeep({})
      BY <1>1, <2>1, CallQuiet
    <2>2. CASE c = Loop /\ (Compact \/ RunUserShellCommand)
      <3>1. PICK t \in FreshTurns, k \in Kinds : caller' = [caller EXCEPT ![Loop] =
               [IdleCaller EXCEPT !.pc = "abortTake", !.turn = t, !.kind = k]]
        BY <2>2 DEF Compact, RunUserShellCommand, Kinds
      <3>2. /\ [IdleCaller EXCEPT !.pc = "abortTake", !.turn = t, !.kind = k].buf = <<>>
            /\ [IdleCaller EXCEPT !.pc = "abortTake", !.turn = t, !.kind = k].input = <<>>
        BY DEF IdleCaller
      <3> QED BY <2>1, <2>2, <3>1, <3>2
    <2>3. CASE c = Loop /\ Interrupt
      <3>1. PICK t \in FreshTurns : caller' = [caller EXCEPT ![Loop] =
               [IdleCaller EXCEPT !.pc = "abortTake", !.turn = t, !.reason = "Interrupted"]]
        BY <2>3 DEF Interrupt
      <3>2. /\ [IdleCaller EXCEPT !.pc = "abortTake", !.turn = t, !.reason = "Interrupted"].buf = <<>>
            /\ [IdleCaller EXCEPT !.pc = "abortTake", !.turn = t, !.reason = "Interrupted"].input = <<>>
        BY DEF IdleCaller
      <3> QED BY <2>1, <2>3, <3>1, <3>2
    <2>4. CASE AbortTurnIfActive(c)
      <3>1. PICK t \in FreshTurns : caller' = [caller EXCEPT ![c] =
              [IdleCaller EXCEPT !.pc = "abortWait", !.turn = t,
                                 !.ts = active.state, !.victim = active.task,
                                 !.reason = "Interrupted"]]
        BY <2>4 DEF AbortTurnIfActive
      <3> DEFINE r == [IdleCaller EXCEPT !.pc = "abortWait", !.turn = t,
                                 !.ts = active.state, !.victim = active.task,
                                 !.reason = "Interrupted"]
      <3>2. r.buf = <<>> /\ r.input = <<>>
        BY DEF IdleCaller
      <3>3. caller' = [caller EXCEPT ![c] = r]
        BY <3>1
      <3> HIDE DEF r
      <3> QED BY <2>1, <3>2, <3>3
    <2> QED BY <2>2, <2>3, <2>4
  <1>3. TasksKeep({})
    <2>1. \/ UNCHANGED task
          \/ active.task \in Turns /\ task' = [task EXCEPT ![active.task] =
                                        [task[active.task] EXCEPT !.cancelled = TRUE]]
      BY <1>1, ActiveType
         DEF Compact, RunUserShellCommand, Interrupt, AbortTurnIfActive, SubmissionOnly, TypeOK
    <2>2. \A t \in Turns : [task[t] EXCEPT !.cancelled = TRUE].buf = task[t].buf
      BY <1>1 DEF TypeOK, TaskTypes, Task
    <2> QED BY <1>1, <2>1, <2>2, TasksSame, TaskQuiet
  <1> QED BY <1>1, <1>2, <1>3, TurnsSame, LeavesOthers, SingleQuiet

LEMMA InitSingle == Init => SingleInv
  <1> SUFFICES ASSUME Init PROVE SingleInv
    OBVIOUS
  <1>1. TypeOK
    BY InitTypeOK
  <1>2. ASSUME NEW b \in Boxes PROVE Contents[b] = <<>>
    <2>1. /\ mailbox = <<>> /\ history = <<>> /\ \A s \in Nat : InputOf(tstate, s) = <<>>
          /\ \A t \in Turns : task[t].buf = <<>>
          /\ \A c \in Callers : caller[c].buf = <<>> /\ caller[c].input = <<>>
      BY DEF Init, InputOf, UnbornTask, IdleCaller
    <2> QED BY <2>1, BoxCases, ContentsAre
  <1>3. DOMAIN Contents = Boxes
    BY FilledIs DEF Contents
  <1> QED BY <1>1, <1>2, <1>3 DEF SingleInv, Single

LEMMA NextSingle == SingleInv /\ [Next]_vars => SingleInv'
  <1> SUFFICES ASSUME SingleInv, [Next]_vars PROVE SingleInv'
    OBVIOUS
  <1>1. TypeOK'
    BY NextTypeOK DEF SingleInv
  <1>2. Loop \in Callers
    BY DEF Callers
  <1>3. CASE Submission
    BY <1>1, <1>2, <1>3, UserInputSingle, MailSingle, AbortsSingle DEF Submission
  <1>4. ASSUME NEW c \in Callers, CallStep(c) PROVE SingleInv'
    BY <1>1, <1>4, CallStepSingle
  <1>5. ASSUME NEW c \in Callers, Offered(c) PROVE SingleInv'
    BY <1>1, <1>5, SteerInputSingle, InjectSingle, AbortsSingle, TryStartSingle DEF Offered
  <1>6. ASSUME NEW t \in Turns, TaskStep(t) PROVE SingleInv'
    BY <1>1, <1>6, TaskStepSingle
  <1>7. CASE UNCHANGED vars
    <2>1. UNCHANGED <<mailbox, history, tstate, task, caller, unsent>>
      BY <1>7 DEF vars
    <2> QED BY <1>1, <2>1, TurnsSame, TasksSame, CallersSame, LeavesOthers, SingleQuiet
  <1> QED BY <1>3, <1>4, <1>5, <1>6, <1>7 DEF Next

\* The name Copies gives to the k-th place of box b.
Spot(b, k) ==
    CASE b.in \in {"mailbox", "history"} -> <<b.in, k>>
      [] b.in \in {"turn", "task"}       -> <<b.in, b.at, k>>
      [] b.in = "buf"                    -> <<"caller", b.at, k>>
      [] b.in = "input"                  -> <<"start", b.at, k>>

LEMMA CopiesAreSpots ==
    ASSUME TypeOK, NEW i \in Inputs, NEW p \in Copies(i)
    PROVE  \E b \in Boxes : \E k \in DOMAIN Contents[b] : Contents[b][k] = i /\ p = Spot(b, k)
  <1>1. /\ \A k : Spot(BMail, k) = <<"mailbox", k>> /\ Spot(BHist, k) = <<"history", k>>
        /\ \A s, k : Spot(BTurn(s), k) = <<"turn", s, k>>
        /\ \A t, k : Spot(BTask(t), k) = <<"task", t, k>>
        /\ \A c, k : Spot(BBuf(c), k) = <<"caller", c, k>> /\ Spot(BIn(c), k) = <<"start", c, k>>
    BY DEF Spot, BMail, BHist, BTurn, BTask, BBuf, BIn
  <1>2. \A s \in DOMAIN tstate : s \in Nat /\ InputOf(tstate, s) = tstate[s].input
    BY DEF TypeOK, QueueTypes, InputOf
  <1>3. \/ \E k \in DOMAIN mailbox : mailbox[k] = i /\ p = <<"mailbox", k>>
        \/ \E k \in DOMAIN history : history[k] = i /\ p = <<"history", k>>
        \/ \E s \in DOMAIN tstate : \E k \in DOMAIN tstate[s].input :
              tstate[s].input[k] = i /\ p = <<"turn", s, k>>
        \/ \E t \in Turns : \E k \in DOMAIN task[t].buf : task[t].buf[k] = i /\ p = <<"task", t, k>>
        \/ \E c \in Callers : \E k \in DOMAIN caller[c].buf :
              caller[c].buf[k] = i /\ p = <<"caller", c, k>>
        \/ \E c \in Callers : \E k \in DOMAIN caller[c].input :
              caller[c].input[k] = i /\ p = <<"start", c, k>>
    <2> DEFINE OfTurn(s) == {<<"turn", s, k>> : k \in {k \in DOMAIN tstate[s].input :
                               tstate[s].input[k] = i}}
               OfTask(t) == {<<"task", t, k>> : k \in {k \in DOMAIN task[t].buf :
                               task[t].buf[k] = i}}
               OfCall(c) == {<<"caller", c, k>> : k \in {k \in DOMAIN caller[c].buf :
                               caller[c].buf[k] = i}}
               OfStart(c) == {<<"start", c, k>> : k \in {k \in DOMAIN caller[c].input :
                               caller[c].input[k] = i}}
    <2>1. \/ p \in {<<"mailbox", k>> : k \in {k \in DOMAIN mailbox : mailbox[k] = i}}
          \/ p \in {<<"history", k>> : k \in {k \in DOMAIN history : history[k] = i}}
          \/ p \in UNION {OfTurn(s) : s \in DOMAIN tstate}
          \/ p \in UNION {OfTask(t) : t \in Turns}
          \/ p \in UNION {OfCall(c) : c \in Callers}
          \/ p \in UNION {OfStart(c) : c \in Callers}
      BY DEF Copies
    <2>2. \A s : p \in OfTurn(s) => \E k \in DOMAIN tstate[s].input :
                                     tstate[s].input[k] = i /\ p = <<"turn", s, k>>
      OBVIOUS
    <2>3. \A t : p \in OfTask(t) => \E k \in DOMAIN task[t].buf :
                                     task[t].buf[k] = i /\ p = <<"task", t, k>>
      OBVIOUS
    <2>4. \A c : p \in OfCall(c) => \E k \in DOMAIN caller[c].buf :
                                     caller[c].buf[k] = i /\ p = <<"caller", c, k>>
      OBVIOUS
    <2>5. \A c : p \in OfStart(c) => \E k \in DOMAIN caller[c].input :
                                     caller[c].input[k] = i /\ p = <<"start", c, k>>
      OBVIOUS
    <2> HIDE DEF OfTurn, OfTask, OfCall, OfStart
    <2> QED BY <2>1, <2>2, <2>3, <2>4, <2>5
  <1>4. CASE \E k \in DOMAIN mailbox : mailbox[k] = i /\ p = <<"mailbox", k>>
    BY <1>1, <1>4, BoxesExist, ContentsAre
  <1>5. CASE \E k \in DOMAIN history : history[k] = i /\ p = <<"history", k>>
    BY <1>1, <1>5, BoxesExist, ContentsAre
  <1>6. CASE \E s \in DOMAIN tstate : \E k \in DOMAIN tstate[s].input :
               tstate[s].input[k] = i /\ p = <<"turn", s, k>>
    <2>1. PICK s \in DOMAIN tstate : \E k \in DOMAIN tstate[s].input :
            tstate[s].input[k] = i /\ p = <<"turn", s, k>>
      BY <1>6
    <2>2. BTurn(s) \in Boxes /\ Contents[BTurn(s)] = tstate[s].input
      BY <1>2, BoxesExist, ContentsAre
    <2> QED BY <1>1, <2>1, <2>2
  <1>7. CASE \E t \in Turns : \E k \in DOMAIN task[t].buf : task[t].buf[k] = i /\ p = <<"task", t, k>>
    <2>1. PICK t \in Turns : \E k \in DOMAIN task[t].buf : task[t].buf[k] = i /\ p = <<"task", t, k>>
      BY <1>7
    <2>2. BTask(t) \in Boxes /\ Contents[BTask(t)] = task[t].buf
      BY BoxesExist, ContentsAre
    <2> QED BY <1>1, <2>1, <2>2
  <1>8. CASE \E c \in Callers : \E k \in DOMAIN caller[c].buf :
               caller[c].buf[k] = i /\ p = <<"caller", c, k>>
    <2>1. PICK c \in Callers : \E k \in DOMAIN caller[c].buf :
            caller[c].buf[k] = i /\ p = <<"caller", c, k>>
      BY <1>8
    <2>2. BBuf(c) \in Boxes /\ Contents[BBuf(c)] = caller[c].buf
      BY BoxesExist, ContentsAre
    <2> QED BY <1>1, <2>1, <2>2
  <1>9. CASE \E c \in Callers : \E k \in DOMAIN caller[c].input :
               caller[c].input[k] = i /\ p = <<"start", c, k>>
    <2>1. PICK c \in Callers : \E k \in DOMAIN caller[c].input :
            caller[c].input[k] = i /\ p = <<"start", c, k>>
      BY <1>9
    <2>2. BIn(c) \in Boxes /\ Contents[BIn(c)] = caller[c].input
      BY BoxesExist, ContentsAre
    <2> QED BY <1>1, <2>1, <2>2
  <1> QED BY <1>3, <1>4, <1>5, <1>6, <1>7, <1>8, <1>9

LEMMA SingleHeldOnce == SingleInv => NoDuplicate
  <1> SUFFICES ASSUME SingleInv, NEW i \in Inputs PROVE Cardinality(Copies(i)) <= 1
    BY DEF NoDuplicate
  <1>1. ASSUME NEW p \in Copies(i), NEW r \in Copies(i) PROVE p = r
    <2>1. PICK b \in Boxes : \E k \in DOMAIN Contents[b] : Contents[b][k] = i /\ p = Spot(b, k)
      BY CopiesAreSpots DEF SingleInv
    <2>2. PICK d \in Boxes : \E k \in DOMAIN Contents[d] : Contents[d][k] = i /\ r = Spot(d, k)
      BY CopiesAreSpots DEF SingleInv
    <2>3. PICK j \in DOMAIN Contents[b] : Contents[b][j] = i /\ p = Spot(b, j)
      BY <2>1
    <2>4. PICK k \in DOMAIN Contents[d] : Contents[d][k] = i /\ r = Spot(d, k)
      BY <2>2
    <2>5. DOMAIN Contents = Boxes
      BY FilledIs DEF Contents
    <2>6. b = d /\ j = k
      BY <2>3, <2>4, <2>5 DEF SingleInv, Single
    <2> QED BY <2>3, <2>4, <2>6
  <1> DEFINE K == Copies(i)
  <1>2. \A p, r \in K : p = r
    BY <1>1
  <1> HIDE DEF K
  <1>3. CASE K = {}
    BY <1>3, FS_EmptySet DEF K
  <1>4. CASE K # {}
    <2>1. PICK p : p \in K
      BY <1>4
    <2>2. K = {p}
      BY <1>2, <2>1
    <2> QED BY <2>2, FS_Singleton DEF K
  <1> QED BY <1>3, <1>4

\* Every input is in at most one place, for every set of turns, callers and
\* inputs: the drains of start_task, of the sampling loop and of
\* on_task_finished move what they take, whoever they interleave with.
THEOREM InputsHeldOnce == Spec => []NoDuplicate
  <1>1. Init => SingleInv
    BY InitSingle
  <1>2. SingleInv /\ [Next]_vars => SingleInv'
    BY NextSingle
  <1>3. SingleInv => NoDuplicate
    BY SingleHeldOnce
  <1> QED BY <1>1, <1>2, <1>3, PTL DEF Spec

-----------------------------------------------------------------------------
(* Steered input, in sessions in which only the loop starts and aborts     *)
(* turns.                                                                  *)
(*                                                                         *)
(* Inductive strengthening: a task that is about to take the rest of its   *)
(* input shares its TurnState with no other such task, no active task and  *)
(* no abort of the loop; and input steered into a turn that nobody aborts  *)
(* is recorded, refused, in the hands of the turn's task, or in the        *)
(* TurnState that this task, and no one else, will take.                   *)

Taking(t) == task[t].pc = "finInput"

AbortPcs == {"abortWait", "abortEmit", "abortClear"}

OwnInv ==
    /\ \A t, u \in Turns : Taking(t) /\ Taking(u) /\ task[t].ts = task[u].ts => t = u
    /\ \A t \in Turns : Taking(t) /\ active.state = task[t].ts =>
          active.task = NoTask /\ caller[Loop].pc \notin OwnsTurn
    /\ \A t \in Turns : Taking(t) /\ caller[Loop].pc \in AbortPcs =>
          caller[Loop].ts # task[t].ts

RecordsInput == {"drainMail", "recordPending", "finRecord"}

Kept(i, u) ==
    \/ task[u].pc \in RecordsInput /\ i \in ToSet(task[u].buf)
    \/ active.task = u /\ i \in ToSet(tstate[active.state].input)
    \/ Taking(u) /\ i \in ToSet(tstate[task[u].ts].input)

Settled(i) == i \in ToSet(history) \/ i \in blocked

KeptInv ==
    \A i \in UserInputs : \A u \in Turns : steered[i] = u =>
        /\ task[u].pc # "unborn"
        /\ task[u].cancelled \/ Settled(i) \/ Kept(i, u)

SteerInv == SerialInv /\ OwnInv /\ KeptInv

\* The elements of a sequence.
LEMMA ElementsOf ==
    ASSUME NEW S
    PROVE  /\ ToSet(<<>>) = {}
           /\ \A q \in Seq(S) : \A e \in S : ToSet(Append(q, e)) = ToSet(q) \cup {e}
           /\ \A p, q \in Seq(S) : ToSet(p) \subseteq ToSet(p \o q)
           /\ \A q \in Seq(S) : q # <<>> => ToSet(q) \subseteq {Head(q)} \cup ToSet(Tail(q))
  <1>1. \A q : ToSet(q) = {q[k] : k \in DOMAIN q}
    BY DEF ToSet
  <1>2. ASSUME NEW q \in Seq(S), NEW e \in S PROVE ToSet(Append(q, e)) = ToSet(q) \cup {e}
    <2> DEFINE n == Len(q) + 1
    <2>1. /\ DOMAIN q = 1 .. Len(q) /\ Len(q) \in Nat /\ DOMAIN Append(q, e) = 1 .. n
          /\ Append(q, e)[n] = e /\ \A k \in 1 .. Len(q) : Append(q, e)[k] = q[k]
      OBVIOUS
    <2>2. \A k \in 1 .. n : k \in 1 .. Len(q) \/ k = n
      BY <2>1
    <2>3. n \in 1 .. n /\ \A k \in 1 .. Len(q) : k \in 1 .. n
      BY <2>1
    <2> HIDE DEF n
    <2> QED BY <1>1, <2>1, <2>2, <2>3
  <1>3. ASSUME NEW p \in Seq(S), NEW q \in Seq(S) PROVE ToSet(p) \subseteq ToSet(p \o q)
    <2>1. \A k \in DOMAIN p : k \in DOMAIN (p \o q) /\ (p \o q)[k] = p[k]
      OBVIOUS
    <2> QED BY <1>1, <2>1
  <1>4. ASSUME NEW q \in Seq(S), q # <<>> PROVE ToSet(q) \subseteq {Head(q)} \cup ToSet(Tail(q))
    <2> SUFFICES ASSUME NEW k \in DOMAIN q PROVE q[k] \in {Head(q)} \cup ToSet(Tail(q))
      BY <1>1
    <2> DEFINE r == Tail(q)
               j == k - 1
    <2>1. k \in 1 .. Len(q) /\ Len(q) \in Nat
      OBVIOUS
    <2>2. CASE k = 1
      BY <1>4, <2>2
    <2>3. CASE k # 1
      <3>1. j \in DOMAIN r /\ r[j] = q[k]
        BY <1>4, <2>1, <2>3
      <3> HIDE DEF j, r
      <3>2. q[k] \in ToSet(r)
        BY <1>1, <3>1
      <3> QED BY <3>2 DEF r
    <2> QED BY <2>2, <2>3
  <1>5. ToSet(<<>>) = {}
    BY <1>1
  <1> QED BY <1>2, <1>3, <1>4, <1>5

\* Steps that make no task take the rest of its input.
LEMMA OwnFrame ==
    ASSUME OwnInv, TypeOK,
           \A t \in Turns : task'[t].pc = "finInput" => Taking(t) /\ task'[t].ts = task[t].ts,
           \/ active'.state \in {0, Len(tstate) + 1}
           \/ /\ active'.state = active.state
              /\ \/ /\ active'.task = active.task
                    /\ caller'[Loop].pc \in OwnsTurn => caller[Loop].pc \in OwnsTurn
                 \/ caller[Loop].pc \in OwnsTurn,
           caller'[Loop].pc \in AbortPcs =>
              \/ caller[Loop].pc \in AbortPcs /\ caller'[Loop].ts = caller[Loop].ts
              \/ active.task # NoTask /\ caller'[Loop].ts = active.state
    PROVE  OwnInv'
  <1>1. \A t \in Turns : Taking(t) => task[t].ts # 0 /\ task[t].ts # Len(tstate) + 1
    BY LenNat DEF TypeOK, TaskTypes, Taking
  <1> DEFINE T(t) == task'[t].pc = "finInput"
  <1>2. \A t \in Turns : T(t) => Taking(t) /\ task'[t].ts = task[t].ts
    OBVIOUS
  <1>3. \A t, u \in Turns : T(t) /\ T(u) /\ task'[t].ts = task'[u].ts => t = u
    BY <1>2 DEF OwnInv
  <1>4. \A t \in Turns : T(t) /\ active'.state = task'[t].ts =>
          active'.task = NoTask /\ caller'[Loop].pc \notin OwnsTurn
    BY <1>1, <1>2 DEF OwnInv
  <1>5. \A t \in Turns : T(t) /\ caller'[Loop].pc \in AbortPcs => caller'[Loop].ts # task'[t].ts
    BY <1>2 DEF OwnInv
  <1> QED BY <1>3, <1>4, <1>5 DEF OwnInv, Taking

SameTask(u) ==
    /\ task'[u].pc = task[u].pc /\ task'[u].buf = task[u].buf
    /\ task'[u].ts = task[u].ts /\ task'[u].cancelled = task[u].cancelled

\* The inputs of the TurnStates outside Z are still there.
InputsGrow(Z) ==
    \A s \in DOMAIN tstate \ Z :
        s \in DOMAIN tstate' /\ ToSet(tstate[s].input) \subseteq ToSet(tstate'[s].input)

\* A step of task t, or of no task, that may empty the TurnStates in Z.
LEMMA KeptFrame ==
    ASSUME KeptInv, TypeOK, UNCHANGED steered, NEW t, NEW Z,
           \A i \in UserInputs : Settled(i) => Settled(i)',
           \A u \in Turns : u # t => SameTask(u) \/ (task'[u].pc # "unborn" /\ task'[u].cancelled),
           InputsGrow(Z),
           \A u \in Turns : u # t /\ Taking(u) => task[u].ts \notin Z,
           \A u \in Turns : u # t /\ active.task = u =>
               \/ active' = active /\ active.state \notin Z
               \/ task'[u].cancelled,
           t \in Turns /\ task[t].pc # "unborn" =>
               /\ task'[t].pc # "unborn"
               /\ task[t].cancelled => task'[t].cancelled
               /\ \A i \in UserInputs : Kept(i, t) => task'[t].cancelled \/ Settled(i)' \/ Kept(i, t)'
    PROVE  KeptInv'
  <1> SUFFICES ASSUME NEW i \in UserInputs, NEW u \in Turns, steered[i] = u
               PROVE  /\ task'[u].pc # "unborn"
                      /\ task'[u].cancelled \/ Settled(i)' \/ Kept(i, u)'
    BY DEF KeptInv
  <1>1. task[u].pc # "unborn" /\ (task[u].cancelled \/ Settled(i) \/ Kept(i, u))
    BY DEF KeptInv
  <1>2. CASE u = t
    BY <1>1, <1>2
  <1>3. CASE u # t
    <2>1. task'[u].pc # "unborn" /\ (task[u].cancelled => task'[u].cancelled)
      BY <1>1, <1>3 DEF SameTask
    <2>2. ASSUME SameTask(u), Kept(i, u), ~task'[u].cancelled PROVE Kept(i, u)'
      <3>1. CASE task[u].pc \in RecordsInput /\ i \in ToSet(task[u].buf)
        BY <2>2, <3>1 DEF SameTask, Kept
      <3>2. CASE active.task = u /\ i \in ToSet(tstate[active.state].input)
        <4>1. active' = active /\ active.state \notin Z
          BY <1>3, <2>2, <3>2
        <4>2. active.state \in DOMAIN tstate
          BY <3>2, ActiveType, ActiveState, ConstantsAssumption DEF TypeOK, ConstantsAssumption
        <4> QED BY <3>2, <4>1, <4>2 DEF Kept, InputsGrow
      <3>3. CASE Taking(u) /\ i \in ToSet(tstate[task[u].ts].input)
        <4>1. task[u].ts \notin Z /\ task[u].ts \in DOMAIN tstate
          BY <1>3, <3>3, LenNat DEF TypeOK, TaskTypes, QueueTypes, Taking
        <4> QED BY <2>2, <3>3, <4>1 DEF Kept, InputsGrow, SameTask, Taking
      <3> QED BY <2>2, <3>1, <3>2, <3>3 DEF Kept
    <2> QED BY <1>1, <1>3, <2>1, <2>2
  <1> QED BY <1>2, <1>3

\* What the steps do to the inputs of the TurnStates.
LEMMA InputsSame == UNCHANGED tstate => InputsGrow({})
  BY DEF InputsGrow

LEMMA InputsNew ==
    ASSUME TypeOK, tstate' = Append(tstate, DefaultTurnState)
    PROVE  InputsGrow({})
  <1>1. tstate \in Seq(TurnState)
    BY DEF TypeOK, QueueTypes
  <1>2. \A s \in DOMAIN tstate : s \in DOMAIN tstate' /\ tstate'[s] = tstate[s]
    BY <1>1
  <1> QED BY <1>2 DEF InputsGrow

LEMMA InputsReplace ==
    ASSUME TypeOK, NEW k, NEW r, tstate' = [tstate EXCEPT ![k] = r],
           NEW Z, k \in Z \/ ToSet(tstate[k].input) \subseteq ToSet(r.input)
    PROVE  InputsGrow(Z)
  <1>1. DOMAIN tstate' = DOMAIN tstate
    BY DEF TypeOK, QueueTypes
  <1>2. \A s \in DOMAIN tstate : tstate'[s] = IF s = k THEN r ELSE tstate[s]
    BY DEF TypeOK, QueueTypes
  <1> QED BY <1>1, <1>2 DEF InputsGrow

LEMMA InputsPhase ==
    ASSUME TypeOK, NEW k, NEW ph, tstate' = [tstate EXCEPT ![k].phase = ph]
    PROVE  InputsGrow({})
  <1>1. \A s \in DOMAIN tstate : tstate[s] \in TurnState
    BY DEF TypeOK, QueueTypes
  <1>2. DOMAIN tstate' = DOMAIN tstate /\ \A s \in DOMAIN tstate : tstate'[s].input = tstate[s].input
    BY <1>1 DEF TurnState
  <1> QED BY <1>2 DEF InputsGrow

\* A task that still works is the active one, or the loop waits for its end.
LEMMA WorkerOwns ==
    ASSUME SerialInv, NEW t \in Turns, task[t].pc \in Working
    PROVE  \/ active.task = t /\ t # NoTask
           \/ active.task = NoTask /\ caller[Loop].pc \in OwnsTurn
  <1>1. CASE task[t].cancelled
    BY <1>1 DEF SerialInv, OwnsTurn
  <1>2. CASE ~task[t].cancelled
    BY <1>2, ConstantsAssumption DEF SerialInv, LiveTaskIsActive, Live, ConstantsAssumption
  <1> QED BY <1>1, <1>2

\* Task steps after which what the task had in hand is where it was.
LEMMA SteerTaskQuiet ==
    ASSUME SteerInv, NEW t \in Turns, TaskView(t), UNCHANGED <<steered, history, blocked>>,
           InputsGrow({}), active' = active \/ (active.task = NoTask /\ active' = NoTurn),
           task[t].pc \notin {"drainMail", "finInput"}, task'[t].pc # "finInput",
           task[t].pc \in RecordsInput => task[t].buf = <<>>
    PROVE  OwnInv' /\ KeptInv'
  <1>0. TypeOK /\ NoTurn.state = 0
    BY DEF SteerInv, SerialInv, LiveInv, NoTurn
  <1>1. /\ \A u \in Turns : u # t => task'[u] = task[u]
        /\ task'[t].pc # "finInput" /\ task'[t].pc # "unborn" /\ task[t].pc # "unborn"
        /\ task'[t].cancelled = task[t].cancelled /\ UNCHANGED caller
    BY DEF TaskView, Working
  <1>2. OwnInv'
    BY <1>0, <1>1, OwnFrame DEF SteerInv, Taking
  <1>3. \A i : Settled(i)' = Settled(i)
    BY DEF Settled
  <1>4. ASSUME NEW i \in UserInputs, Kept(i, t) PROVE Kept(i, t)'
    <2>1. active.task = t /\ i \in ToSet(tstate[active.state].input)
      BY <1>4, ElementsOf DEF Kept, Taking
    <2>2. active' = active /\ active.state \in DOMAIN tstate
      BY <1>0, <2>1, ActiveType, ActiveState, ConstantsAssumption DEF TypeOK, ConstantsAssumption
    <2> QED BY <2>1, <2>2 DEF Kept, InputsGrow
  <1>5. \A u \in Turns : active.task = u => active' = active
    BY ConstantsAssumption DEF ConstantsAssumption
  <1>6. \A u \in Turns : u # t => SameTask(u)
    BY <1>1 DEF SameTask
  <1>7. KeptInv'
    BY <1>0, <1>1, <1>3, <1>4, <1>5, <1>6, KeptFrame DEF SteerInv
  <1> QED BY <1>2, <1>7

LEMMA SteerQuietSteps ==
    ASSUME SteerInv, NEW t \in Turns, TaskView(t),
           \/ BeginTurn(t) \/ GiveUp(t)
           \/ RecordDone(t) \/ DeferMailboxDelivery(t) \/ AcceptMailboxDelivery(t)
           \/ SampleFollowUp(t) \/ SampleCompact(t) \/ SampleStop(t) \/ SampleError(t)
           \/ ExitCheck(t) \/ CheckCancelled(t)
           \/ (FinishTake(t) /\ active.task = NoTask) \/ FinishEvent(t) \/ FinishClear(t)
           \/ (Drain(t) /\ ~task[t].canDrain)
    PROVE  OwnInv' /\ KeptInv'
  <1>1. TypeOK
    BY DEF SteerInv, SerialInv, LiveInv
  <1>2. UNCHANGED <<steered, history, blocked>>
    BY DEF BeginTurn, GiveUp, RecordDone, DeferMailboxDelivery, AcceptMailboxDelivery, SampleFollowUp,
           SampleCompact, SampleStop, SampleError, ExitCheck, CheckCancelled, FinishTake,
           FinishEvent, FinishClear, Drain, TaskOnly, Recorded
  <1>3. InputsGrow({})
    <2>1. CASE DeferMailboxDelivery(t) \/ AcceptMailboxDelivery(t)
      <3>1. \E ph : tstate' = [tstate EXCEPT ![active.state].phase = ph]
        BY <2>1 DEF DeferMailboxDelivery, AcceptMailboxDelivery
      <3> QED BY <1>1, <3>1, InputsPhase
    <2>2. CASE ~(DeferMailboxDelivery(t) \/ AcceptMailboxDelivery(t))
      <3>1. UNCHANGED tstate
        BY <2>2 DEF BeginTurn, GiveUp, RecordDone, SampleFollowUp, SampleCompact, SampleStop, SampleError,
                    ExitCheck, CheckCancelled, FinishTake, FinishEvent, FinishClear, Drain,
                    QueuesUnchanged
      <3> QED BY <3>1, InputsSame
    <2> QED BY <2>1, <2>2
  <1>4. active' = active \/ (active.task = NoTask /\ active' = NoTurn)
    BY DEF BeginTurn, GiveUp, RecordDone, DeferMailboxDelivery, AcceptMailboxDelivery, SampleFollowUp,
           SampleCompact, SampleStop, SampleError, ExitCheck, CheckCancelled, FinishTake,
           FinishEvent, FinishClear, Drain, QueuesUnchanged
  <1>5. task[t].pc \notin {"drainMail", "finInput"}
    BY DEF BeginTurn, GiveUp, RecordDone, DeferMailboxDelivery, AcceptMailboxDelivery, SampleFollowUp,
           SampleCompact, SampleStop, SampleError, ExitCheck, CheckCancelled, FinishTake,
           FinishEvent, FinishClear, Drain, Runs
  <1>6. task[t].pc \in RecordsInput => task[t].buf = <<>>
    BY DEF BeginTurn, GiveUp, RecordDone, DeferMailboxDelivery, AcceptMailboxDelivery, SampleFollowUp,
           SampleCompact, SampleStop, SampleError, ExitCheck, CheckCancelled, FinishTake,
           FinishEvent, FinishClear, Drain, Runs, RecordsInput
  <1>7. task'[t].pc # "finInput"
    <2>1. ~(task[t].pc = "finTake" /\ active.task # NoTask)
      BY DEF BeginTurn, GiveUp, RecordDone, DeferMailboxDelivery, AcceptMailboxDelivery, SampleFollowUp,
             SampleCompact, SampleStop, SampleError, ExitCheck, CheckCancelled, FinishTake,
             FinishEvent, FinishClear, Drain, Runs
    <2> QED BY <2>1 DEF TaskView, Working
  <1> QED BY <1>2, <1>3, <1>4, <1>5, <1>6, <1>7, SteerTaskQuiet

\* The steps that change what a task has in hand, or where its input is.
LEMMA SteerRecordOne ==
    ASSUME SteerInv, NEW t \in Turns, TaskView(t), RecordOne(t)
    PROVE  OwnInv' /\ KeptInv'
  <1>1. TypeOK /\ UNCHANGED <<active, tstate, caller, steered>>
    BY DEF SteerInv, SerialInv, LiveInv, RecordOne, QueuesUnchanged, TaskOnly
  <1>0. PICK e : e = Head(task[t].buf)
    OBVIOUS
  <1>2. /\ task[t].buf # <<>> /\ task[t].buf \in Seq(Inputs)
        /\ task[t].pc \in {"recordInput", "recordPending", "finRecord"}
    BY <1>1, TaskHasType DEF RecordOne, Runs, TypeOK
  <1>3. /\ task'[t].buf = Tail(task[t].buf) /\ task'[t].pc = task[t].pc
        /\ \A u \in Turns : u # t => task'[u] = task[u]
        /\ task'[t].cancelled = task[t].cancelled
    <2>1. task[t] \in Task /\ task \in [Turns -> Task]
      BY <1>1, TaskHasType DEF TypeOK, TaskTypes
    <2>2. \E h : task' = [task EXCEPT ![t] = [task[t] EXCEPT !.buf = Tail(task[t].buf), !.hook = h]]
      BY Zenon DEF RecordOne
    <2>3. \A h : /\ [task[t] EXCEPT !.buf = Tail(task[t].buf), !.hook = h].buf = Tail(task[t].buf)
                 /\ [task[t] EXCEPT !.buf = Tail(task[t].buf), !.hook = h].pc = task[t].pc
                 /\ [task[t] EXCEPT !.buf = Tail(task[t].buf), !.hook = h].cancelled = task[t].cancelled
      BY <2>1 DEF Task
    <2> QED BY <2>1, <2>2, <2>3
  <1>4. /\ \A i : Settled(i) => Settled(i)'
        /\ Settled(e)'
    <2>1. \/ history' = Append(history, e) /\ blocked' = blocked
          \/ blocked' = blocked \cup {e} /\ history' = history
      BY <1>0 DEF RecordOne
    <2>2. history \in Seq(Inputs) /\ e \in Inputs
      BY <1>0, <1>1, <1>2 DEF TypeOK, LedgerTypes
    <2>3. history' = Append(history, e) => ToSet(history') = ToSet(history) \cup {e}
      BY <2>2, ElementsOf
    <2> QED BY <2>1, <2>3 DEF Settled
  <1>5. ToSet(task[t].buf) \subseteq {e} \cup ToSet(task'[t].buf)
    BY <1>0, <1>2, <1>3, ElementsOf
  <1>6. OwnInv'
    BY <1>1, <1>2, <1>3, OwnFrame DEF SteerInv, Taking
  <1>7. ASSUME NEW i \in UserInputs, Kept(i, t) PROVE Settled(i)' \/ Kept(i, t)'
    BY <1>1, <1>2, <1>3, <1>4, <1>5, <1>7 DEF Kept, Taking, RecordsInput
  <1>8. \A u \in Turns : u # t => SameTask(u)
    BY <1>3 DEF SameTask
  <1>9. KeptInv'
    BY <1>1, <1>2, <1>3, <1>4, <1>7, <1>8, InputsSame, KeptFrame DEF SteerInv
  <1> QED BY <1>6, <1>9

LEMMA SteerDrainMail ==
    ASSUME SteerInv, NEW t \in Turns, TaskView(t), DrainMail(t)
    PROVE  OwnInv' /\ KeptInv'
  <1>1. TypeOK /\ UNCHANGED <<active, tstate, caller, steered, history, blocked>>
    BY DEF SteerInv, SerialInv, LiveInv, DrainMail, TaskOnly, Recorded
  <1>2. /\ task[t].pc = "drainMail" /\ task'[t].pc = "recordPending"
        /\ task'[t].buf = task[t].buf \o mailbox
        /\ task'[t].cancelled = task[t].cancelled
        /\ \A u \in Turns : u # t => task'[u] = task[u]
    BY <1>1, TaskHasType DEF DrainMail, Runs, TypeOK, TaskTypes, Task
  <1>3. ToSet(task[t].buf) \subseteq ToSet(task'[t].buf)
    <2>1. task[t].buf \in Seq(Inputs) /\ mailbox \in Seq(Inputs)
      <3>1. Mails \subseteq Inputs /\ mailbox \in Seq(Mails)
        BY <1>1 DEF Inputs, TypeOK, QueueTypes
      <3> QED BY <1>1, <3>1, TaskHasType DEF TypeOK
    <2> QED BY <1>2, <2>1, ElementsOf
  <1>4. OwnInv'
    BY <1>1, <1>2, OwnFrame DEF SteerInv, Taking
  <1>5. ASSUME NEW i \in UserInputs, Kept(i, t) PROVE Kept(i, t)'
    BY <1>1, <1>2, <1>3, <1>5 DEF Kept, Taking, RecordsInput
  <1>6. \A u \in Turns : u # t => SameTask(u)
    BY <1>2 DEF SameTask
  <1>7. \A i : Settled(i)' = Settled(i)
    BY <1>1 DEF Settled
  <1>8. KeptInv'
    BY <1>1, <1>2, <1>5, <1>6, <1>7, InputsSame, KeptFrame DEF SteerInv
  <1> QED BY <1>4, <1>8

\* get_pending_input hands the input of the turn to the task that runs it.
LEMMA SteerDrain ==
    ASSUME SteerInv, NEW t \in Turns, TaskView(t), Drain(t), task[t].canDrain
    PROVE  OwnInv' /\ KeptInv'
  <1>1. TypeOK /\ UNCHANGED <<active, caller, steered, history, blocked>>
    BY DEF SteerInv, SerialInv, LiveInv, Drain, TaskOnly, Recorded
  <1>2. /\ task[t].pc = "drain" /\ task'[t].pc \in {"drainMail", "recordPending"}
        /\ task'[t].buf = TurnPending
        /\ task'[t].cancelled = task[t].cancelled
        /\ \A u \in Turns : u # t => task'[u] = task[u]
    BY <1>1, TaskHasType DEF Drain, Runs, TypeOK, TaskTypes, Task
  <1>3. \/ active.task = t /\ t # NoTask
        \/ active.task = NoTask /\ caller[Loop].pc \in OwnsTurn
    BY <1>2, WorkerOwns DEF SteerInv, Working
  <1>4. OwnInv'
    BY <1>1, <1>2, OwnFrame DEF SteerInv, Taking
  <1>5. InputsGrow({active.state})
    <2>1. tstate' = TurnPendingTaken
      BY DEF Drain
    <2>2. CASE active.state = 0
      BY <2>1, <2>2 DEF TurnPendingTaken, InputsGrow
    <2>3. CASE active.state # 0
      <3>1. \E r : tstate' = [tstate EXCEPT ![active.state] = r]
        BY <2>1, <2>3 DEF TurnPendingTaken
      <3> QED BY <1>1, <3>1, InputsReplace
    <2> QED BY <2>2, <2>3
  <1>6. \A u \in Turns : Taking(u) => task[u].ts # active.state
    BY <1>3 DEF SteerInv, OwnInv
  <1>7. ASSUME NEW i \in UserInputs, Kept(i, t) PROVE Kept(i, t)'
    <2>1. active.task = t /\ i \in ToSet(tstate[active.state].input)
      BY <1>2, <1>7 DEF Kept, Taking, RecordsInput
    <2>2. active.state # 0
      BY <1>1, <2>1, ActiveType, ConstantsAssumption DEF TypeOK, ConstantsAssumption
    <2> QED BY <1>2, <2>1, <2>2 DEF Kept, RecordsInput, TurnPending
  <1>8. \A u \in Turns : u # t => SameTask(u) /\ active.task # u
    BY <1>2, <1>3, ConstantsAssumption DEF SameTask, ConstantsAssumption
  <1>9. \A i : Settled(i)' = Settled(i)
    BY <1>1 DEF Settled
  <1>10. KeptInv'
    BY <1>1, <1>2, <1>5, <1>6, <1>7, <1>8, <1>9, KeptFrame DEF SteerInv
  <1> QED BY <1>4, <1>10

\* on_task_finished takes the task of its own turn, whose input it will take.
LEMMA SteerFinishTake ==
    ASSUME SteerInv, NEW t \in Turns, TaskView(t), FinishTake(t), active.task # NoTask
    PROVE  OwnInv' /\ KeptInv'
  <1>1. TypeOK /\ UNCHANGED <<tstate, caller, steered, history, blocked>>
    BY DEF SteerInv, SerialInv, LiveInv, FinishTake, TaskOnly, Recorded
  <1>2. /\ task[t].pc = "finTake" /\ task'[t].pc = "finInput" /\ task'[t].ts = active.state
        /\ task'[t].cancelled = task[t].cancelled
        /\ \A u \in Turns : u # t => task'[u] = task[u]
        /\ active'.task = NoTask /\ active'.state = active.state
    BY <1>1, TaskHasType, ActiveType DEF FinishTake, Runs, TypeOK, TaskTypes, Task
  <1>3. active.task = t /\ caller[Loop].pc \notin OwnsTurn
    BY <1>2, WorkerOwns DEF SteerInv, SerialInv, Working
  <1>4. \A u \in Turns : u # t => (task'[u].pc = "finInput" <=> Taking(u)) /\ task'[u].ts = task[u].ts
    BY <1>2 DEF Taking
  <1>5. \A u \in Turns : Taking(u) => task[u].ts # active.state
    BY DEF SteerInv, OwnInv
  <1>6. AbortPcs \subseteq OwnsTurn
    BY DEF AbortPcs, OwnsTurn
  <1>7. OwnInv'
    <2>1. \A u, v \in Turns : task'[u].pc = "finInput" /\ task'[v].pc = "finInput"
                                /\ task'[u].ts = task'[v].ts => u = v
      BY <1>2, <1>4, <1>5 DEF SteerInv, OwnInv
    <2> QED BY <1>1, <1>2, <1>3, <1>6, <2>1 DEF OwnInv, Taking
  <1>8. ASSUME NEW i \in UserInputs, Kept(i, t) PROVE Kept(i, t)'
    BY <1>1, <1>2, <1>8 DEF Kept, Taking, RecordsInput
  <1>9. \A u \in Turns : u # t => SameTask(u) /\ active.task # u
    BY <1>2, <1>3 DEF SameTask
  <1>10. \A i : Settled(i)' = Settled(i)
    BY <1>1 DEF Settled
  <1>11. KeptInv'
    BY <1>1, <1>2, <1>8, <1>9, <1>10, InputsSame, KeptFrame DEF SteerInv
  <1> QED BY <1>7, <1>11

LEMMA SteerFinishInput ==
    ASSUME SteerInv, NEW t \in Turns, TaskView(t), FinishInput(t)
    PROVE  OwnInv' /\ KeptInv'
  <1>1. TypeOK /\ UNCHANGED <<active, caller, steered, history, blocked>>
    BY DEF SteerInv, SerialInv, LiveInv, FinishInput, TaskOnly, Recorded
  <1> DEFINE k == task[t].ts
  <1>2. /\ task[t].pc = "finInput" /\ task'[t].pc = "finRecord"
        /\ task'[t].buf = tstate[k].input
        /\ task'[t].cancelled = task[t].cancelled
        /\ \A u \in Turns : u # t => task'[u] = task[u]
    BY <1>1, TaskHasType DEF FinishInput, Runs, TypeOK, TaskTypes, Task
  <1>3. InputsGrow({k})
    <2>1. \E r : tstate' = [tstate EXCEPT ![k] = r]
      BY DEF FinishInput
    <2> QED BY <1>1, <2>1, InputsReplace
  <1>4. \A u \in Turns : u # t /\ Taking(u) => task[u].ts # k
    BY <1>2 DEF SteerInv, OwnInv, Taking
  <1>5. active.state = k => active.task = NoTask
    BY <1>2 DEF SteerInv, OwnInv, Taking
  <1>6. OwnInv'
    BY <1>1, <1>2, OwnFrame DEF SteerInv, Taking
  <1>7. ASSUME NEW i \in UserInputs, Kept(i, t) PROVE Kept(i, t)'
    <2>1. active.task # t
      BY <1>1, <1>2, ConstantsAssumption
         DEF SteerInv, SerialInv, LiveInv, ActiveTaskIsLive, Live, Working, ConstantsAssumption
    <2> QED BY <1>2, <1>7, <2>1 DEF Kept, Taking, RecordsInput
  <1>8. \A u \in Turns : u # t => SameTask(u)
    BY <1>2 DEF SameTask
  <1>9. \A i : Settled(i)' = Settled(i)
    BY <1>1 DEF Settled
  <1>10. \A u \in Turns : active.task = u => active.state # k
    BY <1>5, ConstantsAssumption DEF ConstantsAssumption
  <1> HIDE DEF k
  <1>11. KeptInv'
    BY <1>1, <1>2, <1>3, <1>4, <1>7, <1>8, <1>9, <1>10, KeptFrame DEF SteerInv
  <1> QED BY <1>6, <1>11

LEMMA SteerTaskStep ==
    ASSUME SteerInv, NEW t \in Turns, TaskStep(t)
    PROVE  OwnInv' /\ KeptInv'
  <1>1. TaskView(t)
    BY TaskStepView DEF SteerInv, SerialInv, LiveInv
  <1> QED
    BY <1>1, SteerQuietSteps, SteerRecordOne, SteerDrainMail, SteerDrain, SteerFinishTake,
       SteerFinishInput DEF TaskStep

\* Steps of the loop that touch no task.
LEMMA SteerCallKeeps ==
    ASSUME SteerInv, UNCHANGED <<task, steered, history, blocked>>, NEW Z, InputsGrow(Z),
           \A u \in Turns : Taking(u) => task[u].ts \notin Z,
           active.task # NoTask => active' = active /\ active.state \notin Z,
           \/ active'.state \in {0, Len(tstate) + 1}
           \/ /\ active' = active
              /\ caller'[Loop].pc \in OwnsTurn => caller[Loop].pc \in OwnsTurn,
           caller'[Loop].pc \in AbortPcs =>
              caller[Loop].pc \in AbortPcs /\ caller'[Loop].ts = caller[Loop].ts
    PROVE  OwnInv' /\ KeptInv'
  <1>1. TypeOK
    BY DEF SteerInv, SerialInv, LiveInv
  <1>2. OwnInv'
    BY <1>1, OwnFrame DEF SteerInv, Taking
  <1>3. \A i : Settled(i)' = Settled(i)
    BY DEF Settled
  <1>4. NoTask \notin Turns /\ \A u \in Turns : SameTask(u)
    BY ConstantsAssumption DEF SameTask, ConstantsAssumption
  <1>5. KeptInv'
    BY <1>1, <1>3, <1>4, KeptFrame DEF SteerInv
  <1> QED BY <1>2, <1>5

LEMMA SteerAbortTake ==
    ASSUME SteerInv, AbortTake(Loop)
    PROVE  OwnInv' /\ KeptInv'
  <1>1. /\ TypeOK /\ UNCHANGED <<tstate, steered, history, blocked>>
        /\ active'.state = 0 /\ Loop \in Callers /\ caller[Loop].pc = "abortTake"
    BY LoopIsCaller DEF SteerInv, SerialInv, LiveInv, AbortTake, TakeAndCancel, NoTurn, CallerOnly, At
  <1>2. CASE active.task = NoTask
    <2>1. UNCHANGED task /\ caller'[Loop].pc \in {"idle", "startDrain"}
      BY <1>1, <1>2 DEF AbortTake, Return, Goto, IdleCaller, TypeOK, CallerTypes, Caller
    <2>2. caller'[Loop].pc \notin AbortPcs
      BY <2>1 DEF AbortPcs
    <2> QED BY <1>1, <1>2, <2>1, <2>2, InputsSame, SteerCallKeeps
  <1>3. CASE active.task # NoTask
    <2> DEFINE v == active.task
    <2>1. /\ v \in Turns /\ task'[v].cancelled /\ task'[v].pc = task[v].pc
          /\ task'[v].ts = task[v].ts
          /\ \A u \in Turns : u # v => task'[u] = task[u]
          /\ caller'[Loop].ts = active.state
      BY <1>1, <1>3, TaskHasType, ActiveType, CallerHasType
         DEF AbortTake, TakeAndCancel, TypeOK, TaskTypes, Task, CallerTypes, Caller
    <2>2. task[v].pc # "unborn"
      BY <1>3 DEF SteerInv, SerialInv, LiveInv, ActiveTaskIsLive, Live, Working
    <2>3. OwnInv'
      <3>1. \A u \in Turns : task'[u].pc = task[u].pc /\ task'[u].ts = task[u].ts
        BY <2>1
      <3> QED BY <1>1, <1>3, <2>1, <3>1, OwnFrame DEF SteerInv, Taking
    <2>4. \A i : Settled(i)' = Settled(i)
      BY <1>1 DEF Settled
    <2>5. \A u \in Turns : u # v => SameTask(u)
      BY <2>1 DEF SameTask
    <2> HIDE DEF v
    <2>6. KeptInv'
      BY <1>1, <2>1, <2>2, <2>4, <2>5, InputsSame, KeptFrame DEF SteerInv, v
    <2> QED BY <2>3, <2>6
  <1> QED BY <1>2, <1>3

\* The loop kills, or reports the end of, a task that it has cancelled.
LEMMA SteerVictim ==
    ASSUME SteerInv, AbortKill(Loop) \/ AbortEmit(Loop)
    PROVE  OwnInv' /\ KeptInv'
  <1>1. /\ TypeOK /\ UNCHANGED <<active, tstate, steered, history, blocked>>
        /\ Loop \in Callers /\ caller[Loop].pc \in UsesVictim
    BY LoopIsCaller
       DEF SteerInv, SerialInv, LiveInv, AbortKill, AbortEmit, CallerOnly, At, UsesVictim
  <1> DEFINE v == caller[Loop].victim
  <1>2. v \in Turns /\ task[v].cancelled /\ task[v].pc # "unborn"
    BY <1>1, VictimIsTurn DEF SteerInv, SerialInv, LiveInv, VictimsCancelled
  <1>3. /\ task'[v].cancelled
        /\ \/ task'[v].pc = "done"
           \/ task'[v].pc = task[v].pc /\ task'[v].ts = task[v].ts
        /\ \A u \in Turns : u # v => task'[u] = task[u]
    <2>1. CASE AbortKill(Loop)
      <3>1. task' = [task EXCEPT ![v] = EndedTask(v)]
        BY <2>1 DEF AbortKill
      <3> QED BY <1>1, <1>2, <3>1, TaskEnds DEF TypeOK
    <2>2. CASE AbortEmit(Loop)
      <3>1. \E e : task' = [task EXCEPT ![v] = [task[v] EXCEPT !.ends = e]]
        BY <2>2 DEF AbortEmit
      <3>2. \A e : LET r == [task[v] EXCEPT !.ends = e]
                   IN  r.cancelled = task[v].cancelled /\ r.pc = task[v].pc /\ r.ts = task[v].ts
        BY <1>1, <1>2, TaskHasType DEF TypeOK, Task
      <3> QED BY <1>1, <1>2, <3>1, <3>2, TaskReplaced DEF TypeOK
    <2> QED BY <2>1, <2>2
  <1>4. caller[Loop].pc \in AbortPcs /\ caller'[Loop].ts = caller[Loop].ts
    BY <1>1, CallerHasType DEF AbortKill, AbortEmit, Goto, UsesVictim, AbortPcs, TypeOK, CallerTypes, Caller
  <1>5. OwnInv'
    <2>1. \A u \in Turns : task'[u].pc = "finInput" => Taking(u) /\ task'[u].ts = task[u].ts
      BY <1>3 DEF Taking
    <2>2. caller[Loop].pc \in OwnsTurn
      BY <1>4 DEF AbortPcs, OwnsTurn
    <2> QED BY <1>1, <1>4, <2>1, <2>2, OwnFrame DEF SteerInv
  <1>6. \A i : Settled(i)' = Settled(i)
    BY <1>1 DEF Settled
  <1>7. \A u \in Turns : u # v => SameTask(u)
    BY <1>3 DEF SameTask
  <1>8. task'[v].pc # "unborn"
    BY <1>2, <1>3
  <1> HIDE DEF v
  <1>9. KeptInv'
    BY <1>1, <1>2, <1>3, <1>6, <1>7, <1>8, InputsSame, KeptFrame DEF SteerInv
  <1> QED BY <1>5, <1>9

\* What the loop's own steps do to its record.
LEMMA LoopGoes ==
    ASSUME TypeOK
    PROVE  /\ \A pc : Goto(Loop, pc) => caller'[Loop].pc = pc
           /\ Return(Loop) => caller'[Loop].pc = "idle"
           /\ \A pc, b : caller' = [caller EXCEPT ![Loop].buf = b, ![Loop].pc = pc]
                            => caller'[Loop].pc = pc
           /\ \A pc, b : caller' = [caller EXCEPT ![Loop].pc = pc, ![Loop].buf = b]
                            => caller'[Loop].pc = pc
           /\ \A pc, k : caller' = [caller EXCEPT ![Loop].pc = pc, ![Loop].ts = k]
                            => caller'[Loop].pc = pc
  <1>1. caller \in [Callers -> Caller] /\ Loop \in Callers /\ caller[Loop] \in Caller
    BY LoopIsCaller DEF TypeOK, CallerTypes
  <1> QED BY <1>1 DEF Goto, Return, IdleCaller, Caller

LEMMA SteerAbortClear ==
    ASSUME SteerInv, AbortClear(Loop)
    PROVE  OwnInv' /\ KeptInv'
  <1>1. /\ TypeOK /\ UNCHANGED <<active, task, steered, history, blocked>>
        /\ Loop \in Callers /\ caller[Loop].pc = "abortClear"
    BY LoopIsCaller DEF SteerInv, SerialInv, LiveInv, AbortClear, CallerOnly, At
  <1> DEFINE k == caller[Loop].ts
  <1>2. InputsGrow({k})
    <2>1. \E r : tstate' = [tstate EXCEPT ![k] = r]
      BY DEF AbortClear
    <2> QED BY <1>1, <2>1, InputsReplace
  <1>3. caller'[Loop].pc \in {"maybeCheck", "startDrain"}
    BY <1>1, CallerHasType DEF AbortClear, TypeOK, CallerTypes, Caller
  <1>4. caller[Loop].pc \in OwnsTurn /\ caller[Loop].pc \in AbortPcs /\ caller'[Loop].pc \notin AbortPcs
    BY <1>1, <1>3 DEF OwnsTurn, AbortPcs
  <1>5. active.task = NoTask /\ \A u \in Turns : Taking(u) => task[u].ts # k
    BY <1>4 DEF SteerInv, SerialInv, OwnInv
  <1> HIDE DEF k
  <1> QED BY <1>1, <1>2, <1>4, <1>5, SteerCallKeeps

LEMMA SteerStartDrain ==
    ASSUME SteerInv, StartDrain(Loop)
    PROVE  OwnInv' /\ KeptInv'
  <1>1. /\ TypeOK /\ UNCHANGED <<active, task, steered, history, blocked>>
        /\ Loop \in Callers /\ caller[Loop].pc = "startDrain" /\ tstate' = TurnPendingTaken
    BY LoopIsCaller DEF SteerInv, SerialInv, LiveInv, StartDrain, CallerOnly, At
  <1>2. InputsGrow({active.state})
    <2>1. CASE active.state = 0
      BY <1>1, <2>1 DEF TurnPendingTaken, InputsGrow
    <2>2. CASE active.state # 0
      <3>1. \E r : tstate' = [tstate EXCEPT ![active.state] = r]
        BY <1>1, <2>2 DEF TurnPendingTaken
      <3> QED BY <1>1, <3>1, InputsReplace
    <2> QED BY <2>1, <2>2
  <1>3. caller'[Loop].pc \in {"startMail", "startInsert"}
    BY <1>1, LoopGoes DEF StartDrain
  <1>4. caller[Loop].pc \in OwnsTurn /\ caller'[Loop].pc \notin AbortPcs
    BY <1>1, <1>3 DEF OwnsTurn, AbortPcs
  <1>5. active.task = NoTask /\ \A u \in Turns : Taking(u) => task[u].ts # active.state
    BY <1>4 DEF SteerInv, SerialInv, OwnInv
  <1> QED BY <1>1, <1>2, <1>4, <1>5, SteerCallKeeps

LEMMA SteerCallQuiet ==
    ASSUME SteerInv,
           \/ MaybeCheck(Loop) \/ MaybeReserve(Loop) \/ StartMail(Loop)
           \/ StartInsert(Loop) \/ StartExtend(Loop)
    PROVE  OwnInv' /\ KeptInv'
  <1>1. TypeOK /\ Loop \in Callers /\ UNCHANGED <<task, steered, history, blocked>>
    BY LoopIsCaller DEF SteerInv, SerialInv, LiveInv, MaybeCheck, MaybeReserve, StartMail,
           StartInsert, StartExtend, CallerOnly
  <1>2. InputsGrow({})
    <2>1. CASE StartExtend(Loop)
      <3> DEFINE k == caller[Loop].ts
                 b == caller[Loop].buf
                 r == [tstate[k] EXCEPT !.input = tstate[k].input \o b]
      <3>1. tstate' = [tstate EXCEPT ![k] = r]
        BY <2>1 DEF StartExtend
      <3>2. k \in DOMAIN tstate
        BY <1>1, <2>1, LenNat DEF StartExtend, At, TypeOK, CallerTypes, QueueTypes, UsesTurnState
      <3>3. tstate[k] \in TurnState /\ b \in Seq(Inputs)
        BY <1>1, <3>2, CallerHasType DEF TypeOK, QueueTypes
      <3> HIDE DEF k, b
      <3>4. r.input = tstate[k].input \o b /\ tstate[k].input \in Seq(Inputs)
        BY <3>3 DEF TurnState
      <3> HIDE DEF r
      <3>5. ToSet(tstate[k].input) \subseteq ToSet(r.input)
        BY <3>3, <3>4, ElementsOf
      <3> QED BY <1>1, <3>1, <3>5, InputsReplace
    <2>2. CASE ~StartExtend(Loop)
      <3>1. UNCHANGED tstate \/ tstate' = Append(tstate, DefaultTurnState)
        BY <2>2 DEF MaybeCheck, MaybeReserve, StartMail, StartInsert, QueuesUnchanged, InsertActiveTurn
      <3> QED BY <1>1, <3>1, InputsSame, InputsNew
    <2> QED BY <2>1, <2>2
  <1>3. active.task # NoTask => active.state # 0
    BY <1>1, ActiveType DEF TypeOK
  <1>4. active' = active \/ (active.state = 0 /\ active'.state = Len(tstate) + 1)
    BY DEF MaybeCheck, MaybeReserve, StartMail, StartInsert, StartExtend, QueuesUnchanged,
           InsertActiveTurn
  <1>5. /\ caller'[Loop].pc \notin AbortPcs
        /\ caller'[Loop].pc \in OwnsTurn => caller[Loop].pc \in OwnsTurn \/ active.state = 0
    <2>1. CASE MaybeCheck(Loop)
      <3>1. caller'[Loop].pc \in {"maybeReserve", "idle"}
        BY <1>1, <2>1, LoopGoes DEF MaybeCheck
      <3> QED BY <3>1 DEF AbortPcs, OwnsTurn
    <2>2. CASE MaybeReserve(Loop)
      <3>1. caller'[Loop].pc = "idle" \/ (caller'[Loop].pc = "startDrain" /\ active.state = 0)
        BY <1>1, <2>2, LoopGoes DEF MaybeReserve
      <3> QED BY <3>1 DEF AbortPcs, OwnsTurn
    <2>3. CASE StartMail(Loop) \/ StartInsert(Loop) \/ StartExtend(Loop)
      <3>1. caller'[Loop].pc \in {"startInsert", "startExtend", "startSpawn"}
        BY <1>1, <2>3, LoopGoes DEF StartMail, StartInsert, StartExtend
      <3>2. caller[Loop].pc \in {"startMail", "startInsert", "startExtend"}
        BY <2>3 DEF StartMail, StartInsert, StartExtend, At
      <3> QED BY <3>1, <3>2 DEF AbortPcs, OwnsTurn
    <2> QED BY <2>1, <2>2, <2>3
  <1>6. \/ active'.state \in {0, Len(tstate) + 1}
        \/ active' = active /\ (caller'[Loop].pc \in OwnsTurn => caller[Loop].pc \in OwnsTurn)
    BY <1>4, <1>5
  <1> QED BY <1>1, <1>2, <1>3, <1>4, <1>5, <1>6, SteerCallKeeps

\* The task that start_task spawns is new, and takes over no one's TurnState.
LEMMA SteerStartSpawn ==
    ASSUME SteerInv, StartSpawn(Loop)
    PROVE  OwnInv' /\ KeptInv'
  <1>1. /\ TypeOK /\ UNCHANGED <<steered, history, blocked>>
        /\ Loop \in Callers /\ caller[Loop].pc = "startSpawn" /\ caller'[Loop].pc = "idle"
    BY LoopIsCaller, LoopGoes DEF SteerInv, SerialInv, LiveInv, StartSpawn, CallerOnly, At
  <1> DEFINE n == caller[Loop].turn
  <1>2. n \in Turns /\ task[n].pc = "unborn"
    BY <1>1, TurnIsTurn DEF SteerInv, SerialInv, LiveInv
  <1>3. caller[Loop].pc \in OwnsTurn /\ caller'[Loop].pc \notin AbortPcs
    BY <1>1 DEF OwnsTurn, AbortPcs
  <1>4. active.task = NoTask /\ NoTask \notin Turns
    BY <1>3, ConstantsAssumption DEF SteerInv, SerialInv, ConstantsAssumption
  <1>5. /\ \A u \in Turns : u # n => task'[u] = task[u]
        /\ task'[n].pc \in {"begin", "sample"}
    BY <1>2, <1>4 DEF StartSpawn, SpawnedTask, UnbornTask
  <1>6. InputsGrow({})
    <2>1. UNCHANGED tstate \/ tstate' = Append(tstate, DefaultTurnState)
      BY DEF StartSpawn
    <2> QED BY <1>1, <2>1, InputsSame, InputsNew
  <1>7. active'.state \in {active.state, Len(tstate) + 1}
    BY <1>1, ActiveType DEF StartSpawn, TypeOK
  <1>8. OwnInv'
    BY <1>1, <1>3, <1>5, <1>7, OwnFrame DEF SteerInv, Taking
  <1>9. \A i : Settled(i)' = Settled(i)
    BY <1>1 DEF Settled
  <1>10. \A u \in Turns : u # n => SameTask(u)
    BY <1>5 DEF SameTask
  <1> HIDE DEF n
  <1>11. KeptInv'
    BY <1>1, <1>2, <1>4, <1>6, <1>9, <1>10, KeptFrame DEF SteerInv
  <1> QED BY <1>8, <1>11

LEMMA SteerCallStep ==
    ASSUME SteerInv, NEW c \in Callers, CallStep(c)
    PROVE  OwnInv' /\ KeptInv'
  <1>1. CallView(c)
    BY CallStepView DEF SteerInv, SerialInv, LiveInv
  <1>2. caller[c].pc # "idle"
    BY <1>1 DEF CallView, Kills, Emits, GoesOn, Spawns
  <1>3. c = Loop
    BY <1>2 DEF SteerInv, SerialInv, Callers
  <1>4. ~(TryReserve(c) \/ TryRecheck(c) \/ TryClear(c) \/ TryStill(c) \/ TryExtend(c))
    BY <1>3 DEF SteerInv, SerialInv, TryPcs, TryReserve, TryRecheck, TryClear, TryStill, TryExtend, At
  <1> QED
    BY <1>3, <1>4, SteerAbortTake, SteerVictim, SteerAbortClear, SteerStartDrain,
       SteerCallQuiet, SteerStartSpawn DEF CallStep

\* Submissions and offers other than an accepted steer.
LEMMA SteerOfferQuiet ==
    ASSUME SteerInv, UNCHANGED <<active, task, steered, blocked>>, InputsGrow({}),
           history' = history \/ (\E i \in Inputs : history' = Append(history, i)),
           caller'[Loop] = caller[Loop] \/ caller'[Loop].pc \in {"abortTake", "maybeCheck"}
    PROVE  OwnInv' /\ KeptInv'
  <1>1. TypeOK /\ NoTask \notin Turns
    BY ConstantsAssumption DEF SteerInv, SerialInv, LiveInv, ConstantsAssumption
  <1>2. OwnInv'
    <2>1. caller'[Loop].pc \in OwnsTurn => caller[Loop].pc \in OwnsTurn
      BY DEF OwnsTurn
    <2>2. caller'[Loop].pc \in AbortPcs =>
             caller[Loop].pc \in AbortPcs /\ caller'[Loop].ts = caller[Loop].ts
      BY DEF AbortPcs
    <2> QED BY <1>1, <2>1, <2>2, OwnFrame DEF SteerInv, Taking
  <1>3. \A i : Settled(i) => Settled(i)'
    <2>1. ToSet(history) \subseteq ToSet(history')
      <3>1. history \in Seq(Inputs)
        BY <1>1 DEF TypeOK, LedgerTypes
      <3>2. \A i \in Inputs : ToSet(history) \subseteq ToSet(Append(history, i))
        BY <3>1, ElementsOf
      <3> QED BY <3>2
    <2> QED BY <2>1 DEF Settled
  <1>4. \A u \in Turns : SameTask(u)
    BY DEF SameTask
  <1>5. KeptInv'
    BY <1>1, <1>3, <1>4, KeptFrame DEF SteerInv
  <1> QED BY <1>2, <1>5

\* The input is accepted for the turn of the active task, which will take it.
LEMMA SteerAccepted ==
    ASSUME SteerInv, NEW i \in UserInputs, NEW e, SteerAccepts(i, e),
           UNCHANGED <<active, task, caller, history, blocked>>
    PROVE  OwnInv' /\ KeptInv'
  <1>1. /\ TypeOK /\ active.task # NoTask /\ active.task \in Turns
        /\ active.state # 0 /\ active.state \in DOMAIN tstate
    BY ActiveType, ActiveState DEF SteerInv, SerialInv, LiveInv, TypeOK, SteerAccepts
  <1>2. OwnInv'
    BY <1>1, OwnFrame DEF SteerInv, Taking
  <1> DEFINE k == active.state
             r == [input |-> Append(tstate[k].input, i), phase |-> "CurrentTurn"]
  <1>3. tstate' = [tstate EXCEPT ![k] = r] /\ steered' = [steered EXCEPT ![i] = active.task]
    BY DEF SteerAccepts
  <1>4. ToSet(r.input) = ToSet(tstate[k].input) \cup {i}
    <2>1. tstate[k].input \in Seq(Inputs) /\ i \in Inputs
      <3>1. tstate[k] \in TurnState
        BY <1>1 DEF TypeOK, QueueTypes
      <3> QED BY <3>1 DEF TurnState, Inputs
    <2>2. r.input = Append(tstate[k].input, i)
      OBVIOUS
    <2> HIDE DEF k, r
    <2> QED BY <2>1, <2>2, ElementsOf
  <1>5. tstate'[k] = r /\ DOMAIN tstate' = DOMAIN tstate
    BY <1>1, <1>3 DEF TypeOK, QueueTypes
  <1> HIDE DEF r
  <1>6. InputsGrow({})
    BY <1>1, <1>3, <1>4, InputsReplace
  <1> SUFFICES ASSUME NEW j \in UserInputs, NEW u \in Turns, steered'[j] = u
               PROVE  /\ task[u].pc # "unborn"
                      /\ task[u].cancelled \/ Settled(j) \/ Kept(j, u)'
    BY <1>2 DEF KeptInv, Settled
  <1>7. CASE j = i
    <2>1. u = active.task
      BY <1>3, <1>7 DEF SteerInv, SerialInv, LiveInv, TypeOK, LedgerTypes
    <2>2. task[u].pc # "unborn"
      BY <1>1, <2>1 DEF SteerInv, SerialInv, LiveInv, ActiveTaskIsLive, Live, Working
    <2>3. Kept(j, u)'
      BY <1>4, <1>5, <1>7, <2>1 DEF Kept
    <2> QED BY <2>2, <2>3
  <1>8. CASE j # i
    <2>1. steered[j] = u
      BY <1>3, <1>8 DEF SteerInv, SerialInv, LiveInv, TypeOK, LedgerTypes
    <2>2. task[u].pc # "unborn" /\ (task[u].cancelled \/ Settled(j) \/ Kept(j, u))
      BY <2>1 DEF SteerInv, KeptInv
    <2>3. ASSUME Kept(j, u) PROVE Kept(j, u)'
      <3>1. \A s \in DOMAIN tstate : ToSet(tstate[s].input) \subseteq ToSet(tstate'[s].input)
        BY <1>6 DEF InputsGrow
      <3>2. Taking(u) => task[u].ts \in DOMAIN tstate
        BY <1>1, LenNat DEF TypeOK, TaskTypes, QueueTypes, Taking
      <3> QED BY <1>1, <2>3, <3>1, <3>2 DEF Kept, Taking
    <2> QED BY <2>2, <2>3
  <1> QED BY <1>7, <1>8

LEMMA SteerSubmission ==
    ASSUME SteerInv, Submission
    PROVE  OwnInv' /\ KeptInv'
  <1>1. /\ TypeOK /\ caller \in [Callers -> Caller] /\ Loop \in Callers
        /\ UNCHANGED <<active, task, history, blocked>>
    BY LoopIsCaller DEF SteerInv, SerialInv, LiveInv, TypeOK, CallerTypes, Submission,
       UserInputOrTurn, Compact, RunUserShellCommand, Interrupt, InterAgentCommunication,
       SubmissionOnly
  <1>2. CASE UserInputOrTurn
    <2>1. PICK i \in UserInputs, t \in FreshTurns :
            \/ SteerAccepts(i, NoTask) /\ caller' = caller
            \/ SteerRejects(i, NoTask) /\ caller' = caller
            \/ /\ caller' = [caller EXCEPT ![Loop] =
                    [IdleCaller EXCEPT !.pc = "abortTake", !.turn = t, !.input = <<i>>]]
               /\ UNCHANGED <<tstate, steered>>
      BY <1>2 DEF UserInputOrTurn
    <2>2. CASE SteerAccepts(i, NoTask) /\ caller' = caller
      BY <1>1, <2>2, SteerAccepted
    <2>3. CASE SteerRejects(i, NoTask) /\ caller' = caller
      BY <1>1, <2>3, InputsSame, SteerOfferQuiet DEF SteerRejects
    <2>4. CASE caller' = [caller EXCEPT ![Loop] =
                    [IdleCaller EXCEPT !.pc = "abortTake", !.turn = t, !.input = <<i>>]]
               /\ UNCHANGED <<tstate, steered>>
      <3>1. caller'[Loop].pc = "abortTake"
        BY <1>1, <2>4 DEF IdleCaller
      <3> QED BY <1>1, <2>4, <3>1, InputsSame, SteerOfferQuiet
    <2> QED BY <2>1, <2>2, <2>3, <2>4
  <1>3. CASE Compact \/ RunUserShellCommand \/ Interrupt
    <2>1. caller'[Loop].pc = "abortTake"
      BY <1>1, <1>3 DEF Compact, RunUserShellCommand, Interrupt, IdleCaller
    <2>2. UNCHANGED <<tstate, steered>>
      BY <1>3 DEF Compact, RunUserShellCommand, Interrupt
    <2> QED BY <1>1, <2>1, <2>2, InputsSame, SteerOfferQuiet
  <1>4. CASE InterAgentCommunication
    <2>1. caller'[Loop] = caller[Loop] \/ caller'[Loop].pc = "maybeCheck"
      BY <1>1, <1>4 DEF InterAgentCommunication, IdleCaller
    <2>2. UNCHANGED <<tstate, steered>>
      BY <1>4 DEF InterAgentCommunication
    <2> QED BY <1>1, <2>1, <2>2, InputsSame, SteerOfferQuiet
  <1> QED BY <1>2, <1>3, <1>4 DEF Submission

LEMMA SteerOffered ==
    ASSUME SteerInv, NEW c \in Callers, Offered(c)
    PROVE  OwnInv' /\ KeptInv'
  <1>1. TypeOK /\ c \notin Starters
    BY DEF SteerInv, SerialInv, LiveInv
  <1>2. CASE SteerInput(c)
    <2>1. PICK i \in UserInputs, e \in Turns \cup {NoTask} :
            SteerAccepts(i, e) \/ UNCHANGED <<tstate, steered>>
      BY <1>2 DEF SteerInput, SteerRejects
    <2>2. UNCHANGED <<active, task, caller, history, blocked>>
      BY <1>2 DEF SteerInput
    <2> QED BY <2>1, <2>2, SteerAccepted, InputsSame, SteerOfferQuiet
  <1>3. CASE InjectNoNewTurn(c)
    <2>1. PICK i \in ResponseItems :
            \/ /\ active.state # 0 /\ history' = history
               /\ tstate' = [tstate EXCEPT ![active.state].input = Append(@, i)]
            \/ history' = Append(history, i) /\ tstate' = tstate
      BY <1>3 DEF InjectNoNewTurn
    <2>2. UNCHANGED <<active, task, caller, steered, blocked>> /\ i \in Inputs
      BY <1>3 DEF InjectNoNewTurn, Inputs
    <2>3. CASE history' = Append(history, i) /\ tstate' = tstate
      BY <2>2, <2>3, InputsSame, SteerOfferQuiet
    <2>4. CASE active.state # 0 /\ history' = history
                 /\ tstate' = [tstate EXCEPT ![active.state].input = Append(@, i)]
      <3> DEFINE k == active.state
                 r == [tstate[k] EXCEPT !.input = Append(tstate[k].input, i)]
      <3>1. tstate[k] \in TurnState
        BY <1>1, <2>4, ActiveState DEF TypeOK, QueueTypes
      <3>2. r.input = Append(tstate[k].input, i) /\ tstate[k].input \in Seq(Inputs)
        BY <3>1 DEF TurnState
      <3>3. tstate' = [tstate EXCEPT ![k] = r]
        BY <2>4
      <3> HIDE DEF r, k
      <3>4. ToSet(tstate[k].input) \subseteq ToSet(r.input)
        BY <2>2, <3>2, ElementsOf
      <3>5. InputsGrow({})
        BY <1>1, <3>3, <3>4, InputsReplace
      <3> QED BY <2>2, <2>4, <3>5, SteerOfferQuiet
    <2> QED BY <2>1, <2>3, <2>4
  <1> QED BY <1>1, <1>2, <1>3 DEF Offered, AbortTurnIfActive, TryStartTurnIfIdle

LEMMA InitSteer == Init /\ Starters = {} => SteerInv
  <1> SUFFICES ASSUME Init, Starters = {} PROVE SteerInv
    OBVIOUS
  <1>1. SerialInv
    BY InitSerial
  <1>2. \A t \in Turns : task[t].pc = "unborn"
    BY DEF Init, UnbornTask
  <1>3. OwnInv
    BY <1>2 DEF OwnInv, Taking
  <1>4. KeptInv
    BY ConstantsAssumption DEF KeptInv, Init, ConstantsAssumption
  <1> QED BY <1>1, <1>3, <1>4 DEF SteerInv

LEMMA NextSteer == SteerInv /\ [Next]_vars => SteerInv'
  <1> SUFFICES ASSUME SteerInv, [Next]_vars PROVE SteerInv'
    OBVIOUS
  <1>1. SerialInv'
    BY NextSerial DEF SteerInv
  <1>2. OwnInv' /\ KeptInv'
    <2>1. CASE UNCHANGED vars
      BY <2>1 DEF vars, SteerInv, OwnInv, KeptInv, Kept, Settled, Taking
    <2> QED BY <2>1, SteerSubmission, SteerCallStep, SteerOffered, SteerTaskStep DEF Next
  <1> QED BY <1>1, <1>2 DEF SteerInv

LEMMA SteerKeeps == SteerInv => SteeredInputKept
  <1> SUFFICES ASSUME SteerInv, NEW i \in UserInputs, steered[i] # NoTask
               PROVE  Pending(i) \/ Handled(i) \/ task[steered[i]].cancelled
    BY DEF SteeredInputKept
  <1>1. TypeOK /\ steered[i] \in Turns
    BY DEF SteerInv, SerialInv, LiveInv, TypeOK, LedgerTypes
  <1>2. PICK u \in Turns : u = steered[i]
    BY <1>1
  <1>3. task[u].cancelled \/ Settled(i) \/ Kept(i, u)
    BY <1>2 DEF SteerInv, KeptInv
  <1>4. CASE Settled(i)
    BY <1>4 DEF Settled, Handled
  <1>5. CASE Kept(i, u)
    <2>1. CASE i \in ToSet(task[u].buf)
      BY <2>1 DEF Pending
    <2>2. CASE active.task = u /\ i \in ToSet(tstate[active.state].input)
      <3>1. active.state \in DOMAIN tstate
        BY <1>1, <2>2, ActiveType, ActiveState, ConstantsAssumption DEF TypeOK, ConstantsAssumption
      <3> QED BY <2>2, <3>1 DEF Pending, Reachable
    <2>3. CASE Taking(u) /\ i \in ToSet(tstate[task[u].ts].input)
      <3>1. task[u].ts \in DOMAIN tstate
        BY <1>1, <2>3, LenNat DEF TypeOK, TaskTypes, QueueTypes, Taking
      <3> QED BY <2>3, <3>1 DEF Pending, Reachable, Taking
    <2> QED BY <1>5, <2>1, <2>2, <2>3 DEF Kept
  <1> QED BY <1>2, <1>3, <1>4, <1>5

\* As long as only the submission loop starts and aborts turns, input that
\* steer_input accepted is recorded, refused by a hook, or still queued where
\* someone will take it, unless its turn was aborted: the race of steering
\* with on_task_finished, with the next start_task and with clear_pending of
\* an abort loses nothing.
THEOREM LoopKeepsSteered == Spec /\ Starters = {} => []SteeredInputKept
  <1>1. SteerInv => SteeredInputKept
    BY SteerKeeps
  <1> QED BY <1>1, InitSteer, NextSteer, PTL DEF Spec

=============================================================================
