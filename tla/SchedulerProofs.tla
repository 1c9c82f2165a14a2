---------------------------- MODULE SchedulerProofs ----------------------------
(***************************************************************************)
(* Proofs about Scheduler for every size of the pool, number of priorities *)
(* and set of calls, in a pool that is never filled and with tasks that    *)
(* are terminated in order.                                                *)
(***************************************************************************)
EXTENDS SchedulerInv, NatLemmas, FiniteSetTheorems, TLAPS

-----------------------------------------------------------------------------
(* What the queue operations return: which tasks a queue holds afterwards, *)
(* and in which order.  The proofs below cite these facts and leave Holds, *)
(* NoRepeats and Before closed.                                            *)

(* Appending a task: it is added to what the queue holds, behind all the   *)
(* others.                                                                 *)
LEMMA AppendFacts ==
    ASSUME NEW S, NEW q \in Seq(S), NEW p \in S
    PROVE  /\ Append(q, p) \in Seq(S)
           /\ \A x : Holds(Append(q, p), x) <=> Holds(q, x) \/ x = p
           /\ NoRepeats(q) /\ ~Holds(q, p) => NoRepeats(Append(q, p))
           /\ \A x, y : Before(Append(q, p), x, y) => Before(q, x, y) \/ (y = p /\ Holds(q, x))
<1> DEFINE a == Append(q, p)
<1>1. /\ a \in Seq(S)
      /\ Len(a) = Len(q) + 1
      /\ Len(q) \in Nat
      /\ \A k \in 1 .. Len(q) : a[k] = q[k]
      /\ a[Len(q) + 1] = p
  OBVIOUS
<1> HIDE DEF a
<1>2. \A x : Holds(a, x) <=> Holds(q, x) \/ x = p
  BY <1>1 DEF Holds
<1>3. NoRepeats(q) /\ ~Holds(q, p) => NoRepeats(a)
  BY <1>1 DEF Holds, NoRepeats
<1>4. \A x, y : Before(a, x, y) => Before(q, x, y) \/ (y = p /\ Holds(q, x))
  BY <1>1 DEF Holds, Before
<1> QED BY <1>1, <1>2, <1>3, <1>4 DEF a

(* Taking the head: exactly it is gone, and the others stay in order       *)
(* behind where it was.                                                    *)
LEMMA TailFacts ==
    ASSUME NEW S, NEW q \in Seq(S), q # <<>>
    PROVE  /\ Tail(q) \in Seq(S)
           /\ Head(q) \in S
           /\ Holds(q, Head(q))
           /\ \A x : Holds(Tail(q), x) => Holds(q, x)
           /\ \A x : Holds(q, x) => x = Head(q) \/ Holds(Tail(q), x)
           /\ NoRepeats(q) => NoRepeats(Tail(q)) /\ ~Holds(Tail(q), Head(q))
           /\ \A x, y : Before(Tail(q), x, y) => Before(q, x, y)
           /\ \A x : Holds(Tail(q), x) => Before(q, Head(q), x)
<1> DEFINE t == Tail(q)
<1>1. /\ t \in Seq(S)
      /\ Len(q) \in Nat \ {0}
      /\ Len(t) = Len(q) - 1
      /\ \A k \in 1 .. Len(t) : t[k] = q[k + 1]
      /\ Head(q) = q[1]
      /\ q[1] \in S
  OBVIOUS
<1> HIDE DEF t
<1>2. Holds(q, Head(q))
  BY <1>1 DEF Holds
<1>3. \A x : Holds(t, x) => Holds(q, x)
  BY <1>1 DEF Holds
<1>4. \A x : Holds(q, x) => x = Head(q) \/ Holds(t, x)
  <2> SUFFICES ASSUME NEW x, NEW k \in 1 .. Len(q), q[k] = x, k # 1
               PROVE  Holds(t, x)
    BY <1>1 DEF Holds
  <2>1. k - 1 \in 1 .. Len(t) /\ t[k - 1] = x
    BY <1>1
  <2> QED BY <2>1 DEF Holds
<1>5. NoRepeats(q) => NoRepeats(t) /\ ~Holds(t, Head(q))
  BY <1>1 DEF Holds, NoRepeats
<1>6. \A x, y : Before(t, x, y) => Before(q, x, y)
  <2> SUFFICES ASSUME NEW x, NEW y, NEW j \in 1 .. Len(t), NEW k \in 1 .. Len(t),
                      j < k, t[j] = x, t[k] = y
               PROVE  Before(q, x, y)
    BY DEF Before
  <2>1. /\ j + 1 \in 1 .. Len(q) /\ k + 1 \in 1 .. Len(q) /\ j + 1 < k + 1
        /\ q[j + 1] = x /\ q[k + 1] = y
    BY <1>1
  <2> QED BY <2>1 DEF Before
<1>7. \A x : Holds(t, x) => Before(q, Head(q), x)
  <2> SUFFICES ASSUME NEW x, NEW k \in 1 .. Len(t), t[k] = x
               PROVE  Before(q, Head(q), x)
    BY DEF Holds
  <2>1. 1 \in 1 .. Len(q) /\ k + 1 \in 1 .. Len(q) /\ 1 < k + 1 /\ q[1] = Head(q) /\ q[k + 1] = x
    BY <1>1
  <2> QED BY <2>1 DEF Before
<1> QED BY <1>1, <1>2, <1>3, <1>4, <1>5, <1>6, <1>7 DEF t

(* The search for a task and the removal at the position found take the    *)
(* task out of the queue and nothing else, whether or not it was there.    *)
LEMMA WithoutFacts ==
    ASSUME NEW S, NEW q \in Seq(S), NEW p
    PROVE  /\ Without(q, p) \in Seq(S)
           /\ \A x : Holds(Without(q, p), x) => Holds(q, x)
           /\ \A x : Holds(q, x) => x = p \/ Holds(Without(q, p), x)
           /\ NoRepeats(q) => NoRepeats(Without(q, p)) /\ ~Holds(Without(q, p), p)
<1>1. CASE ~Holds(q, p)
  BY <1>1 DEF Without
<1>2. CASE Holds(q, p)
  <2> DEFINE T == {k \in 1 .. Len(q) : q[k] = p}
             f == FirstAt(q, p)
             w == Without(q, p)
  <2>1. Len(q) \in Nat /\ \A k \in 1 .. Len(q) : q[k] \in S
    OBVIOUS
  <2>2. f \in 1 .. Len(q) /\ q[f] = p /\ \A j \in 1 .. f - 1 : q[j] # p
    <3>1. T \in SUBSET Nat /\ T # {}
      BY <1>2, <2>1 DEF Holds
    <3>2. PICK m \in T : \A y \in T : m <= y
      <4> HIDE DEF T
      <4> QED BY <3>1, LeastNat
    <3>3. m \in 1 .. Len(q) /\ q[m] = p /\ \A j \in 1 .. m - 1 : q[j] # p
      BY <3>2, <2>1
    <3> QED BY <3>3 DEF FirstAt
  <2> HIDE DEF f
  <2>3. w = Remove_Task_At(f, q)
    BY <1>2 DEF Without, f
  <2>4. /\ w \in Seq(S)
        /\ Len(w) = Len(q) - 1
        /\ \A k \in 1 .. Len(q) - 1 : w[k] = IF k < f THEN q[k] ELSE q[k + 1]
    <3>1. w = [k \in 1 .. Len(q) - 1 |-> IF k < f THEN q[k] ELSE q[k + 1]]
      BY <2>3 DEF Remove_Task_At
    <3>2. Len(q) - 1 \in Nat
      BY <2>1, <2>2
    <3>3. \A k \in 1 .. Len(q) - 1 : (IF k < f THEN q[k] ELSE q[k + 1]) \in S
      BY <2>1, <2>2
    <3> HIDE DEF w
    <3> QED BY <3>1, <3>2, <3>3
  <2> HIDE DEF w
  <2>5. \A x : Holds(w, x) => Holds(q, x)
    BY <2>1, <2>2, <2>4 DEF Holds
  <2>6. \A x : Holds(q, x) => x = p \/ Holds(w, x)
    <3> SUFFICES ASSUME NEW x, NEW k \in 1 .. Len(q), q[k] = x, x # p
                 PROVE  Holds(w, x)
      BY DEF Holds
    <3>1. CASE k < f
      <4>1. k \in 1 .. Len(w) /\ w[k] = x
        BY <3>1, <2>1, <2>2, <2>4
      <4> QED BY <4>1 DEF Holds
    <3>2. CASE k > f
      <4>1. k - 1 \in 1 .. Len(w) /\ w[k - 1] = x
        BY <3>2, <2>1, <2>2, <2>4
      <4> QED BY <4>1 DEF Holds
    <3> QED BY <3>1, <3>2, <2>2, <2>1
  <2>7. NoRepeats(q) => NoRepeats(w) /\ ~Holds(w, p)
    <3> SUFFICES ASSUME NoRepeats(q)
                 PROVE  NoRepeats(w) /\ ~Holds(w, p)
      OBVIOUS
    <3> DEFINE old(k) == IF k < f THEN k ELSE k + 1
    <3>1. ASSUME NEW k \in 1 .. Len(w)
          PROVE  old(k) \in 1 .. Len(q) /\ old(k) # f /\ w[k] = q[old(k)]
      BY <2>1, <2>2, <2>4
    <3>2. ASSUME NEW j \in 1 .. Len(w), NEW k \in 1 .. Len(w), w[j] = w[k]
          PROVE  j = k
      <4>1. old(j) = old(k)
        <5> HIDE DEF old
        <5> QED BY <3>1, <3>2 DEF NoRepeats
      <4> QED BY <4>1, <2>1, <2>2, <2>4
    <3>3. ASSUME NEW k \in 1 .. Len(w)
          PROVE  w[k] # p
      <4> HIDE DEF old
      <4> QED BY <3>1, <2>2 DEF NoRepeats
    <3> QED BY <3>2, <3>3 DEF Holds, NoRepeats
  <2> QED BY <2>4, <2>5, <2>6, <2>7 DEF w
<1> QED BY <1>1, <1>2

-----------------------------------------------------------------------------
(* Facts about the constants and about picking a task.                     *)

LEMMA ConstantFacts ==
    /\ PIDs \subseteq Nat
    /\ PID_SCHED \in PIDs
    /\ NoPID \notin PIDs
    /\ 0 \in Priorities
    /\ Priorities \subseteq Nat
    /\ PRIORITY_TYPES \in Nat
    /\ IsFiniteSet(PIDs)
    /\ Cardinality(PIDs) = TASKPOOL_MAXCOUNT
    /\ FillsPool \in BOOLEAN
<1>1. IsFiniteSet(PIDs) /\ Cardinality(PIDs) = TASKPOOL_MAXCOUNT
  BY PoolAssumption, FS_Interval DEF PIDs
<1> QED
  BY <1>1, PoolAssumption, PriorityAssumption, CallsAssumption
  DEF PIDs, PID_SCHED, NoPID, Priorities

(* The scan of Schedule_Process reaches every queue, so it picks a task    *)
(* whenever some queue has one.                                            *)
LEMMA PickedFacts ==
    ASSUME TypeOK, Is_TaskInQueue
    PROVE  /\ Picked \in Priorities
           /\ ReadyQueue[Picked] # <<>>
<1> DEFINE T == {step \in Priorities : ReadyQueue[Scanned(step)] # <<>>}
<1>1. Schedule_Priority \in Priorities /\ PRIORITY_TYPES \in Nat
  BY PriorityAssumption DEF TypeOK
<1>2. \A step \in Priorities : Scanned(step) \in Priorities
  BY <1>1 DEF Scanned, Priorities
<1>3. \A q \in Priorities : \E step \in Priorities : Scanned(step) = q
  <2> SUFFICES ASSUME NEW q \in Priorities
               PROVE  \E step \in Priorities : Scanned(step) = q
    OBVIOUS
  <2>1. Scanned(q) \in Priorities /\ Scanned(Scanned(q)) = q
    BY <1>1 DEF Scanned, Priorities
  <2> QED BY <2>1
<1>4. T # {} /\ T \in SUBSET Nat
  BY <1>3, ConstantFacts DEF Is_TaskInQueue
<1>5. PICK m \in T : \A y \in T : m <= y
  <2> HIDE DEF T
  <2> QED BY <1>4, LeastNat
<1>6. /\ m \in Priorities
      /\ ReadyQueue[Scanned(m)] # <<>>
      /\ \A s \in 0 .. m - 1 : ReadyQueue[Scanned(s)] = <<>>
  <2>1. \A s \in 0 .. m - 1 : s \in Priorities /\ ~(m <= s)
    BY <1>1 DEF Priorities
  <2> QED BY <1>5, <2>1
<1> DEFINE P(step) == /\ ReadyQueue[Scanned(step)] # <<>>
                      /\ \A s \in 0 .. step - 1 : ReadyQueue[Scanned(s)] = <<>>
           c == CHOOSE step \in Priorities : P(step)
<1>7. c \in Priorities /\ P(c)
  BY <1>6
<1>8. Picked = Scanned(c)
  BY DEF Picked
<1> QED BY <1>2, <1>7, <1>8

LEMMA NextPriorityType ==
    ASSUME TypeOK
    PROVE  NextPriority \in Priorities
BY PriorityAssumption DEF NextPriority, TypeOK, Priorities

-----------------------------------------------------------------------------
(* The set of tasks about to create another one.                           *)

LEMMA CreatingFinite ==
    IsFiniteSet(Creating) /\ Cardinality(Creating) \in Nat
<1>1. Creating \subseteq PIDs
  BY DEF Creating
<1> QED BY <1>1, ConstantFacts, FS_Subset, FS_CardinalityType

(* A step that leaves the pool counter and the allocation alone, and after *)
(* which nobody new is about to create a task, leaves the pool its room.   *)
LEMMA PoolKept ==
    ASSUME PoolInv, TypeOK, UNCHANGED <<UseCount, PCB_Is_Alloced>>, Creating' \subseteq Creating
    PROVE  PoolInv'
<1>1. Cardinality(Creating') <= Cardinality(Creating) /\ Cardinality(Creating') \in Nat
  BY CreatingFinite, FS_Subset, FS_CardinalityType
<1>2. Cardinality(Creating) \in Nat
  BY CreatingFinite
<1>3. UseCountExact'
  BY DEF PoolInv, UseCountExact
<1>4. UseCount \in Int /\ UseCount' = UseCount /\ TASKPOOL_MAXCOUNT \in Nat
  BY PoolAssumption DEF TypeOK
<1> QED BY <1>1, <1>2, <1>3, <1>4 DEF PoolInv

LEMMA InitInv == Init => IInv
<1> SUFFICES ASSUME Init PROVE IInv
  OBVIOUS
<1> USE DEF Init
<1>c. /\ PIDs \subseteq Nat /\ PID_SCHED \in PIDs /\ PID_SCHED = 0 /\ NoPID = -1
      /\ 0 \in Priorities /\ NoPID \notin PIDs
  BY ConstantFacts DEF PID_SCHED, NoPID
<1>e. \A p : ~Holds(<<>>, p)
  BY DEF Holds
<1>n. NoRepeats(<<>>)
  BY DEF NoRepeats
<1>1. TypeOK
  <2>1. <<>> \in Seq(PIDs)
    OBVIOUS
  <2>2. /\ PCB_Is_Alloced \in [PIDs -> BOOLEAN] /\ Is_Thread \in [PIDs -> BOOLEAN]
        /\ Use_FPU \in [PIDs -> BOOLEAN] /\ RFLAGS \in [PIDs -> BOOLEAN]
        /\ PFlag \in [PIDs -> Flags] /\ at \in [PIDs -> Locations]
    BY DEF Flags, Locations
  <2>3. /\ Childs \in [PIDs -> Seq(PIDs)] /\ ReadyQueue \in [Priorities -> Seq(PIDs)]
        /\ TerminateQueue \in Seq(PIDs) /\ Wait_Queue \in Seq(PIDs)
    BY <2>1
  <2>4. /\ Priority \in [PIDs -> Priorities] /\ Process_Queue \in Priorities
        /\ Schedule_Priority \in Priorities
        /\ ParentPID \in [PIDs -> PIDs \cup {NoPID}] /\ target \in [PIDs -> PIDs \cup {NoPID}]
        /\ CURRENT_Process \in PIDs
        /\ LastUsed_PID \in PIDs \cup {NoPID} /\ TerminateProcess \in PIDs \cup {NoPID}
    BY <1>c
  <2>5. Time_ \in 0 .. PROCESSOR_TIME /\ UseCount \in Int /\ i \in Nat
    BY PriorityAssumption
  <2> QED BY <2>2, <2>3, <2>4, <2>5 DEF TypeOK
<1>2. LocationInv
  BY <1>c DEF LocationInv, SchedLocations, TaskLocations
<1>3. FlagInv
  BY <1>c DEF FlagInv
<1>4. QueueInv
  BY <1>c, <1>e, <1>n DEF QueueInv, NoTaskLost, Settled
<1>5. ReaperInv
  BY <1>c DEF ReaperInv
<1>6. MaskInv
  BY <1>c DEF MaskInv, Booted
<1>7. OrderInv
  BY <1>c, <1>e DEF OrderInv, Before
<1>8. WindowInv
  BY <1>c DEF WindowInv
<1>9. PoolInv
  <2>1. {p \in PIDs : PCB_Is_Alloced[p]} = {PID_SCHED}
    BY <1>c
  <2>2. Creating = {}
    BY <1>c DEF Creating
  <2>3. Cardinality({PID_SCHED}) = 1 /\ Cardinality({}) = 0
    BY FS_Singleton, FS_EmptySet
  <2>4. 1 + 0 < TASKPOOL_MAXCOUNT
    BY PoolAssumption
  <2> QED BY <2>1, <2>2, <2>3, <2>4 DEF PoolInv, UseCountExact
<1>10. ThreadsHaveProcess
  BY <1>c DEF ThreadsHaveProcess
<1>11. ChildrenNameParent
  BY <1>c, <1>n DEF ChildrenNameParent
<1> QED
  BY <1>1, <1>2, <1>3, <1>4, <1>5, <1>6, <1>7, <1>8, <1>9, <1>10, <1>11 DEF IInv

-----------------------------------------------------------------------------
(* Steps that change no PCB, no queue and not the running task.            *)

Quiet == UNCHANGED <<pcbVars, RFLAGS, queueVars, UseCount, CURRENT_Process, Process_Queue,
                     TerminateProcess, i>>

LEMMA QuietInv ==
    ASSUME IInv, Quiet
    PROVE  QueueInv' /\ OrderInv' /\ ThreadsHaveProcess' /\ ChildrenNameParent'
<1> USE DEF IInv, Quiet, pcbVars, queueVars
<1>1. QueueInv'
  BY DEF QueueInv, NoTaskLost, Settled
<1>2. OrderInv'
  BY DEF OrderInv
<1>3. ThreadsHaveProcess'
  BY DEF ThreadsHaveProcess
<1>4. ChildrenNameParent'
  BY DEF ChildrenNameParent
<1> QED BY <1>1, <1>2, <1>3, <1>4

(* ... and move the running task to another place in its code, other than  *)
(* into the reaping of a PCB or the window of Terminate_Process.           *)
LEMMA GotoInv ==
    ASSUME IInv, Quiet, UNCHANGED target, NEW loc, Goto(loc), ~At("reap"), loc # "reap",
           CURRENT_Process = PID_SCHED => loc \in SchedLocations,
           CURRENT_Process # PID_SCHED => loc \in TaskLocations \ {"none", "kill"},
           loc # "resumed",
           loc \in {"run", "create"} => PFlag[CURRENT_Process] # "TERMINATED"
    PROVE  /\ LocationInv' /\ FlagInv' /\ QueueInv' /\ ReaperInv' /\ OrderInv' /\ WindowInv'
           /\ ThreadsHaveProcess' /\ ChildrenNameParent'
           /\ at' \in [PIDs -> Locations]
           /\ at'[CURRENT_Process] = loc
           /\ \A p \in PIDs : p # CURRENT_Process => at'[p] = at[p]
<1>1. /\ at \in [PIDs -> Locations]
      /\ CURRENT_Process \in PIDs
      /\ PID_SCHED \in PIDs
      /\ at' = [at EXCEPT ![CURRENT_Process] = loc]
  BY ConstantFacts DEF IInv, TypeOK, Goto
<1>2. /\ at' \in [PIDs -> Locations]
      /\ at'[CURRENT_Process] = loc
      /\ \A p \in PIDs : p # CURRENT_Process => at'[p] = at[p]
  BY <1>1 DEF SchedLocations, TaskLocations, Locations
<1>3. LocationInv'
  BY <1>1, <1>2 DEF IInv, LocationInv, Quiet
<1>4. FlagInv'
  BY <1>1, <1>2 DEF IInv, FlagInv, Quiet, pcbVars, SchedLocations, TaskLocations
<1>5. ReaperInv'
  BY <1>1, <1>2 DEF IInv, ReaperInv, Quiet, pcbVars, At, TaskLocations
<1>6. WindowInv'
  <2> SUFFICES ASSUME NEW k \in PIDs, at'[k] = "kill"
               PROVE  /\ Booted
                      /\ PFlag[k] \in {"READY", "RUNNING"}
                      /\ target[k] \in PIDs \ {k, PID_SCHED}
                      /\ PFlag[target[k]] \in {"READY", "RUNNING", "WAITING"}
                      /\ \A j \in PIDs : at'[j] = "kill" => j = k
                      /\ \A d \in PIDs : PFlag[d] = "TERMINATED" => ~Cascades(d)
    BY DEF WindowInv, Quiet, pcbVars, Cascades, Booted
  <2>1. \A j \in PIDs : at'[j] = "kill" => at[j] = "kill"
    BY <1>1, <1>2 DEF SchedLocations
  <2> QED BY <2>1 DEF IInv, WindowInv
<1> QED BY <1>2, <1>3, <1>4, <1>5, <1>6, QuietInv

(* Such a step, with the other variables it may change, keeps the invariant *)
(* if it keeps the room in the pool.                                       *)
LEMMA GotoIInv ==
    ASSUME IInv, Quiet, UNCHANGED <<target, LastUsed_PID, CR0_TS, sched_RFLAGS>>,
           Time_' \in 0 .. PROCESSOR_TIME, Schedule_Priority' \in Priorities,
           IntFlag' \in BOOLEAN, IntFlag' => IntFlag,
           NEW loc, Goto(loc), ~At("reap"), loc \notin {"drain", "reap"},
           CURRENT_Process = PID_SCHED => loc \in SchedLocations,
           CURRENT_Process # PID_SCHED => loc \in TaskLocations \ {"none", "kill"},
           loc # "resumed",
           loc \in {"run", "create"} => PFlag[CURRENT_Process] # "TERMINATED",
           CURRENT_Process = PID_SCHED /\ loc = "switch" => Is_TaskInQueue,
           loc \in {"create", "create_shell"} => PoolInv'
    PROVE  IInv'
<1>1. /\ LocationInv' /\ FlagInv' /\ QueueInv' /\ ReaperInv' /\ OrderInv' /\ WindowInv'
      /\ ThreadsHaveProcess' /\ ChildrenNameParent'
      /\ at' \in [PIDs -> Locations]
      /\ at'[CURRENT_Process] = loc
      /\ \A p \in PIDs : p # CURRENT_Process => at'[p] = at[p]
  BY GotoInv
<1>2. TypeOK'
  BY <1>1 DEF IInv, TypeOK, Quiet, pcbVars, queueVars
<1>3. MaskInv'
  <2>1. MaskInv /\ CURRENT_Process \in PIDs /\ PID_SCHED \in PIDs
    BY ConstantFacts DEF IInv, TypeOK
  <2>2. CURRENT_Process' = CURRENT_Process /\ (Booted' <=> Booted) /\ PFlag' = PFlag
        /\ (Is_TaskInQueue' <=> Is_TaskInQueue) /\ sched_RFLAGS' = sched_RFLAGS
    BY DEF Quiet, pcbVars, queueVars, Booted, Is_TaskInQueue
  <2>3. CASE CURRENT_Process = PID_SCHED
    <3>1. at'[PID_SCHED] = loc
      BY <1>1, <2>3
    <3> QED BY <2>1, <2>2, <2>3, <3>1 DEF MaskInv
  <2>4. CASE CURRENT_Process # PID_SCHED
    <3>1. at'[PID_SCHED] = at[PID_SCHED]
      BY <1>1, <2>1, <2>4
    <3> QED BY <2>1, <2>2, <2>4, <3>1 DEF MaskInv
  <2> QED BY <2>3, <2>4
<1>4. PoolInv'
  <2>1. CASE loc \in {"create", "create_shell"}
    BY <2>1
  <2>2. CASE loc \notin {"create", "create_shell"}
    <3>1. Creating' \subseteq Creating
      BY <1>1, <2>2 DEF Creating
    <3> QED BY <3>1, PoolKept DEF IInv, Quiet, pcbVars
  <2> QED BY <2>1, <2>2
<1> QED BY <1>1, <1>2, <1>3, <1>4 DEF IInv

LEMMA IsTimeOutType ==
    ASSUME TypeOK
    PROVE  Decreased \in 0 .. PROCESSOR_TIME
BY PriorityAssumption DEF Decreased, TypeOK

LEMMA TimerInv ==
    ASSUME IInv, ISR_Timer \/ Preempted_NoTask
    PROVE  IInv'
<1>1. Quiet /\ UNCHANGED <<at, target, IntFlag, sched_RFLAGS, LastUsed_PID, CR0_TS>>
  BY DEF ISR_Timer, Preempted_NoTask, Quiet, schedVars
<1>2. Time_' \in 0 .. PROCESSOR_TIME /\ Schedule_Priority' \in Priorities
  BY IsTimeOutType, NextPriorityType DEF ISR_Timer, Preempted_NoTask, IInv, TypeOK
<1> USE DEF IInv, Quiet, pcbVars, queueVars
<1>3. TypeOK'
  BY <1>1, <1>2 DEF TypeOK
<1>4. LocationInv'
  BY <1>1 DEF LocationInv
<1>5. FlagInv'
  BY <1>1 DEF FlagInv
<1>6. ReaperInv'
  BY <1>1 DEF ReaperInv
<1>7. MaskInv'
  BY <1>1 DEF MaskInv, Booted, Is_TaskInQueue
<1>8. WindowInv'
  BY <1>1 DEF WindowInv, Cascades, Booted
<1>9. PoolInv'
  BY <1>1, PoolKept DEF Creating
<1> QED BY <1>1, <1>3, <1>4, <1>5, <1>6, <1>7, <1>8, <1>9, QuietInv

-----------------------------------------------------------------------------
(* The running task never leaves the processor without a task to take it:  *)
(* unless it is sched itself, sched is ready.                              *)
LEMMA SchedReady ==
    ASSUME IInv, CURRENT_Process # PID_SCHED
    PROVE  Is_TaskInQueue
<1>1. Settled(PID_SCHED)
  BY ConstantFacts DEF IInv, FlagInv, ReaperInv, TypeOK, Settled
<1>2. Holds(ReadyQueue[Priority[PID_SCHED]], PID_SCHED) /\ Priority[PID_SCHED] \in Priorities
  BY <1>1, ConstantFacts DEF IInv, FlagInv, QueueInv, NoTaskLost, TypeOK
<1>3. ReadyQueue[Priority[PID_SCHED]] # <<>>
  BY <1>2 DEF Holds
<1> QED BY <1>2, <1>3 DEF Is_TaskInQueue

LEMMA CheckInv ==
    ASSUME IInv, GiveOut_Processor_Check
    PROVE  IInv'
<1> DEFINE loc == IF Is_TaskInQueue THEN "switch" ELSE Home
<1>1. Quiet /\ UNCHANGED <<target, cpuVars, sched_RFLAGS>> /\ Goto(loc) /\ At("yield")
  BY DEF GiveOut_Processor_Check, Quiet, cpuVars, schedVars
<1>2. CURRENT_Process # PID_SCHED => loc = "switch"
  BY SchedReady
<1>3. CURRENT_Process = PID_SCHED => loc = "loop" \/ (loc = "switch" /\ Is_TaskInQueue)
  BY DEF Home
<1> HIDE DEF loc
<1>4. /\ Time_' \in 0 .. PROCESSOR_TIME /\ Schedule_Priority' \in Priorities
      /\ IntFlag' \in BOOLEAN /\ IntFlag' = IntFlag
      /\ UNCHANGED <<target, LastUsed_PID, CR0_TS, sched_RFLAGS>>
  BY <1>1 DEF IInv, TypeOK, cpuVars
<1> QED BY <1>1, <1>2, <1>3, <1>4, GotoIInv DEF At, SchedLocations, TaskLocations

LEMMA ReturnInv ==
    ASSUME IInv, GiveOut_Processor_Return
    PROVE  IInv'
<1>1. Quiet /\ UNCHANGED <<target, LastUsed_PID, CR0_TS, sched_RFLAGS>> /\ Goto(Home) /\ At("resumed")
      /\ Schedule_Priority' = Schedule_Priority /\ IntFlag' = IntFlag
      /\ PFlag[CURRENT_Process] # "TERMINATED"
  BY DEF IInv, FlagInv, At, GiveOut_Processor_Return, Quiet, schedVars
<1>2. Home = IF CURRENT_Process = PID_SCHED THEN "loop" ELSE "run"
  BY DEF Home
<1> HIDE DEF Home
<1>3. Time_' \in 0 .. PROCESSOR_TIME
  <2>1. Priority[CURRENT_Process] \in Priorities /\ PROCESSOR_TIME \in Nat
        /\ PRIORITY_TYPES \in Nat /\ PROCESSOR_TIME >= PRIORITY_TYPES
    BY PriorityAssumption DEF IInv, TypeOK
  <2> QED BY <2>1 DEF GiveOut_Processor_Return, Priorities
<1>4. Schedule_Priority' \in Priorities /\ IntFlag' \in BOOLEAN
  BY <1>1 DEF IInv, TypeOK
<1> QED BY <1>1, <1>2, <1>3, <1>4, GotoIInv DEF At, SchedLocations, TaskLocations

LEMMA YieldInv ==
    ASSUME IInv, Yield
    PROVE  IInv'
<1>1. Quiet /\ UNCHANGED <<target, cpuVars, sched_RFLAGS>> /\ Goto("yield") /\ At("run")
  BY DEF Yield, Calling, Quiet, cpuVars, schedVars
<1>2. /\ Time_' \in 0 .. PROCESSOR_TIME /\ Schedule_Priority' \in Priorities
      /\ IntFlag' \in BOOLEAN /\ IntFlag' = IntFlag
      /\ UNCHANGED <<target, LastUsed_PID, CR0_TS, sched_RFLAGS>>
  BY <1>1 DEF IInv, TypeOK, cpuVars
<1> QED BY <1>1, <1>2, GotoIInv DEF At, SchedLocations, TaskLocations

LEMMA DoneInv ==
    ASSUME IInv, sched_Done
    PROVE  IInv'
<1>1. Quiet /\ UNCHANGED <<target, LastUsed_PID, CR0_TS, sched_RFLAGS>> /\ Goto("yield") /\ At("drain")
      /\ Schedule_Priority' = Schedule_Priority /\ Time_' = Time_ /\ IntFlag' = sched_RFLAGS
  BY DEF sched_Done, Quiet, schedVars
<1>2. CURRENT_Process = PID_SCHED
  BY <1>1, ConstantFacts DEF IInv, LocationInv, TypeOK, TaskLocations, At
<1>3. ~sched_RFLAGS
  BY <1>1, <1>2 DEF IInv, MaskInv, At
<1>4. /\ Time_' \in 0 .. PROCESSOR_TIME /\ Schedule_Priority' \in Priorities
      /\ IntFlag' \in BOOLEAN
  BY <1>1 DEF IInv, TypeOK
<1> QED BY <1>1, <1>2, <1>3, <1>4, GotoIInv DEF At, SchedLocations

LEMMA LoopInv ==
    ASSUME IInv, sched_Loop
    PROVE  IInv'
<1>1. /\ Quiet
      /\ UNCHANGED <<target, LastUsed_PID, CR0_TS>>
      /\ At("loop")
      /\ Schedule_Priority' \in Priorities
      /\ Time_' \in 0 .. PROCESSOR_TIME
      /\ IntFlag \in BOOLEAN
      /\ sched_RFLAGS \in BOOLEAN
  BY DEF sched_Loop, Quiet, IInv, TypeOK
<1>2. CURRENT_Process = PID_SCHED
  BY <1>1, ConstantFacts DEF IInv, LocationInv, TypeOK, TaskLocations, At
<1>3. CASE SomethingToReap
  <2>1. Goto("drain") /\ IntFlag' = FALSE /\ sched_RFLAGS' = IntFlag
    BY <1>3 DEF sched_Loop
  <2>2. /\ LocationInv' /\ FlagInv' /\ QueueInv' /\ ReaperInv' /\ OrderInv' /\ WindowInv'
        /\ ThreadsHaveProcess' /\ ChildrenNameParent'
        /\ at' \in [PIDs -> Locations]
        /\ at'[CURRENT_Process] = "drain"
        /\ \A p \in PIDs : p # CURRENT_Process => at'[p] = at[p]
    BY <1>1, <1>2, <2>1, GotoInv DEF At, SchedLocations
  <2>3. TypeOK'
    BY <1>1, <2>1, <2>2 DEF IInv, TypeOK, Quiet, pcbVars, queueVars
  <2>4. Booted
    <3>1. TerminateQueue \in Seq(PIDs) /\ TerminateQueue # <<>>
      BY <1>3 DEF SomethingToReap, IInv, TypeOK
    <3>2. Head(TerminateQueue) \in PIDs /\ Holds(TerminateQueue, Head(TerminateQueue))
      BY <3>1, TailFacts
    <3> QED BY <3>2 DEF IInv, QueueInv, MaskInv
  <2>5. MaskInv'
    <3>1. ~IntFlag
      BY <1>2, <2>4 DEF IInv, MaskInv
    <3> QED BY <1>1, <1>2, <2>1, <2>2, <2>4, <3>1
          DEF MaskInv, Booted, Quiet, pcbVars
  <2>6. PoolInv'
    <3>1. Creating' \subseteq Creating
      BY <1>1, <2>2 DEF Creating
    <3> QED BY <1>1, <3>1, PoolKept DEF IInv, Quiet, pcbVars
  <2> QED BY <2>2, <2>3, <2>5, <2>6 DEF IInv
<1>4. CASE ~SomethingToReap
  <2>1. Goto("yield") /\ UNCHANGED <<IntFlag, sched_RFLAGS>>
    BY <1>4 DEF sched_Loop
  <2> QED BY <1>1, <1>2, <2>1, GotoIInv DEF At, SchedLocations
<1> QED BY <1>3, <1>4

LEMMA CreateCheckInv ==
    ASSUME IInv, Create_Process_Check
    PROVE  IInv'
<1> DEFINE loc == IF At("start") THEN "create_shell" ELSE "create"
<1>1. /\ Quiet
      /\ UNCHANGED <<target, cpuVars, sched_RFLAGS>>
      /\ Goto(loc)
      /\ At("start") \/ (At("run") /\ CURRENT_Process # PID_SCHED)
      /\ PoolBound
  BY DEF Create_Process_Check, Calling, Quiet, cpuVars, schedVars
<1>2. /\ loc \in {"create", "create_shell"}
      /\ CURRENT_Process = PID_SCHED => loc = "create_shell" /\ At("start")
      /\ CURRENT_Process # PID_SCHED => loc = "create" /\ At("run")
  BY <1>1, ConstantFacts DEF IInv, LocationInv, TypeOK, At, SchedLocations, TaskLocations
<1> HIDE DEF loc
<1>3. PoolInv'
  <2>1. Creating' \subseteq Creating \cup {CURRENT_Process}
    BY <1>1 DEF Creating, Goto, IInv, TypeOK
  <2>2. Cardinality(Creating') \in Nat /\ Cardinality(Creating') <= Cardinality(Creating) + 1
    <3> DEFINE U == Creating \cup {CURRENT_Process}
    <3>1. IsFiniteSet(U) /\ Cardinality(U) <= Cardinality(Creating) + 1
      BY CreatingFinite, FS_AddElement
    <3>2. IsFiniteSet(Creating') /\ Cardinality(Creating') <= Cardinality(U)
      BY <2>1, <3>1, FS_Subset
    <3>3. Cardinality(U) \in Nat /\ Cardinality(Creating') \in Nat
      BY <3>1, <3>2, FS_CardinalityType
    <3> HIDE DEF U
    <3> QED BY <3>1, <3>2, <3>3, CreatingFinite
  <2>3. UseCount' = UseCount /\ UseCount \in Int /\ TASKPOOL_MAXCOUNT \in Nat
        /\ Cardinality(Creating) \in Nat
    BY <1>1, CreatingFinite, PoolAssumption DEF Quiet, IInv, TypeOK
  <2>4. UseCountExact'
    BY <1>1 DEF IInv, PoolInv, UseCountExact, Quiet, pcbVars
  <2> QED BY <1>1, <2>2, <2>3, <2>4 DEF PoolInv, PoolBound
<1>4. /\ Time_' \in 0 .. PROCESSOR_TIME /\ Schedule_Priority' \in Priorities
      /\ IntFlag' \in BOOLEAN /\ IntFlag' = IntFlag
      /\ UNCHANGED <<target, LastUsed_PID, CR0_TS, sched_RFLAGS>>
  BY <1>1 DEF IInv, TypeOK, cpuVars
<1>5. At("run") => PFlag[CURRENT_Process] # "TERMINATED"
  BY DEF At, IInv, FlagInv
<1>6. ~At("reap")
  BY <1>1 DEF At
<1> QED
  <2>1. CASE CURRENT_Process = PID_SCHED
    BY <1>1, <1>2, <1>3, <1>4, <1>6, <2>1, GotoIInv DEF SchedLocations
  <2>2. CASE CURRENT_Process # PID_SCHED
    BY <1>1, <1>2, <1>3, <1>4, <1>5, <1>6, <2>2, GotoIInv DEF TaskLocations
  <2> QED BY <2>1, <2>2

LEMMA CreateRefusedInv ==
    ASSUME IInv, At("create"), NEW isThread, Create_Refused(isThread)
    PROVE  IInv'
<1>1. Quiet /\ UNCHANGED <<target, cpuVars, sched_RFLAGS>> /\ Goto("run")
      /\ CURRENT_Process # PID_SCHED /\ PFlag[CURRENT_Process] # "TERMINATED"
  <2>1. CURRENT_Process # PID_SCHED
    BY ConstantFacts DEF IInv, LocationInv, At, SchedLocations
  <2> QED BY <2>1 DEF Create_Refused, Home, Quiet, cpuVars, schedVars, IInv, FlagInv, At
<1>2. /\ Time_' \in 0 .. PROCESSOR_TIME /\ Schedule_Priority' \in Priorities
      /\ IntFlag' \in BOOLEAN /\ IntFlag' = IntFlag
      /\ UNCHANGED <<target, LastUsed_PID, CR0_TS, sched_RFLAGS>>
  BY <1>1 DEF IInv, TypeOK, cpuVars
<1> QED BY <1>1, <1>2, GotoIInv DEF At, TaskLocations

-----------------------------------------------------------------------------
(* Terminate_Process.                                                      *)

(* A task that runs its own code is not sched, is alive, and sched has     *)
(* given out the processor; so sched waits in GiveOut_Processor.           *)
LEMMA CallerFacts ==
    ASSUME IInv, CURRENT_Process # PID_SCHED, Booted
    PROVE  /\ at[PID_SCHED] = "resumed"
           /\ TerminateProcess = NoPID
           /\ CURRENT_Process \in PIDs
           /\ PID_SCHED \in PIDs
BY ConstantFacts DEF IInv, MaskInv, ReaperInv, TypeOK

LEMMA TerminateSelfInv ==
    ASSUME IInv, Orderly, Terminate_Process_Self, PFlag[CURRENT_Process] # "WAITING"
    PROVE  IInv'
<1> DEFINE c == CURRENT_Process
<1>1. /\ c # PID_SCHED /\ at[c] = "run" /\ OrderlyVictim(c)
      /\ PFlag' = [PFlag EXCEPT ![c] = "TERMINATED"]
      /\ at' = [at EXCEPT ![c] = "yield"]
      /\ UNCHANGED <<PCB_Is_Alloced, Priority, ParentPID, Is_Thread, Childs, Use_FPU,
                     target, RFLAGS, queueVars, UseCount, cpuVars, schedVars>>
  BY DEF Terminate_Process_Self, Calling, At, Goto
<1>2. /\ Booted /\ PFlag[c] # "TERMINATED" /\ ~Claimed(c)
      /\ ParentPID[c] \in PIDs => PFlag[ParentPID[c]] # "TERMINATED"
      /\ Cascades(c) => ~KillOpen
  BY <1>1 DEF OrderlyVictim
<1>3. /\ at[PID_SCHED] = "resumed" /\ TerminateProcess = NoPID
      /\ c \in PIDs /\ PID_SCHED \in PIDs /\ NoPID \notin PIDs
  BY <1>1, <1>2, CallerFacts, ConstantFacts
<1> HIDE DEF c
<1>4. TypeOK /\ PFlag \in [PIDs -> Flags] /\ at \in [PIDs -> Locations]
  BY DEF IInv, TypeOK
<1>5. /\ PFlag' \in [PIDs -> Flags] /\ PFlag'[c] = "TERMINATED"
      /\ \A p \in PIDs : p # c => PFlag'[p] = PFlag[p]
      /\ at' \in [PIDs -> Locations] /\ at'[c] = "yield"
      /\ \A p \in PIDs : p # c => at'[p] = at[p]
  BY <1>1, <1>3, <1>4 DEF Flags, Locations
<1>6. PFlag[c] \in {"NEW", "RUNNING"} /\ PCB_Is_Alloced[c]
  BY <1>2, <1>3 DEF IInv, FlagInv, c
<1>7. CURRENT_Process = c /\ CURRENT_Process' = c
  BY <1>1 DEF c, cpuVars
<1>8. TypeOK'
  BY <1>1, <1>4, <1>5 DEF TypeOK, queueVars, cpuVars, schedVars
<1>9. LocationInv'
  BY <1>1, <1>3, <1>5 DEF IInv, LocationInv, TaskLocations
<1>10. FlagInv'
  BY <1>1, <1>3, <1>5, <1>6, <1>7 DEF IInv, FlagInv, cpuVars
<1>11. QueueInv'
  <2>1. \A p \in PIDs : Settled(p)' => p # c /\ Settled(p)
    BY <1>1, <1>7 DEF Settled, schedVars
  <2> QED BY <1>1, <1>5, <1>6, <1>7, <2>1
        DEF IInv, QueueInv, NoTaskLost, queueVars, schedVars
<1>12. ReaperInv'
  BY <1>1, <1>3, <1>5 DEF IInv, ReaperInv, schedVars
<1>13. MaskInv'
  BY <1>1, <1>2, <1>3, <1>5, <1>7 DEF IInv, MaskInv, Booted, cpuVars, schedVars
<1>14. OrderInv'
  <2>1. \A x \in PIDs : PFlag'[x] = "TERMINATED" => ~Holds(Childs[x], c)
    <3> SUFFICES ASSUME NEW x \in PIDs, Holds(Childs[x], c)
                 PROVE  PFlag'[x] # "TERMINATED"
      OBVIOUS
    <3>1. ParentPID[c] = x
      BY DEF IInv, ChildrenNameParent, Holds
    <3>2. x # c
      BY DEF IInv, OrderInv
    <3> QED BY <1>2, <1>5, <3>1, <3>2
  <2> QED BY <1>1, <1>7, <2>1 DEF IInv, OrderInv, queueVars
<1>15. WindowInv'
  <2> SUFFICES ASSUME NEW k \in PIDs, at'[k] = "kill"
               PROVE  /\ Booted'
                      /\ PFlag'[k] \in {"READY", "RUNNING"}
                      /\ target'[k] \in PIDs \ {k, PID_SCHED}
                      /\ PFlag'[target'[k]] \in {"READY", "RUNNING", "WAITING"}
                      /\ \A j \in PIDs : at'[j] = "kill" => j = k
                      /\ \A d \in PIDs : PFlag'[d] = "TERMINATED" => ~Cascades(d)
    BY <1>1 DEF WindowInv, Cascades, Booted
  <2>1. k # c /\ at[k] = "kill" /\ target[k] # c /\ target' = target
    BY <1>1, <1>2, <1>5 DEF Claimed
  <2>2. ~Cascades(c)
    BY <1>2, <2>1 DEF KillOpen
  <2>3. Booted'
    BY <1>1, <1>2 DEF Booted
  <2> QED BY <1>5, <2>1, <2>2, <2>3 DEF IInv, WindowInv
<1>16. PoolInv'
  <2>1. Creating' \subseteq Creating
    BY <1>5 DEF Creating
  <2> QED BY <1>1, <1>4, <2>1, PoolKept DEF IInv
<1>17. ThreadsHaveProcess'
  BY <1>1, <1>5 DEF IInv, ThreadsHaveProcess
<1>18. ChildrenNameParent'
  BY <1>1 DEF IInv, ChildrenNameParent
<1> QED
  BY <1>8, <1>9, <1>10, <1>11, <1>12, <1>13, <1>14, <1>15, <1>16, <1>17, <1>18 DEF IInv

LEMMA TerminateCheckInv ==
    ASSUME IInv, Orderly, NEW v \in PIDs, Terminate_Process_Check(v),
           PFlag[CURRENT_Process] # "WAITING"
    PROVE  IInv'
<1> DEFINE c == CURRENT_Process
<1>1. /\ c # PID_SCHED /\ at[c] = "run" /\ OrderlyKill(v)
      /\ v # PID_SCHED /\ v # c /\ PCB_Is_Alloced[v]
      /\ target' = [target EXCEPT ![c] = v]
      /\ at' = [at EXCEPT ![c] = "kill"]
      /\ UNCHANGED <<pcbVars, RFLAGS, queueVars, UseCount, cpuVars, schedVars>>
  BY DEF Terminate_Process_Check, Killable, Calling, At, Goto
<1>2. /\ Booted /\ PFlag[v] # "TERMINATED" /\ ~KillOpen
      /\ \A k \in PIDs : PFlag[k] = "TERMINATED" => ~Cascades(k)
  BY <1>1 DEF OrderlyKill, OrderlyVictim
<1>3. /\ at[PID_SCHED] = "resumed" /\ TerminateProcess = NoPID
      /\ c \in PIDs /\ PID_SCHED \in PIDs
  BY <1>1, <1>2, CallerFacts
<1>4. CURRENT_Process = c /\ CURRENT_Process' = c
  BY <1>1 DEF c, cpuVars
<1>5. PFlag[c] = "RUNNING" /\ PFlag[v] \in {"READY", "WAITING"}
  <2>1. PFlag[c] = "RUNNING"
    BY <1>1, <1>3, <1>4 DEF IInv, FlagInv
  <2>2. PFlag[v] \in Flags
    BY DEF IInv, TypeOK
  <2> QED BY <1>1, <1>2, <1>4, <2>1, <2>2 DEF IInv, FlagInv, Flags
<1> HIDE DEF c
<1>6. TypeOK /\ at \in [PIDs -> Locations] /\ target \in [PIDs -> PIDs \cup {NoPID}]
  BY DEF IInv, TypeOK
<1>7. /\ target' \in [PIDs -> PIDs \cup {NoPID}] /\ target'[c] = v
      /\ at' \in [PIDs -> Locations] /\ at'[c] = "kill"
      /\ \A p \in PIDs : p # c => at'[p] = at[p] /\ target'[p] = target[p]
  BY <1>1, <1>3, <1>6 DEF Locations
<1>8. TypeOK'
  BY <1>1, <1>6, <1>7 DEF TypeOK, pcbVars, queueVars, cpuVars, schedVars
<1>9. LocationInv'
  BY <1>1, <1>3, <1>7 DEF IInv, LocationInv, TaskLocations
<1>10. FlagInv'
  BY <1>1, <1>3, <1>4, <1>5, <1>7 DEF IInv, FlagInv, pcbVars, cpuVars
<1>11. Quiet
  BY <1>1 DEF Quiet, cpuVars, schedVars
<1>12. ReaperInv'
  BY <1>1, <1>3, <1>7 DEF IInv, ReaperInv, pcbVars, schedVars
<1>13. MaskInv'
  BY <1>1, <1>2, <1>3, <1>4, <1>7 DEF IInv, MaskInv, Booted, pcbVars, cpuVars, schedVars
<1>14. WindowInv'
  <2>1. \A k \in PIDs : at'[k] = "kill" => k = c
    BY <1>2, <1>7 DEF KillOpen
  <2> QED BY <1>1, <1>2, <1>3, <1>5, <1>7, <2>1 DEF WindowInv, Cascades, Booted, pcbVars
<1>15. PoolInv'
  <2>1. Creating' \subseteq Creating
    BY <1>7 DEF Creating
  <2> QED BY <1>1, <1>6, <2>1, PoolKept DEF IInv, pcbVars
<1> QED
  BY <1>8, <1>9, <1>10, <1>11, <1>12, <1>13, <1>14, <1>15, QuietInv DEF IInv

-----------------------------------------------------------------------------
(* The switch.                                                             *)

(* While the pool has room no queue refuses a task.                        *)
LEMMA RoomFacts ==
    ASSUME IInv, ~FillsPool, Orderly
    PROVE  UseCount # TASKPOOL_MAXCOUNT /\ UseCount + 1 <= TASKPOOL_MAXCOUNT
<1>1. UseCount \in Int /\ TASKPOOL_MAXCOUNT \in Nat /\ Cardinality(Creating) \in Nat
  BY PoolAssumption, CreatingFinite DEF IInv, TypeOK
<1>2. UseCount + Cardinality(Creating) < TASKPOOL_MAXCOUNT
  BY DEF IInv, PoolInv
<1> QED BY <1>1, <1>2

(* What the queues hold after a switch from task c to task s.              *)
LEMMA SwitchQueues ==
    ASSUME IInv, ~FillsPool, Orderly, Is_TaskInQueue, SwitchTasks(Priority[CURRENT_Process]),
           NEW c, c = CURRENT_Process, NEW s, s = ScheduledTask
    PROVE  /\ c \in PIDs /\ s \in PIDs /\ s # c
           /\ PFlag[s] = "READY"
           /\ ReadyQueue' \in [Priorities -> Seq(PIDs)]
           /\ TerminateQueue' \in Seq(PIDs)
           /\ \A r \in Priorities : NoRepeats(ReadyQueue'[r])
           /\ \A r \in Priorities, x \in PIDs : Holds(ReadyQueue'[r], x) <=>
                 \/ Holds(ReadyQueue[r], x) /\ x # s
                 \/ x = c /\ r = Priority[c] /\ PFlag[c] \notin {"TERMINATED", "WAITING"}
           /\ NoRepeats(TerminateQueue')
           /\ \A x \in PIDs : Holds(TerminateQueue', x) <=>
                 Holds(TerminateQueue, x) \/ (x = c /\ PFlag[c] = "TERMINATED")
           /\ \A x, y : Before(TerminateQueue', x, y) =>
                 \/ Before(TerminateQueue, x, y)
                 \/ y = c /\ Holds(TerminateQueue, x) /\ PFlag[c] = "TERMINATED"
<1> DEFINE popped == [ReadyQueue EXCEPT ![Picked] = Tail(@)]
           q == Priority[c]
<1>1. /\ ReadyQueue \in [Priorities -> Seq(PIDs)] /\ TerminateQueue \in Seq(PIDs)
      /\ c \in PIDs /\ q \in Priorities
  BY DEF IInv, TypeOK
<1>2. Picked \in Priorities /\ ReadyQueue[Picked] # <<>>
  BY PickedFacts DEF IInv
<1>3. s = Head(ReadyQueue[Picked]) /\ ReadyQueue[Picked] \in Seq(PIDs)
  BY <1>1, <1>2 DEF ScheduledTask
<1>4. /\ \A r \in Priorities : NoRepeats(ReadyQueue[r])
      /\ \A p \in PIDs, r \in Priorities : Holds(ReadyQueue[r], p) =>
            PFlag[p] = "READY" /\ Priority[p] = r
      /\ NoRepeats(TerminateQueue)
      /\ \A p \in PIDs : Holds(TerminateQueue, p) => p # c
  BY DEF IInv, QueueInv
<1>5. s \in PIDs /\ PFlag[s] = "READY" /\ Priority[s] = Picked
  BY <1>2, <1>3, <1>4, TailFacts
<1>6. PFlag[c] \in {"NEW", "RUNNING", "WAITING", "TERMINATED"}
  BY DEF IInv, FlagInv
<1>7. s # c
  BY <1>5, <1>6
<1>8. /\ popped \in [Priorities -> Seq(PIDs)]
      /\ \A r \in Priorities : NoRepeats(popped[r])
      /\ \A r \in Priorities, x \in PIDs : Holds(popped[r], x) <=> Holds(ReadyQueue[r], x) /\ x # s
  <2>1. /\ Tail(ReadyQueue[Picked]) \in Seq(PIDs)
        /\ NoRepeats(Tail(ReadyQueue[Picked]))
        /\ \A x : Holds(Tail(ReadyQueue[Picked]), x) <=> Holds(ReadyQueue[Picked], x) /\ x # s
    BY <1>2, <1>3, <1>4, TailFacts
  <2>2. popped[Picked] = Tail(ReadyQueue[Picked])
        /\ \A r \in Priorities : r # Picked => popped[r] = ReadyQueue[r]
    BY <1>1, <1>2
  <2>3. popped \in [Priorities -> Seq(PIDs)]
    BY <1>1, <1>2, <2>1
  <2> HIDE DEF popped
  <2>4. \A r \in Priorities : NoRepeats(popped[r])
    BY <1>4, <2>1, <2>2
  <2>5. \A r \in Priorities, x \in PIDs : Holds(popped[r], x) <=> Holds(ReadyQueue[r], x) /\ x # s
    BY <1>4, <1>5, <2>1, <2>2
  <2> QED BY <2>3, <2>4, <2>5
<1>9. \A queue : Add_Task_in_Tail(queue, c, UseCount) = Append(queue, c)
  BY RoomFacts DEF Add_Task_in_Tail
<1>10. /\ ReadyQueue' = IF PFlag[c] \in {"TERMINATED", "WAITING"} THEN popped
                         ELSE [popped EXCEPT ![q] = Append(@, c)]
       /\ TerminateQueue' = IF PFlag[c] = "TERMINATED" THEN Append(TerminateQueue, c)
                             ELSE TerminateQueue
  BY <1>6, <1>9 DEF SwitchTasks
<1> HIDE DEF popped, q
<1>11. /\ ReadyQueue' \in [Priorities -> Seq(PIDs)]
       /\ \A r \in Priorities : NoRepeats(ReadyQueue'[r])
       /\ \A r \in Priorities, x \in PIDs : Holds(ReadyQueue'[r], x) <=>
              \/ Holds(ReadyQueue[r], x) /\ x # s
              \/ x = c /\ r = q /\ PFlag[c] \notin {"TERMINATED", "WAITING"}
  <2>1. CASE PFlag[c] \in {"TERMINATED", "WAITING"}
    BY <1>8, <1>10, <2>1
  <2>2. CASE PFlag[c] \notin {"TERMINATED", "WAITING"}
    <3>1. ~Holds(popped[q], c) /\ popped[q] \in Seq(PIDs) /\ NoRepeats(popped[q])
      BY <1>1, <1>4, <1>6, <1>8
    <3>2. /\ Append(popped[q], c) \in Seq(PIDs)
          /\ NoRepeats(Append(popped[q], c))
          /\ \A x : Holds(Append(popped[q], c), x) <=> Holds(popped[q], x) \/ x = c
      BY <1>1, <3>1, AppendFacts
    <3>3. /\ ReadyQueue'[q] = Append(popped[q], c)
          /\ \A r \in Priorities : r # q => ReadyQueue'[r] = popped[r]
          /\ ReadyQueue' \in [Priorities -> Seq(PIDs)]
      BY <1>1, <1>8, <1>10, <2>2, <3>2
    <3> QED BY <1>8, <2>2, <3>2, <3>3
  <2> QED BY <2>1, <2>2
<1>12. /\ TerminateQueue' \in Seq(PIDs)
       /\ NoRepeats(TerminateQueue')
       /\ \A x \in PIDs : Holds(TerminateQueue', x) <=>
              Holds(TerminateQueue, x) \/ (x = c /\ PFlag[c] = "TERMINATED")
       /\ \A x, y : Before(TerminateQueue', x, y) =>
              \/ Before(TerminateQueue, x, y)
              \/ y = c /\ Holds(TerminateQueue, x) /\ PFlag[c] = "TERMINATED"
  <2>1. CASE PFlag[c] = "TERMINATED"
    <3>1. TerminateQueue' = Append(TerminateQueue, c) /\ ~Holds(TerminateQueue, c)
      BY <1>1, <1>4, <1>10, <2>1
    <3> QED BY <1>1, <1>4, <2>1, <3>1, AppendFacts
  <2>2. CASE PFlag[c] # "TERMINATED"
    BY <1>1, <1>4, <1>10, <2>2
  <2> QED BY <2>1, <2>2
<1> QED BY <1>1, <1>5, <1>7, <1>11, <1>12 DEF q

(* The switch keeps the invariant, whether the task gives the processor    *)
(* out (it is then at "resumed") or loses it where it is.                  *)
LEMMA SwitchInv ==
    ASSUME IInv, ~FillsPool, Orderly, Is_TaskInQueue, SwitchTasks(Priority[CURRENT_Process]),
           at[PID_SCHED] \notin {"drain", "reap"},
           at' = at \/ at' = [at EXCEPT ![CURRENT_Process] = "resumed"],
           RFLAGS' \in [PIDs -> BOOLEAN],
           \A p \in PIDs : p # CURRENT_Process => RFLAGS'[p] = RFLAGS[p],
           CURRENT_Process = PID_SCHED =>
               \/ Booted' /\ at'[PID_SCHED] = "resumed"
               \/ ~Booted /\ ~Booted',
           Time_' \in 0 .. PROCESSOR_TIME,
           CR0_TS' \in BOOLEAN
    PROVE  IInv'
<1> DEFINE c == CURRENT_Process
           s == ScheduledTask
<1>1. /\ c \in PIDs /\ s \in PIDs /\ s # c
      /\ PFlag[s] = "READY"
      /\ ReadyQueue' \in [Priorities -> Seq(PIDs)]
      /\ TerminateQueue' \in Seq(PIDs)
      /\ \A r \in Priorities : NoRepeats(ReadyQueue'[r])
      /\ \A r \in Priorities, x \in PIDs : Holds(ReadyQueue'[r], x) <=>
            \/ Holds(ReadyQueue[r], x) /\ x # s
            \/ x = c /\ r = Priority[c] /\ PFlag[c] \notin {"TERMINATED", "WAITING"}
      /\ NoRepeats(TerminateQueue')
      /\ \A x \in PIDs : Holds(TerminateQueue', x) <=>
            Holds(TerminateQueue, x) \/ (x = c /\ PFlag[c] = "TERMINATED")
      /\ \A x, y : Before(TerminateQueue', x, y) =>
            \/ Before(TerminateQueue, x, y)
            \/ y = c /\ Holds(TerminateQueue, x) /\ PFlag[c] = "TERMINATED"
  BY SwitchQueues
<1>2. /\ PFlag' = [PFlag EXCEPT ![s] = "RUNNING",
                                ![c] = IF @ \in {"TERMINATED", "WAITING"} THEN @ ELSE "READY"]
      /\ CURRENT_Process' = s
      /\ Process_Queue' = Priority[s]
      /\ Schedule_Priority' = NextPriority
      /\ IntFlag' = RFLAGS[s]
      /\ UNCHANGED <<PCB_Is_Alloced, Priority, ParentPID, Is_Thread, Childs, Use_FPU,
                     target, Wait_Queue, UseCount, LastUsed_PID, schedVars>>
  BY DEF SwitchTasks
<1>3. PFlag[c] \in {"NEW", "RUNNING", "WAITING", "TERMINATED"} /\ CURRENT_Process = c
  BY DEF IInv, FlagInv
<1> HIDE DEF c, s
<1>4. /\ TypeOK /\ PFlag \in [PIDs -> Flags] /\ at \in [PIDs -> Locations]
      /\ PID_SCHED \in PIDs /\ NoPID \notin PIDs
  BY ConstantFacts DEF IInv, TypeOK
<1>5. /\ PFlag' \in [PIDs -> Flags] /\ PFlag'[s] = "RUNNING"
      /\ PFlag'[c] = IF PFlag[c] \in {"TERMINATED", "WAITING"} THEN PFlag[c] ELSE "READY"
      /\ \A p \in PIDs : p # c /\ p # s => PFlag'[p] = PFlag[p]
  BY <1>1, <1>2, <1>3, <1>4 DEF Flags
<1>6. /\ at' \in [PIDs -> Locations]
      /\ \A p \in PIDs : p # c => at'[p] = at[p]
      /\ at'[c] \in {at[c], "resumed"}
  BY <1>1, <1>3, <1>4 DEF Locations
<1>7. TerminateProcess = NoPID /\ TerminateProcess' = NoPID
  BY <1>2 DEF IInv, ReaperInv, schedVars
<1>8. TypeOK'
  <2>1. Schedule_Priority' \in Priorities
    BY <1>2, <1>4, NextPriorityType
  <2>2. Process_Queue' \in Priorities /\ IntFlag' \in BOOLEAN /\ CURRENT_Process' \in PIDs
    BY <1>1, <1>2, <1>4 DEF TypeOK
  <2> QED BY <1>1, <1>2, <1>4, <1>5, <1>6, <2>1, <2>2 DEF TypeOK, schedVars
<1>9. LocationInv'
  BY <1>1, <1>4, <1>6 DEF IInv, LocationInv, SchedLocations, TaskLocations
<1>10. FlagInv'
  BY <1>1, <1>2, <1>3, <1>4, <1>5, <1>6 DEF IInv, FlagInv
<1>11. QueueInv'
  <2>1. /\ \A p \in PIDs, q \in Priorities : Holds(ReadyQueue'[q], p) =>
              PFlag'[p] = "READY" /\ Priority'[p] = q
        /\ \A p \in PIDs : Holds(TerminateQueue', p) =>
              PFlag'[p] = "TERMINATED" /\ p # CURRENT_Process' /\ p # TerminateProcess'
        /\ \A p \in PIDs : Holds(Wait_Queue', p) <=> PFlag'[p] = "WAITING"
    BY <1>1, <1>2, <1>3, <1>4, <1>5, <1>7 DEF IInv, QueueInv
  <2>2. NoTaskLost'
    <3> SUFFICES ASSUME NEW p \in PIDs, Settled(p)'
                 PROVE  \/ PFlag'[p] = "READY" /\ Holds(ReadyQueue'[Priority'[p]], p)
                        \/ PFlag'[p] = "TERMINATED" /\ Holds(TerminateQueue', p)
                        \/ PFlag'[p] = "WAITING" /\ Holds(Wait_Queue', p)
      BY DEF NoTaskLost
    <3>1. PCB_Is_Alloced[p] /\ p # s /\ p # NoPID /\ Priority[p] \in Priorities
      BY <1>2, <1>4, <1>7 DEF Settled, TypeOK
    <3>2. CASE p = c
      <4>1. CASE PFlag[c] = "WAITING"
        BY <1>1, <1>2, <1>5, <3>2, <4>1 DEF IInv, QueueInv
      <4>2. CASE PFlag[c] # "WAITING"
        BY <1>1, <1>2, <1>3, <1>5, <3>1, <3>2, <4>2
      <4> QED BY <4>1, <4>2
    <3>3. CASE p # c
      <4>1. Settled(p)
        BY <1>3, <1>7, <3>1, <3>3 DEF Settled
      <4> QED BY <1>1, <1>2, <1>5, <3>1, <3>3, <4>1 DEF IInv, QueueInv, NoTaskLost
    <3> QED BY <3>2, <3>3
  <2> QED BY <1>1, <1>2, <2>1, <2>2 DEF IInv, QueueInv
<1>12. ReaperInv'
  BY <1>1, <1>4, <1>6, <1>7 DEF ReaperInv
<1>13. MaskInv'
  <2>1. ~Booted' => \A p \in PIDs : PFlag'[p] \notin {"TERMINATED", "WAITING"}
    <3>1. ~Booted' => ~Booted
      BY <1>3, <1>4 DEF Booted
    <3> QED BY <1>1, <1>5, <3>1 DEF IInv, MaskInv
  <2>2. Booted' /\ CURRENT_Process' = PID_SCHED => ~IntFlag'
    BY <1>1, <1>2, <1>3 DEF Booted
  <2>3. Booted' /\ CURRENT_Process' # PID_SCHED => at'[PID_SCHED] = "resumed"
    <3>1. CASE c = PID_SCHED
      BY <1>3, <3>1
    <3>2. CASE c # PID_SCHED
      BY <1>3, <1>4, <1>6, <3>2 DEF IInv, MaskInv, Booted
    <3> QED BY <3>1, <3>2
  <2>4. at'[PID_SCHED] \notin {"drain", "reap"}
    BY <1>4, <1>6
  <2>5. at'[PID_SCHED] = "switch" => CURRENT_Process' # PID_SCHED \/ Is_TaskInQueue'
    <3> SUFFICES ASSUME at'[PID_SCHED] = "switch", s = PID_SCHED
                 PROVE  Is_TaskInQueue'
      BY <1>2
    <3>1. ~Booted
      BY <1>1, <1>3, <1>4, <1>6 DEF IInv, MaskInv
    <3>2. PFlag[c] \notin {"TERMINATED", "WAITING"} /\ Priority[c] \in Priorities
      BY <1>1, <1>4, <3>1 DEF IInv, MaskInv, TypeOK
    <3>3. Holds(ReadyQueue'[Priority[c]], c)
      BY <1>1, <3>2
    <3>4. ReadyQueue'[Priority[c]] # <<>>
      BY <3>3 DEF Holds
    <3> QED BY <3>2, <3>4 DEF Is_TaskInQueue
  <2> QED BY <2>1, <2>2, <2>3, <2>4, <2>5 DEF MaskInv
<1>14. OrderInv'
  <2>1. \A x, y \in PIDs : Before(TerminateQueue', x, y) /\ ~Is_Thread'[x] => ~Holds(Childs'[x], y)
    BY <1>1, <1>2, <1>3 DEF IInv, OrderInv, QueueInv
  <2> QED BY <1>2, <1>5, <2>1 DEF IInv, OrderInv
<1>15. WindowInv'
  <2> SUFFICES ASSUME NEW k \in PIDs, at'[k] = "kill"
               PROVE  /\ Booted'
                      /\ PFlag'[k] \in {"READY", "RUNNING"}
                      /\ target[k] \in PIDs \ {k, PID_SCHED}
                      /\ PFlag'[target[k]] \in {"READY", "RUNNING", "WAITING"}
                      /\ \A j \in PIDs : at'[j] = "kill" => j = k
                      /\ \A d \in PIDs : PFlag'[d] = "TERMINATED" => ~Cascades(d)
    BY <1>2 DEF WindowInv, Cascades
  <2>1. \A j \in PIDs : at'[j] = "kill" => at[j] = "kill"
    BY <1>6
  <2>2. \A d \in PIDs : PFlag'[d] = "TERMINATED" => PFlag[d] = "TERMINATED"
    BY <1>5
  <2>3. /\ PFlag[k] \in {"READY", "RUNNING"}
        /\ target[k] \in PIDs \ {k, PID_SCHED}
        /\ PFlag[target[k]] \in {"READY", "RUNNING", "WAITING"}
        /\ \A j \in PIDs : at[j] = "kill" => j = k
        /\ \A d \in PIDs : PFlag[d] = "TERMINATED" => ~Cascades(d)
    BY <2>1 DEF IInv, WindowInv
  <2>4. \A p \in PIDs : PFlag[p] \in {"READY", "RUNNING", "WAITING"} =>
            PFlag'[p] \in {"READY", "RUNNING", PFlag[p]}
    BY <1>5
  <2>5. Booted'
    <3>1. Booted
      BY <2>1 DEF IInv, WindowInv
    <3> QED BY <1>3, <1>4, <3>1 DEF Booted
  <2> QED BY <2>1, <2>2, <2>3, <2>4, <2>5
<1>16. PoolInv'
  <2>1. Creating' \subseteq Creating
    BY <1>6 DEF Creating
  <2> QED BY <1>2, <1>4, <2>1, PoolKept DEF IInv
<1>17. ThreadsHaveProcess'
  <2>1. \A d \in PIDs : PFlag'[d] # "TERMINATED" => PFlag[d] # "TERMINATED"
    BY <1>1, <1>5
  <2> QED BY <1>2, <2>1 DEF IInv, ThreadsHaveProcess
<1>18. ChildrenNameParent'
  BY <1>2 DEF IInv, ChildrenNameParent
<1> QED
  BY <1>8, <1>9, <1>10, <1>11, <1>12, <1>13, <1>14, <1>15, <1>16, <1>17, <1>18 DEF IInv

LEMMA QuantumType ==
    ASSUME TypeOK, NEW p \in PIDs
    PROVE  PROCESSOR_TIME - Priority[p] \in 0 .. PROCESSOR_TIME
<1>1. Priority[p] \in Priorities
  BY DEF TypeOK
<1> QED BY <1>1, PriorityAssumption DEF Priorities

LEMMA PreemptedInv ==
    ASSUME IInv, ~FillsPool, Orderly, Preempted_ByTimeOut
    PROVE  IInv'
<1>1. /\ IntFlag /\ Is_TaskInQueue /\ SwitchTasks(Priority[CURRENT_Process])
      /\ RFLAGS' = [RFLAGS EXCEPT ![CURRENT_Process] =
                                    IF PFlag[CURRENT_Process] = "TERMINATED" THEN @ ELSE TRUE]
      /\ Time_' = PROCESSOR_TIME - Priority[ScheduledTask]
      /\ at' = at /\ CR0_TS' = CR0_TS
  BY DEF Preempted_ByTimeOut, IInv, FlagInv
<1>2. CURRENT_Process \in PIDs /\ PID_SCHED \in PIDs /\ RFLAGS \in [PIDs -> BOOLEAN] /\ TypeOK
  BY ConstantFacts DEF IInv, TypeOK
<1>3. ScheduledTask \in PIDs
  BY <1>1, SwitchQueues
<1>4. /\ RFLAGS' \in [PIDs -> BOOLEAN]
      /\ \A p \in PIDs : p # CURRENT_Process => RFLAGS'[p] = RFLAGS[p]
      /\ RFLAGS'[CURRENT_Process] = IF PFlag[CURRENT_Process] = "TERMINATED"
                                    THEN RFLAGS[CURRENT_Process] ELSE TRUE
  BY <1>1, <1>2
<1>5. at[PID_SCHED] \notin {"drain", "reap"}
  BY <1>1 DEF IInv, MaskInv, ReaperInv
<1>6. CURRENT_Process = PID_SCHED => ~Booted /\ ~Booted'
  BY <1>1, <1>2, <1>4 DEF IInv, MaskInv, FlagInv, Booted
<1>7. Time_' \in 0 .. PROCESSOR_TIME
  BY <1>1, <1>2, <1>3, QuantumType
<1>8. CR0_TS' \in BOOLEAN
  BY <1>1 DEF IInv, TypeOK
<1> QED BY <1>1, <1>4, <1>5, <1>6, <1>7, <1>8, SwitchInv

LEMMA GiveOutSwitchInv ==
    ASSUME IInv, ~FillsPool, Orderly, GiveOut_Processor_Switch
    PROVE  IInv'
<1>1. /\ at[CURRENT_Process] = "switch" /\ Is_TaskInQueue
      /\ SwitchTasks(Priority[CURRENT_Process])
      /\ RFLAGS' = [RFLAGS EXCEPT ![CURRENT_Process] =
                                    PFlag[CURRENT_Process] = "TERMINATED" /\ @]
      /\ PFlag[PID_SCHED] # "TERMINATED"
      /\ CR0_TS' = (ScheduledTask # LastUsed_PID)
      /\ at' = [at EXCEPT ![CURRENT_Process] = "resumed"]
      /\ Time_' = Time_
  BY DEF GiveOut_Processor_Switch, At, Goto, IInv, FlagInv
<1>2. /\ CURRENT_Process \in PIDs /\ PID_SCHED \in PIDs /\ RFLAGS \in [PIDs -> BOOLEAN]
      /\ at \in [PIDs -> Locations] /\ Time_ \in 0 .. PROCESSOR_TIME
  BY ConstantFacts DEF IInv, TypeOK
<1>3. /\ RFLAGS' \in [PIDs -> BOOLEAN]
      /\ \A p \in PIDs : p # CURRENT_Process => RFLAGS'[p] = RFLAGS[p]
      /\ PFlag[CURRENT_Process] # "TERMINATED" => RFLAGS'[CURRENT_Process] = FALSE
      /\ at'[CURRENT_Process] = "resumed"
  BY <1>1, <1>2
<1>4. at[PID_SCHED] \notin {"drain", "reap"}
  BY <1>1 DEF IInv, ReaperInv
<1>5. CURRENT_Process = PID_SCHED => Booted' /\ at'[PID_SCHED] = "resumed"
  BY <1>1, <1>3 DEF Booted
<1>6. Time_' \in 0 .. PROCESSOR_TIME /\ CR0_TS' \in BOOLEAN
  BY <1>1, <1>2
<1> QED BY <1>1, <1>3, <1>4, <1>5, <1>6, SwitchInv

-----------------------------------------------------------------------------
(* Terminating another task: the part between cli and sti.                 *)

(* The victim leaves the queue it was in for the tail of the terminate     *)
(* queue.                                                                  *)
LEMMA UnlinkQueues ==
    ASSUME IInv, ~FillsPool, Orderly, NEW v \in PIDs, PFlag[v] \in {"READY", "WAITING"},
           Unlink_And_Terminate(v)
    PROVE  /\ ReadyQueue' \in [Priorities -> Seq(PIDs)]
           /\ TerminateQueue' \in Seq(PIDs)
           /\ Wait_Queue' \in Seq(PIDs)
           /\ \A r \in Priorities : NoRepeats(ReadyQueue'[r])
           /\ NoRepeats(TerminateQueue')
           /\ NoRepeats(Wait_Queue')
           /\ \A r \in Priorities, x \in PIDs :
                 Holds(ReadyQueue'[r], x) <=> Holds(ReadyQueue[r], x) /\ x # v
           /\ \A x \in PIDs : Holds(Wait_Queue', x) <=> Holds(Wait_Queue, x) /\ x # v
           /\ \A x \in PIDs : Holds(TerminateQueue', x) <=> Holds(TerminateQueue, x) \/ x = v
           /\ \A x, y : Before(TerminateQueue', x, y) =>
                 Before(TerminateQueue, x, y) \/ (y = v /\ Holds(TerminateQueue, x))
           /\ PFlag' \in [PIDs -> Flags]
           /\ PFlag'[v] = "TERMINATED"
           /\ \A x \in PIDs : x # v => PFlag'[x] = PFlag[x]
<1> DEFINE q == Priority[v]
<1>1. /\ ReadyQueue \in [Priorities -> Seq(PIDs)] /\ TerminateQueue \in Seq(PIDs)
      /\ Wait_Queue \in Seq(PIDs) /\ q \in Priorities
      /\ PFlag \in [PIDs -> Flags]
  BY DEF IInv, TypeOK
<1>2. /\ \A r \in Priorities : NoRepeats(ReadyQueue[r])
      /\ \A p \in PIDs, r \in Priorities : Holds(ReadyQueue[r], p) =>
            PFlag[p] = "READY" /\ Priority[p] = r
      /\ NoRepeats(TerminateQueue)
      /\ NoRepeats(Wait_Queue)
      /\ \A p \in PIDs : Holds(TerminateQueue, p) => PFlag[p] = "TERMINATED"
      /\ \A p \in PIDs : Holds(Wait_Queue, p) => PFlag[p] = "WAITING"
  BY DEF IInv, QueueInv
<1>3. /\ Wait_Queue' = IF PFlag[v] = "WAITING" THEN Without(Wait_Queue, v) ELSE Wait_Queue
      /\ ReadyQueue' = IF PFlag[v] = "WAITING"
                       THEN ReadyQueue
                       ELSE [ReadyQueue EXCEPT ![q] = Without(@, v)]
      /\ PFlag' = [PFlag EXCEPT ![v] = "TERMINATED"]
      /\ TerminateQueue' = Append(TerminateQueue, v)
  BY RoomFacts DEF Unlink_And_Terminate, Add_Task_in_Tail
<1> HIDE DEF q
<1>4. /\ ReadyQueue' \in [Priorities -> Seq(PIDs)]
      /\ \A r \in Priorities : NoRepeats(ReadyQueue'[r])
      /\ \A r \in Priorities, x \in PIDs :
            Holds(ReadyQueue'[r], x) <=> Holds(ReadyQueue[r], x) /\ x # v
  <2>1. CASE PFlag[v] = "WAITING"
    <3>1. \A r \in Priorities : ~Holds(ReadyQueue[r], v)
      BY <1>2, <2>1
    <3>2. ReadyQueue' = ReadyQueue
      BY <1>3, <2>1
    <3> QED BY <1>1, <1>2, <3>1, <3>2
  <2>2. CASE PFlag[v] # "WAITING"
    <3>1. /\ Without(ReadyQueue[q], v) \in Seq(PIDs)
          /\ NoRepeats(Without(ReadyQueue[q], v))
          /\ \A x : Holds(Without(ReadyQueue[q], v), x) <=> Holds(ReadyQueue[q], x) /\ x # v
      BY <1>1, <1>2, WithoutFacts
    <3>2. /\ ReadyQueue'[q] = Without(ReadyQueue[q], v)
          /\ \A r \in Priorities : r # q => ReadyQueue'[r] = ReadyQueue[r]
          /\ ReadyQueue' \in [Priorities -> Seq(PIDs)]
      BY <1>1, <1>3, <2>2, <3>1
    <3>3. \A r \in Priorities : r # q => ~Holds(ReadyQueue[r], v)
      BY <1>2 DEF q
    <3>4. ASSUME NEW r \in Priorities
          PROVE  /\ NoRepeats(ReadyQueue'[r])
                 /\ \A x \in PIDs : Holds(ReadyQueue'[r], x) <=> Holds(ReadyQueue[r], x) /\ x # v
      BY <1>2, <3>1, <3>2, <3>3
    <3> QED BY <3>2, <3>4
  <2> QED BY <2>1, <2>2
<1>5. /\ Wait_Queue' \in Seq(PIDs)
      /\ NoRepeats(Wait_Queue')
      /\ \A x \in PIDs : Holds(Wait_Queue', x) <=> Holds(Wait_Queue, x) /\ x # v
  <2>1. CASE PFlag[v] = "WAITING"
    <3>1. /\ Without(Wait_Queue, v) \in Seq(PIDs)
          /\ NoRepeats(Without(Wait_Queue, v))
          /\ \A x : Holds(Without(Wait_Queue, v), x) <=> Holds(Wait_Queue, x) /\ x # v
      BY <1>1, <1>2, WithoutFacts
    <3> QED BY <1>3, <2>1, <3>1
  <2>2. CASE PFlag[v] # "WAITING"
    BY <1>1, <1>2, <1>3, <2>2
  <2> QED BY <2>1, <2>2
<1>6. /\ TerminateQueue' \in Seq(PIDs)
      /\ NoRepeats(TerminateQueue')
      /\ \A x \in PIDs : Holds(TerminateQueue', x) <=> Holds(TerminateQueue, x) \/ x = v
      /\ \A x, y : Before(TerminateQueue', x, y) =>
            Before(TerminateQueue, x, y) \/ (y = v /\ Holds(TerminateQueue, x))
  <2>1. ~Holds(TerminateQueue, v)
    BY <1>2
  <2> QED BY <1>1, <1>2, <1>3, <2>1, AppendFacts
<1>7. /\ PFlag' \in [PIDs -> Flags]
      /\ PFlag'[v] = "TERMINATED"
      /\ \A x \in PIDs : x # v => PFlag'[x] = PFlag[x]
  BY <1>1, <1>3 DEF Flags
<1> QED BY <1>4, <1>5, <1>6, <1>7

(* The parts of the invariant that do not depend on where the tasks are.   *)
LEMMA UnlinkInv ==
    ASSUME IInv, ~FillsPool, Orderly, NEW v \in PIDs, Unlink_And_Terminate(v),
           PFlag[v] \in {"READY", "WAITING"}, v # TerminateProcess, v # CURRENT_Process,
           UNCHANGED <<PCB_Is_Alloced, Priority, ParentPID, Is_Thread, Childs, CURRENT_Process,
                       TerminateProcess>>,
           PFlag[CURRENT_Process] # "TERMINATED",
           \A x \in PIDs : Holds(TerminateQueue, x) /\ ~Is_Thread[x] => ~Holds(Childs[x], v)
    PROVE  QueueInv' /\ OrderInv' /\ ThreadsHaveProcess' /\ ChildrenNameParent'
<1>1. /\ \A r \in Priorities : NoRepeats(ReadyQueue'[r])
      /\ NoRepeats(TerminateQueue')
      /\ NoRepeats(Wait_Queue')
      /\ \A r \in Priorities, x \in PIDs :
            Holds(ReadyQueue'[r], x) <=> Holds(ReadyQueue[r], x) /\ x # v
      /\ \A x \in PIDs : Holds(Wait_Queue', x) <=> Holds(Wait_Queue, x) /\ x # v
      /\ \A x \in PIDs : Holds(TerminateQueue', x) <=> Holds(TerminateQueue, x) \/ x = v
      /\ \A x, y : Before(TerminateQueue', x, y) =>
            Before(TerminateQueue, x, y) \/ (y = v /\ Holds(TerminateQueue, x))
      /\ PFlag'[v] = "TERMINATED"
      /\ \A x \in PIDs : x # v => PFlag'[x] = PFlag[x]
  BY UnlinkQueues
<1>2. v # CURRENT_Process
  OBVIOUS
<1>3. QueueInv'
  <2>1. /\ \A p \in PIDs, q \in Priorities : Holds(ReadyQueue'[q], p) =>
              PFlag'[p] = "READY" /\ Priority'[p] = q
        /\ \A p \in PIDs : Holds(TerminateQueue', p) =>
              PFlag'[p] = "TERMINATED" /\ p # CURRENT_Process' /\ p # TerminateProcess'
        /\ \A p \in PIDs : Holds(Wait_Queue', p) <=> PFlag'[p] = "WAITING"
    BY <1>1, <1>2 DEF IInv, QueueInv
  <2>2. NoTaskLost'
    <3> SUFFICES ASSUME NEW p \in PIDs, Settled(p)'
                 PROVE  \/ PFlag'[p] = "READY" /\ Holds(ReadyQueue'[Priority'[p]], p)
                        \/ PFlag'[p] = "TERMINATED" /\ Holds(TerminateQueue', p)
                        \/ PFlag'[p] = "WAITING" /\ Holds(Wait_Queue', p)
      BY DEF NoTaskLost
    <3>1. Settled(p) /\ Priority'[p] = Priority[p] /\ Priority[p] \in Priorities
      BY DEF Settled, IInv, TypeOK
    <3>2. CASE p = v
      BY <1>1, <3>2
    <3>3. CASE p # v
      BY <1>1, <3>1, <3>3 DEF IInv, QueueInv, NoTaskLost
    <3> QED BY <3>2, <3>3
  <2> QED BY <1>1, <2>1, <2>2 DEF QueueInv
<1>4. OrderInv'
  <2>1. \A x, y \in PIDs : Before(TerminateQueue', x, y) /\ ~Is_Thread'[x] => ~Holds(Childs'[x], y)
    BY <1>1 DEF IInv, OrderInv
  <2>2. PFlag'[CURRENT_Process'] # "TERMINATED"
    BY <1>1, <1>2 DEF IInv, TypeOK
  <2> QED BY <2>1, <2>2 DEF IInv, OrderInv
<1>5. ThreadsHaveProcess'
  <2>1. \A d \in PIDs : PFlag'[d] # "TERMINATED" => PFlag[d] # "TERMINATED"
    BY <1>1
  <2> QED BY <2>1 DEF IInv, ThreadsHaveProcess
<1>6. ChildrenNameParent'
  BY DEF IInv, ChildrenNameParent
<1> QED BY <1>3, <1>4, <1>5, <1>6

LEMMA TerminateOtherInv ==
    ASSUME IInv, ~FillsPool, Orderly, Terminate_Process_Other
    PROVE  IInv'
<1> DEFINE c == CURRENT_Process
           v == target[c]
<1>1. /\ at[c] = "kill" /\ Unlink_And_Terminate(v)
      /\ target' = [target EXCEPT ![c] = NoPID]
      /\ at' = [at EXCEPT ![c] = "run"]
      /\ UNCHANGED <<PCB_Is_Alloced, Priority, ParentPID, Is_Thread, Childs, Use_FPU, RFLAGS,
                     UseCount, cpuVars, schedVars>>
  BY DEF Terminate_Process_Other, At, Goto
<1>2. /\ TypeOK /\ c \in PIDs /\ PID_SCHED \in PIDs /\ at \in [PIDs -> Locations]
      /\ target \in [PIDs -> PIDs \cup {NoPID}]
      /\ CURRENT_Process = c /\ CURRENT_Process' = c
  BY <1>1, ConstantFacts DEF IInv, TypeOK, cpuVars
<1> HIDE DEF c
<1>3. /\ Booted
      /\ v \in PIDs \ {c, PID_SCHED}
      /\ PFlag[v] \in {"READY", "RUNNING", "WAITING"}
      /\ \A j \in PIDs : at[j] = "kill" => j = c
      /\ \A d \in PIDs : PFlag[d] = "TERMINATED" => ~Cascades(d)
  BY <1>1, <1>2 DEF IInv, WindowInv
<1> HIDE DEF v
<1>4. PFlag[v] \in {"READY", "WAITING"} /\ PFlag[c] # "TERMINATED"
  BY <1>1, <1>2, <1>3 DEF IInv, FlagInv
<1>5. c # PID_SCHED
  BY <1>1, <1>2 DEF IInv, LocationInv, SchedLocations
<1>6. at[PID_SCHED] = "resumed" /\ TerminateProcess = NoPID /\ v # NoPID
  BY <1>2, <1>3, <1>5, CallerFacts, ConstantFacts
<1>7. /\ at' \in [PIDs -> Locations] /\ at'[c] = "run"
      /\ \A p \in PIDs : p # c => at'[p] = at[p]
      /\ target' \in [PIDs -> PIDs \cup {NoPID}]
  BY <1>1, <1>2 DEF Locations
<1>8. /\ ReadyQueue' \in [Priorities -> Seq(PIDs)]
      /\ TerminateQueue' \in Seq(PIDs)
      /\ Wait_Queue' \in Seq(PIDs)
      /\ PFlag' \in [PIDs -> Flags]
      /\ PFlag'[v] = "TERMINATED"
      /\ \A x \in PIDs : x # v => PFlag'[x] = PFlag[x]
  BY <1>1, <1>3, <1>4, UnlinkQueues
<1>9. \A x \in PIDs : Holds(TerminateQueue, x) /\ ~Is_Thread[x] => ~Holds(Childs[x], v)
  BY <1>3 DEF IInv, QueueInv, Cascades, Holds
<1>10. QueueInv' /\ OrderInv' /\ ThreadsHaveProcess' /\ ChildrenNameParent'
  BY <1>1, <1>2, <1>3, <1>4, <1>6, <1>9, UnlinkInv DEF cpuVars, schedVars
<1>11. TypeOK'
  BY <1>1, <1>2, <1>7, <1>8 DEF TypeOK, cpuVars, schedVars
<1>12. LocationInv'
  BY <1>2, <1>5, <1>7 DEF IInv, LocationInv, TaskLocations
<1>13. FlagInv'
  <2>1. FlagInv
    BY DEF IInv
  <2>2. /\ UNCHANGED <<PCB_Is_Alloced, Priority, ParentPID, Childs, Process_Queue>>
        /\ v # c /\ v # PID_SCHED /\ v \in PIDs
    BY <1>1, <1>3 DEF cpuVars
  <2>3. \A p \in PIDs : PFlag'[p] = "FREE" <=> ~PCB_Is_Alloced'[p]
    BY <1>4, <1>8, <2>1, <2>2 DEF FlagInv
  <2>4. /\ \A p \in PIDs : PFlag'[p] \in {"NEW", "RUNNING"} => p = CURRENT_Process'
        /\ \A p \in PIDs : PFlag'[p] = "NEW" => p = PID_SCHED
        /\ PFlag'[CURRENT_Process'] \in {"NEW", "RUNNING", "WAITING"}
        /\ PFlag'[PID_SCHED] \in {"NEW", "RUNNING", "READY"}
    BY <1>2, <1>4, <1>8, <2>1, <2>2 DEF FlagInv
  <2> QED BY <1>2, <1>7, <2>1, <2>2, <2>3, <2>4 DEF FlagInv
<1>14. ReaperInv'
  BY <1>1, <1>2, <1>5, <1>6, <1>7 DEF ReaperInv, schedVars
<1>15. MaskInv'
  BY <1>1, <1>2, <1>3, <1>5, <1>6, <1>7 DEF MaskInv, Booted, cpuVars, schedVars
<1>16. WindowInv'
  BY <1>3, <1>7 DEF WindowInv
<1>17. PoolInv'
  <2>1. Creating' \subseteq Creating
    BY <1>7 DEF Creating
  <2> QED BY <1>1, <1>2, <2>1, PoolKept DEF IInv
<1> QED
  BY <1>10, <1>11, <1>12, <1>13, <1>14, <1>15, <1>16, <1>17 DEF IInv

-----------------------------------------------------------------------------
(* The reaper.                                                             *)

\* ChildrenNameParent in terms of Holds.
ChildrenHold ==
    /\ \A x \in PIDs : NoRepeats(Childs[x])
    /\ \A x \in PIDs : \A y : Holds(Childs[x], y) => PCB_Is_Alloced[y] /\ ParentPID[y] = x

LEMMA ChildrenHoldFacts == ChildrenNameParent <=> ChildrenHold
BY DEF ChildrenNameParent, ChildrenHold, Holds

LEMMA SchedDrains ==
    ASSUME IInv, At("drain") \/ At("reap")
    PROVE  /\ CURRENT_Process = PID_SCHED
           /\ PID_SCHED \in PIDs
           /\ at[PID_SCHED] \in {"drain", "reap"}
           /\ PFlag[PID_SCHED] # "TERMINATED"
BY ConstantFacts DEF IInv, LocationInv, FlagInv, TypeOK, TaskLocations, At

\* The child the reaper is at is alive, a child of nobody else, and neither
\* the reaper nor the task that is reaped.
LEMMA KillChildFacts ==
    ASSUME IInv, sched_KillChild, NEW v, v = Childs[TerminateProcess][i + 1]
    PROVE  /\ v \in PIDs /\ Holds(Childs[TerminateProcess], v)
           /\ PCB_Is_Alloced[v] /\ ParentPID[v] = TerminateProcess
           /\ v # PID_SCHED /\ v # TerminateProcess
           /\ PFlag[v] \in {"READY", "WAITING"}
           /\ Unlink_And_Terminate(v)
           /\ CURRENT_Process' = CURRENT_Process
<1> DEFINE t == TerminateProcess
<1>1. /\ At("reap") /\ ~Is_Thread[t] /\ i < Len(Childs[t]) /\ i' = i + 1
      /\ PCB_Is_Alloced[v] => Unlink_And_Terminate(v)
      /\ UNCHANGED <<PCB_Is_Alloced, Priority, ParentPID, Is_Thread, Childs, Use_FPU, at, target,
                     RFLAGS, UseCount, cpuVars, TerminateProcess, sched_RFLAGS>>
  BY DEF sched_KillChild, ChildrenLeft
<1>2. /\ CURRENT_Process = PID_SCHED /\ PID_SCHED \in PIDs /\ at[PID_SCHED] = "reap"
      /\ PFlag[PID_SCHED] # "TERMINATED"
  BY <1>1, SchedDrains DEF At
<1>3. /\ t \in PIDs
      /\ PFlag[t] = "TERMINATED"
      /\ \A p \in PIDs : ~Holds(Childs[p], t)
      /\ \A k \in 1 .. Len(Childs[t]) : k <= i <=> PFlag[Childs[t][k]] = "TERMINATED"
  BY <1>1, <1>2 DEF IInv, ReaperInv
<1>4. /\ Childs[t] \in Seq(PIDs) /\ i \in Nat /\ Len(Childs[t]) \in Nat
      /\ i + 1 \in 1 .. Len(Childs[t])
      /\ PFlag \in [PIDs -> Flags] /\ TypeOK
  <2>1. Childs[t] \in Seq(PIDs) /\ i \in Nat /\ PFlag \in [PIDs -> Flags] /\ TypeOK
    BY <1>3 DEF IInv, TypeOK
  <2>2. Len(Childs[t]) \in Nat
    BY <2>1
  <2> HIDE DEF t
  <2> QED BY <1>1, <2>1, <2>2
<1>5. v \in PIDs /\ Holds(Childs[t], v)
  BY <1>4 DEF Holds
<1>6. /\ PCB_Is_Alloced[v] /\ ParentPID[v] = t
      /\ NoRepeats(Childs[t])
      /\ \A x \in PIDs : \A y : Holds(Childs[x], y) => ParentPID[y] = x
  BY <1>3, <1>5, ChildrenHoldFacts DEF IInv, ChildrenHold
<1>7. PFlag[v] # "TERMINATED"
  BY <1>3, <1>4
<1> HIDE DEF t
<1>8. v # PID_SCHED /\ v # t
  BY <1>3, <1>5 DEF IInv, OrderInv
<1>9. PFlag[v] \in {"READY", "WAITING"}
  BY <1>2, <1>4, <1>5, <1>6, <1>7, <1>8 DEF IInv, FlagInv, Flags
<1> QED BY <1>1, <1>5, <1>6, <1>8, <1>9 DEF cpuVars, t

LEMMA KillChildInv ==
    ASSUME IInv, ~FillsPool, Orderly, sched_KillChild
    PROVE  IInv'
<1> DEFINE t == TerminateProcess
           v == Childs[t][i + 1]
<1>1. /\ At("reap") /\ ~Is_Thread[t] /\ i < Len(Childs[t]) /\ i' = i + 1
      /\ PCB_Is_Alloced[v] => Unlink_And_Terminate(v)
      /\ UNCHANGED <<PCB_Is_Alloced, Priority, ParentPID, Is_Thread, Childs, Use_FPU, at, target,
                     RFLAGS, UseCount, cpuVars, TerminateProcess, sched_RFLAGS>>
  BY DEF sched_KillChild, ChildrenLeft
<1>2. /\ CURRENT_Process = PID_SCHED /\ PID_SCHED \in PIDs /\ at[PID_SCHED] = "reap"
      /\ PFlag[PID_SCHED] # "TERMINATED"
  BY <1>1, SchedDrains DEF At
<1>3. /\ t \in PIDs
      /\ PFlag[t] = "TERMINATED"
      /\ \A p \in PIDs : ~Holds(Childs[p], t)
      /\ \A k \in 1 .. Len(Childs[t]) : k <= i <=> PFlag[Childs[t][k]] = "TERMINATED"
  BY <1>1, <1>2 DEF IInv, ReaperInv
<1>4. /\ Childs[t] \in Seq(PIDs) /\ i \in Nat /\ Len(Childs[t]) \in Nat
      /\ i + 1 \in 1 .. Len(Childs[t])
      /\ PFlag \in [PIDs -> Flags] /\ TypeOK
  <2>1. Childs[t] \in Seq(PIDs) /\ i \in Nat /\ PFlag \in [PIDs -> Flags] /\ TypeOK
    BY <1>3 DEF IInv, TypeOK
  <2>2. Len(Childs[t]) \in Nat
    BY <2>1
  <2> HIDE DEF t
  <2> QED BY <1>1, <2>1, <2>2
<1>5. v \in PIDs /\ Holds(Childs[t], v)
  BY <1>4 DEF Holds
<1>6. /\ PCB_Is_Alloced[v] /\ ParentPID[v] = t
      /\ NoRepeats(Childs[t])
      /\ \A x \in PIDs : \A y : Holds(Childs[x], y) => ParentPID[y] = x
  BY <1>3, <1>5, ChildrenHoldFacts DEF IInv, ChildrenHold
<1>7. PFlag[v] # "TERMINATED"
  BY <1>3, <1>4
<1> HIDE DEF v, t
<1>8. v # PID_SCHED /\ v # t
  BY <1>3, <1>5 DEF IInv, OrderInv
<1>9. PFlag[v] \in {"READY", "WAITING"}
  BY <1>2, <1>4, <1>5, <1>6, <1>7, <1>8 DEF IInv, FlagInv, Flags
<1>10. /\ ReadyQueue' \in [Priorities -> Seq(PIDs)]
       /\ TerminateQueue' \in Seq(PIDs)
       /\ Wait_Queue' \in Seq(PIDs)
       /\ PFlag' \in [PIDs -> Flags]
       /\ PFlag'[v] = "TERMINATED"
       /\ \A x \in PIDs : x # v => PFlag'[x] = PFlag[x]
  BY <1>1, <1>5, <1>6, <1>9, UnlinkQueues
<1>11. \A x \in PIDs : Holds(TerminateQueue, x) /\ ~Is_Thread[x] => ~Holds(Childs[x], v)
  BY <1>6 DEF IInv, QueueInv, t
<1>12. QueueInv' /\ OrderInv' /\ ThreadsHaveProcess' /\ ChildrenNameParent'
  BY <1>1, <1>2, <1>5, <1>6, <1>8, <1>9, <1>11, UnlinkInv DEF cpuVars, t
<1>13. TypeOK'
  <2>1. i' \in Nat
    BY <1>1, <1>4
  <2>2. TypeOK /\ UNCHANGED <<PCB_Is_Alloced, Priority, ParentPID, Is_Thread, Childs, Use_FPU, at,
                              target, RFLAGS, UseCount, cpuVars, TerminateProcess, sched_RFLAGS>>
    BY <1>1, <1>4
  <2> QED BY <1>10, <2>1, <2>2 DEF TypeOK, cpuVars
<1>14. LocationInv'
  BY <1>1 DEF IInv, LocationInv
<1>15. FlagInv'
  <2>1. FlagInv
    BY DEF IInv
  <2>2. UNCHANGED <<PCB_Is_Alloced, Priority, ParentPID, Childs, Process_Queue, CURRENT_Process, at>>
    BY <1>1 DEF cpuVars
  <2>3. \A p \in PIDs : PFlag'[p] = "FREE" <=> ~PCB_Is_Alloced'[p]
    BY <1>9, <1>10, <2>1, <2>2 DEF FlagInv
  <2>4. /\ \A p \in PIDs : PFlag'[p] \in {"NEW", "RUNNING"} => p = CURRENT_Process'
        /\ \A p \in PIDs : PFlag'[p] = "NEW" => p = PID_SCHED
        /\ PFlag'[PID_SCHED] = PFlag[PID_SCHED]
    BY <1>2, <1>8, <1>10, <2>1, <2>2 DEF FlagInv
  <2> QED BY <1>2, <2>1, <2>2, <2>3, <2>4 DEF FlagInv
<1>16. ReaperInv'
  <2>1. /\ UNCHANGED <<at, Childs, Is_Thread, CURRENT_Process, TerminateProcess>>
        /\ i' = i + 1 /\ TerminateProcess' = t
    BY <1>1 DEF cpuVars, t
  <2>2. PFlag'[t] = "TERMINATED"
    BY <1>3, <1>8, <1>10
  <2>3. \A k \in 1 .. Len(Childs[t]) : k <= i + 1 <=> PFlag'[Childs[t][k]] = "TERMINATED"
    <3> SUFFICES ASSUME NEW k \in 1 .. Len(Childs[t])
                 PROVE  k <= i + 1 <=> PFlag'[Childs[t][k]] = "TERMINATED"
      OBVIOUS
    <3>1. CASE k = i + 1
      BY <1>4, <1>10, <3>1 DEF v
    <3>2. CASE k # i + 1
      <4>1. Childs[t][k] # v /\ Childs[t][k] \in PIDs
        BY <1>4, <1>6, <3>2 DEF v, NoRepeats
      <4>2. PFlag'[Childs[t][k]] = PFlag[Childs[t][k]]
        BY <1>10, <4>1
      <4>3. k <= i + 1 <=> k <= i
        BY <1>4, <3>2
      <4> QED BY <1>3, <4>2, <4>3
    <3> QED BY <3>1, <3>2
  <2>4. i + 1 <= Len(Childs[t])
    BY <1>4
  <2> QED BY <1>2, <1>3, <2>1, <2>2, <2>3, <2>4 DEF ReaperInv
<1>17. MaskInv'
  BY <1>1, <1>2 DEF IInv, MaskInv, Booted, cpuVars
<1>18. WindowInv'
  <2>1. Cascades(t)
    BY <1>1, <1>4, <1>5 DEF Cascades, Holds, t
  <2>2. \A k \in PIDs : at[k] # "kill"
    BY <1>3, <2>1 DEF IInv, WindowInv
  <2> QED BY <1>1, <2>2 DEF WindowInv
<1>19. PoolInv'
  <2>1. Creating' \subseteq Creating
    BY <1>1 DEF Creating
  <2> QED BY <1>1, <1>4, <2>1, PoolKept DEF IInv
<1> QED
  BY <1>12, <1>13, <1>14, <1>15, <1>16, <1>17, <1>18, <1>19 DEF IInv

(* What the lists of children hold after a task has been taken out of the  *)
(* list of its parent.                                                     *)
LEMMA WithoutChildFacts ==
    ASSUME IInv, NEW p \in PIDs, PCB_Is_Alloced[p], Childs' = WithoutChild(p)
    PROVE  /\ Childs' \in [PIDs -> Seq(PIDs)]
           /\ \A x \in PIDs : NoRepeats(Childs'[x])
           /\ \A x \in PIDs : \A y : Holds(Childs'[x], y) <=> Holds(Childs[x], y) /\ y # p
           /\ \A x \in PIDs : Childs[x] = <<>> => Childs'[x] = <<>>
<1> DEFINE par == ParentPID[p]
<1>1. Childs \in [PIDs -> Seq(PIDs)] /\ par \in PIDs
  BY DEF IInv, TypeOK, FlagInv
<1>2. /\ \A x \in PIDs : NoRepeats(Childs[x])
      /\ \A x \in PIDs : \A y : Holds(Childs[x], y) => PCB_Is_Alloced[y] /\ ParentPID[y] = x
  BY ChildrenHoldFacts DEF IInv, ChildrenHold
<1>3. \A x \in PIDs : ~PCB_Is_Alloced[x] => Childs[x] = <<>>
  BY DEF IInv, FlagInv
<1>4. \A y : ~Holds(<<>>, y)
  BY DEF Holds
<1>5. \A x \in PIDs : x # par => ~Holds(Childs[x], p)
  BY <1>2
<1>6. CASE Is_Thread[p] \/ PCB_Is_Alloced[par]
  <2>1. /\ Without(Childs[par], p) \in Seq(PIDs)
        /\ NoRepeats(Without(Childs[par], p))
        /\ \A y : Holds(Without(Childs[par], p), y) <=> Holds(Childs[par], y) /\ y # p
    BY <1>1, <1>2, WithoutFacts
  <2>2. Childs' = [Childs EXCEPT ![par] = Without(@, p)]
    BY <1>6 DEF WithoutChild
  <2>3. /\ Childs' \in [PIDs -> Seq(PIDs)]
        /\ Childs'[par] = Without(Childs[par], p)
        /\ \A x \in PIDs : x # par => Childs'[x] = Childs[x]
    BY <1>1, <2>1, <2>2
  <2>4. Childs[par] = <<>> => Childs'[par] = <<>>
    BY <1>4, <2>3 DEF Without
  <2> HIDE DEF par
  <2>5. \A x \in PIDs : NoRepeats(Childs'[x])
    BY <1>2, <2>1, <2>3
  <2>6. \A x \in PIDs : \A y : Holds(Childs'[x], y) <=> Holds(Childs[x], y) /\ y # p
    <3> SUFFICES ASSUME NEW x \in PIDs, NEW y
                 PROVE  Holds(Childs'[x], y) <=> Holds(Childs[x], y) /\ y # p
      OBVIOUS
    <3>1. CASE x = par
      BY <2>1, <2>3, <3>1
    <3>2. CASE x # par
      BY <1>5, <2>3, <3>2
    <3> QED BY <3>1, <3>2
  <2> QED BY <2>3, <2>4, <2>5, <2>6
<1>7. CASE ~(Is_Thread[p] \/ PCB_Is_Alloced[par])
  <2>1. Childs' = Childs
    BY <1>7 DEF WithoutChild
  <2>2. ~Holds(Childs[par], p)
    BY <1>1, <1>3, <1>4, <1>7
  <2> HIDE DEF par
  <2> QED BY <1>1, <1>2, <1>5, <2>1, <2>2
<1> QED BY <1>6, <1>7

LEMMA TakeInv ==
    ASSUME IInv, sched_Take
    PROVE  IInv'
<1> DEFINE p == Head(TerminateQueue)
<1>1. /\ At("drain") /\ TerminateQueue # <<>>
      /\ TerminateQueue' = Tail(TerminateQueue)
      /\ Childs' = WithoutChild(p)
      /\ TerminateProcess' = p
      /\ i' = 0
      /\ at' = [at EXCEPT ![CURRENT_Process] = "reap"]
      /\ UNCHANGED <<PCB_Is_Alloced, PFlag, Priority, ParentPID, Is_Thread, Use_FPU, target,
                     RFLAGS, ReadyQueue, Wait_Queue, UseCount, cpuVars, sched_RFLAGS>>
  BY DEF sched_Take, Goto
<1>2. /\ CURRENT_Process = PID_SCHED /\ PID_SCHED \in PIDs /\ at[PID_SCHED] = "drain"
      /\ PFlag[PID_SCHED] # "TERMINATED" /\ NoPID \notin PIDs
      /\ CURRENT_Process' = PID_SCHED
  BY <1>1, SchedDrains, ConstantFacts DEF At, cpuVars
<1>3. TypeOK /\ TerminateQueue \in Seq(PIDs) /\ at \in [PIDs -> Locations]
      /\ NoRepeats(TerminateQueue) /\ TerminateProcess = NoPID
  BY <1>2 DEF IInv, TypeOK, QueueInv, ReaperInv
<1>4. /\ TerminateQueue' \in Seq(PIDs)
      /\ p \in PIDs
      /\ Holds(TerminateQueue, p)
      /\ \A x : Holds(TerminateQueue', x) <=> Holds(TerminateQueue, x) /\ x # p
      /\ NoRepeats(TerminateQueue')
      /\ \A x, y : Before(TerminateQueue', x, y) => Before(TerminateQueue, x, y)
      /\ \A x : Holds(TerminateQueue', x) => Before(TerminateQueue, p, x)
  BY <1>1, <1>3, TailFacts
<1> HIDE DEF p
<1>5. PFlag[p] = "TERMINATED" /\ p # PID_SCHED /\ PCB_Is_Alloced[p]
  BY <1>2, <1>4 DEF IInv, QueueInv, FlagInv
<1>6. /\ Childs' \in [PIDs -> Seq(PIDs)]
      /\ \A x \in PIDs : NoRepeats(Childs'[x])
      /\ \A x \in PIDs : \A y : Holds(Childs'[x], y) <=> Holds(Childs[x], y) /\ y # p
      /\ \A x \in PIDs : Childs[x] = <<>> => Childs'[x] = <<>>
  BY <1>1, <1>4, <1>5, WithoutChildFacts
<1>7. /\ at' \in [PIDs -> Locations] /\ at'[PID_SCHED] = "reap"
      /\ \A x \in PIDs : x # PID_SCHED => at'[x] = at[x]
  BY <1>1, <1>2, <1>3 DEF Locations
<1>8. TypeOK'
  BY <1>1, <1>3, <1>4, <1>6, <1>7 DEF TypeOK, cpuVars
<1>9. LocationInv'
  BY <1>2, <1>7 DEF IInv, LocationInv, SchedLocations
<1>10. FlagInv'
  BY <1>1, <1>2, <1>6, <1>7 DEF IInv, FlagInv, cpuVars
<1>11. QueueInv'
  <2>1. \A x \in PIDs : Settled(x)' => Settled(x) /\ x # p
    BY <1>1, <1>2, <1>3 DEF Settled
  <2> QED BY <1>1, <1>2, <1>4, <1>5, <2>1 DEF IInv, QueueInv, NoTaskLost
<1>12. ReaperInv'
  <2>1. \A y \in PIDs : Holds(Childs'[p], y) /\ ~Is_Thread[p] => PFlag[y] # "TERMINATED"
    <3> SUFFICES ASSUME NEW y \in PIDs, Holds(Childs[p], y), y # p, ~Is_Thread[p],
                        PFlag[y] = "TERMINATED"
                 PROVE  FALSE
      BY <1>4, <1>6
    <3>1. PCB_Is_Alloced[y]
      BY <1>4, ChildrenHoldFacts DEF IInv, ChildrenHold
    <3>2. Settled(y)
      BY <1>2, <1>3, <3>1 DEF Settled
    <3>3. Holds(TerminateQueue, y)
      BY <3>2 DEF IInv, QueueInv, NoTaskLost
    <3>4. Before(TerminateQueue, p, y)
      BY <1>4, <3>3
    <3> QED BY <1>4, <3>4 DEF IInv, OrderInv
  <2>2. \A k \in 1 .. Len(Childs'[p]) :
            Childs'[p][k] \in PIDs /\ Holds(Childs'[p], Childs'[p][k]) /\ ~(k <= 0)
    BY <1>4, <1>6 DEF Holds
  <2>3. \A x \in PIDs : ~Holds(Childs'[x], p)
    BY <1>6
  <2>4. PFlag' = PFlag /\ Is_Thread' = Is_Thread
    BY <1>1
  <2>5. 0 <= Len(Childs'[p])
    BY <1>4, <1>6
  <2> QED BY <1>1, <1>2, <1>4, <1>5, <1>7, <2>1, <2>2, <2>3, <2>4, <2>5 DEF ReaperInv
<1>13. MaskInv'
  BY <1>1, <1>2, <1>7 DEF IInv, MaskInv, Booted, cpuVars
<1>14. OrderInv'
  BY <1>1, <1>2, <1>4, <1>6 DEF IInv, OrderInv
<1>15. WindowInv'
  <2>1. \A d \in PIDs : Cascades(d)' => Cascades(d)
    BY <1>1, <1>6 DEF Cascades
  <2>2. \A k \in PIDs : at'[k] = "kill" => at[k] = "kill"
    BY <1>7
  <2> QED BY <1>1, <2>1, <2>2 DEF IInv, WindowInv, Booted
<1>16. PoolInv'
  <2>1. Creating' \subseteq Creating
    BY <1>7 DEF Creating
  <2> QED BY <1>1, <1>3, <2>1, PoolKept DEF IInv
<1>17. ThreadsHaveProcess'
  BY <1>1, <1>5, <1>6 DEF IInv, ThreadsHaveProcess
<1>18. ChildrenNameParent'
  <2>1. ChildrenHold
    BY ChildrenHoldFacts DEF IInv
  <2>2. ChildrenHold'
    BY <1>1, <1>6, <2>1 DEF ChildrenHold
  <2> QED BY <2>2 DEF ChildrenNameParent, ChildrenHold, Holds
<1> QED
  BY <1>8, <1>9, <1>10, <1>11, <1>12, <1>13, <1>14, <1>15, <1>16, <1>17, <1>18 DEF IInv

LEMMA FreeInv ==
    ASSUME IInv, Free_PCB
    PROVE  IInv'
<1> DEFINE p == TerminateProcess
<1>1. /\ At("reap") /\ ~ChildrenLeft
      /\ PCB_Is_Alloced' = [PCB_Is_Alloced EXCEPT ![p] = FALSE]
      /\ PFlag' = [PFlag EXCEPT ![p] = "FREE"]
      /\ Priority' = [Priority EXCEPT ![p] = 0]
      /\ ParentPID' = [ParentPID EXCEPT ![p] = NoPID]
      /\ Childs' = [Childs EXCEPT ![p] = <<>>]
      /\ Use_FPU' = [Use_FPU EXCEPT ![p] = FALSE]
      /\ RFLAGS' = [RFLAGS EXCEPT ![p] = FALSE]
      /\ target' = [target EXCEPT ![p] = NoPID]
      /\ at' = [at EXCEPT ![p] = "none", ![CURRENT_Process] = "drain"]
      /\ UseCount' = UseCount - 1
      /\ TerminateProcess' = NoPID
      /\ i' = 0
      /\ UNCHANGED <<Is_Thread, queueVars, cpuVars, sched_RFLAGS>>
  BY DEF Free_PCB
<1>2. /\ CURRENT_Process = PID_SCHED /\ PID_SCHED \in PIDs /\ at[PID_SCHED] = "reap"
      /\ PFlag[PID_SCHED] # "TERMINATED" /\ NoPID \notin PIDs /\ 0 \in Priorities
      /\ CURRENT_Process' = PID_SCHED
  BY <1>1, SchedDrains, ConstantFacts DEF At, cpuVars
<1>3. /\ p \in PIDs /\ PFlag[p] = "TERMINATED" /\ p # PID_SCHED
      /\ \A x \in PIDs : ~Holds(Childs[x], p)
      /\ \A k \in 1 .. Len(Childs[p]) :
            ~Is_Thread[p] => (k <= i <=> PFlag[Childs[p][k]] = "TERMINATED")
  BY <1>2 DEF IInv, ReaperInv
<1>4. PCB_Is_Alloced[p]
  BY <1>3 DEF IInv, FlagInv
<1>5. \A y : Holds(Childs[p], y) /\ ~Is_Thread[p] => PFlag[y] = "TERMINATED"
  <2>1. i \in Nat /\ Len(Childs[p]) \in Nat /\ (~Is_Thread[p] => ~(i < Len(Childs[p])))
    <3>1. i \in Nat /\ Childs[p] \in Seq(PIDs)
      BY <1>3 DEF IInv, TypeOK
    <3> QED BY <1>1, <3>1 DEF ChildrenLeft
  <2>2. ~Is_Thread[p] => \A k \in 1 .. Len(Childs[p]) : k <= i
    BY <2>1
  <2> QED BY <1>3, <2>2 DEF Holds
<1> HIDE DEF p
<1>6. TypeOK
  BY DEF IInv
<1>7. /\ PCB_Is_Alloced' \in [PIDs -> BOOLEAN] /\ ~PCB_Is_Alloced'[p]
      /\ PFlag' \in [PIDs -> Flags] /\ PFlag'[p] = "FREE"
      /\ \A x \in PIDs : x # p => PCB_Is_Alloced'[x] = PCB_Is_Alloced[x] /\ PFlag'[x] = PFlag[x]
  BY <1>1, <1>3, <1>6 DEF TypeOK, Flags
<1>8. /\ Priority' \in [PIDs -> Priorities]
      /\ ParentPID' \in [PIDs -> PIDs \cup {NoPID}]
      /\ \A x \in PIDs : x # p => Priority'[x] = Priority[x] /\ ParentPID'[x] = ParentPID[x]
  BY <1>1, <1>2, <1>3, <1>6 DEF TypeOK
<1>9. /\ Childs' \in [PIDs -> Seq(PIDs)] /\ Childs'[p] = <<>>
      /\ \A x \in PIDs : x # p => Childs'[x] = Childs[x]
  <2>1. <<>> \in Seq(PIDs)
    OBVIOUS
  <2> QED BY <1>1, <1>3, <1>6, <2>1 DEF TypeOK
<1>10. /\ RFLAGS' \in [PIDs -> BOOLEAN] /\ Use_FPU' \in [PIDs -> BOOLEAN]
       /\ target' \in [PIDs -> PIDs \cup {NoPID}]
       /\ \A x \in PIDs : x # p => RFLAGS'[x] = RFLAGS[x] /\ target'[x] = target[x]
  BY <1>1, <1>3, <1>6 DEF TypeOK
<1>11. /\ at' \in [PIDs -> Locations] /\ at'[p] = "none" /\ at'[PID_SCHED] = "drain"
       /\ \A x \in PIDs : x # p /\ x # PID_SCHED => at'[x] = at[x]
  BY <1>1, <1>2, <1>3, <1>6 DEF TypeOK, Locations
<1>12. UseCount' \in Int
  BY <1>1, <1>6 DEF TypeOK
<1>13. TypeOK'
  BY <1>1, <1>6, <1>7, <1>8, <1>9, <1>10, <1>11, <1>12 DEF TypeOK, queueVars, cpuVars
<1>14. \A y : ~Holds(<<>>, y)
  BY DEF Holds
<1>15. LocationInv'
  BY <1>2, <1>3, <1>11 DEF IInv, LocationInv, SchedLocations, TaskLocations
<1>16. FlagInv'
  <2>1. FlagInv /\ Process_Queue' = Process_Queue
    BY <1>1 DEF IInv, cpuVars
  <2>2. /\ \A x \in PIDs : PFlag'[x] = "FREE" <=> ~PCB_Is_Alloced'[x]
        /\ \A x \in PIDs : ~PCB_Is_Alloced'[x] => Childs'[x] = <<>>
        /\ \A x \in PIDs : PCB_Is_Alloced'[x] => ParentPID'[x] \in PIDs
    <3>1. ASSUME NEW x \in PIDs, x # p
          PROVE  /\ PFlag'[x] = "FREE" <=> ~PCB_Is_Alloced'[x]
                 /\ ~PCB_Is_Alloced'[x] => Childs'[x] = <<>>
                 /\ PCB_Is_Alloced'[x] => ParentPID'[x] \in PIDs
      BY <1>7, <1>8, <1>9, <2>1, <3>1 DEF FlagInv
    <3> QED BY <1>7, <1>9, <3>1
  <2>3. /\ \A x \in PIDs : PFlag'[x] \in {"NEW", "RUNNING"} => x = CURRENT_Process'
        /\ \A x \in PIDs : PFlag'[x] = "NEW" => x = PID_SCHED
        /\ PFlag'[PID_SCHED] = PFlag[PID_SCHED]
        /\ Priority'[PID_SCHED] = Priority[PID_SCHED]
    BY <1>2, <1>3, <1>7, <1>8, <2>1 DEF FlagInv
  <2> QED BY <1>2, <2>1, <2>2, <2>3 DEF FlagInv
<1>17. QueueInv'
  <2>1. QueueInv /\ UNCHANGED queueVars
    BY <1>1 DEF IInv
  <2>2. /\ \A x \in PIDs, q \in Priorities : Holds(ReadyQueue[q], x) => x # p
        /\ \A x \in PIDs : Holds(TerminateQueue, x) => x # p
        /\ \A x \in PIDs : Holds(Wait_Queue, x) => x # p
    BY <1>3, <2>1 DEF QueueInv, p
  <2>3. \A x \in PIDs : Settled(x)' => Settled(x) /\ x # p
    BY <1>1, <1>2, <1>7 DEF Settled, p
  <2>4. NoTaskLost'
    BY <1>7, <1>8, <2>1, <2>3 DEF QueueInv, NoTaskLost, queueVars
  <2>5. /\ \A x \in PIDs, q \in Priorities : Holds(ReadyQueue'[q], x) =>
              PFlag'[x] = "READY" /\ Priority'[x] = q
        /\ \A x \in PIDs : Holds(TerminateQueue', x) =>
              PFlag'[x] = "TERMINATED" /\ x # CURRENT_Process' /\ x # TerminateProcess'
        /\ \A x \in PIDs : Holds(Wait_Queue', x) <=> PFlag'[x] = "WAITING"
    BY <1>1, <1>2, <1>7, <1>8, <2>1, <2>2 DEF QueueInv, queueVars
  <2> QED BY <2>1, <2>4, <2>5 DEF QueueInv, queueVars
<1>18. ReaperInv'
  BY <1>1, <1>2, <1>11 DEF ReaperInv
<1>19. MaskInv'
  <2>1. Booted' <=> Booted
    BY <1>2, <1>3, <1>10 DEF Booted
  <2> QED BY <1>1, <1>2, <1>11, <2>1 DEF IInv, MaskInv, cpuVars
<1>20. OrderInv'
  <2>1. \A x \in PIDs : \A y : Holds(Childs'[x], y) => Holds(Childs[x], y)
    BY <1>9, <1>14
  <2>2. PFlag'[CURRENT_Process'] # "TERMINATED"
    BY <1>2, <1>3, <1>7
  <2> QED BY <1>1, <2>1, <2>2 DEF IInv, OrderInv, queueVars
<1>21. WindowInv'
  <2> SUFFICES ASSUME NEW k \in PIDs, at'[k] = "kill"
               PROVE  /\ Booted'
                      /\ PFlag'[k] \in {"READY", "RUNNING"}
                      /\ target'[k] \in PIDs \ {k, PID_SCHED}
                      /\ PFlag'[target'[k]] \in {"READY", "RUNNING", "WAITING"}
                      /\ \A j \in PIDs : at'[j] = "kill" => j = k
                      /\ \A d \in PIDs : PFlag'[d] = "TERMINATED" => ~Cascades(d)'
    BY DEF WindowInv
  <2>1. /\ k # p /\ k # PID_SCHED /\ at[k] = "kill"
        /\ \A j \in PIDs : at'[j] = "kill" => at[j] = "kill"
    BY <1>11
  <2>2. /\ Booted /\ PFlag[k] \in {"READY", "RUNNING"}
        /\ target[k] \in PIDs \ {k, PID_SCHED}
        /\ PFlag[target[k]] \in {"READY", "RUNNING", "WAITING"}
        /\ \A j \in PIDs : at[j] = "kill" => j = k
        /\ \A d \in PIDs : PFlag[d] = "TERMINATED" => ~Cascades(d)
    BY <2>1 DEF IInv, WindowInv
  <2>3. target[k] # p /\ target'[k] = target[k]
    BY <1>3, <1>10, <2>1, <2>2
  <2>4. \A d \in PIDs : PFlag'[d] = "TERMINATED" => ~Cascades(d)'
    BY <1>1, <1>7, <1>9, <2>2 DEF Cascades
  <2>5. Booted'
    BY <1>2, <1>3, <1>10, <2>2 DEF Booted
  <2> QED BY <1>7, <2>1, <2>2, <2>3, <2>4, <2>5
<1>22. PoolInv'
  <2> DEFINE A == {x \in PIDs : PCB_Is_Alloced[x]}
             B == {x \in PIDs : PCB_Is_Alloced'[x]}
  <2>1. B = A \ {p} /\ p \in A /\ A \subseteq PIDs
    BY <1>3, <1>4, <1>7
  <2>2. IsFiniteSet(A) /\ Cardinality(A) \in Nat
    BY <2>1, ConstantFacts, FS_Subset, FS_CardinalityType
  <2>3. UseCount = Cardinality(A)
    BY DEF IInv, PoolInv, UseCountExact
  <2> HIDE DEF A
  <2>4. Cardinality(B) = Cardinality(A) - 1
    BY <2>1, <2>2, FS_RemoveElement
  <2>5. UseCountExact'
    BY <1>1, <2>3, <2>4 DEF UseCountExact
  <2>6. Creating' \subseteq Creating
    BY <1>11 DEF Creating
  <2>7. Cardinality(Creating') <= Cardinality(Creating) /\ Cardinality(Creating') \in Nat
    BY <2>6, CreatingFinite, FS_Subset, FS_CardinalityType
  <2>8. /\ Cardinality(Creating) \in Nat /\ TASKPOOL_MAXCOUNT \in Nat
        /\ UseCount + Cardinality(Creating) < TASKPOOL_MAXCOUNT \/ FillsPool
    BY CreatingFinite, PoolAssumption DEF IInv, PoolInv
  <2> HIDE DEF B
  <2> QED BY <1>1, <2>2, <2>3, <2>5, <2>7, <2>8 DEF PoolInv
<1>23. ThreadsHaveProcess'
  <2> SUFFICES ASSUME NEW x \in PIDs, PCB_Is_Alloced'[x], Is_Thread[x], PFlag'[x] # "TERMINATED"
               PROVE  /\ ParentPID'[x] \in PIDs
                      /\ PCB_Is_Alloced'[ParentPID'[x]]
                      /\ ~Is_Thread[ParentPID'[x]]
                      /\ Holds(Childs'[ParentPID'[x]], x)
    BY <1>1 DEF ThreadsHaveProcess
  <2>1. x # p /\ PCB_Is_Alloced[x] /\ PFlag[x] # "TERMINATED" /\ ParentPID'[x] = ParentPID[x]
    BY <1>7, <1>8
  <2>2. /\ ParentPID[x] \in PIDs
        /\ PCB_Is_Alloced[ParentPID[x]]
        /\ ~Is_Thread[ParentPID[x]]
        /\ Holds(Childs[ParentPID[x]], x)
    BY <2>1 DEF IInv, ThreadsHaveProcess
  <2>3. ParentPID[x] # p
    BY <1>5, <2>1, <2>2
  <2> QED BY <1>7, <1>9, <2>1, <2>2, <2>3
<1>24. ChildrenNameParent'
  <2>1. ChildrenHold
    BY ChildrenHoldFacts DEF IInv
  <2>2. NoRepeats(<<>>)
    BY DEF NoRepeats
  <2>3. \A x \in PIDs : \A y : Holds(Childs'[x], y) => y \in PIDs
    BY <1>9 DEF Holds
  <2>4. \A x \in PIDs : NoRepeats(Childs'[x])
    BY <1>9, <2>1, <2>2 DEF ChildrenHold
  <2>5. \A x \in PIDs : \A y : Holds(Childs'[x], y) => PCB_Is_Alloced'[y] /\ ParentPID'[y] = x
    <3> SUFFICES ASSUME NEW x \in PIDs, NEW y, Holds(Childs'[x], y)
                 PROVE  PCB_Is_Alloced'[y] /\ ParentPID'[y] = x
      OBVIOUS
    <3>1. x # p /\ Holds(Childs[x], y) /\ y \in PIDs
      BY <1>9, <1>14, <2>3
    <3>2. y # p /\ PCB_Is_Alloced[y] /\ ParentPID[y] = x
      BY <1>3, <2>1, <3>1 DEF ChildrenHold
    <3> QED BY <1>7, <1>8, <3>1, <3>2
  <2> QED BY <2>4, <2>5 DEF ChildrenNameParent, Holds
<1> QED
  BY <1>13, <1>15, <1>16, <1>17, <1>18, <1>19, <1>20, <1>21, <1>22, <1>23, <1>24 DEF IInv

-----------------------------------------------------------------------------
(* Create_Process.                                                         *)

\* The search for a slot returns a free one.
LEMMA FirstFreeFacts ==
    ASSUME FreeSlots # {}
    PROVE  FirstFree \in PIDs /\ ~PCB_Is_Alloced[FirstFree]
<1>1. FreeSlots \subseteq PIDs /\ FreeSlots \in SUBSET Nat
  BY ConstantFacts DEF FreeSlots
<1>2. \E p \in FreeSlots : \A k \in FreeSlots : p <= k
  BY <1>1, LeastNat
<1>3. FirstFree \in FreeSlots
  BY <1>2 DEF FirstFree
<1> QED BY <1>3 DEF FreeSlots

LEMMA CreateInv ==
    ASSUME IInv, ~FillsPool, Orderly, At("create") \/ At("create_shell"),
           NEW prio \in Priorities, NEW isThread \in BOOLEAN,
           ~(Is_Thread[CURRENT_Process] /\ isThread),
           Create_PCB(prio, isThread)
    PROVE  IInv'
<1> DEFINE c == CURRENT_Process
           p == FirstFree
<1>1. /\ UseCount' = UseCount + 1
      /\ PCB_Is_Alloced' = [PCB_Is_Alloced EXCEPT ![p] = TRUE]
      /\ PFlag' = [PFlag EXCEPT ![p] = "READY"]
      /\ Priority' = [Priority EXCEPT ![p] = prio]
      /\ ParentPID' = [ParentPID EXCEPT ![p] = c]
      /\ Is_Thread' = [Is_Thread EXCEPT ![p] = isThread]
      /\ RFLAGS' = [RFLAGS EXCEPT ![p] = TRUE]
      /\ at' = [at EXCEPT ![p] = "run", ![c] = Home]
      /\ ReadyQueue' = [ReadyQueue EXCEPT ![prio] = Add_Task_in_Tail(@, p, UseCount + 1)]
      /\ Childs' = [Childs EXCEPT ![c] = Add_Task_in_Tail(@, p, UseCount + 1)]
      /\ UNCHANGED <<Use_FPU, target, TerminateQueue, Wait_Queue, cpuVars, schedVars>>
  BY DEF Create_PCB
<1>2. p \in PIDs /\ ~PCB_Is_Alloced[p]
  BY FirstFreeFacts DEF Create_PCB
<1>3. /\ TypeOK /\ c \in PIDs /\ PID_SCHED \in PIDs /\ NoPID \notin PIDs
      /\ at[c] \in {"create", "create_shell"}
      /\ CURRENT_Process = c
  BY ConstantFacts DEF IInv, TypeOK, At
<1>4. Home = IF c = PID_SCHED THEN "loop" ELSE "run"
  BY DEF Home
<1> HIDE DEF c, p, Home
<1>5. CURRENT_Process' = c
  BY <1>1, <1>3 DEF cpuVars
<1>6. /\ PFlag[p] = "FREE" /\ p # c /\ p # PID_SCHED
      /\ Childs[p] = <<>> /\ PCB_Is_Alloced[c]
  BY <1>2, <1>3 DEF IInv, FlagInv
<1>7. PFlag[c] # "TERMINATED"
  <2>1. at[c] = "create_shell" => c = PID_SCHED
    BY <1>3 DEF IInv, LocationInv, TaskLocations
  <2> QED BY <1>3, <2>1 DEF IInv, FlagInv
<1>8. /\ TerminateProcess = NoPID /\ TerminateProcess' = NoPID
      /\ at[PID_SCHED] \notin {"drain", "reap"}
  BY <1>1, <1>3 DEF IInv, ReaperInv, schedVars
<1>9. /\ \A x \in PIDs, q \in Priorities : Holds(ReadyQueue[q], x) => x # p
      /\ \A x \in PIDs : Holds(TerminateQueue, x) => x # p
      /\ \A x \in PIDs : Holds(Wait_Queue, x) => x # p
  BY <1>6 DEF IInv, QueueInv
<1>10. ChildrenHold /\ \A x \in PIDs : ~Holds(Childs[x], p)
  BY <1>2, ChildrenHoldFacts DEF IInv, ChildrenHold
<1>11. /\ Cardinality(Creating \ {c}) = Cardinality(Creating) - 1
       /\ Cardinality(Creating) \in Nat /\ Cardinality(Creating \ {c}) \in Nat
       /\ UseCount \in Int /\ TASKPOOL_MAXCOUNT \in Nat
       /\ UseCount + Cardinality(Creating) < TASKPOOL_MAXCOUNT
       /\ UseCount + 1 # TASKPOOL_MAXCOUNT
  <2>1. c \in Creating
    BY <1>3 DEF Creating
  <2>2. Cardinality(Creating \ {c}) = Cardinality(Creating) - 1 /\ IsFiniteSet(Creating \ {c})
    BY <2>1, CreatingFinite, FS_RemoveElement
  <2>3. Cardinality(Creating \ {c}) \in Nat
    BY <2>2, FS_CardinalityType
  <2>4. UseCount \in Int /\ TASKPOOL_MAXCOUNT \in Nat
        /\ UseCount + Cardinality(Creating) < TASKPOOL_MAXCOUNT
    BY <1>3, PoolAssumption DEF TypeOK, IInv, PoolInv
  <2> QED BY <2>2, <2>3, <2>4, CreatingFinite
<1>12. \A queue : Add_Task_in_Tail(queue, p, UseCount + 1) = Append(queue, p)
  BY <1>11 DEF Add_Task_in_Tail
<1>13. /\ ReadyQueue' \in [Priorities -> Seq(PIDs)]
       /\ \A r \in Priorities : NoRepeats(ReadyQueue'[r])
       /\ \A r \in Priorities, x \in PIDs :
             Holds(ReadyQueue'[r], x) <=> Holds(ReadyQueue[r], x) \/ (x = p /\ r = prio)
  <2>1. ReadyQueue \in [Priorities -> Seq(PIDs)] /\ \A r \in Priorities : NoRepeats(ReadyQueue[r])
    BY <1>3 DEF TypeOK, IInv, QueueInv
  <2>2. ~Holds(ReadyQueue[prio], p)
    BY <1>2, <1>9
  <2>3. /\ Append(ReadyQueue[prio], p) \in Seq(PIDs)
        /\ NoRepeats(Append(ReadyQueue[prio], p))
        /\ \A x : Holds(Append(ReadyQueue[prio], p), x) <=> Holds(ReadyQueue[prio], x) \/ x = p
    BY <1>2, <2>1, <2>2, AppendFacts
  <2>4. /\ ReadyQueue'[prio] = Append(ReadyQueue[prio], p)
        /\ \A r \in Priorities : r # prio => ReadyQueue'[r] = ReadyQueue[r]
        /\ ReadyQueue' \in [Priorities -> Seq(PIDs)]
    BY <1>1, <1>12, <2>1, <2>3
  <2> QED BY <2>1, <2>3, <2>4
<1>14. /\ Childs' \in [PIDs -> Seq(PIDs)]
       /\ \A x \in PIDs : NoRepeats(Childs'[x])
       /\ \A x \in PIDs : \A y : Holds(Childs'[x], y) <=> Holds(Childs[x], y) \/ (x = c /\ y = p)
       /\ \A x \in PIDs : x # c => Childs'[x] = Childs[x]
  <2>1. Childs \in [PIDs -> Seq(PIDs)] /\ \A x \in PIDs : NoRepeats(Childs[x])
    BY <1>3, <1>10 DEF TypeOK, ChildrenHold
  <2>2. /\ Append(Childs[c], p) \in Seq(PIDs)
        /\ NoRepeats(Append(Childs[c], p))
        /\ \A y : Holds(Append(Childs[c], p), y) <=> Holds(Childs[c], y) \/ y = p
    BY <1>2, <1>3, <1>10, <2>1, AppendFacts
  <2>3. /\ Childs'[c] = Append(Childs[c], p)
        /\ \A x \in PIDs : x # c => Childs'[x] = Childs[x]
        /\ Childs' \in [PIDs -> Seq(PIDs)]
    BY <1>1, <1>3, <1>12, <2>1, <2>2
  <2> QED BY <2>1, <2>2, <2>3
<1>15. /\ PCB_Is_Alloced' \in [PIDs -> BOOLEAN] /\ PCB_Is_Alloced'[p]
       /\ PFlag' \in [PIDs -> Flags] /\ PFlag'[p] = "READY"
       /\ Is_Thread' \in [PIDs -> BOOLEAN] /\ Is_Thread'[p] = isThread
       /\ \A x \in PIDs : x # p => /\ PCB_Is_Alloced'[x] = PCB_Is_Alloced[x]
                                   /\ PFlag'[x] = PFlag[x]
                                   /\ Is_Thread'[x] = Is_Thread[x]
  BY <1>1, <1>2, <1>3 DEF TypeOK, Flags
<1>16. /\ Priority' \in [PIDs -> Priorities] /\ Priority'[p] = prio
       /\ ParentPID' \in [PIDs -> PIDs \cup {NoPID}] /\ ParentPID'[p] = c
       /\ RFLAGS' \in [PIDs -> BOOLEAN]
       /\ \A x \in PIDs : x # p => /\ Priority'[x] = Priority[x]
                                   /\ ParentPID'[x] = ParentPID[x]
                                   /\ RFLAGS'[x] = RFLAGS[x]
  BY <1>1, <1>2, <1>3 DEF TypeOK
<1>17. /\ at' \in [PIDs -> Locations] /\ at'[p] = "run" /\ at'[c] = Home
       /\ \A x \in PIDs : x # p /\ x # c => at'[x] = at[x]
  BY <1>1, <1>2, <1>3, <1>4, <1>6 DEF TypeOK, Locations
<1>18. TypeOK'
  <2>1. UseCount' \in Int
    BY <1>1, <1>11
  <2> QED BY <1>1, <1>3, <1>13, <1>14, <1>15, <1>16, <1>17, <2>1 DEF TypeOK, cpuVars, schedVars
<1>19. LocationInv'
  BY <1>3, <1>4, <1>6, <1>17 DEF IInv, LocationInv, SchedLocations, TaskLocations
<1>20. FlagInv'
  <2>1. FlagInv /\ Process_Queue' = Process_Queue
    BY <1>1 DEF IInv, cpuVars
  <2>2. /\ \A x \in PIDs : PFlag'[x] = "FREE" <=> ~PCB_Is_Alloced'[x]
        /\ \A x \in PIDs : ~PCB_Is_Alloced'[x] => Childs'[x] = <<>>
        /\ \A x \in PIDs : PCB_Is_Alloced'[x] => ParentPID'[x] \in PIDs
    <3>1. \A x \in PIDs : PFlag'[x] = "FREE" <=> ~PCB_Is_Alloced'[x]
      BY <1>15, <2>1 DEF FlagInv
    <3>2. \A x \in PIDs : ~PCB_Is_Alloced'[x] => x # c /\ ~PCB_Is_Alloced[x]
      BY <1>6, <1>15
    <3>3. \A x \in PIDs : ~PCB_Is_Alloced'[x] => Childs'[x] = <<>>
      BY <1>14, <2>1, <3>2 DEF FlagInv
    <3>4. \A x \in PIDs : PCB_Is_Alloced'[x] => ParentPID'[x] \in PIDs
      BY <1>3, <1>15, <1>16, <2>1 DEF FlagInv
    <3> QED BY <3>1, <3>3, <3>4
  <2>3. /\ \A x \in PIDs : PFlag'[x] \in {"NEW", "RUNNING"} => x = c
        /\ \A x \in PIDs : PFlag'[x] = "NEW" => x = PID_SCHED
        /\ PFlag'[PID_SCHED] = PFlag[PID_SCHED]
        /\ PFlag'[c] = PFlag[c]
        /\ Priority'[c] = Priority[c]
    BY <1>3, <1>6, <1>15, <1>16, <2>1 DEF FlagInv
  <2>4. at'[c] # "resumed"
    BY <1>4, <1>17
  <2> QED BY <1>3, <1>5, <1>7, <2>1, <2>2, <2>3, <2>4 DEF FlagInv
<1>21. QueueInv'
  <2>1. QueueInv /\ UNCHANGED <<TerminateQueue, Wait_Queue>>
    BY <1>1 DEF IInv
  <2>2. /\ \A x \in PIDs, q \in Priorities : Holds(ReadyQueue'[q], x) =>
              PFlag'[x] = "READY" /\ Priority'[x] = q
        /\ \A x \in PIDs : Holds(TerminateQueue', x) =>
              PFlag'[x] = "TERMINATED" /\ x # CURRENT_Process' /\ x # TerminateProcess'
        /\ \A x \in PIDs : Holds(Wait_Queue', x) <=> PFlag'[x] = "WAITING"
    <3>1. ASSUME NEW x \in PIDs, NEW q \in Priorities, Holds(ReadyQueue'[q], x)
          PROVE  PFlag'[x] = "READY" /\ Priority'[x] = q
      <4>1. CASE x = p
        BY <1>9, <1>13, <1>15, <1>16, <3>1, <4>1, SMTT(30)
      <4>2. CASE x # p
        BY <1>13, <1>15, <1>16, <2>1, <3>1, <4>2 DEF QueueInv
      <4> QED BY <4>1, <4>2
    <3>2. \A x \in PIDs : Holds(TerminateQueue', x) =>
              PFlag'[x] = "TERMINATED" /\ x # CURRENT_Process' /\ x # TerminateProcess'
      BY <1>3, <1>5, <1>8, <1>9, <1>15, <2>1 DEF QueueInv
    <3>3. \A x \in PIDs : Holds(Wait_Queue', x) <=> PFlag'[x] = "WAITING"
      BY <1>9, <1>15, <2>1 DEF QueueInv
    <3> QED BY <3>1, <3>2, <3>3
  <2>3. NoTaskLost'
    <3> SUFFICES ASSUME NEW x \in PIDs, Settled(x)'
                 PROVE  \/ PFlag'[x] = "READY" /\ Holds(ReadyQueue'[Priority'[x]], x)
                        \/ PFlag'[x] = "TERMINATED" /\ Holds(TerminateQueue', x)
                        \/ PFlag'[x] = "WAITING" /\ Holds(Wait_Queue', x)
      BY DEF NoTaskLost
    <3>1. CASE x = p
      BY <1>13, <1>15, <1>16, <3>1
    <3>2. CASE x # p
      <4>1. Settled(x) /\ Priority[x] \in Priorities
        BY <1>3, <1>5, <1>8, <1>15, <3>2 DEF Settled, TypeOK
      <4> QED BY <1>13, <1>15, <1>16, <2>1, <3>2, <4>1 DEF QueueInv, NoTaskLost
    <3> QED BY <3>1, <3>2
  <2> QED BY <1>13, <2>1, <2>2, <2>3 DEF QueueInv
<1>22. /\ at'[PID_SCHED] = IF c = PID_SCHED THEN "loop" ELSE at[PID_SCHED]
  BY <1>3, <1>4, <1>6, <1>17
<1>23. ReaperInv'
  BY <1>8, <1>22 DEF IInv, ReaperInv
<1>24. MaskInv'
  <2>1. /\ Booted' <=> Booted
        /\ UNCHANGED <<IntFlag, sched_RFLAGS>>
    BY <1>1, <1>3, <1>6, <1>16 DEF Booted, cpuVars, schedVars
  <2>2. ~Booted => \A x \in PIDs : PFlag'[x] \notin {"TERMINATED", "WAITING"}
    BY <1>15 DEF IInv, MaskInv
  <2> QED BY <1>3, <1>5, <1>8, <1>22, <2>1, <2>2 DEF IInv, MaskInv
<1>25. OrderInv'
  <2>1. \A x \in PIDs : ~Holds(Childs'[x], x) /\ ~Holds(Childs'[x], PID_SCHED)
    BY <1>6, <1>14 DEF IInv, OrderInv
  <2>2. \A x, y : Before(TerminateQueue, x, y) => Holds(TerminateQueue, x) /\ Holds(TerminateQueue, y)
    BY DEF Before, Holds
  <2>3. \A x, y \in PIDs : Before(TerminateQueue', x, y) /\ ~Is_Thread'[x] => ~Holds(Childs'[x], y)
    BY <1>1, <1>9, <1>14, <1>15, <2>2 DEF IInv, OrderInv
  <2>4. PFlag'[c] # "TERMINATED"
    BY <1>3, <1>6, <1>7, <1>15
  <2> QED BY <1>5, <2>1, <2>3, <2>4 DEF OrderInv
<1>26. WindowInv'
  <2> SUFFICES ASSUME NEW k \in PIDs, at'[k] = "kill"
               PROVE  /\ Booted'
                      /\ PFlag'[k] \in {"READY", "RUNNING"}
                      /\ target'[k] \in PIDs \ {k, PID_SCHED}
                      /\ PFlag'[target'[k]] \in {"READY", "RUNNING", "WAITING"}
                      /\ \A j \in PIDs : at'[j] = "kill" => j = k
                      /\ \A d \in PIDs : PFlag'[d] = "TERMINATED" => ~Cascades(d)'
    BY DEF WindowInv
  <2>1. /\ k # p /\ at[k] = "kill"
        /\ \A j \in PIDs : at'[j] = "kill" => at[j] = "kill"
    BY <1>4, <1>17
  <2>2. /\ Booted /\ PFlag[k] \in {"READY", "RUNNING"}
        /\ target[k] \in PIDs \ {k, PID_SCHED}
        /\ PFlag[target[k]] \in {"READY", "RUNNING", "WAITING"}
        /\ \A j \in PIDs : at[j] = "kill" => j = k
        /\ \A d \in PIDs : PFlag[d] = "TERMINATED" => ~Cascades(d)
    BY <2>1 DEF IInv, WindowInv
  <2>3. target[k] # p /\ target' = target
    BY <1>1, <1>6, <2>2
  <2>4. \A d \in PIDs : PFlag'[d] = "TERMINATED" => ~Cascades(d)'
    <3> SUFFICES ASSUME NEW d \in PIDs, PFlag'[d] = "TERMINATED"
                 PROVE  ~Cascades(d)'
      OBVIOUS
    <3>1. d # p /\ d # c /\ PFlag[d] = "TERMINATED"
      BY <1>7, <1>15
    <3> QED BY <1>14, <1>15, <2>2, <3>1 DEF Cascades
  <2>5. Booted'
    BY <1>3, <1>6, <1>16, <2>2 DEF Booted
  <2> QED BY <1>15, <2>1, <2>2, <2>3, <2>4, <2>5
<1>27. PoolInv'
  <2> DEFINE A == {x \in PIDs : PCB_Is_Alloced[x]}
             B == {x \in PIDs : PCB_Is_Alloced'[x]}
  <2>1. B = A \cup {p} /\ p \notin A /\ A \subseteq PIDs
    BY <1>2, <1>15
  <2>2. IsFiniteSet(A) /\ Cardinality(A) \in Nat
    BY <2>1, ConstantFacts, FS_Subset, FS_CardinalityType
  <2>3. UseCount = Cardinality(A)
    BY DEF IInv, PoolInv, UseCountExact
  <2> HIDE DEF A
  <2>4. Cardinality(B) = Cardinality(A) + 1
    BY <2>1, <2>2, FS_AddElement
  <2>5. UseCountExact'
    BY <1>1, <2>3, <2>4 DEF UseCountExact
  <2>6. Creating' \subseteq Creating \ {c}
    BY <1>4, <1>17 DEF Creating
  <2>7. IsFiniteSet(Creating \ {c})
    BY CreatingFinite, FS_Subset
  <2>8. Cardinality(Creating') <= Cardinality(Creating) - 1 /\ Cardinality(Creating') \in Nat
    BY <1>11, <2>6, <2>7, FS_Subset, FS_CardinalityType
  <2> HIDE DEF B
  <2>9. UseCount' + Cardinality(Creating') < TASKPOOL_MAXCOUNT
    BY <1>1, <1>11, <2>8
  <2> QED BY <2>5, <2>9 DEF PoolInv
<1>28. ThreadsHaveProcess'
  <2> SUFFICES ASSUME NEW x \in PIDs, PCB_Is_Alloced'[x], Is_Thread'[x], PFlag'[x] # "TERMINATED"
               PROVE  /\ ParentPID'[x] \in PIDs
                      /\ PCB_Is_Alloced'[ParentPID'[x]]
                      /\ ~Is_Thread'[ParentPID'[x]]
                      /\ Holds(Childs'[ParentPID'[x]], x)
    BY DEF ThreadsHaveProcess
  <2>1. CASE x = p
    BY <1>3, <1>6, <1>14, <1>15, <1>16, <2>1
  <2>2. CASE x # p
    <3>1. /\ PCB_Is_Alloced[x] /\ Is_Thread[x] /\ PFlag[x] # "TERMINATED"
          /\ ParentPID'[x] = ParentPID[x]
      BY <1>15, <1>16, <2>2
    <3>2. /\ ParentPID[x] \in PIDs
          /\ PCB_Is_Alloced[ParentPID[x]]
          /\ ~Is_Thread[ParentPID[x]]
          /\ Holds(Childs[ParentPID[x]], x)
      BY <3>1 DEF IInv, ThreadsHaveProcess
    <3>3. ParentPID'[x] \in PIDs /\ PCB_Is_Alloced'[ParentPID'[x]] /\ ~Is_Thread'[ParentPID'[x]]
      BY <1>2, <1>14, <1>15, <3>1, <3>2
    <3>4. Holds(Childs'[ParentPID'[x]], x)
      BY <1>2, <1>14, <1>15, <3>1, <3>2
    <3> QED BY <3>3, <3>4
  <2> QED BY <2>1, <2>2
<1>29. ChildrenNameParent'
  <2>1. \A x \in PIDs : \A y : Holds(Childs'[x], y) => PCB_Is_Alloced'[y] /\ ParentPID'[y] = x
    <3> SUFFICES ASSUME NEW x \in PIDs, NEW y, Holds(Childs'[x], y)
                 PROVE  PCB_Is_Alloced'[y] /\ ParentPID'[y] = x
      OBVIOUS
    <3>1. y \in PIDs
      BY <1>14 DEF Holds
    <3>2. CASE y = p
      BY <1>10, <1>14, <1>15, <1>16, <3>2
    <3>3. CASE y # p
      <4>1. Holds(Childs[x], y)
        BY <1>14, <3>1, <3>3
      <4>2. PCB_Is_Alloced[y] /\ ParentPID[y] = x
        BY <1>10, <4>1 DEF ChildrenHold
      <4> QED BY <1>15, <1>16, <3>1, <3>3, <4>2
    <3> QED BY <3>2, <3>3
  <2> QED BY <1>14, <2>1 DEF ChildrenNameParent, Holds
<1> QED
  BY <1>18, <1>19, <1>20, <1>21, <1>23, <1>24, <1>25, <1>26, <1>27, <1>28, <1>29 DEF IInv

-----------------------------------------------------------------------------
(* The invariant.                                                          *)

\* The timer, and the kernel code that is under way.
LEMMA KernelInv ==
    ASSUME IInv, ~FillsPool, Orderly, Tick \/ KernelStep
    PROVE  IInv'
<1>1. CASE Tick
  BY <1>1, TimerInv, PreemptedInv DEF Tick
<1>2. CASE GiveOut
  BY <1>2, CheckInv, GiveOutSwitchInv, ReturnInv DEF GiveOut
<1>3. CASE Terminate_Process_Other
  BY <1>3, TerminateOtherInv
<1>4. CASE Create_Process_Check
  BY <1>4, CreateCheckInv
<1>5. ASSUME NEW prio \in UsedPriorities, NEW isThread \in BOOLEAN, Create_Process(prio, isThread)
      PROVE  IInv'
  <2>1. prio \in Priorities
    BY PriorityAssumption
  <2>2. CASE Is_Thread[CURRENT_Process] /\ isThread
    BY <1>5, <2>2, CreateRefusedInv DEF Create_Process
  <2>3. CASE ~(Is_Thread[CURRENT_Process] /\ isThread)
    BY <1>5, <2>1, <2>3, CreateInv DEF Create_Process
  <2> QED BY <2>2, <2>3
<1>6. CASE sched_CreateStartProcess
  <2>1. At("create_shell") /\ Create_PCB(0, FALSE) /\ 0 \in Priorities
    BY <1>6, ConstantFacts DEF sched_CreateStartProcess
  <2> QED BY <2>1, CreateInv
<1>7. CASE Sched
  BY <1>6, <1>7, LoopInv, TakeInv, KillChildInv, FreeInv, DoneInv DEF Sched
<1> QED BY <1>1, <1>2, <1>3, <1>4, <1>5, <1>7 DEF KernelStep

\* A task enters a kernel call.  It does not wait: a waiting task would stay
\* in Wait_Queue when it is terminated.
LEMMA EnterInv ==
    ASSUME IInv, Orderly, PFlag[CURRENT_Process] # "WAITING",
           \/ Yield \/ Create_Process_Check \/ Terminate_Process_Self
           \/ \E p \in PIDs : Terminate_Process_Check(p)
    PROVE  IInv'
BY YieldInv, CreateCheckInv, TerminateSelfInv, TerminateCheckInv

LEMMA StutterInv ==
    ASSUME IInv, UNCHANGED vars
    PROVE  IInv'
<1>1. Quiet /\ UNCHANGED <<Use_FPU, at, target, cpuVars, schedVars>>
  BY DEF vars, Quiet, pcbVars, queueVars, cpuVars, schedVars
<1> USE DEF IInv, Quiet, pcbVars, queueVars, cpuVars, schedVars
<1>2. TypeOK'
  BY <1>1 DEF TypeOK
<1>3. LocationInv' /\ FlagInv' /\ ReaperInv'
  BY <1>1 DEF LocationInv, FlagInv, ReaperInv
<1>4. MaskInv' /\ WindowInv'
  BY <1>1 DEF MaskInv, WindowInv, Booted, Is_TaskInQueue, Cascades
<1>5. PoolInv'
  BY <1>1, PoolKept DEF Creating
<1> QED BY <1>1, <1>2, <1>3, <1>4, <1>5, QuietInv

LEMMA NextCases ==
    Next => \/ Tick \/ KernelStep
            \/ Yield \/ Create_Process_Check \/ Terminate_Process_Self
            \/ \E p \in PIDs : Terminate_Process_Check(p)
BY DEF Next, KernelStep, Create, Terminate

-----------------------------------------------------------------------------
(* How a step changes the flag of a task.                                  *)

LEMMA FlagSteps ==
    ASSUME IInv, ~FillsPool, Orderly, Next, NEW p \in PIDs
    PROVE  /\ PFlag'[p] = "WAITING" => PFlag[p] = "WAITING"
           /\ PFlag[p] = "WAITING" => PFlag'[p] \in {"WAITING", "TERMINATED"}
           /\ PFlag[p] = "TERMINATED" => PFlag'[p] \in {"TERMINATED", "FREE"}
           /\ PFlag'[p] = "FREE" => PFlag[p] \in {"TERMINATED", "FREE"}
<1>1. PFlag \in [PIDs -> Flags] /\ CURRENT_Process \in PIDs
  BY DEF IInv, TypeOK
<1>2. CASE PFlag' = PFlag
  BY <1>2
<1>3. ASSUME Is_TaskInQueue, SwitchTasks(Priority[CURRENT_Process])
      PROVE  /\ PFlag'[p] = "WAITING" => PFlag[p] = "WAITING"
             /\ PFlag[p] = "WAITING" => PFlag'[p] \in {"WAITING", "TERMINATED"}
             /\ PFlag[p] = "TERMINATED" => PFlag'[p] \in {"TERMINATED", "FREE"}
             /\ PFlag'[p] = "FREE" => PFlag[p] \in {"TERMINATED", "FREE"}
  <2> DEFINE s == ScheduledTask
  <2>1. s \in PIDs /\ PFlag[s] = "READY" /\ s # CURRENT_Process
    BY <1>3, SwitchQueues
  <2>2. PFlag' = [PFlag EXCEPT ![s] = "RUNNING", ![CURRENT_Process] =
                                   IF @ \in {"TERMINATED", "WAITING"} THEN @ ELSE "READY"]
    BY <1>3 DEF SwitchTasks
  <2> HIDE DEF s
  <2> QED BY <1>1, <2>1, <2>2
<1>4. CASE Tick
  <2>1. CASE ISR_Timer \/ Preempted_NoTask
    BY <1>2, <2>1 DEF ISR_Timer, Preempted_NoTask, pcbVars
  <2>2. CASE Preempted_ByTimeOut
    BY <1>3, <2>2 DEF Preempted_ByTimeOut, IInv, FlagInv
  <2> QED BY <1>4, <2>1, <2>2 DEF Tick
<1>5. CASE GiveOut
  <2>1. CASE GiveOut_Processor_Check \/ GiveOut_Processor_Return
    BY <1>2, <2>1 DEF GiveOut_Processor_Check, GiveOut_Processor_Return, pcbVars
  <2>2. CASE GiveOut_Processor_Switch
    BY <1>3, <2>2 DEF GiveOut_Processor_Switch
  <2> QED BY <1>5, <2>1, <2>2 DEF GiveOut
<1>6. CASE Yield \/ Create_Process_Check \/ sched_Loop \/ sched_Take \/ sched_Done
  BY <1>2, <1>6 DEF Yield, Create_Process_Check, sched_Loop, sched_Take, sched_Done, pcbVars
<1>7. ASSUME NEW v \in PIDs, Terminate_Process_Check(v)
      PROVE  PFlag' = PFlag
  BY <1>7 DEF Terminate_Process_Check, pcbVars
<1>8. ASSUME NEW v \in PIDs, PFlag' = [PFlag EXCEPT ![v] = "TERMINATED"], PFlag[v] # "FREE"
      PROVE  /\ PFlag'[p] = "WAITING" => PFlag[p] = "WAITING"
             /\ PFlag[p] = "WAITING" => PFlag'[p] \in {"WAITING", "TERMINATED"}
             /\ PFlag[p] = "TERMINATED" => PFlag'[p] \in {"TERMINATED", "FREE"}
             /\ PFlag'[p] = "FREE" => PFlag[p] \in {"TERMINATED", "FREE"}
  BY <1>1, <1>8
<1>9. CASE Terminate_Process_Self
  <2>1. PFlag' = [PFlag EXCEPT ![CURRENT_Process] = "TERMINATED"]
    BY <1>9 DEF Terminate_Process_Self
  <2> QED BY <1>1, <1>8, <2>1 DEF IInv, FlagInv
<1>10. CASE Terminate_Process_Other
  <2>1. /\ at[CURRENT_Process] = "kill"
        /\ PFlag' = [PFlag EXCEPT ![target[CURRENT_Process]] = "TERMINATED"]
    BY <1>10 DEF Terminate_Process_Other, Unlink_And_Terminate, At
  <2>2. target[CURRENT_Process] \in PIDs /\ PFlag[target[CURRENT_Process]] # "FREE"
    BY <1>1, <2>1 DEF IInv, WindowInv
  <2> QED BY <1>8, <2>1, <2>2
<1>11. CASE sched_KillChild
  <2> DEFINE v == Childs[TerminateProcess][i + 1]
  <2>1. v \in PIDs /\ PFlag[v] # "FREE" /\ Unlink_And_Terminate(v)
    BY <1>11, KillChildFacts
  <2> HIDE DEF v
  <2> QED BY <1>8, <2>1 DEF Unlink_And_Terminate
<1>12. CASE Free_PCB
  <2>1. /\ At("reap")
        /\ PFlag' = [PFlag EXCEPT ![TerminateProcess] = "FREE"]
    BY <1>12 DEF Free_PCB
  <2>2. TerminateProcess \in PIDs /\ PFlag[TerminateProcess] = "TERMINATED"
    BY <2>1, SchedDrains DEF At, IInv, ReaperInv
  <2> QED BY <1>1, <2>1, <2>2
<1>13. ASSUME NEW prio, NEW isThread, Create_PCB(prio, isThread)
       PROVE  /\ PFlag'[p] = "WAITING" => PFlag[p] = "WAITING"
              /\ PFlag[p] = "WAITING" => PFlag'[p] \in {"WAITING", "TERMINATED"}
              /\ PFlag[p] = "TERMINATED" => PFlag'[p] \in {"TERMINATED", "FREE"}
              /\ PFlag'[p] = "FREE" => PFlag[p] \in {"TERMINATED", "FREE"}
  <2>1. FirstFree \in PIDs /\ PFlag[FirstFree] = "FREE"
    BY <1>13, FirstFreeFacts DEF Create_PCB, IInv, FlagInv
  <2>2. PFlag' = [PFlag EXCEPT ![FirstFree] = "READY"]
    BY <1>13 DEF Create_PCB
  <2> QED BY <1>1, <2>1, <2>2
<1>14. ASSUME NEW prio \in UsedPriorities, NEW isThread \in BOOLEAN, Create_Process(prio, isThread)
       PROVE  PFlag' = PFlag \/ Create_PCB(prio, isThread)
  BY <1>14 DEF Create_Process, Create_Refused, pcbVars
<1>15. CASE sched_CreateStartProcess
  BY <1>13, <1>15 DEF sched_CreateStartProcess
<1> QED
  BY <1>2, <1>4, <1>5, <1>6, <1>7, <1>9, <1>10, <1>11, <1>12, <1>13, <1>14, <1>15
  DEF Next, Create, Terminate, Sched

\* Without semaphores no task ever waits.
NobodyWaits == \A p \in PIDs : PFlag[p] # "WAITING"

LEMMA NextInv ==
    ASSUME IInv, NobodyWaits, ~FillsPool, Orderly, [Next]_vars
    PROVE  IInv' /\ NobodyWaits'
<1>1. CASE Next
  <2>1. NobodyWaits'
    BY <1>1, FlagSteps DEF NobodyWaits
  <2>2. PFlag[CURRENT_Process] # "WAITING"
    BY DEF NobodyWaits, IInv, TypeOK
  <2>3. IInv'
    BY <1>1, <2>2, NextCases, KernelInv, EnterInv
  <2> QED BY <2>1, <2>3
<1>2. CASE UNCHANGED vars
  BY <1>2, StutterInv DEF NobodyWaits, vars, pcbVars
<1> QED BY <1>1, <1>2

(* The invariant holds in every reachable state, for a pool of any size    *)
(* that is never filled, any number of priorities and any calls, if tasks  *)
(* are terminated in order.                                                *)
THEOREM Invariant ==
    ASSUME ~FillsPool, Orderly
    PROVE  Spec => [](IInv /\ NobodyWaits)
<1>1. Init => NobodyWaits
  BY DEF Init, NobodyWaits
<1>2. IInv /\ NobodyWaits /\ [Next]_vars => IInv' /\ NobodyWaits'
  BY NextInv
<1> QED BY <1>1, <1>2, InitInv, PTL DEF Spec

(* Every variable of the task manager keeps its type: in particular what   *)
(* is in a queue is the number of a PCB, and a quantum is never negative.  *)
THEOREM TypeCorrect ==
    ASSUME ~FillsPool, Orderly
    PROVE  Spec => []TypeOK
<1>1. IInv => TypeOK
  BY DEF IInv
<1> QED BY <1>1, Invariant, PTL

LEMMA LinkedFacts == IInv => LinkedOnce
<1> SUFFICES ASSUME IInv PROVE LinkedOnce
  OBVIOUS
<1>1. /\ CURRENT_Process \in PIDs
      /\ TerminateProcess # NoPID => TerminateProcess \in PIDs
      /\ PFlag[CURRENT_Process] \in {"NEW", "RUNNING", "WAITING", "TERMINATED"}
      /\ TerminateProcess \in PIDs => PFlag[TerminateProcess] = "TERMINATED"
  BY ConstantFacts DEF IInv, TypeOK, FlagInv, ReaperInv
<1>2. \A q \in Priorities : \A p : Holds(ReadyQueue[q], p) => p \in PIDs
  BY DEF IInv, TypeOK, Holds
<1>3. \A p : Holds(TerminateQueue, p) => p \in PIDs
  BY DEF IInv, TypeOK, Holds
<1>4. QueueInv
  BY DEF IInv
<1>5. ASSUME NEW q \in Priorities
      PROVE  /\ ~Holds(ReadyQueue[q], CURRENT_Process)
             /\ ~Holds(ReadyQueue[q], TerminateProcess)
             /\ \A p \in PIDs : Holds(ReadyQueue[q], p) =>
                   /\ ~Holds(TerminateQueue, p)
                   /\ ~Holds(Wait_Queue, p)
                   /\ \A r \in Priorities : Holds(ReadyQueue[r], p) => r = q
  BY <1>1, <1>2, <1>4 DEF QueueInv
<1>6. ~Holds(TerminateQueue, CURRENT_Process) /\ ~Holds(TerminateQueue, TerminateProcess)
  BY <1>3, <1>4 DEF QueueInv
<1>7. \A p \in PIDs : Holds(Wait_Queue, p) => ~Holds(TerminateQueue, p)
  BY <1>4 DEF QueueInv
<1> QED BY <1>4, <1>5, <1>6, <1>7 DEF QueueInv, LinkedOnce

(* p_Next and p_Prev of a PCB are never used by two queues at once: no     *)
(* task is queued twice, and neither the running one nor the one being     *)
(* reaped is queued.                                                       *)
THEOREM LinkedAtMostOnce ==
    ASSUME ~FillsPool, Orderly
    PROVE  Spec => []LinkedOnce
BY LinkedFacts, Invariant, PTL

(* No task is lost: one that neither runs nor is being reaped is in the    *)
(* queue its state names.                                                  *)
THEOREM NothingLost ==
    ASSUME ~FillsPool, Orderly
    PROVE  Spec => []NoTaskLost
<1>1. IInv => NoTaskLost
  BY DEF IInv, QueueInv
<1> QED BY <1>1, Invariant, PTL

(* The counter of the slab manager is exact.                               *)
THEOREM CounterExact ==
    ASSUME ~FillsPool, Orderly
    PROVE  Spec => []UseCountExact
<1>1. IInv => UseCountExact
  BY DEF IInv, PoolInv
<1> QED BY <1>1, Invariant, PTL

(* A thread that may still run has its process, on whose list of children  *)
(* it is.                                                                  *)
THEOREM ThreadsKeepProcess ==
    ASSUME ~FillsPool, Orderly
    PROVE  Spec => []ThreadsHaveProcess
<1>1. IInv => ThreadsHaveProcess
  BY DEF IInv
<1> QED BY <1>1, Invariant, PTL

(* The lists of children are exact: no repeats, and only live PCBs that    *)
(* name the owner of the list as their parent.                             *)
THEOREM ChildrenExact ==
    ASSUME ~FillsPool, Orderly
    PROVE  Spec => []ChildrenNameParent
<1>1. IInv => ChildrenNameParent
  BY DEF IInv
<1> QED BY <1>1, Invariant, PTL

(* A check made with interrupts enabled still holds in the critical        *)
(* section it guards: GiveOut_Processor has a task to switch to,           *)
(* Create_Process has a free slot, Terminate_Process a living victim.      *)
THEOREM ChecksStable ==
    ASSUME ~FillsPool, Orderly
    PROVE  Spec => []ChecksStillHold
<1>1. ASSUME IInv PROVE ChecksStillHold
  <2>1. At("switch") => Is_TaskInQueue
    BY <1>1, SchedReady DEF IInv, MaskInv, At
  <2>2. FreeSlots # {}
    <3>1. {p \in PIDs : PCB_Is_Alloced[p]} = PIDs => UseCount = TASKPOOL_MAXCOUNT
      BY <1>1, ConstantFacts DEF IInv, PoolInv, UseCountExact
    <3> QED BY <1>1, <3>1, RoomFacts DEF FreeSlots
  <2>3. ASSUME At("kill")
        PROVE  /\ Settled(target[CURRENT_Process])
               /\ PFlag[target[CURRENT_Process]] # "TERMINATED"
    <3>1. CURRENT_Process \in PIDs /\ CURRENT_Process # PID_SCHED
      BY <1>1, <2>3 DEF IInv, TypeOK, LocationInv, SchedLocations, At
    <3>2. /\ Booted
          /\ target[CURRENT_Process] \in PIDs \ {CURRENT_Process, PID_SCHED}
          /\ PFlag[target[CURRENT_Process]] \in {"READY", "RUNNING", "WAITING"}
      BY <1>1, <2>3, <3>1 DEF IInv, WindowInv, At
    <3>3. TerminateProcess = NoPID /\ NoPID \notin PIDs
      BY <1>1, <3>1, <3>2, CallerFacts, ConstantFacts
    <3> QED BY <1>1, <3>2, <3>3 DEF Settled, IInv, FlagInv
  <2> QED BY <2>1, <2>2, <2>3 DEF ChecksStillHold
<1> QED BY <1>1, Invariant, PTL

(* The reaper has put every child it has passed into the terminate queue.  *)
THEOREM ChildrenTerminated ==
    ASSUME ~FillsPool, Orderly
    PROVE  Spec => []ChildrenEnqueued
<1>1. ASSUME IInv PROVE ChildrenEnqueued
  <2> DEFINE t == TerminateProcess
  <2> SUFFICES ASSUME At("reap"), ~Is_Thread[t], NEW k \in 1 .. i
               PROVE  Holds(TerminateQueue, Childs[t][k])
    BY DEF ChildrenEnqueued
  <2>1. CURRENT_Process = PID_SCHED /\ at[PID_SCHED] = "reap" /\ PFlag[PID_SCHED] # "TERMINATED"
    BY <1>1, SchedDrains DEF At
  <2>2. /\ t \in PIDs
        /\ i <= Len(Childs[t])
        /\ \A j \in 1 .. Len(Childs[t]) : j <= i <=> PFlag[Childs[t][j]] = "TERMINATED"
        /\ \A x \in PIDs : ~Holds(Childs[x], t)
    BY <1>1, <2>1 DEF IInv, ReaperInv
  <2>3. Childs[t] \in Seq(PIDs) /\ i \in Nat
    BY <1>1, <2>2 DEF IInv, TypeOK
  <2> HIDE DEF t
  <2>4. k \in 1 .. Len(Childs[t]) /\ k <= i /\ Childs[t][k] \in PIDs
    BY <2>2, <2>3
  <2>5. PFlag[Childs[t][k]] = "TERMINATED" /\ Holds(Childs[t], Childs[t][k])
    BY <2>2, <2>4 DEF Holds
  <2>6. PCB_Is_Alloced[Childs[t][k]]
    BY <1>1, <2>2, <2>5, ChildrenHoldFacts DEF IInv, ChildrenHold
  <2>7. Settled(Childs[t][k])
    BY <2>1, <2>2, <2>5, <2>6 DEF Settled, t
  <2> QED BY <1>1, <2>4, <2>5, <2>7 DEF IInv, QueueInv, NoTaskLost
<1> QED BY <1>1, Invariant, PTL

-----------------------------------------------------------------------------
(* The task manager implements TaskLifecycle: every step of Scheduler is   *)
(* one step of it, or changes nothing it sees.                             *)

\* What lifecycleState says of a task, in this state and in the next.
LEMMA StateFacts ==
    ASSUME NEW p \in PIDs
    PROVE  /\ p = CURRENT_Process => lifecycleState[p] = "running"
           /\ p # CURRENT_Process =>
                /\ PFlag[p] = "READY" => lifecycleState[p] = "ready"
                /\ PFlag[p] = "WAITING" => lifecycleState[p] = "blocked"
                /\ PFlag[p] = "TERMINATED" => lifecycleState[p] = "dead"
                /\ PFlag[p] = "FREE" => lifecycleState[p] = "absent"
           /\ p = CURRENT_Process' => lifecycleState'[p] = "running"
           /\ p # CURRENT_Process' =>
                /\ PFlag'[p] = "READY" => lifecycleState'[p] = "ready"
                /\ PFlag'[p] = "WAITING" => lifecycleState'[p] = "blocked"
                /\ PFlag'[p] = "TERMINATED" => lifecycleState'[p] = "dead"
                /\ PFlag'[p] = "FREE" => lifecycleState'[p] = "absent"
BY DEF lifecycleState

\* A task that does not run before or after a step, and keeps its flag, keeps
\* its state; so does the task that runs before and after.
LEMMA StateKept ==
    ASSUME NEW p \in PIDs,
           (p = CURRENT_Process) <=> (p = CURRENT_Process'),
           p # CURRENT_Process => PFlag'[p] = PFlag[p]
    PROVE  lifecycleState'[p] = lifecycleState[p]
BY DEF lifecycleState

LEMMA StateDomain ==
    /\ lifecycleState = [p \in PIDs |-> lifecycleState[p]]
    /\ lifecycleState' = [p \in PIDs |-> lifecycleState'[p]]
BY DEF lifecycleState

\* A step that is invisible.
LEMMA Invisible ==
    ASSUME CURRENT_Process' = CURRENT_Process,
           \A p \in PIDs : p # CURRENT_Process => PFlag'[p] = PFlag[p]
    PROVE  UNCHANGED lifecycleState
<1>1. \A p \in PIDs : lifecycleState'[p] = lifecycleState[p]
  BY StateKept
<1> QED BY <1>1, StateDomain

\* A step that changes one task.
LEMMA OneChanges ==
    ASSUME CURRENT_Process' = CURRENT_Process,
           NEW t \in PIDs, t # CURRENT_Process,
           \A p \in PIDs : p # t => PFlag'[p] = PFlag[p],
           NEW to, lifecycleState'[t] = to
    PROVE  lifecycleState' = [lifecycleState EXCEPT ![t] = to]
<1>1. \A p \in PIDs : p # t => lifecycleState'[p] = lifecycleState[p]
  BY StateKept
<1>2. \A p \in PIDs : lifecycleState'[p] = [lifecycleState EXCEPT ![t] = to][p]
  BY <1>1, StateDomain
<1> QED BY <1>2, StateDomain

-----------------------------------------------------------------------------
LEMMA InitLifecycle == Init => Lifecycle!Init
<1> SUFFICES ASSUME Init PROVE Lifecycle!Init
  OBVIOUS
<1>1. \A p \in PIDs : lifecycleState[p] = IF p = PID_SCHED THEN "running" ELSE "absent"
  <2> SUFFICES ASSUME NEW p \in PIDs
               PROVE  lifecycleState[p] = IF p = PID_SCHED THEN "running" ELSE "absent"
    OBVIOUS
  <2>1. CURRENT_Process = PID_SCHED /\ (p # PID_SCHED => PFlag[p] = "FREE")
    BY DEF Init
  <2> QED BY <2>1, StateFacts
<1>2. lifecycleState = [p \in PIDs |-> IF p = PID_SCHED THEN "running" ELSE "absent"]
  BY <1>1, StateDomain
<1> QED BY <1>2 DEF Lifecycle!Init

\* The switch of GiveOut_Processor and Preempted_ByTimeOut.
LEMMA SwitchLifecycle ==
    ASSUME IInv, ~FillsPool, Orderly, Is_TaskInQueue, SwitchTasks(Priority[CURRENT_Process])
    PROVE  Lifecycle!Next
<1> DEFINE c == CURRENT_Process
           s == ScheduledTask
           left == CASE PFlag[c] = "TERMINATED" -> "dead"
                     [] PFlag[c] = "WAITING" -> "blocked"
                     [] OTHER -> "ready"
<1>1. c \in PIDs /\ s \in PIDs /\ s # c /\ PFlag[s] = "READY"
  BY SwitchQueues
<1>2. /\ PFlag' = [PFlag EXCEPT ![s] = "RUNNING",
                                ![c] = IF @ \in {"TERMINATED", "WAITING"} THEN @ ELSE "READY"]
      /\ CURRENT_Process' = s
      /\ CURRENT_Process = c
  BY DEF SwitchTasks
<1>3. /\ PFlag[c] \in {"NEW", "RUNNING", "WAITING", "TERMINATED"}
      /\ c = PID_SCHED => PFlag[c] \notin {"WAITING", "TERMINATED"}
  BY DEF IInv, FlagInv
<1>4. PFlag \in [PIDs -> Flags]
  BY DEF IInv, TypeOK
<1> HIDE DEF c, s
<1>5. /\ PFlag'[c] = IF PFlag[c] \in {"TERMINATED", "WAITING"} THEN PFlag[c] ELSE "READY"
      /\ \A p \in PIDs : p # c /\ p # s => PFlag'[p] = PFlag[p]
  BY <1>1, <1>2, <1>3, <1>4
<1>6. lifecycleState'[c] = left
  BY <1>1, <1>2, <1>5, StateFacts
<1>7. lifecycleState'[s] = "running" /\ lifecycleState[s] = "ready" /\ lifecycleState[c] = "running"
  BY <1>1, <1>2, StateFacts
<1>8. \A p \in PIDs : p # c /\ p # s => lifecycleState'[p] = lifecycleState[p]
  BY <1>2, <1>5, StateKept
<1> HIDE DEF left
<1>9. \A p \in PIDs : lifecycleState'[p] = [lifecycleState EXCEPT ![c] = left, ![s] = "running"][p]
  BY <1>1, <1>6, <1>7, <1>8, StateDomain
<1>10. lifecycleState' = [lifecycleState EXCEPT ![c] = left, ![s] = "running"]
  BY <1>9, StateDomain
<1>11. left \in IF c = PID_SCHED THEN {"ready"} ELSE {"ready", "blocked", "dead"}
  BY <1>3 DEF left
<1>12. Lifecycle!Switch(c, s)
  BY <1>7, <1>10, <1>11 DEF Lifecycle!Switch
<1> QED BY <1>1, <1>12 DEF Lifecycle!Next

\* A task other than the running one is terminated.
LEMMA KillLifecycle ==
    ASSUME IInv, ~FillsPool, Orderly, NEW v \in PIDs, PFlag[v] \in {"READY", "WAITING"},
           Unlink_And_Terminate(v), CURRENT_Process' = CURRENT_Process,
           v # PID_SCHED, v # CURRENT_Process
    PROVE  Lifecycle!Next
<1>1. PFlag'[v] = "TERMINATED" /\ \A p \in PIDs : p # v => PFlag'[p] = PFlag[p]
  BY UnlinkQueues
<1>2. v # CURRENT_Process
  OBVIOUS
<1>3. lifecycleState[v] \in {"ready", "blocked"} /\ lifecycleState'[v] = "dead"
  BY <1>1, <1>2, StateFacts
<1>4. lifecycleState' = [lifecycleState EXCEPT ![v] = "dead"]
  BY <1>1, <1>2, <1>3, OneChanges
<1>5. Lifecycle!Kill(v)
  BY <1>3, <1>4 DEF Lifecycle!Kill
<1> QED BY <1>5 DEF Lifecycle!Next

LEMMA CreateLifecycle ==
    ASSUME IInv, NEW prio, NEW isThread, Create_PCB(prio, isThread)
    PROVE  Lifecycle!Next
<1> DEFINE p == FirstFree
<1>1. p \in PIDs /\ ~PCB_Is_Alloced[p]
  BY FirstFreeFacts DEF Create_PCB
<1>2. PFlag' = [PFlag EXCEPT ![p] = "READY"] /\ CURRENT_Process' = CURRENT_Process
  BY DEF Create_PCB, cpuVars
<1> HIDE DEF p
<1>3. PFlag[p] = "FREE" /\ p # CURRENT_Process /\ PFlag \in [PIDs -> Flags]
  BY <1>1 DEF IInv, FlagInv, TypeOK
<1>4. PFlag'[p] = "READY" /\ \A x \in PIDs : x # p => PFlag'[x] = PFlag[x]
  BY <1>1, <1>2, <1>3
<1>5. lifecycleState[p] = "absent" /\ lifecycleState'[p] = "ready"
  BY <1>1, <1>2, <1>3, <1>4, StateFacts
<1>6. lifecycleState' = [lifecycleState EXCEPT ![p] = "ready"]
  BY <1>1, <1>2, <1>3, <1>4, <1>5, OneChanges
<1>7. Lifecycle!Create(p)
  BY <1>5, <1>6 DEF Lifecycle!Create
<1> QED BY <1>1, <1>7 DEF Lifecycle!Next

LEMMA FreeLifecycle ==
    ASSUME IInv, Free_PCB
    PROVE  Lifecycle!Next
<1> DEFINE p == TerminateProcess
<1>1. /\ At("reap") /\ PFlag' = [PFlag EXCEPT ![p] = "FREE"]
      /\ CURRENT_Process' = CURRENT_Process
  BY DEF Free_PCB, cpuVars
<1>2. CURRENT_Process = PID_SCHED /\ PID_SCHED \in PIDs /\ at[PID_SCHED] = "reap"
      /\ PFlag[PID_SCHED] # "TERMINATED"
  BY <1>1, SchedDrains DEF At
<1>3. p \in PIDs /\ PFlag[p] = "TERMINATED" /\ p # CURRENT_Process /\ PFlag \in [PIDs -> Flags]
  BY <1>2 DEF IInv, ReaperInv, TypeOK
<1> HIDE DEF p
<1>4. PFlag'[p] = "FREE" /\ \A x \in PIDs : x # p => PFlag'[x] = PFlag[x]
  BY <1>1, <1>3
<1>5. /\ lifecycleState[p] = "dead" /\ lifecycleState'[p] = "absent"
      /\ lifecycleState[PID_SCHED] = "running"
  BY <1>1, <1>2, <1>3, <1>4, StateFacts
<1>6. lifecycleState' = [lifecycleState EXCEPT ![p] = "absent"]
  BY <1>1, <1>3, <1>4, <1>5, OneChanges
<1>7. Lifecycle!Reap(p)
  BY <1>5, <1>6 DEF Lifecycle!Reap
<1> QED BY <1>3, <1>7 DEF Lifecycle!Next

-----------------------------------------------------------------------------
LEMMA StepLifecycle ==
    ASSUME IInv, ~FillsPool, Orderly, [Next]_vars
    PROVE  [Lifecycle!Next]_lifecycleState
<1>1. CASE Tick
  <2>1. CASE ISR_Timer \/ Preempted_NoTask
    BY <2>1, Invisible DEF ISR_Timer, Preempted_NoTask, pcbVars
  <2>2. CASE Preempted_ByTimeOut
    BY <2>2, SwitchLifecycle DEF Preempted_ByTimeOut, IInv, FlagInv
  <2> QED BY <1>1, <2>1, <2>2 DEF Tick
<1>2. CASE GiveOut
  <2>1. CASE GiveOut_Processor_Check
    BY <2>1, Invisible DEF GiveOut_Processor_Check, pcbVars, cpuVars
  <2>2. CASE GiveOut_Processor_Switch
    BY <2>2, SwitchLifecycle DEF GiveOut_Processor_Switch
  <2>3. CASE GiveOut_Processor_Return
    BY <2>3, Invisible DEF GiveOut_Processor_Return, pcbVars
  <2> QED BY <1>2, <2>1, <2>2, <2>3 DEF GiveOut
<1>3. CASE Yield
  BY <1>3, Invisible DEF Yield, pcbVars, cpuVars
<1>4. CASE Create
  <2>1. CASE Create_Process_Check
    BY <2>1, Invisible DEF Create_Process_Check, pcbVars, cpuVars
  <2>2. ASSUME NEW prio \in UsedPriorities, NEW isThread \in BOOLEAN, Create_Process(prio, isThread)
        PROVE  [Lifecycle!Next]_lifecycleState
    <3>1. CASE Create_Refused(isThread)
      BY <3>1, Invisible DEF Create_Refused, pcbVars, cpuVars
    <3>2. CASE Create_PCB(prio, isThread)
      BY <3>2, CreateLifecycle
    <3> QED BY <2>2, <3>1, <3>2 DEF Create_Process
  <2> QED BY <1>4, <2>1, <2>2 DEF Create
<1>5. CASE Terminate
  <2>1. CASE Terminate_Process_Self
    <3>1. /\ CURRENT_Process' = CURRENT_Process
          /\ PFlag' = [PFlag EXCEPT ![CURRENT_Process] = "TERMINATED"]
      BY <2>1 DEF Terminate_Process_Self, cpuVars
    <3>2. \A p \in PIDs : p # CURRENT_Process => PFlag'[p] = PFlag[p]
      BY <3>1 DEF IInv, TypeOK
    <3> QED BY <3>1, <3>2, Invisible
  <2>2. CASE Terminate_Process_Other
    <3> DEFINE v == target[CURRENT_Process]
    <3>1. /\ at[CURRENT_Process] = "kill" /\ Unlink_And_Terminate(v)
          /\ CURRENT_Process' = CURRENT_Process /\ CURRENT_Process \in PIDs
      BY <2>2 DEF Terminate_Process_Other, At, cpuVars, IInv, TypeOK
    <3>2. /\ v \in PIDs \ {CURRENT_Process, PID_SCHED}
          /\ PFlag[v] \in {"READY", "RUNNING", "WAITING"}
      BY <3>1 DEF IInv, WindowInv
    <3>3. PFlag[v] \in {"READY", "WAITING"}
      BY <3>2 DEF IInv, FlagInv
    <3> HIDE DEF v
    <3> QED BY <3>1, <3>2, <3>3, KillLifecycle
  <2>3. ASSUME NEW p \in PIDs, Terminate_Process_Check(p)
        PROVE  UNCHANGED lifecycleState
    BY <2>3, Invisible DEF Terminate_Process_Check, pcbVars, cpuVars
  <2> QED BY <1>5, <2>1, <2>2, <2>3 DEF Terminate
<1>6. CASE Sched
  <2>1. CASE sched_CreateStartProcess
    BY <2>1, CreateLifecycle DEF sched_CreateStartProcess
  <2>2. CASE sched_Loop \/ sched_Done \/ sched_Take
    BY <2>2, Invisible DEF sched_Loop, sched_Done, sched_Take, pcbVars, cpuVars
  <2>3. CASE sched_KillChild
    <3> DEFINE v == Childs[TerminateProcess][i + 1]
    <3>1. /\ v \in PIDs /\ PFlag[v] \in {"READY", "WAITING"} /\ Unlink_And_Terminate(v)
          /\ v # PID_SCHED /\ CURRENT_Process' = CURRENT_Process
      BY <2>3, KillChildFacts
    <3>2. CURRENT_Process = PID_SCHED
      BY <2>3, SchedDrains DEF sched_KillChild
    <3> HIDE DEF v
    <3> QED BY <3>1, <3>2, KillLifecycle
  <2>4. CASE Free_PCB
    BY <2>4, FreeLifecycle
  <2> QED BY <1>6, <2>1, <2>2, <2>3, <2>4 DEF Sched
<1>7. CASE UNCHANGED vars
  BY <1>7, Invisible DEF vars, pcbVars, cpuVars
<1> QED BY <1>1, <1>2, <1>3, <1>4, <1>5, <1>6, <1>7 DEF Next

(* The task manager implements TaskLifecycle: the processor goes from task *)
(* to task, a terminated task never gets it again, only sched frees PCBs   *)
(* and only those of terminated tasks, and sched itself is never           *)
(* terminated.                                                             *)
THEOREM LifecycleImplemented ==
    ASSUME ~FillsPool, Orderly
    PROVE  Spec => ImplementsLifecycle
<1>1. IInv /\ [Next]_vars => [Lifecycle!Next]_lifecycleState
  BY StepLifecycle
<1> QED BY <1>1, InitLifecycle, Invariant, PTL DEF Spec, ImplementsLifecycle, Lifecycle!Spec
=============================================================================
