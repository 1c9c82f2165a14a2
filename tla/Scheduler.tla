------------------------------ MODULE Scheduler ------------------------------
(***************************************************************************)
(* The task manager of the 64-bit kernel (Scheduler.c, the timer handler   *)
(* of ISR_Handler.c, the pool counter of slap.c).                          *)
(*                                                                         *)
(* The machine has one processor.  The task CURRENT_Process executes, and  *)
(* the timer interrupts it whenever the interrupt flag is set (IntFlag),   *)
(* so code between a "cli" and its "sti" is one step and every other point *)
(* where kernel code reads something it uses later is a location of "at".  *)
(* Queues of PCBs are sequences of task numbers; that the linked lists of  *)
(* the code behave so is the subject of the module TaskQueue, and it       *)
(* depends on no PCB being linked twice, which is LinkedOnce below.        *)
(***************************************************************************)
EXTENDS Integers, Sequences, FiniteSets

CONSTANTS
    TASKPOOL_MAXCOUNT,  \* number of PCBs in g_TaskPool
    PRIORITY_TYPES,     \* number of ready queues
    PROCESSOR_TIME,     \* timer ticks a task of priority 0 may run
    UsedPriorities,     \* priorities the callers of Create_Process ask for
    ProcessCalls,       \* kernel calls a process makes ...
    ThreadCalls,        \* ... and a thread makes, out of Calls
    FillsPool,          \* may the tasks use up the last PCB of the pool?
    Orderly             \* are tasks terminated once, and children not after their parent?

PID_SCHED == 0
PIDs == 0 .. TASKPOOL_MAXCOUNT - 1
Priorities == 0 .. PRIORITY_TYPES - 1
NoPID == -1
Calls == {"yield", "exit", "kill", "create"}

ASSUME PoolAssumption == TASKPOOL_MAXCOUNT \in Nat /\ TASKPOOL_MAXCOUNT > 1
ASSUME PriorityAssumption ==
    /\ PRIORITY_TYPES \in Nat \ {0}
    /\ PROCESSOR_TIME \in Nat
    /\ PROCESSOR_TIME >= PRIORITY_TYPES
    /\ UsedPriorities \subseteq Priorities
ASSUME CallsAssumption ==
    /\ ProcessCalls \subseteq Calls
    /\ ThreadCalls \subseteq Calls
    /\ FillsPool \in BOOLEAN
    /\ Orderly \in BOOLEAN

VARIABLES
    \* the fields of g_TaskPool[p] the task manager reads
    PCB_Is_Alloced, PFlag, Priority, ParentPID, Is_Thread, Childs, Use_FPU,
    \* the saved context of a task: where it continues, the victim it is about
    \* to terminate, and the interrupt flag in its saved RFLAGS
    at, target, RFLAGS,
    \* the queues
    ReadyQueue, TerminateQueue, Wait_Queue,
    \* the TCB entry of the slab manager
    UseCount,
    \* g_scheduler
    CURRENT_Process, Process_Queue, Schedule_Priority, Time_, LastUsed_PID,
    \* the processor: interrupt flag and the task-switched bit of CR0
    IntFlag, CR0_TS,
    \* locals of sched()
    TerminateProcess, i, sched_RFLAGS

pcbVars   == <<PCB_Is_Alloced, PFlag, Priority, ParentPID, Is_Thread, Childs, Use_FPU>>
queueVars == <<ReadyQueue, TerminateQueue, Wait_Queue>>
cpuVars   == <<CURRENT_Process, Process_Queue, Schedule_Priority, Time_, LastUsed_PID, IntFlag, CR0_TS>>
schedVars == <<TerminateProcess, i, sched_RFLAGS>>
vars == <<pcbVars, at, target, RFLAGS, queueVars, UseCount, cpuVars, schedVars>>

-----------------------------------------------------------------------------
(* Queue operations.                                                       *)

(* A definition named ..._Slip is a plausible slip of the definition after *)
(* it: with it in place of the other some property below fails, which is   *)
(* how the properties are tested.  Nothing else uses these definitions.    *)

\* Remove_Task_At and Remove_Child_At: drop the element at a position, counted
\* from 1.
Remove_Task_At_Slip(index, queue) ==
    [k \in 1 .. Len(queue) - 1 |-> IF k <= index THEN queue[k] ELSE queue[k + 1]]
Remove_Task_At(index, queue) ==
    [k \in 1 .. Len(queue) - 1 |-> IF k < index THEN queue[k] ELSE queue[k + 1]]

Holds(queue, p) == \E k \in 1 .. Len(queue) : queue[k] = p

\* The search loops of sched, RemoveFrom_ReadyQueue and RemoveFrom_Wait_Queue:
\* drop the first element with the given PID, if there is one.
FirstAt(queue, p) ==
    CHOOSE k \in 1 .. Len(queue) : queue[k] = p /\ \A j \in 1 .. k - 1 : queue[j] # p
Without(queue, p) ==
    IF Holds(queue, p) THEN Remove_Task_At(FirstAt(queue, p), queue) ELSE queue

\* Add_Task_in_Tail and Add_Child_in_Tail refuse when the pool counter is at
\* its limit, and no caller looks at the result.
Add_Task_in_Tail_Slip(queue, p, count) ==
    IF count >= TASKPOOL_MAXCOUNT - 1 THEN queue ELSE Append(queue, p)
Add_Task_in_Tail(queue, p, count) ==
    IF count = TASKPOOL_MAXCOUNT THEN queue ELSE Append(queue, p)

Is_TaskInQueue == \E q \in Priorities : ReadyQueue[q] # <<>>

\* The scan of Schedule_Process: from Schedule_Priority downwards, with wrap.
Scanned(step) ==
    IF step <= Schedule_Priority THEN Schedule_Priority - step
                                 ELSE Schedule_Priority - step + PRIORITY_TYPES
Picked ==
    Scanned(CHOOSE step \in Priorities :
                /\ ReadyQueue[Scanned(step)] # <<>>
                /\ \A s \in 0 .. step - 1 : ReadyQueue[Scanned(s)] = <<>>)
ScheduledTask == Head(ReadyQueue[Picked])
NextPriority_Slip == Schedule_Priority
NextPriority == (Schedule_Priority + 1) % PRIORITY_TYPES

-----------------------------------------------------------------------------
(* Init_Scheduler: the boot context becomes the task PID_SCHED.            *)
Init ==
    /\ PCB_Is_Alloced = [p \in PIDs |-> p = PID_SCHED]
    /\ PFlag = [p \in PIDs |-> IF p = PID_SCHED THEN "NEW" ELSE "FREE"]
    /\ Priority = [p \in PIDs |-> 0]
    /\ ParentPID = [p \in PIDs |-> 0]
    /\ Is_Thread = [p \in PIDs |-> FALSE]
    /\ Childs = [p \in PIDs |-> <<>>]
    /\ Use_FPU = [p \in PIDs |-> FALSE]
    /\ at = [p \in PIDs |-> IF p = PID_SCHED THEN "start" ELSE "none"]
    /\ target = [p \in PIDs |-> NoPID]
    /\ RFLAGS = [p \in PIDs |-> p = PID_SCHED]
    /\ ReadyQueue = [q \in Priorities |-> <<>>]
    /\ TerminateQueue = <<>>
    /\ Wait_Queue = <<>>
    /\ UseCount = 1
    /\ CURRENT_Process = PID_SCHED
    /\ Process_Queue = 0
    /\ Schedule_Priority = 0
    /\ Time_ = 0
    /\ LastUsed_PID = NoPID
    /\ IntFlag = TRUE
    /\ CR0_TS = FALSE
    /\ TerminateProcess = NoPID
    /\ i = 0
    /\ sched_RFLAGS = TRUE

-----------------------------------------------------------------------------
(* The switch of GiveOut_Processor and Preempted_ByTimeOut: the task       *)
(* picked by Schedule_Process takes the processor, and the running task    *)
(* goes to the terminate queue, to nowhere (it is waiting) or to the tail  *)
(* of ready queue q.  Both callers need a ready task.                      *)
SwitchTasks(q) ==
    LET c == CURRENT_Process
        s == ScheduledTask
        popped == [ReadyQueue EXCEPT ![Picked] = Tail(@)]
    IN  /\ ReadyQueue' = IF PFlag[c] \in {"TERMINATED", "WAITING"}
                         THEN popped
                         ELSE [popped EXCEPT ![q] = Add_Task_in_Tail(@, c, UseCount)]
        /\ TerminateQueue' = IF PFlag[c] = "TERMINATED"
                             THEN Add_Task_in_Tail(TerminateQueue, c, UseCount)
                             ELSE TerminateQueue
        /\ PFlag' = [PFlag EXCEPT ![s] = "RUNNING",
                                  ![c] = IF @ \in {"TERMINATED", "WAITING"} THEN @ ELSE "READY"]
        /\ CURRENT_Process' = s
        /\ Process_Queue' = Priority[s]
        /\ Schedule_Priority' = NextPriority
        /\ IntFlag' = RFLAGS[s]
        /\ UNCHANGED <<PCB_Is_Alloced, Priority, ParentPID, Is_Thread, Childs, Use_FPU,
                       target, Wait_Queue, UseCount, LastUsed_PID, schedVars>>

\* DecreaseProcessorTime, and the question the handler asks after it.
Decreased_Slip == Time_ - 1
Decreased == IF Time_ > 0 THEN Time_ - 1 ELSE Time_
IsTimeOut == Decreased <= 0

(* ISR_Timer while the quantum lasts.                                      *)
ISR_Timer ==
    /\ IntFlag
    /\ ~IsTimeOut
    /\ Time_' = Decreased
    /\ UNCHANGED <<pcbVars, at, target, RFLAGS, queueVars, UseCount, CURRENT_Process,
                   Process_Queue, Schedule_Priority, LastUsed_PID, IntFlag, CR0_TS, schedVars>>

(* ISR_Timer when the quantum is over: Preempted_ByTimeOut saves the       *)
(* interrupted context (so with the flag set) and loads that of the next.  *)
Preempted_ByTimeOut ==
    /\ IntFlag
    /\ IsTimeOut
    /\ Is_TaskInQueue
    /\ SwitchTasks(Process_Queue)
    /\ RFLAGS' = [RFLAGS EXCEPT ![CURRENT_Process] =
                                    IF PFlag[CURRENT_Process] = "TERMINATED" THEN @ ELSE TRUE]
    /\ Time_' = PROCESSOR_TIME - Priority[ScheduledTask]
    /\ UNCHANGED <<at, CR0_TS>>

(* ... and nothing is ready: only the rotor of Schedule_Process moves.     *)
Preempted_NoTask ==
    /\ IntFlag
    /\ IsTimeOut
    /\ ~Is_TaskInQueue
    /\ Time_' = Decreased
    /\ Schedule_Priority' = NextPriority
    /\ UNCHANGED <<pcbVars, at, target, RFLAGS, queueVars, UseCount, CURRENT_Process,
                   Process_Queue, LastUsed_PID, IntFlag, CR0_TS, schedVars>>

-----------------------------------------------------------------------------
(* GiveOut_Processor, called with at[CURRENT_Process] = "yield".           *)

At(location) == at[CURRENT_Process] = location
Goto(location) == at' = [at EXCEPT ![CURRENT_Process] = location]

\* Where a call returns to: sched's loop, or the code of the task.
Home == IF CURRENT_Process = PID_SCHED THEN "loop" ELSE "run"

\* Is_TaskInQueue is asked before the cli.
GiveOut_Processor_Check_Slip ==
    /\ At("yield")
    /\ Goto("switch")
    /\ UNCHANGED <<pcbVars, target, RFLAGS, queueVars, UseCount, cpuVars, schedVars>>
GiveOut_Processor_Check ==
    /\ At("yield")
    /\ Goto(IF Is_TaskInQueue THEN "switch" ELSE Home)
    /\ UNCHANGED <<pcbVars, target, RFLAGS, queueVars, UseCount, cpuVars, schedVars>>

\* The switch; the context saved by SwitchContext has the flag clear, and that
\* of a terminated task is not saved.
GiveOut_Processor_Switch ==
    /\ At("switch")
    /\ Is_TaskInQueue
    /\ SwitchTasks(Priority[CURRENT_Process])
    /\ RFLAGS' = [RFLAGS EXCEPT ![CURRENT_Process] =
                                    PFlag[CURRENT_Process] = "TERMINATED" /\ @]
    /\ CR0_TS' = (ScheduledTask # LastUsed_PID)
    /\ Goto("resumed")
    /\ UNCHANGED Time_

\* The rest of the call, when the task is scheduled again.  RFLAGS_ is a bool,
\* which cannot hold the bit 0x200, so no sti follows and IntFlag stays as loaded.
GiveOut_Processor_Return ==
    /\ At("resumed")
    /\ Time_' = PROCESSOR_TIME - Priority[CURRENT_Process]
    /\ Goto(Home)
    /\ UNCHANGED <<pcbVars, target, RFLAGS, queueVars, UseCount, CURRENT_Process, Process_Queue,
                   Schedule_Priority, LastUsed_PID, IntFlag, CR0_TS, schedVars>>

-----------------------------------------------------------------------------
(* Calls made by the code of a task.                                       *)

Calling(call) ==
    /\ CURRENT_Process # PID_SCHED
    /\ At("run")
    /\ call \in (IF Is_Thread[CURRENT_Process] THEN ThreadCalls ELSE ProcessCalls)

Yield ==
    /\ Calling("yield")
    /\ Goto("yield")
    /\ UNCHANGED <<pcbVars, target, RFLAGS, queueVars, UseCount, cpuVars, schedVars>>

(* Bounds of the environment.  Terminate_Process does not look whether its *)
(* victim is terminated already, nor sched whether the children of the     *)
(* process it reaps are, and the victim may die between the check and the  *)
(* cli.  The kernel leaves it to its callers that this does not happen.    *)
(* If Orderly they see to it; if not, anybody may die at any time. An      *)
(* orderly victim is alive and nobody is about to terminate it, its parent *)
(* has not been terminated, and if its death takes others with it, then    *)
(* nobody is between the check and the cli of Terminate_Process. An        *)
(* orderly kill is, moreover, the only one under way, with no dead process *)
(* whose children are still to be terminated. Booted: sched has given out  *)
(* the processor once, which it does long before a first key can be typed. *)
Claimed(p) == \E k \in PIDs : at[k] = "kill" /\ target[k] = p
KillOpen == \E k \in PIDs : at[k] = "kill"
Cascades(p) == ~Is_Thread[p] /\ Childs[p] # <<>>
Booted == ~RFLAGS[PID_SCHED]
OrderlyVictim(p) ==
    /\ Booted
    /\ Orderly => /\ PFlag[p] # "TERMINATED" /\ ~Claimed(p)
                  /\ ParentPID[p] \in PIDs => PFlag[ParentPID[p]] # "TERMINATED"
                  /\ Cascades(p) => ~KillOpen
OrderlyKill(p) ==
    /\ OrderlyVictim(p)
    /\ Orderly => /\ ~KillOpen
                  /\ \A k \in PIDs : PFlag[k] = "TERMINATED" => ~Cascades(k)

\* Bound: unless FillsPool, one PCB is never asked for.
Creating == {k \in PIDs : at[k] \in {"create", "create_shell"}}
PoolBound == FillsPool \/ UseCount + Cardinality(Creating) < TASKPOOL_MAXCOUNT - 1

(* Terminate_Process on the caller itself: exit(), where a task's entry    *)
(* function returns to, or a process that kills itself.                    *)
Terminate_Process_Self ==
    /\ Calling("exit") \/ Calling("kill")
    /\ OrderlyVictim(CURRENT_Process)
    /\ PFlag' = [PFlag EXCEPT ![CURRENT_Process] = "TERMINATED"]
    /\ Goto("yield")
    /\ UNCHANGED <<PCB_Is_Alloced, Priority, ParentPID, Is_Thread, Childs, Use_FPU,
                   target, RFLAGS, queueVars, UseCount, cpuVars, schedVars>>

\* The command kill refuses PID 0.
Killable_Slip(p) == TRUE
Killable(p) == p # PID_SCHED

\* On another task, up to the cli: PCB_Is_Alloced is read with IntFlag as it was.
Terminate_Process_Check(p) ==
    /\ Calling("kill")
    /\ Killable(p)
    /\ p # CURRENT_Process
    /\ PCB_Is_Alloced[p]
    /\ OrderlyKill(p)
    /\ target' = [target EXCEPT ![CURRENT_Process] = p]
    /\ Goto("kill")
    /\ UNCHANGED <<pcbVars, RFLAGS, queueVars, UseCount, cpuVars, schedVars>>

\* The part of Terminate_Process between cli and sti, for victim p.
Unlink_And_Terminate_Slip(p) ==
    /\ UNCHANGED <<ReadyQueue, Wait_Queue>>
    /\ PFlag' = [PFlag EXCEPT ![p] = "TERMINATED"]
    /\ TerminateQueue' = Add_Task_in_Tail(TerminateQueue, p, UseCount)
Unlink_And_Terminate(p) ==
    /\ Wait_Queue' = IF PFlag[p] = "WAITING" THEN Without(Wait_Queue, p) ELSE Wait_Queue
    /\ ReadyQueue' = IF PFlag[p] = "WAITING"
                     THEN ReadyQueue
                     ELSE [ReadyQueue EXCEPT ![Priority[p]] = Without(@, p)]
    /\ PFlag' = [PFlag EXCEPT ![p] = "TERMINATED"]
    /\ TerminateQueue' = Add_Task_in_Tail(TerminateQueue, p, UseCount)

Terminate_Process_Other ==
    /\ At("kill")
    /\ Unlink_And_Terminate(target[CURRENT_Process])
    /\ target' = [target EXCEPT ![CURRENT_Process] = NoPID]
    /\ Goto("run")
    /\ UNCHANGED <<PCB_Is_Alloced, Priority, ParentPID, Is_Thread, Childs, Use_FPU, RFLAGS,
                   UseCount, cpuVars, schedVars>>

(* Create_Process: the pool counter is compared before the cli, the slot   *)
(* is searched after it.                                                   *)
FreeSlots == {p \in PIDs : ~PCB_Is_Alloced[p]}
FirstFree_Slip == UseCount
FirstFree == CHOOSE p \in FreeSlots : \A k \in FreeSlots : p <= k

Create_Process_Check ==
    /\ At("start") \/ Calling("create")
    /\ UseCount # TASKPOOL_MAXCOUNT
    /\ PoolBound
    /\ Goto(IF At("start") THEN "create_shell" ELSE "create")
    /\ UNCHANGED <<pcbVars, target, RFLAGS, queueVars, UseCount, cpuVars, schedVars>>

\* The part between cli and sti: Set_Attr_Process, the two queues and the
\* remaining fields.  The counter is raised before the queues are touched.
Create_PCB(prio, isThread) ==
    LET c == CURRENT_Process
        p == FirstFree
    IN  /\ FreeSlots # {}
        /\ UseCount' = UseCount + 1
        /\ PCB_Is_Alloced' = [PCB_Is_Alloced EXCEPT ![p] = TRUE]
        /\ PFlag' = [PFlag EXCEPT ![p] = "READY"]
        /\ Priority' = [Priority EXCEPT ![p] = prio]
        /\ ParentPID' = [ParentPID EXCEPT ![p] = c]
        /\ Is_Thread' = [Is_Thread EXCEPT ![p] = isThread]
        /\ RFLAGS' = [RFLAGS EXCEPT ![p] = TRUE]
        /\ at' = [at EXCEPT ![p] = "run", ![c] = Home]
        /\ ReadyQueue' = [ReadyQueue EXCEPT ![prio] = Add_Task_in_Tail(@, p, UseCount + 1)]
        /\ Childs' = [Childs EXCEPT ![c] = Add_Task_in_Tail(@, p, UseCount + 1)]
        /\ UNCHANGED <<Use_FPU, target, TerminateQueue, Wait_Queue, cpuVars, schedVars>>

\* A thread may not create a thread.
Create_Refused(isThread) ==
    /\ Is_Thread[CURRENT_Process] /\ isThread
    /\ Goto(Home)
    /\ UNCHANGED <<pcbVars, target, RFLAGS, queueVars, UseCount, cpuVars, schedVars>>

Create_Process(prio, isThread) ==
    /\ At("create")
    /\ IF Is_Thread[CURRENT_Process] /\ isThread THEN Create_Refused(isThread)
                                                 ELSE Create_PCB(prio, isThread)

-----------------------------------------------------------------------------
(* sched(): the task PID_SCHED creates the shell and then reaps for ever.  *)

sched_CreateStartProcess ==
    /\ At("create_shell")
    /\ Create_PCB(0, FALSE)

SomethingToReap_Slip == Len(TerminateQueue) > 1
SomethingToReap == Len(TerminateQueue) > 0

\* TerminateQueue.Task_Count is read, then interrupts are disabled.
sched_Loop ==
    /\ At("loop")
    /\ IF SomethingToReap
       THEN Goto("drain") /\ IntFlag' = FALSE /\ sched_RFLAGS' = IntFlag
       ELSE Goto("yield") /\ UNCHANGED <<IntFlag, sched_RFLAGS>>
    /\ UNCHANGED <<pcbVars, target, RFLAGS, queueVars, UseCount, CURRENT_Process, Process_Queue,
                   Schedule_Priority, Time_, LastUsed_PID, CR0_TS, TerminateProcess, i>>

\* The children without p; a process looks at its parent only if that is still
\* allocated.
WithoutChild_Slip(p) ==
    IF ~Is_Thread[p] /\ PCB_Is_Alloced[ParentPID[p]]
    THEN [Childs EXCEPT ![ParentPID[p]] = Without(@, p)]
    ELSE Childs
WithoutChild(p) ==
    IF Is_Thread[p] \/ PCB_Is_Alloced[ParentPID[p]]
    THEN [Childs EXCEPT ![ParentPID[p]] = Without(@, p)]
    ELSE Childs

\* Take the next PCB off the queue and out of its parent's children.
sched_Take ==
    LET p == Head(TerminateQueue)
    IN  /\ At("drain")
        /\ TerminateQueue # <<>>
        /\ TerminateQueue' = Tail(TerminateQueue)
        /\ Childs' = WithoutChild(p)
        /\ TerminateProcess' = p
        /\ i' = 0
        /\ Goto("reap")
        /\ UNCHANGED <<PCB_Is_Alloced, PFlag, Priority, ParentPID, Is_Thread, Use_FPU, target,
                       RFLAGS, ReadyQueue, Wait_Queue, UseCount, cpuVars, sched_RFLAGS>>

\* The loop over the children of a process has a turn left.
ChildrenLeft_Slip == ~Is_Thread[TerminateProcess] /\ i + 1 < Len(Childs[TerminateProcess])
ChildrenLeft == ~Is_Thread[TerminateProcess] /\ i < Len(Childs[TerminateProcess])

\* One turn of the loop that terminates the children of a process.
sched_KillChild ==
    LET child == Childs[TerminateProcess][i + 1]
    IN  /\ At("reap")
        /\ ChildrenLeft
        /\ i' = i + 1
        /\ IF PCB_Is_Alloced[child]
           THEN Unlink_And_Terminate(child)
           ELSE UNCHANGED <<PFlag, queueVars>>
        /\ UNCHANGED <<PCB_Is_Alloced, Priority, ParentPID, Is_Thread, Childs, Use_FPU, at, target,
                       RFLAGS, UseCount, cpuVars, TerminateProcess, sched_RFLAGS>>

\* Free_PCB and the pool counter.  Is_Thread keeps its value.
Free_PCB ==
    LET p == TerminateProcess
    IN  /\ At("reap")
        /\ ~ChildrenLeft
        /\ PCB_Is_Alloced' = [PCB_Is_Alloced EXCEPT ![p] = FALSE]
        /\ PFlag' = [PFlag EXCEPT ![p] = "FREE"]
        /\ Priority' = [Priority EXCEPT ![p] = 0]
        /\ ParentPID' = [ParentPID EXCEPT ![p] = NoPID]
        /\ Childs' = [Childs EXCEPT ![p] = <<>>]
        /\ Use_FPU' = [Use_FPU EXCEPT ![p] = FALSE]
        /\ RFLAGS' = [RFLAGS EXCEPT ![p] = FALSE]
        /\ target' = [target EXCEPT ![p] = NoPID]
        /\ at' = [at EXCEPT ![p] = "none", ![CURRENT_Process] = "drain"]
        /\ UseCount' = UseCount - 1
        /\ TerminateProcess' = NoPID
        /\ i' = 0
        /\ UNCHANGED <<Is_Thread, queueVars, cpuVars, sched_RFLAGS>>

\* The queue is empty: interrupts as before, and the processor to others.
sched_Done ==
    /\ At("drain")
    /\ TerminateQueue = <<>>
    /\ IntFlag' = sched_RFLAGS
    /\ Goto("yield")
    /\ UNCHANGED <<pcbVars, target, RFLAGS, queueVars, UseCount, CURRENT_Process, Process_Queue,
                   Schedule_Priority, Time_, LastUsed_PID, CR0_TS, schedVars>>

-----------------------------------------------------------------------------
Tick == ISR_Timer \/ Preempted_ByTimeOut \/ Preempted_NoTask

Sched == sched_CreateStartProcess \/ sched_Loop \/ sched_Take \/ sched_KillChild
            \/ Free_PCB \/ sched_Done

GiveOut == GiveOut_Processor_Check \/ GiveOut_Processor_Switch \/ GiveOut_Processor_Return

Create == Create_Process_Check
            \/ \E prio \in UsedPriorities, isThread \in BOOLEAN : Create_Process(prio, isThread)

Terminate == Terminate_Process_Self \/ Terminate_Process_Other
                \/ \E p \in PIDs : Terminate_Process_Check(p)

Next == Tick \/ GiveOut \/ Yield \/ Create \/ Terminate \/ Sched

Spec == Init /\ [][Next]_vars

-----------------------------------------------------------------------------
(* Fairness.  The timer keeps ticking.  Between two ticks (1 ms) a task    *)
(* executes thousands of instructions, so a task that gets the processor   *)
(* again and again gets on with the kernel code it is in.  A task that     *)
(* runs with interrupts masked (it has yielded before) yields again: the   *)
(* tasks that yield, TestTask1 and TestTask2, do it in an endless loop.    *)
KernelStep == GiveOut \/ Terminate_Process_Other \/ Sched
                \/ (At("start") /\ Create_Process_Check)
                \/ \E prio \in UsedPriorities, isThread \in BOOLEAN : Create_Process(prio, isThread)

Fairness ==
    /\ WF_vars(Tick)
    /\ \A p \in PIDs : SF_vars(CURRENT_Process = p /\ KernelStep)
    /\ \A p \in PIDs : WF_vars(CURRENT_Process = p /\ ~IntFlag /\ Yield)

FairSpec == Spec /\ Fairness

-----------------------------------------------------------------------------
(* Type invariant.                                                         *)

Flags == {"NEW", "READY", "RUNNING", "WAITING", "TERMINATED", "FREE"}
Locations == {"none", "start", "create_shell", "loop", "drain", "reap", "run", "yield", "switch",
              "resumed", "create", "kill"}

TypeOK ==
    /\ PCB_Is_Alloced \in [PIDs -> BOOLEAN]
    /\ PFlag \in [PIDs -> Flags]
    /\ Priority \in [PIDs -> Priorities]
    /\ ParentPID \in [PIDs -> PIDs \cup {NoPID}]
    /\ Is_Thread \in [PIDs -> BOOLEAN]
    /\ Childs \in [PIDs -> Seq(PIDs)]
    /\ Use_FPU \in [PIDs -> BOOLEAN]
    /\ at \in [PIDs -> Locations]
    /\ target \in [PIDs -> PIDs \cup {NoPID}]
    /\ RFLAGS \in [PIDs -> BOOLEAN]
    /\ ReadyQueue \in [Priorities -> Seq(PIDs)]
    /\ TerminateQueue \in Seq(PIDs)
    /\ Wait_Queue \in Seq(PIDs)
    /\ UseCount \in Int
    /\ CURRENT_Process \in PIDs
    /\ Process_Queue \in Priorities
    /\ Schedule_Priority \in Priorities
    /\ Time_ \in 0 .. PROCESSOR_TIME
    /\ LastUsed_PID \in PIDs \cup {NoPID}
    /\ IntFlag \in BOOLEAN
    /\ CR0_TS \in BOOLEAN
    /\ TerminateProcess \in PIDs \cup {NoPID}
    /\ i \in Nat
    /\ sched_RFLAGS \in BOOLEAN

-----------------------------------------------------------------------------
(* Safety.                                                                 *)

NoRepeats(queue) == \A j, k \in 1 .. Len(queue) : queue[j] = queue[k] => j = k

(* p_Next and p_Prev of a PCB serve every queue it may be in, so a PCB is  *)
(* in at most one queue and there once, and the PCB that runs and the one  *)
(* that is being reaped are in none.                                       *)
LinkedOnce ==
    /\ \A q \in Priorities :
          /\ NoRepeats(ReadyQueue[q])
          /\ ~Holds(ReadyQueue[q], CURRENT_Process)
          /\ ~Holds(ReadyQueue[q], TerminateProcess)
          /\ \A p \in PIDs : Holds(ReadyQueue[q], p) =>
                /\ ~Holds(TerminateQueue, p)
                /\ ~Holds(Wait_Queue, p)
                /\ \A r \in Priorities : Holds(ReadyQueue[r], p) => r = q
    /\ NoRepeats(TerminateQueue)
    /\ ~Holds(TerminateQueue, CURRENT_Process)
    /\ ~Holds(TerminateQueue, TerminateProcess)
    /\ NoRepeats(Wait_Queue)
    /\ \A p \in PIDs : Holds(Wait_Queue, p) => ~Holds(TerminateQueue, p)

(* No task is lost: a task that neither runs nor is being reaped is in the *)
(* queue its state names, from which it will be scheduled, woken or freed. *)
Settled(p) == PCB_Is_Alloced[p] /\ p # CURRENT_Process /\ p # TerminateProcess
NoTaskLost ==
    \A p \in PIDs : Settled(p) =>
        \/ PFlag[p] = "READY" /\ Holds(ReadyQueue[Priority[p]], p)
        \/ PFlag[p] = "TERMINATED" /\ Holds(TerminateQueue, p)
        \/ PFlag[p] = "WAITING" /\ Holds(Wait_Queue, p)

(* The counter of the slab manager is the number of allocated PCBs.        *)
UseCountExact == UseCount = Cardinality({p \in PIDs : PCB_Is_Alloced[p]})

(* A thread uses the memory of the process that made it, so a thread that  *)
(* may still run has a process that is still there, and is on its list of  *)
(* children, through which the reaper of the process finds it.             *)
ThreadsHaveProcess ==
    \A p \in PIDs : PCB_Is_Alloced[p] /\ Is_Thread[p] /\ PFlag[p] # "TERMINATED" =>
        /\ ParentPID[p] \in PIDs
        /\ PCB_Is_Alloced[ParentPID[p]]
        /\ ~Is_Thread[ParentPID[p]]
        /\ Holds(Childs[ParentPID[p]], p)

(* The children of a task are live PCBs that name it as their parent.      *)
ChildrenNameParent ==
    \A p \in PIDs :
        /\ NoRepeats(Childs[p])
        /\ \A k \in 1 .. Len(Childs[p]) :
              PCB_Is_Alloced[Childs[p][k]] /\ ParentPID[Childs[p][k]] = p

(* What was checked before interrupts were disabled still holds after it:  *)
(* GiveOut_Processor finds a task, Create_Process finds a slot, and        *)
(* Terminate_Process a task that lives.                                    *)
ChecksStillHold ==
    /\ At("switch") => Is_TaskInQueue
    /\ At("create") \/ At("create_shell") => FreeSlots # {}
    /\ At("kill") => Settled(target[CURRENT_Process]) /\ PFlag[target[CURRENT_Process]] # "TERMINATED"

(* The reaper terminates the children of the process it reaps: those its   *)
(* loop has passed are all in the terminate queue.                         *)
ChildrenEnqueued ==
    At("reap") /\ ~Is_Thread[TerminateProcess] =>
        \A k \in 1 .. i : Holds(TerminateQueue, Childs[TerminateProcess][k])

(* The task manager implements TaskLifecycle: a task has the processor     *)
(* exactly when it is CURRENT_Process, a terminated task never gets it     *)
(* again, numbers are given back by sched alone and from dead tasks alone. *)
lifecycleState ==
    [p \in PIDs |-> CASE p = CURRENT_Process -> "running"
                     [] p # CURRENT_Process /\ PFlag[p] = "READY" -> "ready"
                     [] p # CURRENT_Process /\ PFlag[p] = "WAITING" -> "blocked"
                     [] p # CURRENT_Process /\ PFlag[p] = "TERMINATED" -> "dead"
                     [] OTHER -> "absent"]
Lifecycle == INSTANCE TaskLifecycle WITH Tasks <- PIDs, Reaper <- PID_SCHED, state <- lifecycleState
ImplementsLifecycle == Lifecycle!Spec

-----------------------------------------------------------------------------
(* Liveness.                                                               *)

(* A ready task gets the processor, whatever its priority, unless it is    *)
(* terminated before.                                                      *)
ReadyTaskRuns ==
    \A p \in PIDs : PFlag[p] = "READY" ~> PFlag[p] \in {"RUNNING", "TERMINATED"}

(* A terminated task is reaped.                                            *)
TerminatedIsReaped ==
    \A p \in PIDs : PFlag[p] = "TERMINATED" ~> ~PCB_Is_Alloced[p]
=============================================================================
