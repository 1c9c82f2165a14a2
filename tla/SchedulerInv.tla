----------------------------- MODULE SchedulerInv -----------------------------
(***************************************************************************)
(* The inductive invariant behind the safety properties of Scheduler, in   *)
(* named parts.  TLC checks it on the instances of MCScheduler, and        *)
(* SchedulerProofs proves it.  It presupposes ~FillsPool and Orderly.      *)
(***************************************************************************)
EXTENDS Scheduler

Before(queue, x, y) ==
    \E j, k \in 1 .. Len(queue) : j < k /\ queue[j] = x /\ queue[k] = y

\* Where a task may be: sched in its own code, the others in theirs.
SchedLocations == {"start", "create_shell", "loop", "drain", "reap", "yield", "switch", "resumed"}
TaskLocations  == {"none", "run", "yield", "switch", "resumed", "create", "kill"}
LocationInv ==
    /\ at[PID_SCHED] \in SchedLocations
    /\ \A p \in PIDs : p # PID_SCHED => at[p] \in TaskLocations

\* Flags and allocation of the PCBs, of the running one and of sched.
FlagInv ==
    /\ \A p \in PIDs : PFlag[p] = "FREE" <=> ~PCB_Is_Alloced[p]
    /\ \A p \in PIDs : ~PCB_Is_Alloced[p] => Childs[p] = <<>>
    /\ \A p \in PIDs : PCB_Is_Alloced[p] => ParentPID[p] \in PIDs
    /\ \A p \in PIDs : PFlag[p] \in {"NEW", "RUNNING"} => p = CURRENT_Process
    /\ \A p \in PIDs : PFlag[p] = "NEW" => p = PID_SCHED
    /\ PFlag[CURRENT_Process] \in {"NEW", "RUNNING", "WAITING", "TERMINATED"}
    /\ PFlag[PID_SCHED] \in {"NEW", "RUNNING", "READY"}
    /\ at[CURRENT_Process] \in {"run", "create", "kill", "resumed"} => PFlag[CURRENT_Process] # "TERMINATED"
    /\ at[CURRENT_Process] = "resumed" => PFlag[CURRENT_Process] # "WAITING"
    /\ Process_Queue = Priority[CURRENT_Process]

\* What is in a queue, and that every settled task is in the queue of its flag.
QueueInv ==
    /\ \A q \in Priorities : NoRepeats(ReadyQueue[q])
    /\ NoRepeats(TerminateQueue)
    /\ NoRepeats(Wait_Queue)
    /\ \A p \in PIDs, q \in Priorities : Holds(ReadyQueue[q], p) =>
          PFlag[p] = "READY" /\ Priority[p] = q
    /\ \A p \in PIDs : Holds(TerminateQueue, p) =>
          PFlag[p] = "TERMINATED" /\ p # CURRENT_Process /\ p # TerminateProcess
    /\ \A p \in PIDs : Holds(Wait_Queue, p) <=> PFlag[p] = "WAITING"
    /\ NoTaskLost

\* The reaper: not preempted while it drains the queue, and what it has in hand.
ReaperInv ==
    /\ at[PID_SCHED] \in {"drain", "reap"} => CURRENT_Process = PID_SCHED
    /\ at[PID_SCHED] # "reap" => TerminateProcess = NoPID
    /\ at[PID_SCHED] = "reap" =>
          /\ TerminateProcess \in PIDs
          /\ PFlag[TerminateProcess] = "TERMINATED"
          /\ \A p \in PIDs : ~Holds(Childs[p], TerminateProcess)
          /\ i <= Len(Childs[TerminateProcess])
          /\ \A k \in 1 .. Len(Childs[TerminateProcess]) :
                ~Is_Thread[TerminateProcess] =>
                    (k <= i <=> PFlag[Childs[TerminateProcess][k]] = "TERMINATED")

\* The interrupt flag of sched: set until it first gives out the processor,
\* and never again.  Nothing is terminated, and nothing waits, before
\* that.
MaskInv ==
    /\ ~Booted => \A p \in PIDs : PFlag[p] \notin {"TERMINATED", "WAITING"}
    /\ Booted /\ CURRENT_Process = PID_SCHED => ~IntFlag
    /\ Booted /\ CURRENT_Process # PID_SCHED => at[PID_SCHED] = "resumed"
    /\ at[PID_SCHED] \in {"drain", "reap"} => Booted /\ ~sched_RFLAGS
    /\ at[PID_SCHED] = "switch" => CURRENT_Process # PID_SCHED \/ Is_TaskInQueue

\* No task is its own child, sched is nobody's, and a process is behind its
\* dead children in the terminate queue.
OrderInv ==
    /\ \A p \in PIDs : ~Holds(Childs[p], p) /\ ~Holds(Childs[p], PID_SCHED)
    /\ \A x, y \in PIDs : Before(TerminateQueue, x, y) /\ ~Is_Thread[x] => ~Holds(Childs[x], y)
    /\ PFlag[CURRENT_Process] = "TERMINATED" =>
          \A x \in PIDs : PFlag[x] = "TERMINATED" => ~Holds(Childs[x], CURRENT_Process)

\* While a task is between the check and the cli of Terminate_Process.
WindowInv ==
    \A k \in PIDs : at[k] = "kill" =>
        /\ Booted
        /\ PFlag[k] \in {"READY", "RUNNING"}
        /\ target[k] \in PIDs \ {k, PID_SCHED}
        /\ PFlag[target[k]] \in {"READY", "RUNNING", "WAITING"}
        /\ \A j \in PIDs : at[j] = "kill" => j = k
        /\ \A d \in PIDs : PFlag[d] = "TERMINATED" => ~Cascades(d)

\* The pool counter leaves room for every task that is about to create one.
PoolInv ==
    /\ UseCountExact
    /\ UseCount + Cardinality(Creating) < TASKPOOL_MAXCOUNT \/ FillsPool

IInv ==
    /\ TypeOK
    /\ LocationInv
    /\ FlagInv
    /\ QueueInv
    /\ ReaperInv
    /\ MaskInv
    /\ OrderInv
    /\ WindowInv
    /\ PoolInv
    /\ ThreadsHaveProcess
    /\ ChildrenNameParent
=============================================================================
