------------------------------ MODULE Semaphore ------------------------------
(***************************************************************************)
(* Counting semaphores (semaphore.c) on top of the task manager: the tasks *)
(* of Scheduler also allocate, acquire and release semaphores.  All        *)
(* semaphores share the queue Wait_Queue, whose tasks the switch of the    *)
(* task manager skips and Terminate_Process takes out.                     *)
(*                                                                         *)
(* The callers (ReadSector, WriteSector) acquire in a loop and release     *)
(* what they hold.  A release that finds a task waiting takes it off the   *)
(* queue, and then assigns NULL to the pointer it has just got: the code   *)
(* after that uses the NULL as a PCB, which raises an exception, and       *)
(* Exception_Routine halts the machine (halted).                           *)
(*                                                                         *)
(* Alloc_Semaphore and Free_Semaphore do not mask interrupts: two tasks    *)
(* may get the same semaphore, or use one that a third is freeing.  What   *)
(* is promised is promised of the semaphores to which that has not         *)
(* happened; torn is the history of those to which it has.                 *)
(***************************************************************************)
EXTENDS Scheduler

CONSTANTS
    SEMAPHOER_MAXCOUNT, \* number of semaphores in Semaphore_Pool
    Permits,            \* counts the callers of Alloc_Semaphore ask for (the disk: 1)
    DebtBound           \* bound: nobody acquires a semaphore with Count below -DebtBound

Semaphores == 0 .. SEMAPHOER_MAXCOUNT - 1
NoSemaphore == -1

ASSUME SemaphoreAssumption ==
    /\ SEMAPHOER_MAXCOUNT \in Nat \ {0}
    /\ Permits \subseteq Nat \ {0}
    /\ DebtBound \in Nat

VARIABLES
    \* the fields of Semaphore_Pool[s]
    IsAlloced, MaxCount, Count,
    \* where a task is in a call, and on which semaphore
    op, Lock,
    \* who holds a semaphore, and how many permits died with a task
    holders, lost,
    \* the semaphores allocated, freed or used while another task was freeing,
    \* allocating or using them
    torn,
    halted

poolVars == <<IsAlloced, MaxCount>>
semaphoreVars == <<poolVars, Count, op, Lock, holders, lost, torn, halted>>
allVars == <<vars, semaphoreVars>>

\* Init_Semaphore, called by Init_Scheduler.
SemaphoreInit ==
    /\ Init
    /\ IsAlloced = [s \in Semaphores |-> FALSE]
    /\ MaxCount = [s \in Semaphores |-> 0]
    /\ Count = [s \in Semaphores |-> 0]
    /\ op = [p \in PIDs |-> "none"]
    /\ Lock = [p \in PIDs |-> NoSemaphore]
    /\ holders = [s \in Semaphores |-> {}]
    /\ lost = [s \in Semaphores |-> 0]
    /\ torn = {}
    /\ halted = FALSE

Users(s) == {p \in PIDs : Lock[p] = s /\ op[p] # "searching"}
Freeing(s) == \E p \in PIDs : Lock[p] = s /\ op[p] = "unmarking"
Waiters(s) == {p \in PIDs : Lock[p] = s /\ op[p] \in {"waiting", "again"}}

\* The running task is in its own code, and is not sched.
Running == CURRENT_Process \in PIDs \ {PID_SCHED} /\ At("run")
Enter(step, s) ==
    /\ op' = [op EXCEPT ![CURRENT_Process] = step]
    /\ Lock' = [Lock EXCEPT ![CURRENT_Process] = s]

-----------------------------------------------------------------------------
(* Alloc_Semaphore looks at one semaphore after the other.  (The counters  *)
(* of the slab manager are compared as arrays, which are never the same,   *)
(* and are not read otherwise.)                                            *)
Tear(s, condition) == torn' = IF condition THEN torn \cup {s} ELSE torn
Alloc_Semaphore(s) ==
    /\ Running
    /\ \/ op[CURRENT_Process] = "none" /\ s = 0
       \/ op[CURRENT_Process] = "searching" /\ Lock[CURRENT_Process] = s
    /\ \/ ~IsAlloced[s] /\ Enter("filling", s)
       \/ IsAlloced[s] /\ s + 1 \in Semaphores /\ Enter("searching", s + 1)
       \/ IsAlloced[s] /\ s + 1 \notin Semaphores /\ Enter("none", NoSemaphore)
    /\ Tear(s, ~IsAlloced[s] /\ Users(s) # {})
    /\ UNCHANGED <<vars, poolVars, Count, holders, lost, halted>>

(* ... and takes the first that it finds free, whoever has taken it since. *)
Alloc_Fill(s, n) ==
    /\ Running /\ op[CURRENT_Process] = "filling" /\ Lock[CURRENT_Process] = s
    /\ MaxCount' = [MaxCount EXCEPT ![s] = n]
    /\ Count' = [Count EXCEPT ![s] = n]
    /\ lost' = [lost EXCEPT ![s] = 0]
    /\ Enter("marking", s)
    /\ UNCHANGED <<vars, IsAlloced, holders, torn, halted>>
Alloc_Mark(s) ==
    /\ Running /\ op[CURRENT_Process] = "marking" /\ Lock[CURRENT_Process] = s
    /\ IsAlloced' = [IsAlloced EXCEPT ![s] = TRUE]
    /\ Enter("none", NoSemaphore)
    /\ UNCHANGED <<vars, MaxCount, Count, holders, lost, torn, halted>>

(* Free_Semaphore, assignment by assignment.                               *)
Free_Semaphore(s) ==
    /\ Running /\ op[CURRENT_Process] = "none"
    /\ IsAlloced[s]
    /\ Count' = [Count EXCEPT ![s] = 0]
    /\ Enter("unmarking", s)
    /\ Tear(s, Users(s) \cup holders[s] # {})
    /\ UNCHANGED <<vars, poolVars, holders, lost, halted>>
Free_Unmark(s) ==
    /\ Running /\ op[CURRENT_Process] = "unmarking" /\ Lock[CURRENT_Process] = s
    /\ IsAlloced' = [IsAlloced EXCEPT ![s] = FALSE]
    /\ Enter("emptying", s)
    /\ UNCHANGED <<vars, MaxCount, Count, holders, lost, torn, halted>>
Free_Empty(s) ==
    /\ Running /\ op[CURRENT_Process] = "emptying" /\ Lock[CURRENT_Process] = s
    /\ MaxCount' = [MaxCount EXCEPT ![s] = 0]
    /\ Enter("none", NoSemaphore)
    /\ UNCHANGED <<vars, IsAlloced, Count, holders, lost, torn, halted>>

-----------------------------------------------------------------------------
(* acquire, between its cli and its sti.  The caller is not in a call, or  *)
(* calls again because acquire returned false.                             *)
Acquiring_Slip(s) ==
    /\ Running
    /\ Count[s] >= -DebtBound
    /\ \/ op[CURRENT_Process] = "none" /\ IsAlloced[s] /\ CURRENT_Process \notin holders[s]
       \/ op[CURRENT_Process] = "again" /\ Lock[CURRENT_Process] = s
    /\ Count' = [Count EXCEPT ![s] = IF @ > 0 THEN @ - 1 ELSE @]
    /\ Tear(s, Freeing(s))
Acquiring(s) ==
    /\ Running
    /\ Count[s] >= -DebtBound
    /\ \/ op[CURRENT_Process] = "none" /\ IsAlloced[s] /\ CURRENT_Process \notin holders[s]
       \/ op[CURRENT_Process] = "again" /\ Lock[CURRENT_Process] = s
    /\ Count' = [Count EXCEPT ![s] = @ - 1]
    /\ Tear(s, Freeing(s))

acquire_Success_Slip(s) ==
    /\ Acquiring(s)
    /\ Count[s] >= 0
    /\ holders' = [holders EXCEPT ![s] = @ \cup {CURRENT_Process}]
    /\ Enter("none", NoSemaphore)
    /\ UNCHANGED <<vars, poolVars, lost, halted>>
acquire_Success(s) ==
    /\ Acquiring(s)
    /\ Count[s] - 1 >= 0
    /\ holders' = [holders EXCEPT ![s] = @ \cup {CURRENT_Process}]
    /\ Enter("none", NoSemaphore)
    /\ UNCHANGED <<vars, poolVars, lost, halted>>

(* Bound: nobody waits before sched has given out the processor once; up   *)
(* to then the shell is the only other task.                               *)
acquire_Wait_Slip(s) ==
    /\ Booted
    /\ Acquiring(s)
    /\ Count[s] - 1 < 0
    /\ PFlag' = [PFlag EXCEPT ![CURRENT_Process] = "WAITING"]
    /\ Enter("waiting", s)
    /\ UNCHANGED <<PCB_Is_Alloced, Priority, ParentPID, Is_Thread, Childs, Use_FPU, at, target,
                   RFLAGS, queueVars, UseCount, cpuVars, schedVars,
                   poolVars, holders, lost, halted>>
acquire_Wait(s) ==
    /\ Booted
    /\ Acquiring(s)
    /\ Count[s] - 1 < 0
    /\ Wait_Queue' = Add_Task_in_Tail(Wait_Queue, CURRENT_Process, UseCount)
    /\ PFlag' = [PFlag EXCEPT ![CURRENT_Process] = "WAITING"]
    /\ Enter("waiting", s)
    /\ UNCHANGED <<PCB_Is_Alloced, Priority, ParentPID, Is_Thread, Childs, Use_FPU, at, target,
                   RFLAGS, ReadyQueue, TerminateQueue, UseCount, cpuVars, schedVars,
                   poolVars, holders, lost, halted>>

(* After the sti the waiting task gives out the processor, unless the      *)
(* timer has taken it already; when it returns, acquire returns false.     *)
acquire_GiveOut ==
    /\ Running
    /\ op[CURRENT_Process] = "waiting"
    /\ Goto("yield")
    /\ op' = [op EXCEPT ![CURRENT_Process] = "again"]
    /\ UNCHANGED <<pcbVars, target, RFLAGS, queueVars, UseCount, cpuVars, schedVars,
                   poolVars, Count, Lock, holders, lost, torn, halted>>

-----------------------------------------------------------------------------
(* release: Count is compared with MaxCount before the cli.                *)
release_Check(s) ==
    /\ Running /\ op[CURRENT_Process] = "none"
    /\ CURRENT_Process \in holders[s]
    /\ IF Count[s] >= MaxCount[s]
       THEN /\ holders' = [holders EXCEPT ![s] = @ \ {CURRENT_Process}]
            /\ lost' = [lost EXCEPT ![s] = @ + 1]
            /\ UNCHANGED <<op, Lock>>
       ELSE Enter("releasing", s) /\ UNCHANGED <<holders, lost>>
    /\ UNCHANGED <<vars, poolVars, Count, torn, halted>>

\* ... and what follows the cli.
Released(s) ==
    /\ Running /\ op[CURRENT_Process] = "releasing" /\ Lock[CURRENT_Process] = s
    /\ Count' = [Count EXCEPT ![s] = @ + 1]
    /\ holders' = [holders EXCEPT ![s] = @ \ {CURRENT_Process}]
    /\ Enter("none", NoSemaphore)

release_Count(s) ==
    /\ Released(s)
    /\ Count[s] + 1 > 0
    /\ UNCHANGED <<vars, poolVars, lost, torn, halted>>

release_Wake(s) ==
    /\ Released(s)
    /\ Count[s] + 1 <= 0
    /\ Wait_Queue' = IF Wait_Queue = <<>> THEN <<>> ELSE Remove_Task_At(1, Wait_Queue)
    /\ halted' = TRUE
    /\ UNCHANGED <<pcbVars, at, target, RFLAGS, ReadyQueue, TerminateQueue, UseCount, cpuVars,
                   schedVars, poolVars, lost, torn>>

-----------------------------------------------------------------------------
(* The task manager goes on meanwhile; a task in acquire or release makes  *)
(* no other kernel call.  What a task held or waited for is not given back *)
(* when its PCB is freed, and a semaphore it was freeing stays half free.  *)
TaskCall == Yield \/ Create_Process_Check \/ Terminate_Process_Self
                \/ \E p \in PIDs : Terminate_Process_Check(p)
Freed == {p \in PIDs : PCB_Is_Alloced[p] /\ ~PCB_Is_Alloced'[p]}
TaskStep ==
    /\ \/ Tick
       \/ KernelStep
       \/ Running /\ op[CURRENT_Process] = "none" /\ TaskCall
    /\ op' = [p \in PIDs |-> IF p \in Freed THEN "none" ELSE op[p]]
    /\ Lock' = [p \in PIDs |-> IF p \in Freed THEN NoSemaphore ELSE Lock[p]]
    /\ holders' = [s \in Semaphores |-> holders[s] \ Freed]
    /\ lost' = [s \in Semaphores |-> lost[s] + Cardinality(Freed \cap (holders[s] \cup Waiters(s)))]
    /\ torn' = torn \cup {Lock[p] : p \in {q \in Freed : op[q] = "unmarking"}}
    /\ UNCHANGED <<poolVars, Count, halted>>

SemaphoreStep(s) ==
    \/ Alloc_Semaphore(s) \/ Alloc_Mark(s) \/ \E n \in Permits : Alloc_Fill(s, n)
    \/ Free_Semaphore(s) \/ Free_Unmark(s) \/ Free_Empty(s)
    \/ acquire_Success(s) \/ acquire_Wait(s)
    \/ release_Check(s) \/ release_Count(s) \/ release_Wake(s)

SemaphoreNext ==
    /\ ~halted
    /\ \/ TaskStep
       \/ acquire_GiveOut
       \/ \E s \in Semaphores : SemaphoreStep(s)

SemaphoreSpec == SemaphoreInit /\ [][SemaphoreNext]_allVars

-----------------------------------------------------------------------------
(* A semaphore that was not given to two tasks at once, nor freed in use,  *)
(* has at most as many holders as permits, whatever the order of acquires  *)
(* and releases, preemptions between the comparison and the cli of         *)
(* release, and deaths of holders and waiters.                             *)
AtMostMaxCount == \A s \in Semaphores \ torn : Cardinality(holders[s]) <= MaxCount[s]

(* Its Count accounts for every permit: it is what is left after the       *)
(* holders, the waiters and the tasks that died holding or waiting.  So    *)
(* release never finds the semaphore full and never swallows a permit.     *)
CountAccounts ==
    \A s \in Semaphores \ torn : IsAlloced[s] /\ ~Freeing(s) =>
        Count[s] = MaxCount[s] - Cardinality(holders[s]) - Cardinality(Waiters(s)) - lost[s]

(* While the machine runs, the wait queue holds exactly the live tasks that *)
(* are in acquire and have found no permit, also when the timer takes the  *)
(* processor between the sti of acquire and its GiveOut_Processor, and     *)
(* when a waiting task is terminated.  A task left out would never be      *)
(* woken or would be linked into another queue through the same pointers.  *)
WaitersQueued ==
    ~halted =>
        /\ NoTaskLost
        /\ LinkedOnce
        /\ \A p \in PIDs : Holds(Wait_Queue, p) <=>
              op[p] \in {"waiting", "again"} /\ PFlag[p] # "TERMINATED"
=============================================================================
