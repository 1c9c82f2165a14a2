------------------------------ MODULE TaskQueue ------------------------------
(***************************************************************************)
(* The doubly linked lists of PCBs in Scheduler.c, link by link.  There    *)
(* are two of a kind: the ready, wait and terminate queues, linked by      *)
(* p_Next and p_Prev, and the lists of children, linked by child_Next and  *)
(* child_Prev.  They differ in one assignment of Add_..._in_Tail, so one   *)
(* module models both, and ChildList says which of them a behaviour is     *)
(* about.  Operations run with interrupts disabled, each in one step.  The *)
(* refusal of both Add functions at the limit of the pool counter changes  *)
(* no list; the module Scheduler has it.                                   *)
(***************************************************************************)
EXTENDS Integers, Sequences

CONSTANTS
    PCBs,            \* the PCBs of g_TaskPool
    QueueIds,        \* the queues that share the links
    NULL,            \* the null pointer
    InsertsInMiddle  \* is Insert_Task_At called with positions in the middle?

ASSUME NullAssumption == NULL \notin PCBs
ASSUME InsertAssumption == InsertsInMiddle \in BOOLEAN

VARIABLES
    p_Next, p_Prev,              \* the links of a PCB
    p_Head, p_Tail, Task_Count,  \* the fields of a queue
    ChildList                    \* is this a list of children?

links == <<p_Next, p_Prev>>
heads == <<p_Head, p_Tail, Task_Count>>
vars == <<links, heads, ChildList>>

-----------------------------------------------------------------------------
(* A definition named ..._Slip is a plausible slip of the definition after *)
(* it: with it in place of the other some property below fails, which is   *)
(* how the properties are tested.  Nothing else uses these definitions.    *)

\* The element reached from first over n links, as the loops that search by PID
\* walk it.
Steps(first, link) ==
    LET walk[n \in Nat] == IF n = 0 THEN first
                           ELSE IF walk[n - 1] = NULL THEN NULL ELSE link[walk[n - 1]]
    IN  walk

Walk(q) == Steps(p_Head[q], p_Next)
WalkBack(q) == Steps(p_Tail[q], p_Prev)

Contents(q) == [k \in 1 .. Task_Count[q] |-> Walk(q)[k - 1]]

\* Get_Task_At: forwards to a position in the rear half, backwards to one in
\* the front half.
Get_Task_At(Index, q) ==
    IF Index < 0 \/ Index >= Task_Count[q] THEN NULL
    ELSE IF Task_Count[q] \div 2 < Index THEN Walk(q)[Index]
         ELSE WalkBack(q)[Task_Count[q] - 1 - Index]

\* A PCB may be added to a queue only if it is in none.
Linked(p) == \E q \in QueueIds : \E k \in 1 .. Task_Count[q] : Contents(q)[k] = p

-----------------------------------------------------------------------------
Init ==
    /\ p_Next = [p \in PCBs |-> NULL]
    /\ p_Prev = [p \in PCBs |-> NULL]
    /\ p_Head = [q \in QueueIds |-> NULL]
    /\ p_Tail = [q \in QueueIds |-> NULL]
    /\ Task_Count = [q \in QueueIds |-> 0]
    /\ ChildList \in BOOLEAN

\* The first element of an empty queue: its links keep their old values.
AddFirst(p, q) ==
    /\ Task_Count[q] = 0
    /\ p_Head' = [p_Head EXCEPT ![q] = p]
    /\ p_Tail' = [p_Tail EXCEPT ![q] = p]
    /\ Task_Count' = [Task_Count EXCEPT ![q] = 1]
    /\ UNCHANGED links

Add_Task_in_Head(p, q) ==
    \/ AddFirst(p, q)
    \/ /\ Task_Count[q] > 0
       /\ p_Next' = [p_Next EXCEPT ![p] = p_Head[q]]
       /\ p_Prev' = [p_Prev EXCEPT ![p] = NULL, ![p_Head[q]] = p]
       /\ p_Head' = [p_Head EXCEPT ![q] = p]
       /\ Task_Count' = [Task_Count EXCEPT ![q] = @ + 1]
       /\ UNCHANGED p_Tail

Add_Task_in_Tail_Slip(p, q) ==
    \/ AddFirst(p, q)
    \/ /\ Task_Count[q] > 0
       /\ p_Next' = [p_Next EXCEPT ![p] = NULL]
       /\ p_Prev' = [p_Prev EXCEPT ![p] = p_Tail[q]]
       /\ p_Tail' = [p_Tail EXCEPT ![q] = p]
       /\ Task_Count' = [Task_Count EXCEPT ![q] = @ + 1]
       /\ UNCHANGED p_Head

\* Add_Child_in_Tail clears p_Next where it could be expected to clear
\* child_Next, so in a list of children the new element keeps its own.
Add_Task_in_Tail(p, q) ==
    \/ AddFirst(p, q)
    \/ /\ Task_Count[q] > 0
       /\ p_Next' = IF ChildList THEN [p_Next EXCEPT ![p_Tail[q]] = p]
                                 ELSE [p_Next EXCEPT ![p] = NULL, ![p_Tail[q]] = p]
       /\ p_Prev' = [p_Prev EXCEPT ![p] = p_Tail[q]]
       /\ p_Tail' = [p_Tail EXCEPT ![q] = p]
       /\ Task_Count' = [Task_Count EXCEPT ![q] = @ + 1]
       /\ UNCHANGED p_Head

\* At the last position the new element goes behind the last one.  In the middle
\* the element it is put before loses its link to the rest of the queue.
InsertInMiddle(p, Index, q) ==
    LET task == Get_Task_At(Index, q)
    IN  /\ p_Next' = [p_Next EXCEPT ![p] = task, ![p_Prev[task]] = p, ![task] = NULL]
        /\ p_Prev' = [p_Prev EXCEPT ![p] = p_Prev[task], ![task] = p]
        /\ Task_Count' = [Task_Count EXCEPT ![q] = @ + 1]
        /\ UNCHANGED <<p_Head, p_Tail>>

\* Nothing in the kernel calls Insert_Task_At, and lists of children have no
\* such operation.
Insert_Task_At(p, Index, q) ==
    /\ ~ChildList
    /\ Index < Task_Count[q]
    /\ IF Index = 0 THEN Add_Task_in_Head(p, q)
       ELSE IF Index = Task_Count[q] - 1 THEN Add_Task_in_Tail(p, q)
       ELSE InsertsInMiddle /\ InsertInMiddle(p, Index, q)

-----------------------------------------------------------------------------
(* Remove_Task_At, one action for each of its four cases.                  *)

Shorter(q) == Task_Count' = [Task_Count EXCEPT ![q] = @ - 1]

RemoveOnly(Index, q) ==
    /\ Index < Task_Count[q]
    /\ Task_Count[q] = 1
    /\ p_Head' = [p_Head EXCEPT ![q] = NULL]
    /\ p_Tail' = [p_Tail EXCEPT ![q] = NULL]
    /\ Shorter(q)
    /\ UNCHANGED links

RemoveHead(Index, q) ==
    LET task == p_Head[q]
    IN  /\ Index = 0
        /\ Task_Count[q] > 1
        /\ p_Prev' = [p_Prev EXCEPT ![p_Next[task]] = NULL]
        /\ p_Head' = [p_Head EXCEPT ![q] = p_Next[task]]
        /\ p_Next' = [p_Next EXCEPT ![task] = NULL]
        /\ Shorter(q)
        /\ UNCHANGED p_Tail

RemoveTail(Index, q) ==
    LET task == p_Tail[q]
    IN  /\ Index > 0
        /\ Index = Task_Count[q] - 1
        /\ p_Next' = [p_Next EXCEPT ![p_Prev[task]] = NULL]
        /\ p_Tail' = [p_Tail EXCEPT ![q] = p_Prev[task]]
        /\ p_Prev' = [p_Prev EXCEPT ![task] = NULL]
        /\ Shorter(q)
        /\ UNCHANGED p_Head

RemoveMiddle_Slip(Index, q) ==
    LET task == Get_Task_At(Index, q)
    IN  /\ Index > 0
        /\ Index < Task_Count[q] - 1
        /\ p_Next' = [p_Next EXCEPT ![p_Prev[task]] = p_Next[task], ![task] = NULL]
        /\ Shorter(q)
        /\ UNCHANGED <<p_Prev, p_Head, p_Tail>>

RemoveMiddle(Index, q) ==
    LET task == Get_Task_At(Index, q)
    IN  /\ Index > 0
        /\ Index < Task_Count[q] - 1
        /\ p_Prev' = [p_Prev EXCEPT ![p_Next[task]] = p_Prev[task]]
        /\ p_Next' = [p_Next EXCEPT ![p_Prev[task]] = p_Next[task], ![task] = NULL]
        /\ Shorter(q)
        /\ UNCHANGED <<p_Head, p_Tail>>

\* Only a valid position changes anything.
Remove_Task_At(Index, q) ==
    RemoveOnly(Index, q) \/ RemoveHead(Index, q) \/ RemoveTail(Index, q) \/ RemoveMiddle(Index, q)

\* Free_PCB clears the links of a PCB that is in no queue.
Free_PCB(p) ==
    /\ p_Next' = [p_Next EXCEPT ![p] = NULL]
    /\ p_Prev' = [p_Prev EXCEPT ![p] = NULL]
    /\ UNCHANGED heads

-----------------------------------------------------------------------------
Add(p, q) ==
    \/ Add_Task_in_Tail(p, q)
    \/ Add_Task_in_Head(p, q)
    \/ \E Index \in 0 .. Task_Count[q] - 1 : Insert_Task_At(p, Index, q)

Next ==
    /\ \/ \E p \in PCBs : ~Linked(p) /\ (Free_PCB(p) \/ \E q \in QueueIds : Add(p, q))
       \/ \E q \in QueueIds : \E Index \in 0 .. Task_Count[q] - 1 : Remove_Task_At(Index, q)
    /\ UNCHANGED ChildList

Spec == Init /\ [][Next]_vars

-----------------------------------------------------------------------------
(* Get_Task_At walks from either end; whichever it takes it returns the    *)
(* element at that position, so the two chains of links agree although the *)
(* operations leave old values in links that nothing should follow.        *)
GetReturnsElement ==
    \A q \in QueueIds : \A Index \in 0 .. Task_Count[q] - 1 :
        /\ Get_Task_At(Index, q) = Contents(q)[Index + 1]
        /\ Walk(q)[Index] = WalkBack(q)[Task_Count[q] - 1 - Index]
        /\ Walk(q)[Index] \in PCBs

(* The linked lists are queues: what a walk from the head finds changes by *)
(* one element put at an end or taken out, in one queue at a time.         *)
Abstract == INSTANCE Queues WITH
                Elements <- PCBs, contents <- [q \in QueueIds |-> Contents(q)]
ImplementsQueues == Abstract!Spec
=============================================================================
